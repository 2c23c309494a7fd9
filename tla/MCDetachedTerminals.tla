------------------------ MODULE MCDetachedTerminals ------------------------
(* Three sessions, two of which get one window name (`my.app:1' and        *)
(* `my_app:1' do), and MaxOpens clicks: enough for two requests that       *)
(* overlap, of one session or of two, and for a popup found by its name.   *)
EXTENDS DetachedTerminals

CONSTANTS agent, twin, shell

SharedName == [s \in Sessions |-> IF s = twin THEN agent ELSE s]
=============================================================================
