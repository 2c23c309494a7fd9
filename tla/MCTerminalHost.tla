--------------------------- MODULE MCTerminalHost ---------------------------
(* An instance of TerminalHost: one viewer, two of whose chunks fit into   *)
(* its channel.  The proofs are about any number of viewers.               *)
EXTENDS TerminalHost

CONSTANTS v1, small, Nobody

OneViewer == {v1}
OneSize == {small}
=============================================================================
