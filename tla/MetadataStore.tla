---------------------------- MODULE MetadataStore ----------------------------
(***************************************************************************)
(* What the store promises the writers of one session's metadata: an       *)
(* update is merged as a whole into the row of that moment, or not at all; *)
(* no other field changes with it, and a deleted row stays deleted.        *)
(***************************************************************************)
CONSTANTS Writers, Keys

VARIABLES
    row,     \* the metadata: a function on Keys, Nothing once deleted
    pending  \* writer -> the fields it wants merged, or Nothing

vars == <<row, pending>>

Nothing == [k \in {} |-> 0]

Merged(fields, r) ==
    [k \in Keys |-> IF k \in DOMAIN fields THEN fields[k] ELSE r[k]]

Init == row # Nothing /\ pending = [w \in Writers |-> Nothing]

Ask(w) ==
    /\ pending[w] = Nothing
    /\ pending' = [pending EXCEPT ![w] = pending'[w]]
    /\ UNCHANGED row

Apply(w) ==
    /\ pending[w] # Nothing
    /\ row # Nothing
    /\ row' = Merged(pending[w], row)
    /\ pending' = [pending EXCEPT ![w] = Nothing]

\* The row is gone, the transaction was refused, or the writer died (several
\* die together when their agent is killed).
GiveUp(S) ==
    /\ pending' = [w \in Writers |-> IF w \in S THEN Nothing ELSE pending[w]]
    /\ UNCHANGED row

Delete == row' = Nothing /\ UNCHANGED pending

Next ==
    \/ \E w \in Writers : Ask(w) \/ Apply(w)
    \/ \E S \in SUBSET Writers : GiveUp(S)
    \/ Delete

Spec == Init /\ [][Next]_vars
=============================================================================
