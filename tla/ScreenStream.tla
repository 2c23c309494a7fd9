----------------------------- MODULE ScreenStream -----------------------------
(***************************************************************************)
(* What a shared terminal promises its viewers: a viewer joins at some     *)
(* point of the output, is shown everything up to there at once, and then  *)
(* sees every later chunk once and in order, for as long as it is served.  *)
(***************************************************************************)
EXTENDS Naturals

CONSTANTS Conns, Nil

VARIABLES
    produced,  \* chunks of output so far
    start,     \* viewer -> the output its first screen stood for, or Nil
    seen       \* viewer -> the last chunk it has been sent, or Nil

vars == <<produced, start, seen>>

Init ==
    /\ produced = 0
    /\ start = [c \in Conns |-> Nil]
    /\ seen = [c \in Conns |-> Nil]

Produce ==
    /\ produced' = produced + 1
    /\ UNCHANGED <<start, seen>>

Join(c) ==
    /\ start[c] = Nil
    /\ start' = [start EXCEPT ![c] = produced]
    /\ seen' = [seen EXCEPT ![c] = produced]
    /\ UNCHANGED produced

See(c) ==
    /\ start[c] # Nil
    /\ seen[c] < produced
    /\ seen' = [seen EXCEPT ![c] = @ + 1]
    /\ UNCHANGED <<produced, start>>

Next == Produce \/ \E c \in Conns : Join(c) \/ See(c)

Spec == Init /\ [][Next]_vars
=============================================================================
