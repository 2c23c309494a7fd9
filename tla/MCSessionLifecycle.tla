-------------------------- MODULE MCSessionLifecycle --------------------------
(* Instances of SessionLifecycle for TLC.                                  *)
EXTENDS SessionLifecycle, TLC

CONSTANTS server, cli, t1, t2, p1, s1, s2

\* Two calls in one process, or one in the server and one in a CLI process.
SameProcess == [t \in Threads |-> server]
ServerAndCli == [t \in Threads |-> IF t = t1 THEN server ELSE cli]

IdSymmetry == Permutations(Ids)

\* Two threads of one process are interchangeable.
ThreadSymmetry == Permutations(Threads)
=============================================================================
