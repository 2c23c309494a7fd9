-------------------------- MODULE MCCanvasPreview --------------------------
(* Two sessions, each with an application of its own, whose pages differ;  *)
(* the browser has kept a URL of both, of one of them, or of neither.      *)
EXTENDS CanvasPreview, TLC

CONSTANTS a, b, u1, u2, u3

TwoSites == (a :> {u1}) @@ (b :> {u2, u3})
Starts == {(a :> u1) @@ (b :> u2), (a :> u1) @@ (b :> NoUrl)}
NothingStored == {[t \in Targets |-> NoUrl]}
=============================================================================
