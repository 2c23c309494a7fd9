--------------------------- MODULE MCHookMetadata ---------------------------
(* A small instance of HookMetadata. *)
EXTENDS HookMetadata, TLC

CONSTANTS h1, h2, r1

TwoHooks == {h1, h2}
OneHook == {h1}
OneRequest == {r1}
Overlap == Permutations(TwoHooks)
=============================================================================
