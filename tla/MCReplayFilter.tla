--------------------------- MODULE MCReplayFilter ---------------------------
(***************************************************************************)
(* Model checking ReplayFilter: tokens and handlers are interchangeable.   *)
(***************************************************************************)
EXTENDS ReplayFilter, TLC

Symmetry == Permutations(Token) \cup Permutations(Handler)

=============================================================================
