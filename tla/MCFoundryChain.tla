--------------------------- MODULE MCFoundryChain ---------------------------
(* FoundryChain, and what the pages show of it, on small instances. *)
EXTENDS ChainView, TLC

\* Runners are interchangeable.
MCSymmetry == Permutations(Runners)

=============================================================================
