--------------------------- MODULE MCBuilderChannel ---------------------------
(* BuilderChannel, and with it Evolution, on small instances. *)
EXTENDS BuilderChannel, TLC

\* Ids, paths, texts and contents are interchangeable.
MCSymmetry ==
  Permutations(Criteria) \cup Permutations(Texts) \cup Permutations(Slices)
    \cup Permutations(Paths)

=============================================================================
