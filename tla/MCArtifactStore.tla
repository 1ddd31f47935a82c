---------------------------- MODULE MCArtifactStore ----------------------------
(***************************************************************************)
(* Instances of ArtifactStore for TLC.  Names are ordered, so that only    *)
(* callers are interchangeable.                                            *)
(***************************************************************************)
EXTENDS ArtifactStore, TLC

Symmetry == Permutations(Writers) \cup Permutations(Readers)
=============================================================================
