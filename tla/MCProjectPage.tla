---------------------------- MODULE MCProjectPage ----------------------------
(* ProjectPage, and with it OperationStore, on small instances. *)
EXTENDS ProjectPage, TLC

\* Operations are interchangeable in every safety property.
MCSymmetry == Permutations(Operations)

=============================================================================
