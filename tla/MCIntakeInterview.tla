-------------------------- MODULE MCIntakeInterview --------------------------
(***************************************************************************)
(* Instances of IntakeInterview for TLC.  Sessions, criteria and questions *)
(* are interchangeable in every safety property, so they are symmetric in  *)
(* the runs without a liveness property.                                   *)
(***************************************************************************)
EXTENDS IntakeInterview, TLC

Symmetry ==
  Permutations(Sessions) \cup Permutations(Criteria) \cup Permutations(Questions)
=============================================================================
