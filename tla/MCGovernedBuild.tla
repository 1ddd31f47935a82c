---------------------------- MODULE MCGovernedBuild ----------------------------
(* GovernedBuild, and what is read from its records, on small instances. *)
EXTENDS BuildView, TLC

CONSTANTS s1, s2, f1, f2, f12

\* The second slice depends on the first.
MCDependsOn == (s1 :> {}) @@ (s2 :> {s1})
\* A test file for each slice and one for both.
MCCovers == (f1 :> {s1}) @@ (f2 :> {s2}) @@ (f12 :> {s1, s2})

\* Runners are interchangeable.
MCSymmetry == Permutations(Runners)

=============================================================================
