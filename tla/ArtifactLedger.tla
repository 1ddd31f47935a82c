---------------------------- MODULE ArtifactLedger ----------------------------
(***************************************************************************)
(* What the artifact store promises to every service that derives a status *)
(* from it: a ledger of named artifacts that only grows.  An artifact is   *)
(* published at most once under its name and is never changed or removed,  *)
(* so a digest pinned to a name stays valid, and a status derived from a   *)
(* set of artifacts can only change when an artifact is published.         *)
(***************************************************************************)
VARIABLE ledger     \* the set of published artifacts, records with a key

Init == ledger = {}

\* One artifact appears, under a name no artifact has.
Publish ==
  \E artifact \in ledger' \ ledger :
    /\ ledger' = ledger \cup {artifact}
    /\ \A other \in ledger : other.key # artifact.key

Spec == Init /\ [][Publish]_ledger
=============================================================================
