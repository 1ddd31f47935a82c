--------------------------- MODULE MCPromotionLoop ---------------------------
EXTENDS AgentHandoff

CONSTANTS p1, r1, r2

\* Two fields of two values, of which one combination is refused by the schema;
\* one field may be changed by proposals.  A patch of the other, and one that
\* changes nothing, are among the answers.
MCPolicies == {[rules |-> r, limit |-> l] : r \in {"a", "b"}, l \in {1, 2}}
              \ {[rules |-> "b", limit |-> 2]}
MCPatches  == {[rules |-> "a"], [rules |-> "b"], [limit |-> 2]}
MCMutable  == {"rules"}

MCFirstPolicy == [rules |-> "a", limit |-> 1]

\* Three runs of a case of each purpose; two must pass.
MCCases == {"dev", "reg", "prot"}
MCOutcomes ==
  {[dev |-> 0, reg |-> 3, prot |-> 0], [dev |-> 0, reg |-> 0, prot |-> 3],
   [dev |-> 3, reg |-> 3, prot |-> 3], [dev |-> 3, reg |-> 3, prot |-> 2]}

MCMeasurements ==
  {[comparable |-> TRUE,  latency |-> "within", cost |-> "beyond"],
   [comparable |-> FALSE, latency |-> "beyond", cost |-> "within"]}

\* A recommendation for the tool builder beside one that is not for it.
MCAdvices == {<<"tool-capability", "policy">>}

MCAtFirst == <<[id |-> "team", root |-> "a"]>>

Symmetry == Permutations(Requests)
=============================================================================
