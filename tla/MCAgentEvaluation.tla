------------------------- MODULE MCAgentEvaluation -------------------------
EXTENDS AgentEvaluation

\* One or two repetitions, a pool smaller than, as large as and larger than the
\* plan, all kinds of threshold, cases with and without an expected answer.
MCRequests ==
  [repetitions : {1}, concurrency : {1, 2, 3}, threshold : {NoThreshold, 100},
   graded : {{}, {1}, {1, 2}}]
  \cup
  [repetitions : {2}, concurrency : {1, 2}, threshold : {0, 50, 100}, graded : {{1}}]
=============================================================================
