---------------------------- MODULE AgentEvaluation ----------------------------
(***************************************************************************)
(* One verification of an agent: its datasets are run one after the other; *)
(* the cases of a dataset, each repeated, make a plan, and a pool of       *)
(* workers shares the plan.  The results of the plan are summarised case   *)
(* by case, judged against the threshold of the manifest, and saved; when  *)
(* every dataset is saved the experiment that refers to them is saved.     *)
(*                                                                         *)
(* A worker is an asynchronous function: it runs from one await to the     *)
(* next without being interrupted, so recording a result and taking the    *)
(* next entry is one step, and answers arrive in any order.  What an agent *)
(* answers is arbitrary.  An agent run does not reject: whatever happens   *)
(* inside it is caught and becomes a failed run.                           *)
(***************************************************************************)
EXTENDS Integers, Sequences, FiniteSets

CONSTANTS
  NumDatasets,  \* datasets of the manifest
  NumCases,     \* cases of a dataset
  Requests      \* the requests and manifests considered, a set of
                \*   [repetitions, concurrency, threshold, graded]

NoThreshold == -1

ASSUME SizesAssumption ==
  /\ NumDatasets \in Nat \ {0}
  /\ NumCases \in Nat \ {0}

\* parseExecutionOptions; the threshold is a percentage or absent; graded: the
\* cases that state an expected answer.
ASSUME RequestsAssumption ==
  \A r \in Requests : /\ r.repetitions \in Nat \ {0}
                      /\ r.concurrency \in Nat \ {0}
                      /\ r.threshold \in 0..100 \cup {NoThreshold}
                      /\ r.graded \subseteq 1..NumCases

VARIABLES
  request,     \* what is being verified
  phase,       \* where the verification is
  dataset,     \* the dataset being run
  next,        \* the entry of the plan that is handed out next
  at,          \* at[w]: the entry worker w is running, 0 when it has ended
  results,     \* results[i]: the evidence recorded for entry i
  runs,        \* the dataset runs on disk, runs[d] that of dataset d
  experiment,  \* the experiment on disk
  answers      \* history: answers[d][c][o]: how often case c came out as o

vars == <<request, phase, dataset, next, at, results, runs, experiment, answers>>

-----------------------------------------------------------------------------
Phases   == {"between", "running", "done", "failed", "crashed"}
\* What is left of a run: it failed at some stage, or it succeeded, with an
\* output that the assessment of the case accepts or not.
Outcomes == {"failed", "wrong", "right"}
Cases    == 1..NumCases
Datasets == 1..NumDatasets

\* Every case is repeated before the next one.
PlanLength == NumCases * request.repetitions
Plan(i)    == (i - 1) \div request.repetitions + 1

Nothing     == [case |-> 0, outcome |-> "none"]
Evidence    == [case : Cases, outcome : Outcomes]
WorkerCount == IF request.concurrency < PlanLength THEN request.concurrency
                                                   ELSE PlanLength
Workers     == 1..WorkerCount

\* A case without an expected answer only has to run.
Passes(case, outcome) == IF case \in request.graded THEN outcome = "right"
                                                    ELSE outcome # "failed"

\* A dataset run on disk: its evidence in the order of the plan, and how many
\* runs of each case there are and passed.
Tally(S) == [total  |-> Cardinality(S),
             passed |-> Cardinality({i \in S : Passes(results[i].case, results[i].outcome)})]
Summaries == [c \in Cases |-> Tally({i \in 1..PlanLength : results[i].case = c})]

Reaches(summary) == summary.passed * 100 >= request.threshold * summary.total

FailedCases(summaries) ==
  IF request.threshold = NoThreshold THEN {}
  ELSE {c \in Cases : ~Reaches(summaries[c])}

\* Without a threshold a dataset never passes and no case is reported failed.
Verification(summaries) ==
  [passed |-> request.threshold # NoThreshold /\ FailedCases(summaries) = {},
   failedCases |-> FailedCases(summaries)]

NoExperiment == [datasets |-> <<>>, passed |-> FALSE]

-----------------------------------------------------------------------------
Init ==
  /\ request \in Requests
  /\ phase = "between"
  /\ dataset = 0
  /\ next = 1
  /\ at = [w \in Workers |-> 0]
  /\ results = [i \in 1..PlanLength |-> Nothing]
  /\ runs = <<>>
  /\ experiment = NoExperiment
  /\ answers = [d \in Datasets |-> [c \in Cases |-> [o \in Outcomes |-> 0]]]

\* The pool starts: each worker takes an entry before the first run is awaited.
RunDataset ==
  /\ phase = "between"
  /\ dataset < NumDatasets
  /\ phase' = "running"
  /\ dataset' = dataset + 1
  /\ next' = WorkerCount + 1
  /\ at' = [w \in Workers |-> w]
  /\ results' = [i \in 1..PlanLength |-> Nothing]
  /\ UNCHANGED <<request, runs, experiment, answers>>

HasMore == next <= PlanLength

\* The counter after an entry is taken, before its run is awaited.
Following(n) == n + 1

\* Mutation of Slot, in no specification: results are pushed as they arrive.
SlotPushed(w) == Cardinality({i \in 1..PlanLength : results[i] # Nothing}) + 1

\* Where worker w records its result.
Slot(w) == at[w]

\* The run of worker w is over: its result is recorded and the worker takes the
\* next entry or ends.
Settle(w) ==
  /\ phase = "running"
  /\ at[w] # 0
  /\ \E outcome \in Outcomes :
       /\ results' = [results EXCEPT
                        ![Slot(w)] = [case |-> Plan(at[w]), outcome |-> outcome]]
       /\ answers' = [answers EXCEPT ![dataset][Plan(at[w])][outcome] = @ + 1]
  /\ IF HasMore THEN /\ at' = [at EXCEPT ![w] = next]
                     /\ next' = Following(next)
                ELSE /\ at' = [at EXCEPT ![w] = 0]
                     /\ UNCHANGED next
  /\ UNCHANGED <<request, phase, dataset, runs, experiment>>

\* Mutation of AfterFailedSave, in no specification: the error is swallowed.
AfterSwallowedError == "between"

AfterFailedSave == "failed"

\* Every worker has ended: the run is summarised, judged and saved.  An error of
\* the save ends the verification.
SaveDataset ==
  /\ phase = "running"
  /\ \A w \in Workers : at[w] = 0
  /\ \/ /\ runs' = Append(runs, [evidence |-> results, summaries |-> Summaries,
                                 verification |-> Verification(Summaries)])
        /\ phase' = "between"
     \/ /\ phase' = AfterFailedSave
        /\ UNCHANGED runs
  /\ UNCHANGED <<request, dataset, next, at, results, experiment, answers>>

\* Mutation of Judged, in no specification: one passing dataset is enough.
JudgedSome == [datasets |-> [d \in DOMAIN runs |-> runs[d].verification],
               passed |-> \E d \in DOMAIN runs : runs[d].verification.passed]

\* createAgentEvaluationExperiment over the evidence there is; dataset d is
\* referred to by its place in runs.
Judged == [datasets |-> [d \in DOMAIN runs |-> runs[d].verification],
           passed |-> \A d \in DOMAIN runs : runs[d].verification.passed]

SaveExperiment ==
  /\ phase = "between"
  /\ dataset = NumDatasets
  /\ \/ /\ experiment' = Judged
        /\ phase' = "done"
     \/ /\ phase' = "failed"
        /\ UNCHANGED experiment
  /\ UNCHANGED <<request, dataset, next, at, results, runs, answers>>

\* The process dies; what is on disk stays and nothing is resumed.
Crash ==
  /\ phase \in {"between", "running"}
  /\ phase' = "crashed"
  /\ UNCHANGED <<request, dataset, next, at, results, runs, experiment, answers>>

Next ==
  \/ RunDataset
  \/ \E w \in Workers : Settle(w)
  \/ SaveDataset
  \/ SaveExperiment
  \/ Crash

Spec == Init /\ [][Next]_vars

-----------------------------------------------------------------------------
\* Verification and experiment are of their types, and the counter stays within
\* the plan.
TypeOK ==
  /\ request \in Requests
  /\ phase \in Phases
  /\ dataset \in 0..NumDatasets
  /\ next \in 1..(PlanLength + 1)
  /\ at \in [Workers -> 0..PlanLength]
  /\ results \in [1..PlanLength -> Evidence \cup {Nothing}]
  /\ Len(runs) <= NumDatasets
  /\ Len(experiment.datasets) <= NumDatasets
  /\ answers \in [Datasets -> [Cases -> [Outcomes -> 0..request.repetitions]]]

\* The workers share one counter without a lock: an entry of the plan that has
\* been handed out is with exactly one worker or has its result, an entry that
\* has not is untouched (mapWithConcurrency).
InFlight(i) == {w \in Workers : at[w] = i}
HandedOutOnce ==
  phase = "running" =>
    \A i \in 1..PlanLength :
      /\ i < next  => (InFlight(i) = {} <=> results[i] # Nothing)
      /\ i >= next => InFlight(i) = {} /\ results[i] = Nothing
      /\ \A v, w \in InFlight(i) : v = w

\* Whatever the order of the answers, the evidence is in the order of the plan,
\* and a dataset run that was saved has evidence for all of it: the comparison
\* of a candidate pairs the runs of two experiments by their index.
InPlanOrder ==
  /\ \A i \in 1..PlanLength : results[i] # Nothing => results[i].case = Plan(i)
  /\ \A d \in DOMAIN runs : \A i \in 1..PlanLength : runs[d].evidence[i].case = Plan(i)

\* Every entry of the plan is run once and recorded in its place.
EachEntryOnce == HandedOutOnce /\ InPlanOrder

\* No worker rests while entries of the plan wait.
NoIdleWorker == phase = "running" /\ next <= PlanLength => \A w \in Workers : at[w] # 0

\* An experiment passed exactly when there is a threshold and, in every dataset
\* of the manifest, every case came out right often enough (verifyAgentDataset,
\* createAgentEvaluationExperiment).
RightAnswers(d, c) == answers[d][c].right
                      + (IF c \in request.graded THEN 0 ELSE answers[d][c].wrong)
VerdictSound ==
  phase = "done" =>
    (experiment.passed <=>
       /\ request.threshold # NoThreshold
       /\ \A d \in Datasets, c \in Cases :
            RightAnswers(d, c) * 100 >= request.threshold * request.repetitions)

\* An experiment on disk refers to a dataset run on disk for every dataset of
\* the manifest, whatever save failed or process died.
EvidenceSaved ==
  experiment # NoExperiment => /\ Len(runs) = NumDatasets
                               /\ DOMAIN experiment.datasets = Datasets

===============================================================================
