------------------------ MODULE AgentEvaluationProofs ------------------------
(***************************************************************************)
(* The pool hands out every entry once and keeps the order of the plan,    *)
(* and an experiment has the evidence it refers to, for any number of      *)
(* datasets, cases, repetitions and workers.  SaveDataset only looks at    *)
(* the workers: that the plan is finished when they all are follows from   *)
(* NoIdleWorker, which makes the invariant inductive.                      *)
(***************************************************************************)
EXTENDS AgentEvaluation, FiniteSetTheorems, TLAPS

Entry == [case : Int, outcome : Outcomes \cup {"none"}]

DatasetRun == [evidence     : [1..PlanLength -> Entry],
               summaries    : [Cases -> [total : Nat, passed : Nat]],
               verification : [passed : BOOLEAN, failedCases : SUBSET Cases]]

Types ==
  /\ request \in Requests
  /\ phase \in Phases
  /\ dataset \in 0..NumDatasets
  /\ next \in 1..(PlanLength + 1)
  /\ at \in [Workers -> 0..PlanLength]
  /\ results \in [1..PlanLength -> Entry]
  /\ runs \in Seq(DatasetRun)

\* A result is nothing or an outcome of the case its entry is for.
Recorded ==
  \A i \in 1..PlanLength :
    results[i] # Nothing => /\ results[i].case = Plan(i)
                            /\ results[i].outcome \in Outcomes

SavedInOrder ==
  \A d \in DOMAIN runs : \A i \in 1..PlanLength : runs[d].evidence[i].case = Plan(i)

\* How many datasets are on disk in each phase.
OnDisk ==
  /\ phase = "between" => Len(runs) = dataset
  /\ phase = "running" => Len(runs) = dataset - 1
  /\ IF phase = "done" THEN /\ Len(runs) = NumDatasets
                            /\ DOMAIN experiment.datasets = Datasets
                       ELSE experiment = NoExperiment

Inv == /\ Types
       /\ HandedOutOnce
       /\ NoIdleWorker
       /\ Recorded
       /\ SavedInOrder
       /\ OnDisk

USE SizesAssumption, RequestsAssumption

-----------------------------------------------------------------------------
\* The plan is not empty, and there is at least one worker and none too many.
LEMMA PoolSize ==
  ASSUME request \in Requests
  PROVE  /\ PlanLength \in Nat \ {0}
         /\ WorkerCount \in 1..PlanLength
<1>1. request.repetitions \in Nat \ {0} /\ request.concurrency \in Nat \ {0}
  OBVIOUS
<1>2. \A n, r \in Nat \ {0} : n * r \in Nat \ {0}
  BY SMT
<1>3. PlanLength \in Nat \ {0}
  BY <1>1, <1>2 DEF PlanLength
<1> QED
  BY <1>1, <1>3 DEF WorkerCount

\* The summaries of a run are of their type whatever the results are.
LEMMA SummaryTypes ==
  ASSUME request \in Requests
  PROVE  /\ Summaries \in [Cases -> [total : Nat, passed : Nat]]
         /\ Verification(Summaries) \in [passed : BOOLEAN, failedCases : SUBSET Cases]
<1>1. PlanLength \in Nat
  BY PoolSize
<1>2. \A S \in SUBSET (1..PlanLength) : Cardinality(S) \in Nat
  <2>1. IsFiniteSet(1..PlanLength)
    BY <1>1, FS_Interval
  <2> QED
    BY <2>1, FS_Subset, FS_CardinalityType
<1>3. \A S \in SUBSET (1..PlanLength) : Tally(S) \in [total : Nat, passed : Nat]
  <2> SUFFICES ASSUME NEW S \in SUBSET (1..PlanLength)
               PROVE  Tally(S) \in [total : Nat, passed : Nat]
    OBVIOUS
  <2>1. {i \in S : Passes(results[i].case, results[i].outcome)} \in SUBSET (1..PlanLength)
    OBVIOUS
  <2> QED
    BY <2>1, <1>2 DEF Tally
<1>4. \A c \in Cases : {i \in 1..PlanLength : results[i].case = c} \in SUBSET (1..PlanLength)
  OBVIOUS
<1>5. Summaries \in [Cases -> [total : Nat, passed : Nat]]
  BY <1>3, <1>4 DEF Summaries
<1>6. \A s : FailedCases(s) \in SUBSET Cases
  BY DEF FailedCases
<1> QED
  BY <1>5, <1>6 DEF Verification

-----------------------------------------------------------------------------
LEMMA InitInv == Init => Inv
<1> SUFFICES ASSUME Init PROVE Inv
  OBVIOUS
<1>1. PlanLength \in Nat \ {0} /\ WorkerCount \in 1..PlanLength
  BY PoolSize DEF Init
<1>2. Types
  BY <1>1 DEF Init, Types, Phases, Workers, Entry, Nothing
<1>3. Recorded
  BY DEF Init, Recorded
<1>4. HandedOutOnce /\ NoIdleWorker
  BY DEF Init, HandedOutOnce, NoIdleWorker
<1>5. SavedInOrder /\ OnDisk
  BY DEF Init, SavedInOrder, OnDisk
<1> QED
  BY <1>2, <1>3, <1>4, <1>5 DEF Inv

\* The constants of a run are those of its request.
LEMMA RequestKept ==
  ASSUME [Next]_vars
  PROVE  /\ request' = request
         /\ PlanLength' = PlanLength
         /\ WorkerCount' = WorkerCount
         /\ Workers' = Workers
         /\ \A i : Plan(i)' = Plan(i)
         /\ DatasetRun' = DatasetRun
<1>1. request' = request
  BY DEF Next, vars, RunDataset, Settle, SaveDataset, SaveExperiment, Crash
<1>2. PlanLength' = PlanLength
  BY <1>1 DEF PlanLength
<1>3. WorkerCount' = WorkerCount
  BY <1>1, <1>2 DEF WorkerCount
<1> QED
  BY <1>1, <1>2, <1>3 DEF Workers, Plan, DatasetRun

\* A pool that starts has handed out one entry to each worker.
LEMMA StartInv ==
  ASSUME Inv, RunDataset
  PROVE  Inv'
<1> USE DEF Inv
<1>1. PlanLength \in Nat \ {0} /\ WorkerCount \in 1..PlanLength
  BY PoolSize DEF Types
<1>2. /\ request' = request /\ PlanLength' = PlanLength
      /\ WorkerCount' = WorkerCount /\ Workers' = Workers
      /\ \A i : Plan(i)' = Plan(i)
      /\ DatasetRun' = DatasetRun
  BY RequestKept DEF Next
<1>3. /\ next' = WorkerCount + 1
      /\ at' = [w \in Workers |-> w]
      /\ results' = [i \in 1..PlanLength |-> Nothing]
      /\ phase' = "running" /\ dataset' = dataset + 1
      /\ runs' = runs /\ experiment' = experiment
  BY DEF RunDataset
<1>4. Types'
  BY <1>1, <1>2, <1>3 DEF Types, RunDataset, Workers, Entry, Nothing, Phases
<1>5. \A i \in 1..PlanLength : InFlight(i)' = IF i <= WorkerCount THEN {i} ELSE {}
  <2>1. \A i : InFlight(i)' = {w \in Workers : at'[w] = i}
    BY <1>2 DEF InFlight
  <2>2. \A w \in Workers : at'[w] = w
    BY <1>3
  <2>3. \A i : {w \in Workers : at'[w] = i} = {w \in Workers : w = i}
    BY <2>2
  <2>4. \A i \in 1..PlanLength : i \in Workers <=> i <= WorkerCount
    BY <1>1 DEF Workers
  <2>5. \A i : InFlight(i)' = {w \in Workers : w = i}
    BY <2>1, <2>3
  <2> SUFFICES ASSUME NEW i \in 1..PlanLength
               PROVE  InFlight(i)' = IF i <= WorkerCount THEN {i} ELSE {}
    OBVIOUS
  <2>6. CASE i \in Workers
    BY <2>4, <2>5, <2>6
  <2>7. CASE i \notin Workers
    BY <2>4, <2>5, <2>7
  <2> QED
    BY <2>6, <2>7
<1>6. HandedOutOnce'
  <2> SUFFICES ASSUME NEW i \in 1..PlanLength
               PROVE  /\ i < next'  => (InFlight(i)' = {} <=> results'[i] # Nothing)
                      /\ i >= next' => InFlight(i)' = {} /\ results'[i] = Nothing
                      /\ \A u, v \in InFlight(i)' : u = v
    BY <1>2 DEF HandedOutOnce
  <2>1. results'[i] = Nothing
    BY <1>3
  <2>2. i < next' <=> i <= WorkerCount
    BY <1>1, <1>3
  <2>3. i >= next' <=> ~(i <= WorkerCount)
    BY <1>1, <1>3
  <2> QED
    BY <1>5, <2>1, <2>2, <2>3
<1>7. NoIdleWorker'
  BY <1>1, <1>2, <1>3 DEF NoIdleWorker, Workers
<1>8. Recorded'
  BY <1>2, <1>3 DEF Recorded
<1>9. SavedInOrder'
  BY <1>2, <1>3 DEF SavedInOrder
<1>10. OnDisk'
  BY <1>3 DEF OnDisk, RunDataset, Types
<1> QED
  BY <1>4, <1>6, <1>7, <1>8, <1>9, <1>10

\* A worker records the result of its own entry, and takes the one nobody has.
LEMMA SettleInv ==
  ASSUME Inv, NEW w \in Workers, Settle(w)
  PROVE  Inv'
<1> USE DEF Inv
<1>1. PlanLength \in Nat \ {0} /\ WorkerCount \in 1..PlanLength
  BY PoolSize DEF Types
<1>2. /\ request' = request /\ PlanLength' = PlanLength
      /\ WorkerCount' = WorkerCount /\ Workers' = Workers
      /\ \A i : Plan(i)' = Plan(i)
      /\ DatasetRun' = DatasetRun
  BY RequestKept DEF Next
<1> DEFINE e == at[w]
<1>3. /\ phase = "running" /\ phase' = phase
      /\ e \in 1..PlanLength
      /\ dataset' = dataset /\ runs' = runs /\ experiment' = experiment
  BY <1>1 DEF Settle, Types
<1>4. PICK outcome \in Outcomes :
        results' = [results EXCEPT ![e] = [case |-> Plan(e), outcome |-> outcome]]
  BY DEF Settle, Slot
<1>5. [case |-> Plan(e), outcome |-> outcome] \in Entry
  <2>1. \A r \in Nat \ {0}, i \in Nat : (i - 1) \div r + 1 \in Int
    OBVIOUS
  <2>2. request.repetitions \in Nat \ {0} /\ e \in Nat
    BY <1>1, <1>3 DEF Types
  <2>3. Plan(e) \in Int
    <3> HIDE DEF Inv, e
    <3> QED
      BY <2>1, <2>2 DEF Plan
  <2> QED
    BY <2>3 DEF Entry
<1>6. [case |-> Plan(e), outcome |-> outcome] # Nothing
  BY DEF Nothing, Outcomes
<1>7. \/ /\ next <= PlanLength
         /\ at' = [at EXCEPT ![w] = next] /\ next' = next + 1
      \/ /\ ~(next <= PlanLength)
         /\ at' = [at EXCEPT ![w] = 0] /\ next' = next
  BY DEF Settle, HasMore, Following
<1>8. Types'
  <2>1. results' \in [1..PlanLength -> Entry]
    BY <1>4, <1>5 DEF Types
  <2>2. next' \in 1..(PlanLength + 1) /\ at' \in [Workers -> 0..PlanLength]
    <3> HIDE DEF Inv
    <3>1. next \in 1..(PlanLength + 1) /\ at \in [Workers -> 0..PlanLength]
      BY DEF Inv, Types
    <3>2. CASE next <= PlanLength /\ at' = [at EXCEPT ![w] = next] /\ next' = next + 1
      <4>1. next \in 0..PlanLength /\ next' \in 1..(PlanLength + 1)
        BY <1>1, <3>1, <3>2
      <4> QED BY <3>1, <3>2, <4>1
    <3>3. CASE at' = [at EXCEPT ![w] = 0] /\ next' = next
      <4>1. 0 \in 0..PlanLength
        BY <1>1
      <4> QED BY <3>1, <3>3, <4>1
    <3> QED BY <1>7, <3>2, <3>3
  <2> QED
    BY <1>2, <1>3, <2>1, <2>2 DEF Types
<1>9. Recorded'
  BY <1>2, <1>3, <1>4 DEF Recorded, Types
<1>10. HandedOutOnce'
  <2> SUFFICES ASSUME NEW i \in 1..PlanLength
               PROVE  /\ i < next'  => (InFlight(i)' = {} <=> results'[i] # Nothing)
                      /\ i >= next' => InFlight(i)' = {} /\ results'[i] = Nothing
                      /\ \A u, v \in InFlight(i)' : u = v
    BY <1>2 DEF HandedOutOnce
  <2>1. /\ i < next  => (InFlight(i) = {} <=> results[i] # Nothing)
        /\ i >= next => InFlight(i) = {} /\ results[i] = Nothing
        /\ \A u, v \in InFlight(i) : u = v
    BY <1>3 DEF HandedOutOnce
  <2>2. e < next
    BY <1>1, <1>3 DEF HandedOutOnce, InFlight, Types
  <2>3. InFlight(i) = {u \in Workers : at[u] = i} /\ InFlight(i)' = {u \in Workers : at'[u] = i}
    BY <1>2 DEF InFlight
  <2>4. at \in [Workers -> 0..PlanLength] /\ results \in [1..PlanLength -> Entry]
        /\ next \in 1..(PlanLength + 1)
    BY DEF Types
  <2>5. CASE i = e
    <3>1. InFlight(i) = {w}
      BY <2>1, <2>3, <2>5
    <3>2. InFlight(i)' = {}
      BY <1>1, <1>7, <2>2, <2>3, <2>4, <2>5, <3>1
    <3>3. results'[i] # Nothing
      BY <1>4, <1>6, <2>4, <2>5
    <3> QED
      BY <1>1, <1>7, <2>2, <2>4, <2>5, <3>2, <3>3
  <2>6. CASE i # e
    <3>1. results'[i] = results[i]
      BY <1>4, <2>4, <2>6
    <3>2. CASE next <= PlanLength /\ i = next
      <4>1. InFlight(i)' = {w}
        BY <1>7, <2>1, <2>3, <2>4, <3>2
      <4> QED
        BY <1>1, <1>7, <2>1, <2>4, <3>1, <3>2, <4>1
    <3>3. CASE ~(next <= PlanLength /\ i = next)
      <4>1. InFlight(i)' = InFlight(i)
        BY <1>1, <1>7, <2>3, <2>4, <2>6, <3>3
      <4> QED
        BY <1>1, <1>7, <2>1, <2>4, <3>1, <3>3, <4>1
    <3> QED
      BY <3>2, <3>3
  <2> QED
    BY <2>5, <2>6
<1>11. NoIdleWorker'
  <2> SUFFICES ASSUME next' <= PlanLength, NEW u \in Workers
               PROVE  at'[u] # 0
    BY <1>2 DEF NoIdleWorker
  <2>1. next \in 1..(PlanLength + 1) /\ at \in [Workers -> 0..PlanLength]
    BY DEF Types
  <2>2. next <= PlanLength /\ at' = [at EXCEPT ![w] = next]
    BY <1>1, <1>7, <2>1
  <2>3. at[u] # 0
    BY <1>3, <2>2 DEF NoIdleWorker
  <2> QED
    BY <1>1, <2>1, <2>2, <2>3
<1>12. SavedInOrder'
  BY <1>2, <1>3 DEF SavedInOrder
<1>13. OnDisk'
  BY <1>3 DEF OnDisk
<1> QED
  BY <1>8, <1>9, <1>10, <1>11, <1>12, <1>13

\* When no worker is at an entry the plan is finished: a worker would have
\* taken what is left.
LEMMA AllSettled ==
  ASSUME Inv, phase = "running", \A w \in Workers : at[w] = 0
  PROVE  \A i \in 1..PlanLength : results[i].case = Plan(i)
<1>1. PlanLength \in Nat \ {0} /\ WorkerCount \in 1..PlanLength
  BY PoolSize DEF Inv, Types
<1>2. 1 \in Workers
  BY <1>1 DEF Workers
<1>3. next \in 1..(PlanLength + 1) /\ ~(next <= PlanLength)
  BY <1>2 DEF Inv, Types, NoIdleWorker
<1> SUFFICES ASSUME NEW i \in 1..PlanLength
             PROVE  results[i].case = Plan(i)
  OBVIOUS
<1>4. InFlight(i) = {}
  BY <1>1 DEF InFlight
<1>5. results[i] # Nothing
  BY <1>1, <1>3, <1>4 DEF Inv, HandedOutOnce
<1> QED
  BY <1>5 DEF Inv, Recorded

\* A save that succeeds adds the finished run, one that fails adds nothing.
LEMMA SaveInv ==
  ASSUME Inv, SaveDataset
  PROVE  Inv'
<1> USE DEF Inv
<1>1. /\ request' = request /\ PlanLength' = PlanLength
      /\ WorkerCount' = WorkerCount /\ Workers' = Workers
      /\ \A i : Plan(i)' = Plan(i)
      /\ DatasetRun' = DatasetRun
  BY RequestKept DEF Next
<1>2. /\ phase = "running" /\ phase' # "running"
      /\ dataset' = dataset /\ next' = next /\ at' = at /\ results' = results
      /\ experiment' = experiment
  BY DEF SaveDataset, AfterFailedSave
<1> DEFINE run == [evidence |-> results, summaries |-> Summaries,
                   verification |-> Verification(Summaries)]
<1>3. run \in DatasetRun
  BY SummaryTypes DEF DatasetRun, Types
<1>4. \/ runs' = Append(runs, run) /\ phase' = "between"
      \/ runs' = runs /\ phase' = "failed"
  BY DEF SaveDataset, AfterFailedSave
<1>5. Types'
  <2>1. runs' \in Seq(DatasetRun)
    <3>1. runs \in Seq(DatasetRun)
      BY DEF Types
    <3> HIDE DEF run
    <3> QED
      BY <1>3, <1>4, <3>1
  <2>2. phase' \in Phases
    BY <1>4 DEF Phases
  <2> QED
    BY <1>1, <1>2, <2>1, <2>2 DEF Types
<1>6. HandedOutOnce' /\ NoIdleWorker'
  BY <1>2 DEF HandedOutOnce, NoIdleWorker
<1>7. Recorded'
  BY <1>1, <1>2 DEF Recorded
<1>8. SavedInOrder'
  <2>1. \A i \in 1..PlanLength : run.evidence[i].case = Plan(i)
    BY AllSettled DEF SaveDataset
  <2>2. CASE runs' = runs
    BY <1>1, <2>2 DEF SavedInOrder
  <2>3. CASE runs' = Append(runs, run)
    <3> SUFFICES ASSUME NEW d \in DOMAIN runs', NEW i \in 1..PlanLength
                 PROVE  runs'[d].evidence[i].case = Plan(i)
      BY <1>1 DEF SavedInOrder
    <3>1. runs \in Seq(DatasetRun) /\ run \in DatasetRun
      BY <1>3 DEF Types
    <3>2. \/ d \in DOMAIN runs /\ runs'[d] = runs[d]
          \/ runs'[d] = run
      BY <2>3, <3>1
    <3> HIDE DEF run
    <3> QED
      BY <2>1, <3>2 DEF SavedInOrder
  <2> QED
    BY <1>4, <2>2, <2>3
<1>9. OnDisk'
  <2>1. runs \in Seq(DatasetRun) /\ dataset \in Nat
    BY DEF Types
  <2>2. Len(runs) = dataset - 1 /\ experiment = NoExperiment
    BY <1>2 DEF OnDisk
  <2>3. CASE runs' = runs /\ phase' = "failed"
    BY <1>2, <2>2, <2>3 DEF OnDisk
  <2>4. CASE runs' = Append(runs, run) /\ phase' = "between"
    <3>1. Len(runs') = Len(runs) + 1
      BY <2>1, <2>4, <1>3
    <3> QED
      BY <1>2, <2>1, <2>2, <2>4, <3>1 DEF OnDisk
  <2> QED
    BY <1>4, <2>3, <2>4
<1> QED
  BY <1>5, <1>6, <1>7, <1>8, <1>9

\* Every step keeps the invariant.
LEMMA NextInv == Inv /\ [Next]_vars => Inv'
<1> SUFFICES ASSUME Inv, [Next]_vars PROVE Inv'
  OBVIOUS
<1>1. CASE RunDataset
  BY <1>1, StartInv
<1>2. CASE \E w \in Workers : Settle(w)
  BY <1>2, SettleInv
<1>3. CASE SaveDataset
  BY <1>3, SaveInv
<1> USE DEF Inv
<1>4. CASE SaveExperiment
  <2>1. UNCHANGED <<request, dataset, next, at, results, runs>> /\ phase = "between"
        /\ phase' \in {"done", "failed"}
    BY <1>4 DEF SaveExperiment
  <2>2. Types' /\ Recorded' /\ SavedInOrder'
    BY <2>1, RequestKept DEF Types, Recorded, SavedInOrder, Phases
  <2>3. HandedOutOnce' /\ NoIdleWorker'
    BY <2>1 DEF HandedOutOnce, NoIdleWorker
  <2>4. OnDisk'
    BY <1>4, <2>1 DEF OnDisk, SaveExperiment, Judged, Datasets, Types
  <2> QED
    BY <2>2, <2>3, <2>4
<1>5. CASE Crash
  <2>1. UNCHANGED <<request, dataset, next, at, results, runs, experiment>>
        /\ phase \in {"between", "running"} /\ phase' = "crashed"
    BY <1>5 DEF Crash
  <2>2. Types' /\ Recorded' /\ SavedInOrder'
    BY <2>1, RequestKept DEF Types, Recorded, SavedInOrder, Phases
  <2>3. HandedOutOnce' /\ NoIdleWorker' /\ OnDisk'
    BY <2>1 DEF HandedOutOnce, NoIdleWorker, OnDisk
  <2> QED
    BY <2>2, <2>3
<1>6. CASE UNCHANGED vars
  <2>1. UNCHANGED <<request, phase, dataset, next, at, results, runs, experiment>>
    BY <1>6 DEF vars
  <2>2. Types' /\ Recorded' /\ SavedInOrder' /\ NoIdleWorker' /\ OnDisk'
    BY <2>1, RequestKept DEF Types, Recorded, SavedInOrder, NoIdleWorker, OnDisk
  <2>3. \A i : InFlight(i)' = InFlight(i)
    BY <2>1, RequestKept DEF InFlight
  <2>4. HandedOutOnce'
    BY <2>1, <2>3, RequestKept DEF HandedOutOnce
  <2> QED
    BY <2>2, <2>4
<1> QED
  BY <1>1, <1>2, <1>3, <1>4, <1>5, <1>6 DEF Next

LEMMA SpecInv == Spec => []Inv
  BY InitInv, NextInv, PTL DEF Spec

-----------------------------------------------------------------------------
\* However many workers share the plan and whatever the order of the answers,
\* every entry is handed out once (mapWithConcurrency).
THEOREM PlanHandedOutOnce == Spec => []HandedOutOnce
<1>1. Inv => HandedOutOnce
  BY DEF Inv
<1> QED
  BY SpecInv, <1>1, PTL

\* The pool keeps as many runs under way as it may, while there are any left.
THEOREM PoolStaysBusy == Spec => []NoIdleWorker
<1>1. Inv => NoIdleWorker
  BY DEF Inv
<1> QED
  BY SpecInv, <1>1, PTL

\* The evidence of every saved dataset run is complete and in the order of the
\* plan (runAgentDataset).
THEOREM EvidenceInPlanOrder == Spec => []InPlanOrder
<1>1. Inv => InPlanOrder
  BY DEF Inv, InPlanOrder, Recorded, SavedInOrder
<1> QED
  BY SpecInv, <1>1, PTL

\* Every entry of the plan is run once and recorded in its place.
THEOREM EntriesRunOnce == Spec => []EachEntryOnce
<1>1. HandedOutOnce /\ InPlanOrder => EachEntryOnce
  BY DEF EachEntryOnce
<1> QED
  BY PlanHandedOutOnce, EvidenceInPlanOrder, <1>1, PTL

\* An experiment on disk never refers to a dataset run that is not (verify).
THEOREM ExperimentHasEvidence == Spec => []EvidenceSaved
<1>1. Inv => EvidenceSaved
  BY DEF Inv, OnDisk, EvidenceSaved
<1> QED
  BY SpecInv, <1>1, PTL
-----------------------------------------------------------------------------
(* The verdict.  What a saved run was judged on is compared with the       *)
(* answers there were, which needs that Plan repeats every case as often   *)
(* as the request says.                                                    *)

LEMMA Quotient ==
  ASSUME NEW n \in Nat, NEW r \in Nat \ {0}
  PROVE  /\ n \div r \in Nat
         /\ (n \div r) * r <= n
         /\ n < (n \div r) * r + r
  OBVIOUS

LEMMA Multiples ==
  ASSUME NEW a \in Int, NEW b \in Int, NEW r \in Nat, a <= b
  PROVE  a * r <= b * r
<1>1. b - a \in Nat
  BY SMT
<1>2. \A x, y \in Nat : x * y \in Nat
  BY SMT
<1>3. (b - a) * r \in Nat
  BY <1>1, <1>2
<1>4. (b - a) * r = b * r - a * r
  BY SMT
<1>5. a * r \in Int /\ b * r \in Int
  BY SMT
<1> QED
  BY <1>3, <1>4, <1>5

\* Every entry is for a case, and every case has as many entries as there are
\* repetitions.
LEMMA PlanOfCase ==
  ASSUME request \in Requests
  PROVE  /\ \A i \in 1..PlanLength : Plan(i) \in Cases
         /\ \A c \in Cases : Cardinality({i \in 1..PlanLength : Plan(i) = c})
                               = request.repetitions
<1> DEFINE r == request.repetitions
<1>1. r \in Nat \ {0} /\ PlanLength \in Nat \ {0} /\ NumCases \in Nat \ {0}
      /\ PlanLength = NumCases * r
  BY PoolSize DEF PlanLength
<1> HIDE DEF r
<1>2. ASSUME NEW i \in 1..PlanLength
      PROVE  /\ Plan(i) \in Nat \ {0}
             /\ (Plan(i) - 1) * r <= i - 1
             /\ i - 1 < (Plan(i) - 1) * r + r
  <2> DEFINE q == (i - 1) \div r
  <2>1. i - 1 \in Nat
    BY <1>1
  <2>2. q \in Nat /\ q * r <= i - 1 /\ i - 1 < q * r + r
    BY <1>1, <2>1, Quotient
  <2>3. Plan(i) = q + 1
    BY DEF Plan, r
  <2> HIDE DEF q
  <2>4. Plan(i) - 1 = q
    BY <2>2, <2>3
  <2> QED
    BY <2>2, <2>3, <2>4
<1>3. ASSUME NEW c \in Nat \ {0}
      PROVE  c * r = (c - 1) * r + r /\ (c - 1) * r \in Nat /\ c * r \in Nat
  <2>1. \A x, y \in Nat : x * y \in Nat
    BY SMT
  <2>2. c - 1 \in Nat
    BY SMT
  <2> QED
    BY <1>1, <2>1, <2>2, SMT
<1>4. ASSUME NEW i \in 1..PlanLength, NEW c \in Nat \ {0}
      PROVE  Plan(i) = c <=> (c - 1) * r + 1 <= i /\ i <= c * r
  <2> DEFINE p == Plan(i)
  <2>1. /\ p \in Nat \ {0} /\ (p - 1) * r <= i - 1 /\ i - 1 < (p - 1) * r + r
        /\ p * r = (p - 1) * r + r /\ (p - 1) * r \in Nat /\ p * r \in Nat
    BY <1>2, <1>3
  <2>2. c * r = (c - 1) * r + r /\ (c - 1) * r \in Nat /\ c * r \in Nat
    BY <1>3
  <2> HIDE DEF p
  <2>3. CASE p = c
    <3> DEFINE lo == (c - 1) * r
               hi == c * r
    <3>1. lo \in Nat /\ hi \in Nat /\ hi = lo + r
      BY <2>2
    <3>2. lo <= i - 1 /\ i - 1 < lo + r
      BY <2>1, <2>3
    <3> HIDE DEF lo, hi
    <3>3. lo + 1 <= i /\ i <= hi
      BY <1>1, <3>1, <3>2
    <3> QED
      BY <2>3, <3>3 DEF p, lo, hi
  <2>4. CASE p < c
    <3>1. p <= c - 1 /\ p \in Int /\ c - 1 \in Int
      BY <2>1, <2>4
    <3>2. p * r <= (c - 1) * r
      BY <1>1, <3>1, Multiples
    <3> QED
      BY <1>1, <2>1, <2>2, <2>4, <3>2 DEF p
  <2>5. CASE c < p
    <3>1. c <= p - 1 /\ c \in Int /\ p - 1 \in Int
      BY <2>1, <2>5
    <3>2. c * r <= (p - 1) * r
      BY <1>1, <3>1, Multiples
    <3> QED
      BY <1>1, <2>1, <2>2, <2>5, <3>2 DEF p
  <2> QED
    BY <2>1, <2>3, <2>4, <2>5 DEF p
<1>5. ASSUME NEW i \in 1..PlanLength PROVE Plan(i) \in Cases
  <2>1. NumCases \in Int /\ NumCases * r = PlanLength
    BY <1>1
  <2>2. CASE Plan(i) <= NumCases
    BY <1>2, <2>2 DEF Cases
  <2>3. CASE NumCases < Plan(i)
    <3>1. Plan(i) - 1 \in Int /\ NumCases <= Plan(i) - 1
      BY <1>1, <1>2, <2>3
    <3>2. NumCases * r <= (Plan(i) - 1) * r
      BY <1>1, <3>1, Multiples
    <3>3. (Plan(i) - 1) * r \in Nat /\ (Plan(i) - 1) * r <= i - 1
      BY <1>2, <1>3
    <3> QED
      BY <1>1, <2>1, <3>2, <3>3
  <2> QED
    BY <1>1, <1>2, <2>2, <2>3
<1>6. ASSUME NEW c \in Cases
      PROVE  Cardinality({i \in 1..PlanLength : Plan(i) = c}) = r
  <2>1. c \in Nat \ {0} /\ c \in Int /\ NumCases \in Int /\ c <= NumCases
    BY <1>1 DEF Cases
  <2>2. c * r = (c - 1) * r + r /\ (c - 1) * r \in Nat /\ c * r \in Nat
    BY <1>3, <2>1
  <2>3. c * r <= PlanLength
    BY <1>1, <2>1, Multiples
  <2> DEFINE a == (c - 1) * r + 1
             b == c * r
  <2>4. a \in Int /\ b \in Int /\ a >= 1 /\ b <= PlanLength /\ b - a + 1 = r /\ ~(a > b)
    BY <1>1, <2>2, <2>3
  <2>5. \A i \in 1..PlanLength : Plan(i) = c <=> a <= i /\ i <= b
    BY <1>4, <2>1
  <2> HIDE DEF a, b
  <2>6. {i \in 1..PlanLength : Plan(i) = c} = a..b
    BY <1>1, <2>4, <2>5
  <2> QED
    BY <2>4, <2>6, FS_Interval
<1> QED
  BY <1>5, <1>6 DEF r

\* How often a case came out in one way, by some evidence.
Counted(n, evidence, c, o) ==
  Cardinality({i \in 1..n : evidence[i] = [case |-> c, outcome |-> o]})

\* The verdict that a threshold asks for, by the answers there were.
RightVerdict(d) ==
  /\ request.threshold # NoThreshold
  /\ \A c \in Cases : RightAnswers(d, c) * 100 >= request.threshold * request.repetitions

\* The evidence in memory counts the answers; saved runs are judged as they are.
Accounted ==
  /\ answers \in [Datasets -> [Cases -> [Outcomes -> Nat]]]
  /\ phase = "running" =>
       /\ dataset \in Datasets
       /\ \A c \in Cases, o \in Outcomes : answers[dataset][c][o] = Counted(PlanLength, results, c, o)
  /\ \A d \in Datasets : d > dataset =>
       \A c \in Cases, o \in Outcomes : answers[d][c][o] = 0
  /\ \A d \in DOMAIN runs : runs[d].verification.passed <=> RightVerdict(d)
  /\ phase = "done" =>
       (experiment.passed <=> \A d \in DOMAIN runs : runs[d].verification.passed)

\* A new result is one more of its kind.
LEMMA OneMore ==
  ASSUME NEW n \in Nat, NEW old \in [1..n -> Entry], NEW new,
         NEW e \in 1..n, NEW x, NEW y,
         old[e] = Nothing, new[e] = [case |-> x, outcome |-> y],
         \A i \in (1..n) \ {e} : new[i] = old[i],
         NEW c, NEW o \in Outcomes
  PROVE  Counted(n, new, c, o) = IF c = x /\ o = y THEN Counted(n, old, c, o) + 1
                                                    ELSE Counted(n, old, c, o)
<1> DEFINE Of(f) == {i \in 1..n : f[i] = [case |-> c, outcome |-> o]}
<1>1. IsFiniteSet(1..n)
  <2> HIDE DEF Of
  <2>1. 1 \in Int /\ n \in Int
    OBVIOUS
  <2> QED
    BY <2>1, FS_Interval
<1>2. IsFiniteSet(Of(old))
  BY <1>1, FS_Subset
<1>3. [case |-> c, outcome |-> o] # Nothing
  BY DEF Nothing, Outcomes
<1>4. e \notin Of(old)
  BY <1>3
<1>5. Of(new) = IF c = x /\ o = y THEN Of(old) \cup {e} ELSE Of(old)
  <2>1. new[e] = [case |-> x, outcome |-> y]
    OBVIOUS
  <2>2. \A i \in (1..n) \ {e} : new[i] = old[i]
    OBVIOUS
  <2>3. [case |-> x, outcome |-> y] = [case |-> c, outcome |-> o] <=> c = x /\ o = y
    OBVIOUS
  <2> HIDE DEF Entry
  <2>4. e \in Of(new) <=> c = x /\ o = y
    BY <2>1, <2>3
  <2>5. \A i \in (1..n) \ {e} : i \in Of(new) <=> i \in Of(old)
    BY <2>2
  <2>6. Of(new) \subseteq 1..n /\ Of(old) \subseteq 1..n
    OBVIOUS
  <2> HIDE DEF Of
  <2>7. CASE c = x /\ o = y
    <3>1. Of(new) = Of(old) \cup {e}
      BY <2>4, <2>5, <2>6, <2>7
    <3> QED
      BY <2>7, <3>1
  <2>8. CASE ~(c = x /\ o = y)
    <3>1. e \notin Of(new)
      BY <2>4, <2>8
    <3>2. \A i : i \in Of(new) <=> i \in Of(old)
      BY <1>4, <2>5, <2>6, <3>1
    <3>3. Of(new) = Of(old)
      BY <3>2
    <3> QED
      BY <2>8, <3>3
  <2> QED
    BY <2>7, <2>8
<1> HIDE DEF Of
<1>6. Cardinality(Of(old) \cup {e}) = Cardinality(Of(old)) + 1
  BY <1>2, <1>4, FS_AddElement
<1>7. Counted(n, new, c, o) = Cardinality(Of(new)) /\ Counted(n, old, c, o) = Cardinality(Of(old))
  BY DEF Counted, Of
<1> QED
  BY <1>5, <1>6, <1>7

\* A worker records the answer it got.
LEMMA SettleAccounted ==
  ASSUME Inv, Accounted, NEW w \in Workers, Settle(w)
  PROVE  Accounted'
<1> DEFINE e == at[w]
<1>1. PlanLength \in Nat \ {0} /\ WorkerCount \in 1..PlanLength /\ request \in Requests
  BY PoolSize DEF Inv, Types
<1>2. /\ request' = request /\ PlanLength' = PlanLength
      /\ \A i : Plan(i)' = Plan(i)
  BY RequestKept DEF Next
<1>3. /\ phase = "running" /\ phase' = phase /\ e \in 1..PlanLength
      /\ dataset' = dataset /\ runs' = runs /\ experiment' = experiment
  BY <1>1 DEF Settle, Inv, Types
<1>4. PICK outcome \in Outcomes :
        /\ results' = [results EXCEPT ![e] = [case |-> Plan(e), outcome |-> outcome]]
        /\ answers' = [answers EXCEPT ![dataset][Plan(e)][outcome] = @ + 1]
  BY DEF Settle, Slot
<1> DEFINE x == Plan(e)
<1>5. x \in Cases
  BY <1>1, <1>3, PlanOfCase
<1>6. results[e] = Nothing
  <2>1. w \in InFlight(e)
    BY DEF InFlight
  <2>2. next \in 1..(PlanLength + 1)
    BY DEF Inv, Types
  <2>3. e < next \/ e >= next
    BY <1>1, <1>3, <2>2
  <2> QED
    BY <1>3, <2>1, <2>3 DEF Inv, HandedOutOnce
<1>7. /\ answers \in [Datasets -> [Cases -> [Outcomes -> Nat]]]
      /\ dataset \in Datasets
      /\ \A c \in Cases, o \in Outcomes : answers[dataset][c][o] = Counted(PlanLength, results, c, o)
  BY <1>3 DEF Accounted
<1> DEFINE here  == answers[dataset]
           case  == here[x]
           more  == [case EXCEPT ![outcome] = case[outcome] + 1]
<1>8. answers' = [answers EXCEPT ![dataset] = [here EXCEPT ![x] = more]]
  BY <1>4
<1> HIDE DEF x, e
<1>9. /\ here \in [Cases -> [Outcomes -> Nat]] /\ case \in [Outcomes -> Nat]
      /\ more \in [Outcomes -> Nat]
      /\ answers' \in [Datasets -> [Cases -> [Outcomes -> Nat]]]
  <2>1. here \in [Cases -> [Outcomes -> Nat]] /\ case \in [Outcomes -> Nat]
    BY <1>5, <1>7
  <2> HIDE DEF here
  <2>2. more \in [Outcomes -> Nat]
    <3> HIDE DEF case
    <3> QED
      BY <1>4, <2>1
  <2> HIDE DEF case, more
  <2>3. [here EXCEPT ![x] = more] \in [Cases -> [Outcomes -> Nat]]
    BY <1>5, <2>1, <2>2
  <2> QED
    BY <1>7, <1>8, <2>1, <2>2, <2>3
<1> HIDE DEF here, case, more
<1>10. \A d \in Datasets : d # dataset => answers'[d] = answers[d]
  BY <1>7, <1>8
<1>11. ASSUME NEW c \in Cases, NEW o \in Outcomes
       PROVE  answers'[dataset][c][o] = Counted(PlanLength, results', c, o)
  <2>1. answers'[dataset][c][o] = IF c = x /\ o = outcome THEN answers[dataset][c][o] + 1
                                                         ELSE answers[dataset][c][o]
    <3>1. answers'[dataset] = [here EXCEPT ![x] = more]
      BY <1>7, <1>8
    <3>2. answers'[dataset][c] = IF c = x THEN more ELSE here[c]
      BY <1>5, <1>9, <3>1
    <3>3. more[o] = IF o = outcome THEN case[o] + 1 ELSE case[o]
      BY <1>4, <1>9 DEF more
    <3> QED
      BY <3>2, <3>3 DEF here, case
  <2>2. results' = [results EXCEPT ![e] = [case |-> x, outcome |-> outcome]]
    BY <1>4 DEF x
  <2>3. results \in [1..PlanLength -> Entry]
    BY DEF Inv, Types
  <2>4. Counted(PlanLength, results', c, o) = IF c = x /\ o = outcome THEN Counted(PlanLength, results, c, o) + 1
                                                         ELSE Counted(PlanLength, results, c, o)
    <3>1. PlanLength \in Nat /\ e \in 1..PlanLength
      BY <1>1, <1>3
    <3>2. results'[e] = [case |-> x, outcome |-> outcome]
          /\ \A i \in (1..PlanLength) \ {e} : results'[i] = results[i]
      BY <2>2, <2>3, <3>1
    <3> QED
      BY <1>6, <2>3, <3>1, <3>2, OneMore
  <2> QED
    BY <1>7, <2>1, <2>4
<1>12. \A d \in Datasets : d > dataset => d # dataset
  BY DEF Datasets, Inv, Types
<1>13. \A d \in DOMAIN runs : d \in Datasets /\ d # dataset
  BY <1>3, SizesAssumption DEF Inv, Types, OnDisk, Datasets
<1>14. \A d \in DOMAIN runs : RightVerdict(d)' <=> RightVerdict(d)
  BY <1>2, <1>10, <1>13 DEF RightVerdict, RightAnswers, Cases
<1>15. \A c \in Cases, o \in Outcomes : Counted(PlanLength, results, c, o)' = Counted(PlanLength, results', c, o)
  BY <1>2 DEF Counted
<1>16. /\ \A d \in Datasets : d > dataset =>
            \A c \in Cases, o \in Outcomes : answers'[d][c][o] = 0
       /\ \A d \in DOMAIN runs : runs[d].verification.passed <=> RightVerdict(d)'
  BY <1>10, <1>12, <1>14 DEF Accounted
<1>17. \A c \in Cases, o \in Outcomes : answers'[dataset][c][o] = Counted(PlanLength, results, c, o)'
  BY <1>11, <1>15
<1> QED
  BY <1>3, <1>7, <1>9, <1>16, <1>17 DEF Accounted, Cases, Datasets, Outcomes

\* A finished run is judged by what the answers were.
LEMMA Judgement ==
  ASSUME Inv, Accounted, phase = "running", \A w \in Workers : at[w] = 0
  PROVE  Verification(Summaries).passed <=> RightVerdict(dataset)
<1>1. PlanLength \in Nat \ {0} /\ request \in Requests /\ dataset \in Datasets
  BY PoolSize DEF Inv, Types, Accounted
<1>2. \A i \in 1..PlanLength :
        /\ results[i].case = Plan(i) /\ Plan(i) \in Cases
        /\ results[i] = [case |-> results[i].case, outcome |-> results[i].outcome]
        /\ results[i].outcome \in Outcomes
  <2> SUFFICES ASSUME NEW i \in 1..PlanLength
               PROVE  /\ results[i].case = Plan(i) /\ Plan(i) \in Cases
                      /\ results[i] = [case |-> results[i].case, outcome |-> results[i].outcome]
                      /\ results[i].outcome \in Outcomes
    OBVIOUS
  <2>1. results[i].case = Plan(i) /\ Plan(i) \in Cases
    BY <1>1, AllSettled, PlanOfCase
  <2>2. results[i] # Nothing
    BY <2>1 DEF Nothing, Cases
  <2>3. results[i] \in Entry
    BY DEF Inv, Types
  <2> QED
    BY <2>1, <2>2, <2>3 DEF Inv, Recorded, Entry
<1>3. ASSUME NEW c \in Cases
      PROVE  /\ Summaries[c].total = request.repetitions
             /\ Summaries[c].passed = RightAnswers(dataset, c)
  <2> DEFINE Mine == {i \in 1..PlanLength : results[i].case = c}
             Good == {i \in Mine : Passes(results[i].case, results[i].outcome)}
             Of(o) == {i \in 1..PlanLength : results[i] = [case |-> c, outcome |-> o]}
  <2>1. Summaries[c] = [total |-> Cardinality(Mine), passed |-> Cardinality(Good)]
    BY DEF Summaries, Tally
  <2>2. Mine = {i \in 1..PlanLength : Plan(i) = c}
    BY <1>2
  <2>3. Cardinality(Mine) = request.repetitions
    BY <1>1, <2>2, PlanOfCase
  <2>4. \A o \in Outcomes : /\ IsFiniteSet(Of(o))
                            /\ Cardinality(Of(o)) = answers[dataset][c][o]
                            /\ Cardinality(Of(o)) \in Nat
    <3> TAKE o \in Outcomes
    <3>1. IsFiniteSet(Of(o))
      <4>1. IsFiniteSet(1..PlanLength)
        BY <1>1, FS_Interval
      <4>2. Of(o) \in SUBSET (1..PlanLength)
        OBVIOUS
      <4> HIDE DEF Of
      <4> QED
        BY <4>1, <4>2, FS_Subset
    <3>2. Counted(PlanLength, results, c, o) = answers[dataset][c][o]
      BY DEF Accounted
    <3> QED
      BY <3>1, <3>2, FS_CardinalityType DEF Counted
  <2>5. \A i \in 1..PlanLength, o \in Outcomes :
          i \in Of(o) <=> results[i].case = c /\ results[i].outcome = o
    BY <1>2
  <2>6. "right" \in Outcomes /\ "wrong" \in Outcomes
        /\ \A o \in Outcomes : o # "failed" <=> o = "right" \/ o = "wrong"
    BY DEF Outcomes
  <2>7. Good \subseteq 1..PlanLength /\ \A o : Of(o) \subseteq 1..PlanLength
    OBVIOUS
  <2>8. \A i \in 1..PlanLength :
          i \in Good <=> results[i].case = c /\ Passes(c, results[i].outcome)
    OBVIOUS
  <2>9. Cardinality(Good) = RightAnswers(dataset, c)
    <3> HIDE DEF Mine, Good, Of
    <3>1. CASE c \in request.graded
      <4>1. Good = Of("right")
        BY <2>5, <2>6, <2>7, <2>8, <3>1 DEF Passes
      <4> QED
        BY <2>4, <2>6, <3>1, <4>1 DEF RightAnswers
    <3>2. CASE c \notin request.graded
      <4>1. Good = Of("right") \cup Of("wrong")
        BY <1>2, <2>5, <2>6, <2>7, <2>8, <3>2 DEF Passes
      <4>2. Of("right") \cap Of("wrong") = {}
        BY <2>5, <2>6, <2>7
      <4>3. Cardinality(Good) = Cardinality(Of("right")) + Cardinality(Of("wrong"))
        <5>1. IsFiniteSet(Of("right")) /\ IsFiniteSet(Of("wrong"))
          BY <2>4, <2>6
        <5>2. Cardinality(Good) = Cardinality(Of("right")) + Cardinality(Of("wrong"))
                                    - Cardinality(Of("right") \cap Of("wrong"))
          BY <4>1, <5>1, FS_Union
        <5>3. Cardinality(Of("right") \cap Of("wrong")) = 0
          BY <4>2, FS_EmptySet
        <5>4. Cardinality(Of("right")) \in Nat /\ Cardinality(Of("wrong")) \in Nat
          BY <2>4, <2>6
        <5> QED
          BY <5>2, <5>3, <5>4
      <4> QED
        BY <2>4, <2>6, <3>2, <4>3 DEF RightAnswers
    <3> QED
      BY <3>1, <3>2
  <2> QED
    BY <2>1, <2>3, <2>9
<1>4. \A c \in Cases : Reaches(Summaries[c])
        <=> RightAnswers(dataset, c) * 100 >= request.threshold * request.repetitions
  BY <1>3 DEF Reaches
<1>5. CASE request.threshold = NoThreshold
  BY <1>5 DEF Verification, RightVerdict
<1>6. CASE request.threshold # NoThreshold
  <2>1. Verification(Summaries).passed <=> \A c \in Cases : Reaches(Summaries[c])
    BY <1>6 DEF Verification, FailedCases
  <2> QED
    BY <1>4, <1>6, <2>1 DEF RightVerdict
<1> QED
  BY <1>5, <1>6

\* Every step keeps the account.
LEMMA AccountKept == Inv /\ Accounted /\ [Next]_vars => Accounted'
<1> SUFFICES ASSUME Inv, Accounted, [Next]_vars PROVE Accounted'
  OBVIOUS
<1>1. /\ request' = request /\ PlanLength' = PlanLength
      /\ \A i : Plan(i)' = Plan(i)
  BY RequestKept
<1>2. /\ request \in Requests /\ PlanLength \in Nat /\ NumDatasets \in Nat
      /\ dataset \in 0..NumDatasets /\ runs \in Seq(DatasetRun)
  BY PoolSize DEF Inv, Types
<1>3. ASSUME answers' = answers
      PROVE  \A d : RightVerdict(d)' <=> RightVerdict(d)
  BY <1>1, <1>3 DEF RightVerdict, RightAnswers, Cases
<1>4. CASE RunDataset
  <2>1. /\ answers' = answers /\ runs' = runs /\ phase' = "running"
        /\ dataset' = dataset + 1 /\ dataset' \in Datasets
        /\ results' = [i \in 1..PlanLength |-> Nothing]
    BY <1>2, <1>4 DEF RunDataset, Datasets
  <2>2. \A c \in Cases, o \in Outcomes : Counted(PlanLength, results, c, o)' = 0
    <3> TAKE c \in Cases, o \in Outcomes
    <3>1. [case |-> c, outcome |-> o] # Nothing
      BY DEF Nothing, Outcomes
    <3>2. {i \in 1..PlanLength : results'[i] = [case |-> c, outcome |-> o]} = {}
      BY <2>1, <3>1
    <3> QED
      BY <1>1, <3>2, FS_EmptySet DEF Counted
  <2>3. \A c \in Cases, o \in Outcomes : answers'[dataset'][c][o] = 0
    BY <1>2, <2>1 DEF Accounted
  <2>4. \A d \in Datasets : d > dataset' => d > dataset
    BY <1>2, <2>1 DEF Datasets
  <2>5. \A d \in DOMAIN runs : runs'[d].verification.passed <=> RightVerdict(d)'
    BY <1>3, <2>1 DEF Accounted
  <2> QED
    BY <2>1, <2>2, <2>3, <2>4, <2>5 DEF Accounted, Cases, Datasets, Outcomes
<1>5. CASE \E w \in Workers : Settle(w)
  BY <1>5, SettleAccounted
<1>6. CASE SaveDataset
  <2> DEFINE saved == [evidence |-> results, summaries |-> Summaries,
                       verification |-> Verification(Summaries)]
  <2>1. /\ answers' = answers /\ dataset' = dataset /\ phase = "running"
        /\ phase' \in {"between", "failed"}
        /\ runs' = Append(runs, saved) \/ runs' = runs
    BY <1>6 DEF SaveDataset, AfterFailedSave
  <2>2. saved.verification.passed <=> RightVerdict(dataset)
    BY <1>6, Judgement DEF SaveDataset
  <2>3. Len(runs) + 1 = dataset
    BY <1>2, <2>1 DEF Inv, OnDisk
  <2>4. saved \in DatasetRun
    BY <1>2, SummaryTypes DEF DatasetRun, Inv, Types
  <2> HIDE DEF saved
  <2>5. \A d \in DOMAIN runs' : \/ d \in DOMAIN runs /\ runs'[d] = runs[d]
                                \/ d = dataset /\ runs'[d] = saved
    BY <1>2, <2>1, <2>3, <2>4
  <2>6. \A d \in DOMAIN runs' : runs'[d].verification.passed <=> RightVerdict(d)'
    BY <1>3, <2>1, <2>2, <2>5 DEF Accounted
  <2> QED
    BY <2>1, <2>6 DEF Accounted, Cases, Datasets, Outcomes
<1>7. CASE SaveExperiment
  <2>1. /\ answers' = answers /\ dataset' = dataset /\ runs' = runs
        /\ phase' \in {"done", "failed"}
        /\ phase' = "done" => experiment' = Judged
    BY <1>7 DEF SaveExperiment
  <2>2. Judged.passed <=> \A d \in DOMAIN runs : runs[d].verification.passed
    BY DEF Judged
  <2>3. \A d \in DOMAIN runs : runs'[d].verification.passed <=> RightVerdict(d)'
    BY <1>3, <2>1 DEF Accounted
  <2> QED
    BY <2>1, <2>2, <2>3 DEF Accounted, Cases, Datasets, Outcomes
<1>8. CASE Crash \/ UNCHANGED vars
  <2>1. /\ answers' = answers /\ dataset' = dataset /\ runs' = runs /\ results' = results
        /\ experiment' = experiment /\ phase' \in {"crashed", phase}
    BY <1>8 DEF Crash, vars
  <2>2. \A c \in Cases, o \in Outcomes : Counted(PlanLength, results, c, o)' = Counted(PlanLength, results, c, o)
    BY <1>1, <2>1 DEF Counted
  <2>3. \A d \in DOMAIN runs : runs'[d].verification.passed <=> RightVerdict(d)'
    BY <1>3, <2>1 DEF Accounted
  <2> QED
    BY <2>1, <2>2, <2>3 DEF Accounted, Cases, Datasets, Outcomes
<1> QED
  BY <1>4, <1>5, <1>6, <1>7, <1>8 DEF Next

\* The verdict of an experiment is the one its answers deserve, for every threshold
\* and however the workers shared the plan (verifyAgentDataset).
THEOREM VerdictIsRight == Spec => []VerdictSound
<1>1. Init => Accounted
  BY DEF Init, Accounted
<1>2. Spec => []Accounted
  BY <1>1, AccountKept, SpecInv, PTL DEF Spec
<1>3. Inv /\ Accounted => VerdictSound
  <2> SUFFICES ASSUME Inv, Accounted, phase = "done"
               PROVE  experiment.passed <=>
                        /\ request.threshold # NoThreshold
                        /\ \A d \in Datasets, c \in Cases :
                             RightAnswers(d, c) * 100 >= request.threshold * request.repetitions
    BY DEF VerdictSound
  <2>1. DOMAIN runs = Datasets /\ Datasets # {}
    <3>1. runs \in Seq(DatasetRun) /\ Len(runs) = NumDatasets /\ NumDatasets \in Nat \ {0}
      BY DEF Inv, Types, OnDisk
    <3>2. DOMAIN runs = 1..NumDatasets
      BY <3>1
    <3>3. 1 \in 1..NumDatasets
      BY <3>1
    <3> QED
      BY <3>2, <3>3 DEF Datasets
  <2>2. experiment.passed <=> \A d \in Datasets : RightVerdict(d)
    BY <2>1 DEF Accounted
  <2> QED
    BY <2>1, <2>2 DEF RightVerdict
<1> QED
  BY SpecInv, <1>2, <1>3, PTL
===============================================================================
