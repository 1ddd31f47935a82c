-------------------------- MODULE GovernedBuildProofs --------------------------
(***************************************************************************)
(* Dependencies are built first, progress is not paid for with regressions *)
(* and a completion works, for any plan, suite, number of verifications    *)
(* and edits.  A work order freezes what was satisfied when it was issued; *)
(* the invariant relates it to the decisions taken before it, which never  *)
(* change, so that whatever is decided later cannot take anything away.    *)
(***************************************************************************)
EXTENDS BuildView, SequenceTheorems, WellFoundedInduction, TLAPS

\* Every slice has a test file of its own: one that covers it and, besides it,
\* only slices it depends on.
Focused ==
  \A s \in Slices : \E f \in TestFiles :
    s \in Covers[f] /\ Covers[f] \subseteq {s} \cup DependsOn[s]

-----------------------------------------------------------------------------
CarriedClosed == \A s \in carried : DependsOn[s] \subseteq carried

\* What order o froze is what was satisfied after the first n decisions, and its
\* slice was not built before.
Froze(o, n) ==
  LET before == carried \cup ApprovedAt(n) IN
  /\ orders[o].at = n
  /\ orders[o].slice \notin carried
  /\ DependsOn[orders[o].slice] \subseteq before
  /\ orders[o].applicable =
       {f \in TestFiles : Covers[f] \subseteq before \cup {orders[o].slice}}

OrderSound == \A o \in DOMAIN orders : \E n \in 0..Len(decisions) : Froze(o, n)

SubmissionSound ==
  \A u \in DOMAIN submissions : submissions[u].passed =>
    Passes(orders[submissions[u].order].applicable, submissions[u].verified)

\* A decision is later than the order of its submission.
DecisionSound ==
  \A d \in DOMAIN decisions :
    LET u == decisions[d].submission IN
    /\ orders[submissions[u].order].at < d
    /\ decisions[d].kind = "approve" => submissions[u].passed

Completing(r) == job[r].pc # "idle" /\ job[r].order = 0

GateSound == \A r \in Runners : Completing(r) => Complete

CompletionSound ==
  \A c \in DOMAIN completions :
    Complete /\ Passes(TestFiles, completions[c].verified)

HistorySound == CarriedClosed /\ OrderSound /\ SubmissionSound /\ DecisionSound

IInv == TypeOK /\ HistorySound /\ GateSound /\ CompletionSound

-----------------------------------------------------------------------------
\* What happens to every record of the build: it is kept.
Kept ==
  /\ carried' = carried
  /\ Len(decisions) <= Len(decisions')
  /\ \A o \in DOMAIN orders : o \in DOMAIN orders' /\ orders'[o] = orders[o]
  /\ \A u \in DOMAIN submissions : u \in DOMAIN submissions' /\ submissions'[u] = submissions[u]
  /\ \A d \in DOMAIN decisions : d \in DOMAIN decisions' /\ decisions'[d] = decisions[d]

LEMMA ApprovedGrows ==
  \A m, n \in Nat : m <= n => ApprovedAt(m) \subseteq ApprovedAt(n)
BY DEF ApprovedAt

\* What was approved among the decisions so far is settled.
LEMMA ApprovedKept ==
  ASSUME TypeOK, Kept, NEW n \in 0..Len(decisions)
  PROVE  ApprovedAt(n)' = ApprovedAt(n)
<1>1. \A d \in 1..n : d \in DOMAIN decisions /\ decisions'[d] = decisions[d]
  BY DEF TypeOK, Kept
<1>2. \A d \in 1..n : SliceOf(decisions[d].submission)' = SliceOf(decisions[d].submission)
  BY <1>1 DEF TypeOK, Kept, SliceOf
<1> QED BY <1>1, <1>2 DEF ApprovedAt

LEMMA SatisfiedGrows ==
  ASSUME TypeOK, TypeOK', Kept
  PROVE  Satisfied \subseteq Satisfied'
<1>1. Len(decisions) \in Nat /\ Len(decisions') \in Nat /\ Len(decisions) <= Len(decisions')
  BY DEF TypeOK, Kept
<1>2. PICK n \in Nat : n = Len(decisions)
  BY <1>1
<1>3. ApprovedAt(n)' = ApprovedAt(n)
  BY <1>2, ApprovedKept
<1>4. ApprovedAt(n)' \subseteq ApprovedAt(Len(decisions))'
  BY <1>1, <1>2 DEF ApprovedAt
<1> QED BY <1>2, <1>3, <1>4 DEF Satisfied, Kept

LEMMA CompleteStays ==
  ASSUME TypeOK, TypeOK', Kept, Complete PROVE Complete'
BY SatisfiedGrows DEF Complete

\* The facts about the records so far are settled with them.
LEMMA OldOrders ==
  ASSUME TypeOK, Kept, OrderSound, NEW o \in DOMAIN orders
  PROVE  \E n \in 0..Len(decisions') : Froze(o, n)'
<1>1. PICK n \in 0..Len(decisions) : Froze(o, n)
  BY DEF OrderSound
<1>2. orders'[o] = orders[o] /\ carried' = carried
  BY DEF Kept
<1>3. ApprovedAt(n)' = ApprovedAt(n)
  BY ApprovedKept
<1>4. Froze(o, n)'
  BY <1>1, <1>2, <1>3 DEF Froze
<1>5. n \in 0..Len(decisions')
  BY DEF TypeOK, Kept
<1> QED BY <1>4, <1>5

LEMMA HistoryStays ==
  ASSUME HistorySound, UNCHANGED <<carried, orders, submissions, decisions>>
  PROVE  HistorySound'
<1>1. ASSUME NEW o, NEW n PROVE Froze(o, n)' <=> Froze(o, n)
  BY DEF Froze, ApprovedAt, SliceOf
<1>2. OrderSound'
  BY <1>1 DEF HistorySound, OrderSound
<1>3. CarriedClosed' /\ SubmissionSound' /\ DecisionSound'
  BY DEF HistorySound, CarriedClosed, SubmissionSound, DecisionSound, Passes
<1> QED BY <1>2, <1>3 DEF HistorySound

\* A step that issues no order, records nothing and completes nothing.
LEMMA QuietStep ==
  ASSUME IInv, TypeOK', UNCHANGED <<carried, orders, submissions, decisions, completions>>,
         \A r \in Runners : Completing(r)' => Completing(r) \/ Complete
  PROVE  IInv'
<1>1. HistorySound'
  BY HistoryStays DEF IInv
<1>2. Complete' <=> Complete
  BY DEF Complete, Satisfied, ApprovedAt, SliceOf
<1>3. GateSound'
  BY <1>2 DEF IInv, GateSound
<1>4. CompletionSound'
  BY <1>2 DEF IInv, CompletionSound, Passes
<1> QED BY <1>1, <1>3, <1>4 DEF IInv

\* A step of one runner that only moves its own job.
LEMMA JobStep ==
  ASSUME IInv, NEW r \in Runners, NEW new \in Job, job' = [job EXCEPT ![r] = new],
         new.order \in {0} \cup DOMAIN orders,
         new.pc # "idle" /\ new.order = 0 => Completing(r) \/ Complete,
         UNCHANGED <<carried, disk, head, edits, suiteApproved, orders, submissions,
                     decisions, completions>>
  PROVE  IInv'
<1>1. TypeOK'
  BY DEF IInv, TypeOK
<1>2. \A q \in Runners : Completing(q)' => Completing(q) \/ Complete
  BY DEF IInv, TypeOK, Completing
<1> QED BY <1>1, <1>2, QuietStep

LEMMA IdleIsJob == Idle \in Job /\ Idle.pc = "idle" /\ Idle.order = 0
BY DEF Idle, Job, Tree

-----------------------------------------------------------------------------
LEMMA InitSound == Init => IInv
<1> SUFFICES ASSUME Init PROVE IInv
  OBVIOUS
<1>1. carried \subseteq Slices /\ CarriedClosed
  BY DEF Init, CarriedClosed
<1>2. TypeOK
  BY <1>1, IdleIsJob DEF Init, TypeOK, Tree, Parts
<1>3. HistorySound /\ CompletionSound
  BY <1>1 DEF Init, HistorySound, OrderSound, SubmissionSound, DecisionSound, CompletionSound
<1>4. GateSound
  BY IdleIsJob DEF Init, GateSound, Completing
<1> QED BY <1>2, <1>3, <1>4 DEF IInv

\* An order freezes what is satisfied now.
LEMMA CreateWorkOrderStep == ASSUME IInv, CreateWorkOrder PROVE IInv'
<1>1. PICK s \in Slices :
        /\ Ready(s)
        /\ orders' = Append(orders, [slice |-> s, applicable |-> Applicable(s),
                                     at |-> Len(decisions)])
  BY DEF CreateWorkOrder
<1> DEFINE order == [slice |-> s, applicable |-> Applicable(s), at |-> Len(decisions)]
<1>2. UNCHANGED <<carried, disk, head, edits, suiteApproved, submissions, decisions,
                  completions, job>>
  BY DEF CreateWorkOrder
<1>3. orders \in Seq(WorkOrder) /\ Len(decisions) \in Nat
  BY DEF IInv, TypeOK
<1>4. order \in WorkOrder
  BY <1>3 DEF WorkOrder, Applicable
<1> HIDE DEF order
<1>5. /\ orders' \in Seq(WorkOrder)
      /\ DOMAIN orders' = DOMAIN orders \cup {Len(orders) + 1}
      /\ orders'[Len(orders) + 1] = order
      /\ \A o \in DOMAIN orders : orders'[o] = orders[o]
  BY <1>1, <1>3, <1>4 DEF order
<1>6. Kept
  BY <1>2, <1>3, <1>5 DEF Kept
<1>7. TypeOK'
  BY <1>2, <1>5 DEF IInv, TypeOK
<1>8. OrderSound'
  <2>1. PICK n \in Nat : n = Len(decisions)
    BY <1>3
  <2>2. ApprovedAt(n)' = ApprovedAt(n)
    BY <2>1, <1>6, ApprovedKept DEF IInv
  <2>3. /\ order.at = n /\ order.slice = s /\ s \notin carried
        /\ DependsOn[s] \subseteq carried \cup ApprovedAt(n)
        /\ order.applicable = {f \in TestFiles :
             Covers[f] \subseteq (carried \cup ApprovedAt(n)) \cup {s}}
    BY <1>1, <2>1 DEF order, Ready, Applicable, Satisfied
  <2>4. PICK o \in Nat : o = Len(orders) + 1
    BY <1>3
  <2>5. Froze(o, n)'
    BY <1>2, <1>5, <2>2, <2>3, <2>4 DEF Froze
  <2>6. \A p \in DOMAIN orders : \E m \in 0..Len(decisions') : Froze(p, m)'
    BY <1>6, OldOrders DEF IInv, HistorySound
  <2> QED BY <1>2, <1>5, <2>1, <2>4, <2>5, <2>6 DEF OrderSound
<1>9. CarriedClosed' /\ SubmissionSound' /\ DecisionSound'
  BY <1>2, <1>5 DEF IInv, TypeOK, HistorySound, CarriedClosed, SubmissionSound,
                    DecisionSound, Passes
<1>10. GateSound' /\ CompletionSound'
  BY <1>2, <1>6, <1>7, CompleteStays
     DEF IInv, GateSound, Completing, CompletionSound, Passes
<1> QED BY <1>7, <1>8, <1>9, <1>10 DEF IInv, HistorySound

\* A submission that passes ran the files of its order.
LEMMA RecordSubmissionStep ==
  ASSUME IInv, NEW r \in Runners, RecordSubmission(r) PROVE IInv'
<1> DEFINE o == job[r].order
           copy == job[r].copy
<1>1. PICK descends \in BOOLEAN :
        submissions' = Append(submissions,
          [order |-> o, verified |-> copy,
           passed |-> /\ descends
                      /\ AcceptanceTests \in copy
                      /\ Passes(orders[o].applicable, copy)])
  BY DEF RecordSubmission
<1> DEFINE passed == /\ descends
                     /\ AcceptanceTests \in copy
                     /\ Passes(orders[o].applicable, copy)
           new == [order |-> o, verified |-> copy, passed |-> passed]
<1>2. /\ job' = [job EXCEPT ![r] = Idle]
      /\ UNCHANGED <<carried, disk, head, edits, suiteApproved, orders, decisions, completions>>
  BY DEF RecordSubmission
<1>3. /\ submissions \in Seq(Submission) /\ copy \in Tree /\ o \in DOMAIN orders
      /\ Len(decisions) \in Nat /\ orders \in Seq(WorkOrder)
  BY DEF IInv, TypeOK, RecordSubmission, Job
<1>4. o \in Nat /\ passed \in BOOLEAN
  <2>1. o \in Nat
    BY <1>3
  <2>2. passed \in BOOLEAN
    OBVIOUS
  <2> QED BY <2>1, <2>2
<1>5. new \in Submission
  BY <1>3, <1>4 DEF Submission
<1> HIDE DEF new
<1>6. /\ submissions' \in Seq(Submission)
      /\ DOMAIN submissions' = DOMAIN submissions \cup {Len(submissions) + 1}
      /\ submissions'[Len(submissions) + 1] = new
      /\ \A u \in DOMAIN submissions : submissions'[u] = submissions[u]
  BY <1>1, <1>3, <1>5 DEF new
<1>7. new.order = o /\ new.verified = copy
      /\ (new.passed => Passes(orders[o].applicable, copy))
  BY DEF new
<1>8. Kept
  BY <1>2, <1>3, <1>6 DEF Kept
<1>9. TypeOK'
  <2>1. job' \in [Runners -> Job] /\ \A q \in Runners : job'[q].order \in {0} \cup DOMAIN orders
    BY <1>2, IdleIsJob DEF IInv, TypeOK
  <2>2. \A u \in DOMAIN submissions' : submissions'[u].order \in DOMAIN orders
    BY <1>3, <1>6, <1>7 DEF IInv, TypeOK
  <2> QED BY <1>2, <1>6, <2>1, <2>2 DEF IInv, TypeOK
<1>10. OrderSound'
  BY <1>2, <1>8, OldOrders DEF IInv, HistorySound, OrderSound
<1>11. SubmissionSound'
  BY <1>2, <1>6, <1>7 DEF IInv, HistorySound, SubmissionSound, Passes
<1>12. CarriedClosed' /\ DecisionSound'
  BY <1>2, <1>6 DEF IInv, TypeOK, HistorySound, CarriedClosed, DecisionSound
<1>13. GateSound' /\ CompletionSound'
  <2>1. \A q \in Runners : Completing(q)' => Completing(q)
    BY <1>2, IdleIsJob DEF IInv, TypeOK, Completing
  <2> QED BY <1>2, <1>8, <1>9, <2>1, CompleteStays
          DEF IInv, GateSound, CompletionSound, Passes
<1> QED BY <1>9, <1>10, <1>11, <1>12, <1>13 DEF IInv, HistorySound

\* A decision comes after everything its submission's order saw.
LEMMA DecisionStep == ASSUME IInv, RecordSubmissionDecision PROVE IInv'
<1>1. PICK u \in DOMAIN submissions, kind \in {"approve", "reject"} :
        /\ kind = "approve" => Approvable(u)
        /\ decisions' = Append(decisions, [submission |-> u, kind |-> kind])
  BY DEF RecordSubmissionDecision
<1> DEFINE new == [submission |-> u, kind |-> kind]
<1>2. UNCHANGED <<carried, disk, head, edits, suiteApproved, orders, submissions,
                  completions, job>>
  BY DEF RecordSubmissionDecision
<1>3. decisions \in Seq(Decision) /\ u \in Nat /\ submissions[u].order \in DOMAIN orders
  BY DEF IInv, TypeOK
<1>4. new \in Decision
  BY <1>3 DEF Decision
<1>5. /\ decisions' \in Seq(Decision)
      /\ Len(decisions') = Len(decisions) + 1
      /\ DOMAIN decisions' = DOMAIN decisions \cup {Len(decisions) + 1}
      /\ decisions'[Len(decisions) + 1] = new
      /\ \A d \in DOMAIN decisions : decisions'[d] = decisions[d]
  BY <1>1, <1>3, <1>4
<1>6. Kept
  BY <1>2, <1>3, <1>5 DEF Kept
<1>7. TypeOK'
  BY <1>2, <1>5 DEF IInv, TypeOK
<1>8. OrderSound'
  BY <1>2, <1>6, OldOrders DEF IInv, HistorySound, OrderSound
<1>9. DecisionSound'
  <2>1. orders[submissions[u].order].at < Len(decisions) + 1
    <3>1. PICK n \in 0..Len(decisions) : Froze(submissions[u].order, n)
      BY <1>3 DEF IInv, HistorySound, OrderSound
    <3> QED BY <3>1, <1>3 DEF Froze
  <2>2. kind = "approve" => submissions[u].passed
    BY <1>1 DEF Approvable
  <2> QED BY <1>2, <1>5, <2>1, <2>2 DEF IInv, HistorySound, DecisionSound
<1>10. CarriedClosed' /\ SubmissionSound'
  BY <1>2 DEF IInv, HistorySound, CarriedClosed, SubmissionSound, Passes
<1>11. GateSound' /\ CompletionSound'
  BY <1>2, <1>6, <1>7, CompleteStays
     DEF IInv, GateSound, Completing, CompletionSound, Passes
<1> QED BY <1>7, <1>8, <1>9, <1>10, <1>11 DEF IInv, HistorySound

\* A completion went through the gate, and the whole suite ran on its copy.
LEMMA RecordCompletionStep ==
  ASSUME IInv, NEW r \in Runners, RecordCompletion(r) PROVE IInv'
<1> DEFINE new == [commit |-> job[r].commit, digest |-> job[r].digest,
                   verified |-> job[r].copy]
<1>1. /\ Completing(r) /\ Passes(TestFiles, job[r].copy)
      /\ completions' = Append(completions, new)
      /\ job' = [job EXCEPT ![r] = Idle]
      /\ UNCHANGED <<carried, disk, head, edits, suiteApproved, orders, submissions, decisions>>
  BY DEF RecordCompletion, Completing, FullSuite
<1>2. completions \in Seq(Completion) /\ new \in Completion
  BY DEF IInv, TypeOK, Job, Completion
<1>3. /\ completions' \in Seq(Completion)
      /\ DOMAIN completions' = DOMAIN completions \cup {Len(completions) + 1}
      /\ completions'[Len(completions) + 1] = new
      /\ \A c \in DOMAIN completions : completions'[c] = completions[c]
  BY <1>1, <1>2
<1>4. job' \in [Runners -> Job] /\ \A q \in Runners : job'[q].order \in {0} \cup DOMAIN orders
  BY <1>1, IdleIsJob DEF IInv, TypeOK
<1>5. TypeOK'
  BY <1>1, <1>3, <1>4 DEF IInv, TypeOK
<1>6. Complete /\ (Complete' <=> Complete)
  BY <1>1 DEF IInv, GateSound, Complete, Satisfied, ApprovedAt, SliceOf
<1>7. HistorySound'
  BY <1>1, HistoryStays DEF IInv
<1>8. CompletionSound'
  BY <1>1, <1>3, <1>6 DEF IInv, CompletionSound, Passes
<1>9. GateSound'
  BY <1>6 DEF GateSound
<1> QED BY <1>5, <1>7, <1>8, <1>9 DEF IInv

-----------------------------------------------------------------------------
\* The steps of a verification before it records anything.
LEMMA WorkbenchStep ==
  ASSUME IInv, NEW r \in Runners, Workbench(r) PROVE IInv'
<1>1. job[r] \in Job /\ job \in [Runners -> Job] /\ job[r].order \in {0} \cup DOMAIN orders
  BY DEF IInv, TypeOK
<1>2. CASE SubmitSlice(r)
  <2>1. PICK o \in DOMAIN orders :
          job' = [job EXCEPT ![r] = [Idle EXCEPT !.pc = "copying", !.order = o, !.left = Parts]]
    BY <1>2 DEF SubmitSlice
  <2> DEFINE new == [Idle EXCEPT !.pc = "copying", !.order = o, !.left = Parts]
  <2>2. o \in Nat /\ o # 0
    BY DEF IInv, TypeOK
  <2>3. new \in Job /\ new.order = o
    BY <2>2 DEF Idle, Job, Tree
  <2> QED BY <1>2, <2>1, <2>2, <2>3, JobStep DEF SubmitSlice
<1>3. CASE CopyPart(r)
  <2>1. PICK p \in job[r].left :
          job' = [job EXCEPT ![r].left = @ \ {p}, ![r].copy = @ \cup ({p} \cap disk)]
    BY <1>3 DEF CopyPart
  <2> DEFINE new == [job[r] EXCEPT !.left = @ \ {p}, !.copy = @ \cup ({p} \cap disk)]
  <2>2. job' = [job EXCEPT ![r] = new]
    BY <1>1, <2>1
  <2>3. new \in Job /\ new.order = job[r].order /\ new.pc = job[r].pc
    BY <1>1 DEF Job, Tree, IInv, TypeOK
  <2> HIDE DEF new
  <2>4. new.pc # "idle" /\ new.order = 0 => Completing(r)
    BY <2>3 DEF Completing
  <2> QED BY <1>1, <1>3, <2>2, <2>3, <2>4, JobStep DEF CopyPart
<1>4. CASE RecordSubmission(r)
  BY <1>4, RecordSubmissionStep
<1>5. CASE BeginCompletion(r)
  <2> DEFINE new == [job[r] EXCEPT !.pc = "gated"]
  <2>1. job' = [job EXCEPT ![r] = new]
    BY <1>1, <1>5 DEF BeginCompletion
  <2>2. new \in Job /\ new.order = job[r].order
    BY <1>1 DEF Job
  <2> QED BY <1>1, <1>5, <2>1, <2>2, JobStep DEF BeginCompletion
<1>6. CASE CheckClean(r)
  <2> DEFINE new == [job[r] EXCEPT !.pc = "clean"]
  <2>1. job' = [job EXCEPT ![r] = new]
    BY <1>1, <1>6 DEF CheckClean
  <2>2. new \in Job /\ new.order = job[r].order
    BY <1>1 DEF Job
  <2> QED BY <1>1, <1>6, <2>1, <2>2, JobStep DEF CheckClean, Completing
<1>7. CASE ReadHead(r)
  <2> DEFINE new == [job[r] EXCEPT !.pc = "pinned", !.commit = head]
  <2>1. job' = [job EXCEPT ![r] = new]
    BY <1>1, <1>7 DEF ReadHead
  <2>2. new \in Job /\ new.order = job[r].order
    BY <1>1 DEF Job, IInv, TypeOK
  <2> QED BY <1>1, <1>7, <2>1, <2>2, JobStep DEF ReadHead, Completing
<1>8. CASE ComputeTreeDigest(r)
  <2> DEFINE new == [job[r] EXCEPT !.pc = "copying", !.digest = disk, !.left = Parts]
  <2>1. job' = [job EXCEPT ![r] = new]
    BY <1>1, <1>8 DEF ComputeTreeDigest
  <2>2. new \in Job /\ new.order = job[r].order
    BY <1>1 DEF Job, IInv, TypeOK
  <2> HIDE DEF new
  <2>3. new.pc # "idle" /\ new.order = 0 => Completing(r)
    BY <1>8, <2>2 DEF ComputeTreeDigest, Completing
  <2> QED BY <1>1, <1>8, <2>1, <2>2, <2>3, JobStep DEF ComputeTreeDigest
<1>9. CASE RecordCompletion(r)
  BY <1>9, RecordCompletionStep
<1>10. CASE Fail(r)
  BY <1>10, IdleIsJob, JobStep DEF Fail
<1> QED BY <1>2, <1>3, <1>4, <1>5, <1>6, <1>7, <1>8, <1>9, <1>10 DEF Workbench

LEMMA StepSound == IInv /\ [Next]_vars => IInv'
<1> SUFFICES ASSUME IInv, [Next]_vars PROVE IInv'
  OBVIOUS
<1>1. CASE Builder \/ MaterializeVisibleTests \/ DecideSuite \/ UNCHANGED vars
  <2>1. UNCHANGED <<carried, orders, submissions, decisions, completions, job>>
    BY <1>1 DEF Builder, Edit, Commit, MaterializeVisibleTests, DecideSuite, vars
  <2>2. disk' \in Tree /\ head' \in Tree /\ edits' \in Nat /\ suiteApproved' \in BOOLEAN
    <3>1. disk \in Tree /\ head \in Tree /\ edits \in Nat /\ suiteApproved \in BOOLEAN
      BY DEF IInv, TypeOK
    <3>2. CASE Builder
      BY <3>1, <3>2 DEF Builder, Edit, Commit
    <3>3. CASE MaterializeVisibleTests
      BY <3>1, <3>3 DEF MaterializeVisibleTests, Tree, Parts
    <3>4. CASE DecideSuite \/ UNCHANGED vars
      BY <3>1, <3>4 DEF DecideSuite, vars
    <3> QED BY <1>1, <3>2, <3>3, <3>4
  <2>3. TypeOK'
    BY <2>1, <2>2 DEF IInv, TypeOK
  <2> QED BY <2>1, <2>3, QuietStep DEF Completing
<1>2. CASE CreateWorkOrder
  BY <1>2, CreateWorkOrderStep
<1>3. CASE RecordSubmissionDecision
  BY <1>3, DecisionStep
<1>4. CASE \E r \in Runners : Workbench(r)
  BY <1>4, WorkbenchStep
<1> QED BY <1>1, <1>2, <1>3, <1>4 DEF Next

\* The inductive invariant: every order is sound with respect to what was
\* satisfied when it was issued, and every decision is later than its order.
THEOREM BuildSound == Spec => []IInv
<1> QED BY InitSound, StepSound, PTL DEF Spec

\* Every variable of the build holds a value of its kind.
THEOREM BuildTyped == Spec => []TypeOK
<1>1. IInv => TypeOK
  BY DEF IInv
<1> QED BY <1>1, BuildSound, PTL

-----------------------------------------------------------------------------
LEMMA DependenciesHold == IInv => DependenciesFirst
<1> SUFFICES ASSUME IInv, NEW d \in DOMAIN decisions, decisions[d].kind = "approve"
             PROVE  DependsOn[SliceOf(decisions[d].submission)]
                      \subseteq carried \cup ApprovedAt(d - 1)
  BY DEF DependenciesFirst
<1> DEFINE o == submissions[decisions[d].submission].order
<1>1. o \in DOMAIN orders /\ d \in Nat
  BY DEF IInv, TypeOK
<1>2. PICK n \in 0..Len(decisions) : Froze(o, n)
  BY <1>1 DEF IInv, HistorySound, OrderSound
<1>3. n < d
  BY <1>2 DEF IInv, HistorySound, DecisionSound, Froze
<1>4. n \in Nat /\ d - 1 \in Nat /\ n <= d - 1
  BY <1>1, <1>3
<1>5. ApprovedAt(n) \subseteq ApprovedAt(d - 1)
  BY <1>4, ApprovedGrows
<1> QED BY <1>2, <1>5 DEF Froze, SliceOf

\* What is satisfied has all it depends on satisfied too.
LEMMA SatisfiedIsClosed ==
  ASSUME IInv, NEW n \in 0..Len(decisions), NEW s \in carried \cup ApprovedAt(n)
  PROVE  DependsOn[s] \subseteq carried \cup ApprovedAt(n)
<1>1. CASE s \in carried
  BY <1>1 DEF IInv, HistorySound, CarriedClosed
<1>2. CASE s \in ApprovedAt(n)
  <2>1. PICK d \in 1..n : decisions[d].kind = "approve" /\ s = SliceOf(decisions[d].submission)
    BY <1>2 DEF ApprovedAt
  <2>2. d \in DOMAIN decisions /\ d - 1 \in Nat /\ d - 1 <= n
    BY DEF IInv, TypeOK
  <2>3. DependsOn[s] \subseteq carried \cup ApprovedAt(d - 1)
    BY <2>1, <2>2, DependenciesHold DEF DependenciesFirst
  <2> QED BY <2>2, <2>3, ApprovedGrows
<1> QED BY <1>1, <1>2

LEMMA ApprovedAreSlices ==
  ASSUME TypeOK, NEW n \in 0..Len(decisions) PROVE ApprovedAt(n) \subseteq Slices
<1> SUFFICES ASSUME NEW d \in 1..n PROVE SliceOf(decisions[d].submission) \in Slices
  BY DEF ApprovedAt
<1> DEFINE u == decisions[d].submission
<1>1. u \in DOMAIN submissions
  BY DEF TypeOK
<1>2. orders[submissions[u].order] \in WorkOrder
  BY <1>1 DEF TypeOK
<1> QED BY <1>2 DEF SliceOf, WorkOrder

LEMMA RegressionsCaught ==
  ASSUME IInv, Focused PROVE NoRegression
<1> SUFFICES ASSUME NEW u \in DOMAIN submissions, submissions[u].passed
             PROVE  LET order == orders[submissions[u].order] IN
                    carried \cup ApprovedAt(order.at) \cup {order.slice}
                      \subseteq submissions[u].verified
  BY DEF NoRegression
<1> DEFINE order == orders[submissions[u].order]
<1>0. submissions[u].order \in DOMAIN orders /\ order \in WorkOrder
  BY DEF IInv, TypeOK
<1>1. PICK n \in 0..Len(decisions) : Froze(submissions[u].order, n)
  BY <1>0 DEF IInv, HistorySound, OrderSound
<1> DEFINE before == carried \cup ApprovedAt(n)
<1>2. before \subseteq Slices
  BY ApprovedAreSlices DEF IInv, TypeOK
<1>3. SUFFICES ASSUME NEW s \in before \cup {order.slice}
               PROVE  s \in submissions[u].verified
  BY <1>1 DEF Froze
<1>4. s \in Slices /\ DependsOn[s] \subseteq before
  BY <1>0, <1>1, <1>2, <1>3, SatisfiedIsClosed DEF WorkOrder, Froze
<1>5. PICK f \in TestFiles : s \in Covers[f] /\ Covers[f] \subseteq {s} \cup DependsOn[s]
  BY <1>4 DEF Focused
<1>6. f \in order.applicable
  BY <1>1, <1>3, <1>4, <1>5 DEF Froze
<1> QED BY <1>5, <1>6 DEF IInv, HistorySound, SubmissionSound, Passes

LEMMA CompletionsWork ==
  ASSUME IInv, Focused PROVE CompletionWorks
<1> SUFFICES ASSUME NEW c \in DOMAIN completions
             PROVE  /\ Slices \subseteq completions[c].verified
                    /\ \A s \in Slices \ carried :
                         \E d \in DOMAIN decisions :
                           /\ decisions[d].kind = "approve"
                           /\ SliceOf(decisions[d].submission) = s
                           /\ s \in submissions[decisions[d].submission].verified
  BY DEF CompletionWorks
<1>1. Slices \subseteq completions[c].verified
  BY DEF Focused, IInv, CompletionSound, Passes
<1>2. ASSUME NEW s \in Slices \ carried
      PROVE  \E d \in DOMAIN decisions :
               /\ decisions[d].kind = "approve"
               /\ SliceOf(decisions[d].submission) = s
               /\ s \in submissions[decisions[d].submission].verified
  <2>1. s \in ApprovedAt(Len(decisions))
    BY <1>2 DEF IInv, CompletionSound, Complete, Satisfied
  <2>2. PICK d \in DOMAIN decisions :
          decisions[d].kind = "approve" /\ SliceOf(decisions[d].submission) = s
    BY <2>1 DEF ApprovedAt, IInv, TypeOK
  <2>3. decisions[d].submission \in DOMAIN submissions
        /\ submissions[decisions[d].submission].passed
    BY <2>2 DEF IInv, TypeOK, HistorySound, DecisionSound
  <2> QED BY <2>2, <2>3, RegressionsCaught DEF NoRegression, SliceOf
<1> QED BY <1>1, <1>2

\* No slice is approved before what it depends on is carried or approved.
THEOREM DependenciesComeFirst == Spec => []DependenciesFirst
<1> QED BY DependenciesHold, BuildSound, PTL

\* When every slice has a test file of its own, a submission that passed was
\* verified on a tree in which everything carried or approved before its order
\* works, and so does its slice.
THEOREM ProgressHasNoRegression ==
  ASSUME Focused PROVE Spec => []NoRegression
<1>1. IInv => NoRegression
  BY RegressionsCaught
<1> QED BY <1>1, BuildSound, PTL

\* When every slice has a test file of its own, a completion verified a tree in
\* which every slice works.
THEOREM CompletionIsWorking ==
  ASSUME Focused PROVE Spec => []CompletionWorks
<1>1. IInv => CompletionWorks
  BY CompletionsWork
<1> QED BY <1>1, BuildSound, PTL

-----------------------------------------------------------------------------
\* No slices wait for each other.
Acyclic == \A S \in SUBSET Slices : S # {} => \E s \in S : DependsOn[s] \cap S = {}

LEMMA HasNewest ==
  ASSUME NEW n \in Nat, NEW S \in SUBSET (1..n), S # {}
  PROVE  \E m \in S : IsNewest(m, S)
<1> DEFINE Distances == {i \in Nat : \E m \in S : i = n - m}
<1>1. \A m \in S : m \in 1..n /\ n - m \in Distances
  OBVIOUS
<1>2. PICK x \in Distances : \A y \in Distances : ~ (<<y, x>> \in OpToRel(<, Nat))
  BY <1>1, NatLessThanWellFounded, WFMin
<1>3. \A y \in Distances : ~ (y < x)
  BY <1>2 DEF OpToRel
<1>4. PICK m \in S : x = n - m
  OBVIOUS
<1>5. ASSUME NEW k \in S PROVE k <= m
  <2>1. n - k \in Distances /\ ~ (n - k < x)
    BY <1>1, <1>3
  <2>2. k \in 1..n /\ m \in 1..n
    BY <1>1
  <2> QED BY <1>4, <2>1, <2>2
<1> QED BY <1>5 DEF IsNewest

\* The pages and the services agree on what is satisfied.
LEMMA ShownSatisfied ==
  ASSUME TypeOK, NEW s \in Slices
  PROVE  SliceStatus(s) \in {"approved", "carried"} <=> s \in Satisfied
<1>1. DOMAIN decisions = 1..Len(decisions)
  BY DEF TypeOK
<1>2. s \in ApprovedAt(Len(decisions))
        <=> \E d \in DecisionsOn(s) : decisions[d].kind = "approve"
  BY <1>1 DEF ApprovedAt, DecisionsOn
<1> QED BY <1>2 DEF SliceStatus, Undecided, Satisfied

\* A slice that is shown as ordered has an open order.
LEMMA OrderedIsOffered ==
  ASSUME TypeOK, suiteApproved, NEW s \in Slices, SliceStatus(s) = "ordered"
  PROVE  \E o \in OpenOrders : orders[o].slice = s
<1>1. OrdersFor(s) # {} /\ DecisionsOn(s) = {}
  BY DEF SliceStatus, Undecided
<1>2. OrdersFor(s) \in SUBSET (1..Len(orders)) /\ Len(orders) \in Nat
  BY DEF TypeOK, OrdersFor
<1>3. PICK o \in OrdersFor(s) : IsNewest(o, OrdersFor(s))
  BY <1>1, <1>2, HasNewest
<1>4. o \in DOMAIN orders /\ orders[o].slice = s
  BY DEF OrdersFor
<1>5. s \notin ApprovedAt(Len(decisions))
  BY <1>1 DEF ApprovedAt, DecisionsOn, TypeOK
<1> QED BY <1>3, <1>4, <1>5 DEF OpenOrders

\* The banner names a step that its actor can take.
LEMMA BannerHolds ==
  ASSUME Acyclic, IInv PROVE BuildBannerLeadsOn
<1> USE DEF IInv
<1> SUFFICES ASSUME suiteApproved
             PROVE  LET step == NextBuildStep IN
                    /\ step.kind = "decide" =>
                         \A s \in step.slices : \E u \in SubmissionsOf(s) :
                           \A d \in DOMAIN decisions : decisions[d].submission # u
                    /\ step.kind = "wait" =>
                         \A s \in step.slices : \E o \in OpenOrders : orders[o].slice = s
                    /\ step.kind = "issue" =>
                         step.slices # {} /\ \A s \in step.slices : Ready(s)
                    /\ step.kind = "complete" => Complete
                    /\ step.kind = "done" => OpenOrders = {}
  BY DEF BuildBannerLeadsOn
<1> DEFINE Showing(statuses) == {s \in Slices : SliceStatus(s) \in statuses}
           submitted == Showing({"submitted-passed", "submitted-failed"})
           ordered   == Showing({"ordered"})
           satisfied == Showing({"approved", "carried"})
<1>1. satisfied = Slices \cap Satisfied
  BY ShownSatisfied
<1>2. \/ /\ submitted # {} /\ NextBuildStep = [kind |-> "decide", slices |-> submitted]
      \/ NextBuildStep = [kind |-> "wait", slices |-> ordered]
      \/ satisfied # Slices /\ NextBuildStep = [kind |-> "issue", slices |-> NextSlices]
      \/ satisfied = Slices /\ NextBuildStep = [kind |-> "complete", slices |-> {}]
      \/ satisfied = Slices /\ NextBuildStep = [kind |-> "done", slices |-> {}]
  BY DEF NextBuildStep
<1>3. CASE submitted # {} /\ NextBuildStep = [kind |-> "decide", slices |-> submitted]
  <2>1. ASSUME NEW s \in submitted
        PROVE  \E u \in SubmissionsOf(s) :
                 \A d \in DOMAIN decisions : decisions[d].submission # u
    <3>1. DecisionsOn(s) = {} /\ SubmissionsOf(s) # {}
      BY DEF SliceStatus, Undecided
    <3>2. PICK u \in SubmissionsOf(s) : TRUE
      BY <3>1
    <3> QED BY <3>1, <3>2 DEF DecisionsOn, SubmissionsOf
  <2> QED BY <1>3, <2>1
<1>4. CASE NextBuildStep = [kind |-> "wait", slices |-> ordered]
  BY <1>4, OrderedIsOffered
<1>5. CASE satisfied # Slices /\ NextBuildStep = [kind |-> "issue", slices |-> NextSlices]
  <2>1. PICK s \in Slices \ Satisfied : DependsOn[s] \cap (Slices \ Satisfied) = {}
    BY <1>1, <1>5 DEF Acyclic
  <2>2. s \in NextSlices
    BY <2>1, PlanAssumption DEF NextSlices
  <2>3. \A n \in NextSlices : Ready(n)
    BY DEF NextSlices, Ready, Satisfied
  <2> QED BY <1>5, <2>2, <2>3
<1>6. CASE satisfied = Slices /\ NextBuildStep = [kind |-> "complete", slices |-> {}]
  BY <1>1, <1>6 DEF Complete
<1>7. CASE satisfied = Slices /\ NextBuildStep = [kind |-> "done", slices |-> {}]
  <2>1. OpenOrders = {}
    <3> SUFFICES ASSUME NEW o \in OpenOrders PROVE FALSE
      OBVIOUS
    <3>1. o \in DOMAIN orders /\ orders[o].slice \in Slices
      <4>1. o \in DOMAIN orders
        BY DEF OpenOrders
      <4>2. orders[o] \in WorkOrder
        BY <4>1 DEF TypeOK
      <4> QED BY <4>1, <4>2 DEF WorkOrder
    <3>2. orders[o].slice \notin carried
      BY <3>1 DEF HistorySound, OrderSound, Froze
    <3>3. orders[o].slice \notin ApprovedAt(Len(decisions))
      BY DEF OpenOrders
    <3> QED BY <1>1, <1>7, <3>1, <3>2, <3>3 DEF Satisfied
  <2> QED BY <1>7, <2>1
<1> QED BY <1>2, <1>3, <1>4, <1>5, <1>6, <1>7

\* If no slices wait for each other, the step that the banner names in a build
\* can be taken by whom it names.
THEOREM BuildBannerCanBeFollowed ==
  ASSUME Acyclic PROVE Spec => []BuildBannerLeadsOn
<1>1. IInv => BuildBannerLeadsOn
  BY BannerHolds
<1> QED BY <1>1, BuildSound, PTL
=============================================================================
