----------------------------- MODULE GovernedBuild -----------------------------
(***************************************************************************)
(* The build of one approved test suite: the Workbench issues work orders  *)
(* for the slices of the plan, an external builder edits and commits the   *)
(* project, submissions are verified on a copy of the working tree, the    *)
(* operator decides on them, and a completion verifies the whole suite and *)
(* pins the commit.  The builder is another process and never stops: it    *)
(* edits while the Workbench copies the tree.                              *)
(*                                                                         *)
(*   submission:  idle --> copying --> idle                                *)
(*   completion:  idle --> gated --> clean --> pinned --> copying --> idle *)
(*                                                                         *)
(* A working tree is the set of its parts that are in order: the slices    *)
(* whose implementation works, and the acceptance tests if they are the    *)
(* visible files of the suite.  A test file passes on a tree that has all  *)
(* the slices it covers.                                                   *)
(***************************************************************************)
EXTENDS Naturals, SequencesExt, FiniteSets

CONSTANTS
  Slices,           \* slices of the plan
  DependsOn,        \* DependsOn[s]: the slices s depends on
  TestFiles,        \* test files of the suite
  Covers,           \* Covers[f]: the slices whose criteria file f covers
  AcceptanceTests,  \* the part of a tree that holds the visible test files
  Runners,          \* verifications that may be in flight together
  MaxEdits,         \* bound: changes of the working tree
  MaxOrders,        \* bound: work orders
  MaxSubmissions,   \* bound: submissions
  MaxDecisions,     \* bound: decisions on submissions
  MaxCompletions    \* bound: completions

\* The plan schema rejects unknown dependencies and a slice that depends on
\* itself, and nothing more.
ASSUME PlanAssumption ==
  /\ DependsOn \in [Slices -> SUBSET Slices]
  /\ \A s \in Slices : s \notin DependsOn[s]
ASSUME SuiteAssumption ==
  /\ Covers \in [TestFiles -> SUBSET Slices]
  /\ AcceptanceTests \notin Slices

VARIABLES
  carried,       \* slices built by the generation the plan evolves from
  disk,          \* the working tree of the project
  head,          \* the tree that HEAD commits
  edits,         \* how often the working tree changed
  suiteApproved, \* the latest decision on the suite approves it
  orders,        \* work orders issued
  submissions,   \* submissions recorded
  decisions,     \* decisions on submissions, oldest first
  completions,   \* completions recorded
  job            \* the verification each runner has in flight

vars == <<carried, disk, head, edits, suiteApproved, orders, submissions, decisions,
          completions, job>>

-----------------------------------------------------------------------------
Parts == Slices \cup {AcceptanceTests}
Tree  == SUBSET Parts

\* at: how many decisions had been taken when the order was issued.
WorkOrder  == [slice : Slices, applicable : SUBSET TestFiles, at : Nat]
Submission == [order : Nat, verified : Tree, passed : BOOLEAN]
Decision   == [submission : Nat, kind : {"approve", "reject"}]
Completion == [commit : Tree, digest : Tree, verified : Tree]

\* order: 0 for a completion.  left: parts still to be copied; copy: the parts
\* in order of what was copied.
Job == [pc : {"idle", "gated", "clean", "pinned", "copying"}, order : Nat,
        left : SUBSET Parts, copy : Tree,
        commit : Tree, digest : Tree]

Idle == [pc |-> "idle", order |-> 0, left |-> {}, copy |-> {},
         commit |-> {}, digest |-> {}]

-----------------------------------------------------------------------------
SliceOf(u) == orders[submissions[u].order].slice

\* Slices with an approving decision among the first n.
ApprovedAt(n) == {SliceOf(decisions[d].submission) :
                    d \in {e \in 1..n : decisions[e].kind = "approve"}}

\* Slices that satisfy a dependency: approved ones, whatever was decided on them
\* afterwards, and carried ones.
Satisfied == ApprovedAt(Len(decisions)) \cup carried

\* Mutation of Ready, in no specification: dependencies are not looked at.
ReadyAlways(s) == s \notin carried

\* Slice s may receive a work order.
Ready(s) == s \notin carried /\ DependsOn[s] \subseteq Satisfied

\* Mutation of Applicable, in no specification: only the slice's own files.
ApplicableOwn(s) == {f \in TestFiles : Covers[f] \subseteq {s}}

\* The test files whose criteria are all due: verified by s or a satisfied slice.
Applicable(s) == {f \in TestFiles : Covers[f] \subseteq Satisfied \cup {s}}

\* All these files pass on this tree.
Passes(files, tree) == \A f \in files : Covers[f] \subseteq tree

\* Mutation of Approvable, in no specification: any submission may be approved.
ApprovableAny(u) == u \in DOMAIN submissions

\* A submission may be approved: its verification passed.
Approvable(u) == submissions[u].passed

\* The gate of a completion: every slice is approved or carried.
Complete == Slices \subseteq Satisfied

-----------------------------------------------------------------------------
Init ==
  /\ carried \in {built \in SUBSET Slices : \A s \in built : DependsOn[s] \subseteq built}
  /\ disk = carried /\ head = carried /\ edits = 0
  /\ suiteApproved = TRUE
  /\ orders = <<>> /\ submissions = <<>> /\ decisions = <<>> /\ completions = <<>>
  /\ job = [r \in Runners |-> Idle]

\* The builder changes the working tree.
Edit ==
  /\ edits < MaxEdits /\ edits' = edits + 1
  /\ disk' \in Tree \ {disk}
  /\ UNCHANGED <<carried, head, suiteApproved, orders, submissions, decisions,
                 completions, job>>

\* The visible tests are written into the working tree, retired ones removed.
MaterializeVisibleTests ==
  /\ orders # <<>> /\ AcceptanceTests \notin disk
  /\ edits < MaxEdits /\ edits' = edits + 1
  /\ disk' = disk \cup {AcceptanceTests}
  /\ UNCHANGED <<carried, head, suiteApproved, orders, submissions, decisions,
                 completions, job>>

Commit ==
  /\ head' = disk
  /\ UNCHANGED <<carried, disk, edits, suiteApproved, orders, submissions, decisions,
                 completions, job>>

\* The operator approves the suite or takes the approval back.
DecideSuite ==
  /\ suiteApproved' = ~suiteApproved
  /\ UNCHANGED <<carried, disk, head, edits, orders, submissions, decisions, completions, job>>

CreateWorkOrder ==
  /\ suiteApproved
  /\ Len(orders) < MaxOrders
  /\ \E s \in Slices :
       /\ Ready(s)
       /\ orders' = Append(orders, [slice |-> s, applicable |-> Applicable(s),
                                    at |-> Len(decisions)])
  /\ UNCHANGED <<carried, disk, head, edits, suiteApproved, submissions, decisions,
                 completions, job>>

\* submitSlice loads the work order and begins to copy the working tree.
SubmitSlice(r) ==
  /\ job[r].pc = "idle"
  /\ \E o \in DOMAIN orders :
       job' = [job EXCEPT ![r] = [Idle EXCEPT !.pc = "copying", !.order = o,
                                              !.left = Parts]]
  /\ UNCHANGED <<carried, disk, head, edits, suiteApproved, orders, submissions, decisions,
                 completions>>

\* One part of the working tree is copied, as it is on disk by now.
CopyPart(r) ==
  /\ job[r].pc = "copying"
  /\ \E p \in job[r].left :
       job' = [job EXCEPT ![r].left = @ \ {p},
                          ![r].copy = @ \cup ({p} \cap disk)]
  /\ UNCHANGED <<carried, disk, head, edits, suiteApproved, orders, submissions, decisions,
                 completions>>

\* The copy is checked, the applicable files run on it, the outcome is recorded.
\* descends: HEAD, checked before the copy, descends from the baseline that an
\* order of an evolved plan pins.
RecordSubmission(r) ==
  /\ job[r].pc = "copying" /\ job[r].left = {} /\ job[r].order # 0
  /\ Len(submissions) < MaxSubmissions
  /\ LET order == orders[job[r].order]
         copy == job[r].copy IN
     \E descends \in BOOLEAN :
       /\ carried = {} => descends
       /\ submissions' = Append(submissions,
            [order |-> job[r].order, verified |-> copy,
             passed |-> /\ descends
                        /\ AcceptanceTests \in copy
                        /\ Passes(order.applicable, copy)])
  /\ job' = [job EXCEPT ![r] = Idle]
  /\ UNCHANGED <<carried, disk, head, edits, suiteApproved, orders, decisions, completions>>

RecordSubmissionDecision ==
  /\ Len(decisions) < MaxDecisions
  /\ \E u \in DOMAIN submissions, kind \in {"approve", "reject"} :
       /\ kind = "approve" => Approvable(u)
       /\ decisions' = Append(decisions, [submission |-> u, kind |-> kind])
  /\ UNCHANGED <<carried, disk, head, edits, suiteApproved, orders, submissions, completions, job>>

\* recordCompletion reads the decisions, then asks git whether the tree is
\* clean, then pins the commit and digests the tree, then copies the tree.
BeginCompletion(r) ==
  /\ job[r].pc = "idle"
  /\ suiteApproved /\ Complete
  /\ job' = [job EXCEPT ![r].pc = "gated"]
  /\ UNCHANGED <<carried, disk, head, edits, suiteApproved, orders, submissions, decisions,
                 completions>>

CheckClean(r) ==
  /\ job[r].pc = "gated"
  /\ disk = head
  /\ job' = [job EXCEPT ![r].pc = "clean"]
  /\ UNCHANGED <<carried, disk, head, edits, suiteApproved, orders, submissions, decisions,
                 completions>>

ReadHead(r) ==
  /\ job[r].pc = "clean"
  /\ job' = [job EXCEPT ![r].pc = "pinned", ![r].commit = head]
  /\ UNCHANGED <<carried, disk, head, edits, suiteApproved, orders, submissions, decisions,
                 completions>>

\* The walk over the files that computes the digest is taken as one step.
ComputeTreeDigest(r) ==
  /\ job[r].pc = "pinned"
  /\ job' = [job EXCEPT ![r].pc = "copying", ![r].digest = disk,
                        ![r].left = Parts]
  /\ UNCHANGED <<carried, disk, head, edits, suiteApproved, orders, submissions, decisions,
                 completions>>

\* The files a completion runs.
FullSuite == TestFiles

\* The copy is checked and the whole suite is green on it.
RecordCompletion(r) ==
  /\ job[r].pc = "copying" /\ job[r].left = {} /\ job[r].order = 0
  /\ AcceptanceTests \in job[r].copy /\ Passes(FullSuite, job[r].copy)
  /\ Len(completions) < MaxCompletions
  /\ completions' = Append(completions,
       [commit |-> job[r].commit, digest |-> job[r].digest,
        verified |-> job[r].copy])
  /\ job' = [job EXCEPT ![r] = Idle]
  /\ UNCHANGED <<carried, disk, head, edits, suiteApproved, orders, submissions, decisions>>

\* A gate or the suite refuses, git or the disk fails, or the process dies:
\* nothing is recorded and the copy is dropped.
Fail(r) ==
  /\ job[r].pc # "idle"
  /\ job' = [job EXCEPT ![r] = Idle]
  /\ UNCHANGED <<carried, disk, head, edits, suiteApproved, orders, submissions, decisions,
                 completions>>

Builder == Edit \/ Commit
Workbench(r) ==
  \/ SubmitSlice(r) \/ CopyPart(r) \/ RecordSubmission(r)
  \/ BeginCompletion(r) \/ CheckClean(r) \/ ReadHead(r) \/ ComputeTreeDigest(r)
  \/ RecordCompletion(r) \/ Fail(r)

Next ==
  \/ Builder \/ MaterializeVisibleTests
  \/ DecideSuite \/ CreateWorkOrder \/ RecordSubmissionDecision
  \/ \E r \in Runners : Workbench(r)

Spec == Init /\ [][Next]_vars

-----------------------------------------------------------------------------
\* Every variable holds a value of its kind, and ids lead to what was recorded.
TypeOK ==
  /\ carried \subseteq Slices
  /\ disk \in Tree /\ head \in Tree /\ edits \in Nat
  /\ suiteApproved \in BOOLEAN
  /\ orders \in Seq(WorkOrder)
  /\ submissions \in Seq(Submission)
  /\ decisions \in Seq(Decision)
  /\ completions \in Seq(Completion)
  /\ job \in [Runners -> Job]
  /\ \A r \in Runners : job[r].order \in {0} \cup DOMAIN orders
  /\ \A u \in DOMAIN submissions : submissions[u].order \in DOMAIN orders
  /\ \A d \in DOMAIN decisions : decisions[d].submission \in DOMAIN submissions

\* Slices are built in the order of their dependencies: whenever a slice is
\* approved, what it depends on was carried or approved before, although work
\* orders, submissions and decisions of different slices interleave.
DependenciesFirst ==
  \A d \in DOMAIN decisions : decisions[d].kind = "approve" =>
    DependsOn[SliceOf(decisions[d].submission)]
      \subseteq carried \cup ApprovedAt(d - 1)

\* Progress is not paid for with regressions: a submission that passed was
\* verified on a tree in which every slice works that was carried, or approved
\* before its order was issued, and so does its own slice.
NoRegression ==
  \A u \in DOMAIN submissions : submissions[u].passed =>
    LET order == orders[submissions[u].order] IN
    carried \cup ApprovedAt(order.at) \cup {order.slice} \subseteq submissions[u].verified

\* A completion says that the whole project works: in the tree it verified every
\* slice works, and each one that is not carried was seen working by itself in a
\* submission that the operator approved.
CompletionWorks ==
  \A c \in DOMAIN completions :
    /\ Slices \subseteq completions[c].verified
    /\ \A s \in Slices \ carried :
         \E d \in DOMAIN decisions :
           /\ decisions[d].kind = "approve"
           /\ SliceOf(decisions[d].submission) = s
           /\ s \in submissions[decisions[d].submission].verified

=============================================================================
