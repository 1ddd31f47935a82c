---------------------------- MODULE BuilderChannel ----------------------------
(***************************************************************************)
(* The workspace of the external builder and its channel to the Workbench, *)
(* over the generations of a project.  The operator prepares the workspace *)
(* with the visible acceptance tests, the guardrails and the instructions; *)
(* from there the builder lists its orders, refreshes the tests, submits,  *)
(* and speaks to the operator.  The same workspace serves all generations. *)
(*                                                                         *)
(* The slices a generation adds are ordered, submitted and approved as     *)
(* one: how they interleave is GovernedBuild.  The builder works on the    *)
(* order it is offered and leaves the acceptance tests alone, as its       *)
(* instructions say.  The operator has one suite of a generation approved  *)
(* at a time: to have another, it asks for a revision.                     *)
(***************************************************************************)
EXTENDS Evolution

CONSTANTS
  Revisable,     \* bound: generations whose approved suite may be revised
  MaxRevisions,  \* bound: revisions of a suite
  MaxWords       \* bound: notes and questions of the builder

VARIABLES
  revisions,  \* revisions[g]: how often the approved suite of g was revised
  inForce,    \* the suites whose latest decision approves them
  orders,     \* the suites that work orders were issued for
  submitted,  \* those with a submission that passed
  approved,   \* those whose slices the operator approved
  words,      \* the notes and questions of the builder, oldest first
  guarded,    \* the isolation settings and the root pin are in place
  workspace,  \* the acceptance tests on disk: the body at each path
  told,       \* history: the test paths the builder was told by name
  named,      \* history: the suites of which it was told paths
  begun,      \* history: the suites of which files were written to the workspace
  written     \* history: those that were written as a whole

records == <<revisions, inForce, orders, submitted, approved, words>>
project == <<guarded, workspace, told, named, begun, written>>

-----------------------------------------------------------------------------
\* A suite by its generation and how many revisions came before it.
Suites == (1..MaxGenerations) \X (0..MaxRevisions)

Word == [suite : Suites, question : BOOLEAN, answered : BOOLEAN]

\* The suite of the current generation.
Current == <<Len(suites), revisions[Len(suites)]>>
Content == suites[Len(suites)]

\* There is an order for it.
Ordered == orders # {} /\ Current \in orders

\* It is approved, and its generation is open.
InWork == completed < Len(suites) /\ Current \in inForce

\* The slices the generation adds; the first one adds all.
NewSlices == IF Len(suites) = 1 THEN DOMAIN plans[1].slices
             ELSE Delta(plans[Len(suites)], plans[Len(suites) - 1])

VisibleTests(suite) ==
  [p \in DOMAIN suite \ Holdouts(suite) |-> suite[p].body]

\* Mutation of Retired, in no specification: nothing is recorded as retired.
RetiredNone == {}

\* The paths of the completed suite that its successor has no longer.
Retired == IF Len(suites) = 1 THEN {}
           ELSE DOMAIN suites[Len(suites) - 1] \ DOMAIN Content

\* The files on disk after the visible tests at these paths are written over
\* them, and then some are removed.
Rewritten(paths, removed) ==
  [p \in (DOMAIN workspace \cup paths) \ removed |->
     IF p \in paths THEN VisibleTests(Content)[p] ELSE workspace[p]]

\* Mutation of Redacted, in no specification: a path is named whatever it is.
RedactedNothing(paths) == paths

\* What the channel names of these paths; holdouts it counts or numbers.
Redacted(paths) == paths \ Holdouts(Content)

\* Mutation of OpenOrders, in no specification: what became of the suite since
\* is not looked at.
OpenOrdersOfAll == orders \ approved

\* The orders the builder is offered: those of suites in force without approval.
OpenOrders == (orders \cap inForce) \ approved

\* The visible tests are on disk as they are in the suite, and no holdout is.
TestsInPlace ==
  /\ \A p \in DOMAIN VisibleTests(Content) :
       p \in DOMAIN workspace /\ workspace[p] = VisibleTests(Content)[p]
  /\ DOMAIN workspace \cap Holdouts(Content) = {}

\* The scope check of a submission; that of a completion is TestsInPlace only.
InScope == TestsInPlace /\ DOMAIN workspace \subseteq DOMAIN Content

\* a is an earlier suite than b.
Before(a, b) == a[1] < b[1] \/ (a[1] = b[1] /\ a[2] < b[2])

\* The suite whose build the page shows: the newest one in force.
Anchor == {s \in inForce : \A t \in inForce : ~Before(s, t)}

\* The notes and questions the page shows, by their number.
WordsShown == {w \in DOMAIN words : words[w].suite \in Anchor}

-----------------------------------------------------------------------------
ChannelInit ==
  /\ Init
  /\ revisions = [g \in 1..MaxGenerations |-> 0]
  /\ inForce = {} /\ orders = {} /\ submitted = {} /\ approved = {}
  /\ words = <<>>
  /\ guarded = FALSE
  /\ workspace = [p \in {} |-> p]
  /\ told = {} /\ named = {} /\ begun = {} /\ written = {}

\* The operator signs a brief or a plan, as before.
Sign ==
  /\ ApproveBrief \/ CreatePlan
  /\ UNCHANGED <<records, project>>

\* A suite is designed and approved.
ApproveSuite ==
  /\ CreateFirstSuite \/ CreateSuccessorSuite
  /\ inForce' = inForce \cup {<<Len(suites'), 0>>}
  /\ UNCHANGED <<revisions, orders, submitted, approved, words, project>>

\* The operator takes an approved suite back and asks for a revision of it.
RequestRevision ==
  /\ InWork
  /\ Len(suites) \in Revisable /\ revisions[Len(suites)] < MaxRevisions
  /\ inForce' = inForce \ {Current}
  /\ UNCHANGED <<vars, revisions, orders, submitted, approved, words, project>>

\* The revised suite is held against the completed one, not against the one it
\* revises, and approved.
ApproveRevision ==
  /\ completed < Len(suites) /\ Current \notin inForce
  /\ LET g == Len(suites)
         brief == briefs[g] IN
     \E emitted \in Suite :
       LET full  == IF g = 1 THEN emitted ELSE Merged(emitted, suites[g - 1], brief)
           suite == Reconciled(full, brief) IN
       /\ CoversSomething(full, brief)
       /\ CoversVisibly(suite, plans[g], brief)
       /\ g > 1 => Succeeds(suite, suites[g - 1], briefs[g - 1], brief)
       /\ suites' = [suites EXCEPT ![g] = suite]
       /\ revisions' = [revisions EXCEPT ![g] = @ + 1]
       /\ inForce' = inForce \cup {<<g, revisions[g] + 1>>}
  /\ UNCHANGED <<briefs, plans, completed, orders, submitted, approved, words, project>>

\* The operator issues the orders for the slices the generation adds.
CreateWorkOrder ==
  /\ InWork /\ NewSlices # {} /\ Current \notin orders
  /\ orders' = orders \cup {Current}
  /\ UNCHANGED <<vars, revisions, inForce, submitted, approved, words, project>>

\* The operator approves what passed, also when the suite is under revision.
ApproveSubmission ==
  /\ completed < Len(suites)
  /\ Current \in submitted \ approved
  /\ approved' = approved \cup {Current}
  /\ UNCHANGED <<vars, revisions, inForce, orders, submitted, words, project>>

\* Every slice is carried or approved.
SlicesDone == NewSlices = {} \/ Current \in approved

\* The generation is closed, on a suite that is in force.
Complete ==
  /\ RecordCompletion
  /\ Current \in inForce /\ SlicesDone /\ TestsInPlace
  /\ UNCHANGED <<records, project>>

-----------------------------------------------------------------------------
\* The builder is told what it may know of these paths.
Tell(paths) ==
  /\ told' = told \cup Redacted(paths)
  /\ named' = named \cup {Current}

\* The visible tests are written one after the other, then the retired removed.
MaterializeVisibleTests ==
  /\ workspace' = Rewritten(DOMAIN VisibleTests(Content), Retired)
  /\ Tell(DOMAIN Content)
  /\ begun' = begun \cup {Current}
  /\ written' = written \cup {Current}

\* The operator prepares the workspace for an order: the tests, the root pin,
\* the settings, the instructions.  Doing it again for nothing changes nothing.
PrepareBuilderWorkspace ==
  /\ Ordered
  /\ ~guarded \/ Current \notin written
  /\ MaterializeVisibleTests
  /\ guarded' = TRUE
  /\ UNCHANGED <<vars, records>>

\* The process that writes the tests dies, or a write fails, on the way.
MaterializingDies ==
  /\ Ordered /\ Current \notin begun
  /\ \E paths \in SUBSET DOMAIN VisibleTests(Content) :
       workspace' = Rewritten(paths, {})
  /\ begun' = begun \cup {Current}
  /\ UNCHANGED <<vars, records, guarded, told, named, written>>

\* The channel serves the builder, which works on an order it is offered: only
\* in a workspace that has its guardrails.
Served == guarded /\ Current \in OpenOrders

\* The builder reads its order, which lists the tests.
GetWorkOrder ==
  /\ Served /\ Current \notin named
  /\ Tell(DOMAIN Content)
  /\ UNCHANGED <<vars, records, guarded, workspace, begun, written>>

\* The builder refreshes the tests.
MaterializeTests ==
  /\ Served /\ Current \notin written
  /\ MaterializeVisibleTests
  /\ UNCHANGED <<vars, records, guarded>>

\* The builder submits and is told what was run and what is out of scope; only
\* what is in scope can pass.
SubmitSlice ==
  /\ Served /\ Current \notin submitted
  /\ \E passed \in {InScope, FALSE} :
       submitted' = IF passed THEN submitted \cup {Current} ELSE submitted
  /\ Tell(DOMAIN Content \cup DOMAIN workspace)
  /\ UNCHANGED <<vars, revisions, inForce, orders, approved, words, guarded,
                 workspace, begun, written>>

\* A note or a question, filed under the order's suite.
Speak ==
  /\ Served /\ Len(words) < MaxWords
  /\ \E question \in BOOLEAN :
       words' = Append(words, [suite |-> Current, question |-> question,
                               answered |-> FALSE])
  /\ UNCHANGED <<vars, revisions, inForce, orders, submitted, approved, project>>

\* The operator answers a question on the page; the latest answer counts.
AnswerQuestion ==
  /\ \E w \in WordsShown :
       /\ words[w].question /\ ~words[w].answered
       /\ words' = [words EXCEPT ![w].answered = TRUE]
  /\ UNCHANGED <<vars, revisions, inForce, orders, submitted, approved, project>>

ChannelNext ==
  \/ Sign \/ ApproveSuite \/ RequestRevision \/ ApproveRevision
  \/ CreateWorkOrder \/ ApproveSubmission \/ Complete
  \/ PrepareBuilderWorkspace \/ MaterializingDies
  \/ GetWorkOrder \/ MaterializeTests \/ SubmitSlice \/ Speak \/ AnswerQuestion

ChannelSpec == ChannelInit /\ [][ChannelNext]_<<vars, records, project>>

-----------------------------------------------------------------------------
\* The suites that count: the current one of every generation.
Latest == {<<g, revisions[g]>> : g \in 1..Len(suites)}

\* One workspace serves all generations: when every suite was written into it,
\* and none that was revised since had begun to be, then the acceptance tests on
\* disk are the visible files of the current suite and no others, so that the
\* scope check never refuses a submission for a file the Workbench left behind.
WorkspaceFits ==
  suites # <<>> /\ written = Latest /\ begun = Latest
    => workspace = VisibleTests(Content)

\* The builder is offered orders of the current suite only, and none when its
\* generation is closed: nothing of a superseded suite, although orders are
\* never withdrawn and completed suites stay approved for good; and the operator
\* sees every word about an order that is on offer.
OffersAreCurrent ==
  /\ \A s \in OpenOrders : s = Current /\ completed < Len(suites)
  /\ \A w \in DOMAIN words : words[w].suite \in OpenOrders => w \in WordsShown

\* Whatever is written, refreshed and submitted over the generations, no holdout
\* of the current suite was ever named to the builder, except a path at which a
\* visible test had been and had left the suite in between, or one of a suite
\* that was revised after the builder was told of it or it had begun to be written.
HoldoutsUntold ==
  named \cup begun \subseteq Latest =>
    \A p \in told : suites # <<>> /\ p \in Holdouts(Content) =>
      \E g, h \in DOMAIN suites :
        g < h /\ p \in DOMAIN VisibleTests(suites[g]) /\ p \notin DOMAIN suites[h]

===============================================================================
