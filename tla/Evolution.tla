------------------------------ MODULE Evolution ------------------------------
(***************************************************************************)
(* How a built project grows (Decision 088): one lineage of generations.   *)
(* Every generation has an approved brief, a plan, a test suite and a      *)
(* build completion.  From the second on, ArchitectService checks the plan *)
(* against the completed one, and TestDesignService checks the suite       *)
(* against the completed one.  What a model may answer is arbitrary; the   *)
(* deterministic checks of the two services decide what is saved.          *)
(*                                                                         *)
(* The artifact that matters of each kind is the approved one the          *)
(* completion names: drafts, rejections and revisions leave no trace here. *)
(* Every plan after the first names the completion of the generation       *)
(* before it.                                                              *)
(***************************************************************************)
EXTENDS Naturals, Sequences, FiniteSets

CONSTANTS
  Criteria,        \* acceptance-criterion ids
  Texts,           \* what a criterion can say: its text and verification
  Slices,          \* implementation-slice ids
  Paths,           \* paths under acceptance-tests/
  Bodies,          \* contents of a test file, its test type included
  ManualCriteria,  \* bound: criteria a plan may map to manual testing
  MaxGenerations   \* bound: generations of the lineage

\* The paths a repository can have are finitely many, as their lengths are bounded.
ASSUME PathsAssumption == IsFiniteSet(Paths)
ASSUME GenerationsAssumption == MaxGenerations \in Nat

VARIABLES
  briefs,     \* briefs[g]: the approved brief of generation g
  plans,      \* plans[g]: the approved architecture plan of generation g
  suites,     \* suites[g]: the approved test suite of generation g
  completed   \* how many generations are closed by a completion

vars == <<briefs, plans, suites, completed>>

-----------------------------------------------------------------------------
NonEmpty(S) == (SUBSET S) \ {{}}

\* The functions from some of the elements of S to T.
Partial(S, T) == UNION {[D -> T] : D \in NonEmpty(S)}

\* A brief: the acceptance criteria it has, and what each says.
Brief == Partial(Criteria, Texts)

\* A plan: the criteria that verify each slice, and the criteria whose
\* acceptance mapping is manual.
Plan == [slices : Partial(Slices, NonEmpty(Criteria)), manual : SUBSET Criteria]

TestFile == [body : Bodies, visible : BOOLEAN, covers : NonEmpty(Criteria)]

\* A suite: the file at each of its paths.
Suite == Partial(Paths, TestFile)

-----------------------------------------------------------------------------
\* diffAcceptanceCriteria: how a brief differs from the one before it.

Unchanged(prior, brief) ==
  {c \in DOMAIN prior \cap DOMAIN brief : prior[c] = brief[c]}

Changed(prior, brief) ==
  {c \in DOMAIN prior \cap DOMAIN brief : prior[c] # brief[c]}

New(prior, brief) == DOMAIN brief \ DOMAIN prior

-----------------------------------------------------------------------------
\* The plan.

\* validatePlanAgainstBrief: slices are verified by criteria of the brief.
SatisfiesBrief(plan, brief) ==
  /\ plan.manual \subseteq DOMAIN brief
  /\ \A s \in DOMAIN plan.slices : plan.slices[s] \subseteq DOMAIN brief

\* Mutation of CarriesBuilt, in no specification: built slices may be edited.
CarriesBuiltIds(plan, prior) == DOMAIN prior.slices \subseteq DOMAIN plan.slices

\* computeSliceDispositions: every built slice is in the plan, unaltered.
CarriesBuilt(plan, prior) ==
  \A s \in DOMAIN prior.slices :
    s \in DOMAIN plan.slices /\ plan.slices[s] = prior.slices[s]

\* The slices of the plan that are not built yet.
Delta(plan, prior) == DOMAIN plan.slices \ DOMAIN prior.slices

\* Mutation of OwnedByDelta, in no specification: new criteria are not looked at.
ChangedOwnedByDelta(plan, prior, priorBrief, brief) ==
  Changed(priorBrief, brief)
    \subseteq UNION {plan.slices[s] : s \in Delta(plan, prior)}

\* Every changed or new criterion is verified by a delta slice.
OwnedByDelta(plan, prior, priorBrief, brief) ==
  Changed(priorBrief, brief) \cup New(priorBrief, brief)
    \subseteq UNION {plan.slices[s] : s \in Delta(plan, prior)}

-----------------------------------------------------------------------------
\* The suite.

Holdouts(suite) == {p \in DOMAIN suite : ~suite[p].visible}

\* Prior files that the designer did not emit are merged in verbatim, unless
\* all their criteria have left the brief.
Merged(emitted, prior, brief) ==
  LET kept == {p \in DOMAIN prior \ DOMAIN emitted :
                 prior[p].covers \cap DOMAIN brief # {}} IN
  [p \in DOMAIN emitted \cup kept |->
     IF p \in DOMAIN emitted THEN emitted[p] ELSE prior[p]]

\* Every file covers a criterion of the brief; reconciliation drops the
\* criteria that are not.
CoversSomething(suite, brief) ==
  \A p \in DOMAIN suite : suite[p].covers \cap DOMAIN brief # {}

Reconciled(suite, brief) ==
  [p \in DOMAIN suite |-> [suite[p] EXCEPT !.covers = @ \cap DOMAIN brief]]

\* validateTestSuite: every criterion that is not mapped to manual testing is
\* covered by a visible file.
CoversVisibly(suite, plan, brief) ==
  \A c \in DOMAIN brief \ plan.manual :
    \E p \in DOMAIN suite : suite[p].visible /\ c \in suite[p].covers

\* A file may leave the suite when none of its criteria is unchanged.
MayRetire(file, prior, brief) == file.covers \cap Unchanged(prior, brief) = {}

SameFile(a, b) == a.body = b.body /\ a.covers = b.covers

\* Mutation of MaySucceed, in no specification: any file may be revised.
MaySucceedRevised(file, old, prior, brief) ==
  /\ old.visible => file.visible
  /\ SameFile(file, old) => old.covers \subseteq Unchanged(prior, brief)

\* A file with only unchanged criteria is carried as it is, any other is
\* revised; a visible file stays visible.
MaySucceed(file, old, prior, brief) ==
  /\ old.visible => file.visible
  /\ SameFile(file, old) = (old.covers \subseteq Unchanged(prior, brief))

HoldoutsGrow(suite, prior) ==
  Cardinality(Holdouts(suite)) = Cardinality(Holdouts(prior)) + 1

\* validateSuiteSuccession.
Succeeds(suite, prior, priorBrief, brief) ==
  /\ \A p \in DOMAIN prior :
       IF p \in DOMAIN suite
       THEN MaySucceed(suite[p], prior[p], priorBrief, brief)
       ELSE MayRetire(prior[p], priorBrief, brief)
  /\ HoldoutsGrow(suite, prior)

-----------------------------------------------------------------------------
Generation == Len(briefs)

Init == briefs = <<>> /\ plans = <<>> /\ suites = <<>> /\ completed = 0

\* The operator approves a brief: the first one, or one that evolves the
\* project after a completion.  Any criterion may be rewritten, added, or
\* retired by its declaration.
ApproveBrief ==
  /\ completed = Generation
  /\ Generation < MaxGenerations
  /\ \E brief \in Brief : briefs' = Append(briefs, brief)
  /\ UNCHANGED <<plans, suites, completed>>

\* A plan the architect service accepts for the current brief.
Plannable(plan) ==
  /\ SatisfiesBrief(plan, briefs[Generation])
  /\ Generation > 1 =>
       /\ CarriesBuilt(plan, plans[Generation - 1])
       /\ OwnedByDelta(plan, plans[Generation - 1],
                       briefs[Generation - 1], briefs[Generation])

CreatePlan ==
  /\ Len(plans) < Generation
  /\ \E plan \in Plan :
       /\ plan.manual \subseteq ManualCriteria
       /\ Plannable(plan)
       /\ plans' = Append(plans, plan)
  /\ UNCHANGED <<briefs, suites, completed>>

\* A suite of the first generation.
CreateFirstSuite ==
  /\ Len(plans) = 1 /\ suites = <<>>
  /\ \E suite \in Suite :
       /\ CoversSomething(suite, briefs[1])
       /\ CoversVisibly(Reconciled(suite, briefs[1]), plans[1], briefs[1])
       /\ suites' = <<Reconciled(suite, briefs[1])>>
  /\ UNCHANGED <<briefs, plans, completed>>

\* A suite that succeeds the completed one.
CreateSuccessorSuite ==
  /\ Generation > 1
  /\ Len(plans) = Generation /\ Len(suites) < Generation
  /\ LET brief == briefs[Generation]
         prior == suites[Generation - 1] IN
     \E emitted \in Suite \cup {<<>>} :
       LET full == Merged(emitted, prior, brief)
           suite == Reconciled(full, brief) IN
       /\ full # <<>>
       /\ CoversSomething(full, brief)
       /\ CoversVisibly(suite, plans[Generation], brief)
       /\ Succeeds(suite, prior, briefs[Generation - 1], brief)
       /\ suites' = Append(suites, suite)
  /\ UNCHANGED <<briefs, plans, completed>>

\* Every slice is approved or carried and the full suite passes.
RecordCompletion ==
  /\ Len(suites) = Generation /\ completed < Generation
  /\ completed' = completed + 1
  /\ UNCHANGED <<briefs, plans, suites>>

Next ==
  \/ ApproveBrief \/ CreatePlan
  \/ CreateFirstSuite \/ CreateSuccessorSuite
  \/ RecordCompletion

Spec == Init /\ [][Next]_vars

-----------------------------------------------------------------------------
\* Built slices are history: whatever the architect answers in later
\* generations, a slice is never lost or rewritten.
BuiltIsHistory ==
  \A g, h \in DOMAIN plans : g <= h =>
    \A s \in DOMAIN plans[g].slices :
      s \in DOMAIN plans[h].slices /\ plans[h].slices[s] = plans[g].slices[s]

\* Slice s is first planned in generation g.
PlannedIn(s, g) ==
  /\ s \in DOMAIN plans[g].slices
  /\ \A h \in DOMAIN plans : h < g => s \notin DOMAIN plans[h].slices

\* Criterion c says the same in all generations from g to h.
SaysTheSame(c, g, h) ==
  /\ c \in DOMAIN briefs[h]
  /\ \A k \in g..h : c \in DOMAIN briefs[k] /\ briefs[k][c] = briefs[h][c]

\* No requirement ships unmet: a criterion that was added or rewritten since
\* the first generation is verified by a slice that was built while the
\* criterion said what it says now.
RequirementsBuilt ==
  \A g \in DOMAIN plans : \A c \in DOMAIN briefs[g] :
    ~SaysTheSame(c, 1, g) =>
      \E h \in 2..g : SaysTheSame(c, h, g) /\
        \E s \in DOMAIN plans[h].slices : PlannedIn(s, h) /\ c \in plans[h].slices[s]

\* A criterion that verifies a built slice stays in every brief that is
\* planned later: a carried slice would otherwise name an unknown criterion.
VerifiersStay ==
  \A g, h \in DOMAIN plans : g <= h =>
    \A s \in DOMAIN plans[g].slices : plans[g].slices[s] \subseteq DOMAIN briefs[h]

\* Plans are history: neither what was built nor what it is verified by is lost.
PlansAreHistory == BuiltIsHistory /\ VerifiersStay

\* Regression protection survives any number of generations: a file whose
\* criteria were never rewritten or retired since is still there, unaltered.
RegressionKept ==
  \A g, h \in DOMAIN suites : g <= h =>
    \A p \in DOMAIN suites[g] :
      (\A c \in suites[g][p].covers : SaysTheSame(c, g, h)) =>
        p \in DOMAIN suites[h] /\ SameFile(suites[h][p], suites[g][p])

\* Holdouts stay hidden and accumulate: there is one more with every generation,
\* and what the builder has seen never becomes a holdout again as long as its
\* path stays in the suite.
HoldoutsAccumulate ==
  /\ \A g \in DOMAIN suites :
       Cardinality(Holdouts(suites[g])) = Cardinality(Holdouts(suites[1])) + g - 1
  /\ \A g, h \in DOMAIN suites : g <= h =>
       \A p \in DOMAIN suites[g] :
         /\ suites[g][p].visible
         /\ \A k \in g..h : p \in DOMAIN suites[k]
         => suites[h][p].visible

\* Suites are history: what must survive the generations does, and what the
\* builder may not see stays out of sight.
SuitesAreHistory == RegressionKept /\ HoldoutsAccumulate

=============================================================================
