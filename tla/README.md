# Specifications of the Agentic Engineering Workbench

TLA+ models of the workbench, their TLC runs and the theorems TLAPS proves about
them. Paths below are relative to the repository root (`src/foundry/...`,
`web/src/...`, `docs/...`).

- `tlc -workers 2 -config <Run>.cfg <MC module>` checks a run (the table in
  "Runs"); `tlapm <Module>Proofs.tla` checks the proofs.
- `PROJECT.json` lists components, runs, the mutants that each property must
  catch, and for every definition the source lines it stands for.

## 1. The system

The workbench is two factories around one idea: what a model answers is
arbitrary, what is kept is decided by deterministic checks and by decisions an
operator records. Everything that matters is an *artifact*: one JSON file that
is created exclusively and never written again. Every status (a brief is
approved, a plan is revised, a slice is done) is derived from artifacts when it
is needed; nothing is updated in place. Three kinds of process work on the same
directories at the same time: the web server (which runs every stage as a
background operation of one event loop), command-line processes, and the MCP
servers. There are no locks.

### Components, state, operations

| component | code | state it keeps | operations | interacts with |
|---|---|---|---|---|
| intake interview | `src/foundry/intakeSessionController.ts`, `projectBriefService.ts` | brief versions (a digest chain), turn records, brief decisions | start, run a turn, decide, reopen | the stage pipeline reads the brief's status |
| artifact stores | `foundryArtifactStore.ts`, `src/artifacts/fileArtifactStore.ts` | one file per artifact | save (flag `wx`), load, list | everything |
| planning stages | `architectService.ts`, `capabilityService.ts`, `testDesignService.ts` | plans, capability plans, suites, decisions on them | create, revise, decide | each is gated by the decision on the one before |
| evolution rules | `testSuiteSuccession.ts`, `architectService.ts:24-71` | none: checks between generations | diff criteria, slice dispositions, suite succession | planning stages, work orders |
| governed build | `workOrderService.ts`, `submissionService.ts`, `buildCompletionService.ts` | work orders, submissions, decisions, completions | order, submit and verify, decide, complete | an external builder owns the working tree |
| builder channel | `src/mcp/builder*.ts`, `builderMessage.ts`, `builderWorkspace.ts` | the builder's workspace (test files, guardrails, instructions), questions, notes, answers | prepare, list orders, refresh tests, submit, ask, answer | governed build, one workspace for all generations |
| operation store | `src/web/operationStore.ts` | operations in memory | start, emit, settle, acknowledge; stream, poll, tray | pages, all stages |
| console | `web/src/foundry.tsx`, `App.tsx`, `hooks.ts` | what is on the screen | load and reload, follow operations, submit forms, navigate | operation store, web routes |
| agents and verification | `src/agents/agentRunner.ts`, `agentApplicationService.ts`, `datasets/agentDatasetRunner.ts`, `src/orchestration/mapWithConcurrency.ts` | agent runs, dataset runs, evaluations | run, verify | tools, providers, stores |
| improvement and promotion | `src/agents/agentImprovement`, `evaluations`, `autoImprove`, `src/foundry/agentExport.ts` | proposals, candidate evaluations, promotion decisions, exports | analyze, evaluate a candidate, decide, export | verification; the source of the agents |
| individual agents | `src/agents/<agent>/`, `src/workflows/repository*.ts` | none | collect evidence with tools, ask the model once, judge the answer against the evidence | agent runner, tools, provider |
| workspaces | `src/workspaces/fileWorkspaceStore.ts`, `runWorkspaces.ts` | one file of registrations (id and root) | add, remove, resolve an id | evaluations, comparisons, handoffs |
| tools | `src/tools` | none (child processes) | execute with a timeout | agents |
| workflows, harness, datasets, experiments, suites | `src/workflows`, `src/harness`, `src/datasets`, `src/experiments`, `src/suites` | run files | run, compare | providers |
| chain view, command line | `foundryChainView.ts`, `src/cli` | none | derive the next step, render, parse | services |

### What is hard about it

- **Interleaving.** Two turns, two stage runs or two verifications of the same
  thing may be in flight, each for minutes; the operator decides meanwhile.
- **Stale reads.** A gate is checked before a model call and never again.
- **Check, then act.** Reopen, "create a plan", "record a completion" read a
  state in several steps and save in another.
- **Another writer.** The builder edits the tree that the workbench copies,
  digests and asks git about.
- **Crashes** between two artifacts of one operation, and in the middle of
  writing one.
- **Long legal sequences.** Suites and plans are validated against their
  direct predecessor; what has to hold is about all generations.
- **Reordered answers and lost connections** between a page and the server, and
  model answers that overtake each other in a pool of workers.
- **One workspace for many generations.** Test files are written and removed by
  comparison with one predecessor; what is left over stays.
- **Shared registrations.** The id of a workspace is looked up again by everything
  that uses it; the file behind it is rewritten as a whole by several processes.
- **Code as state.** The policy of an agent is in the source; it may be edited
  between any two steps of an improvement, and a running process keeps the old
  one.

Correctness, component by component: an interview keeps its digest chain, its
turn log, its budget and every approved criterion; a store never loses or
replaces what was saved and never shows half of it; nothing is built on what
the operator did not approve; built slices and their tests survive evolution;
a completion means that the whole project works; a client learns the outcome of
its operation, a page shows what it watched and what it recorded itself; the
builder is offered current work and is never told a holdout; a run claims
nothing its model was not shown; an evaluation is about every case and every repetition, and its
verdict follows from them; a policy is approved on evidence about exactly the
registered policy and the proposed change, collected in one place.

## 2. Modules

| module | models | uses |
|---|---|---|
| `ArtifactLedger` | abstract: an append-only set of keyed artifacts | |
| `ArtifactStore` | both file stores, a save and a listing in steps | implements `ArtifactLedger` |
| `ArtifactStoreProofs` | theorems about it | |
| `IntakeInterview` | the interview of one brief | implements `ArtifactLedger` |
| `IntakeInterviewProofs` | theorems about it | |
| `FoundryChain` | the gated pipeline brief, plan, capability plan, suite, completion | |
| `ChainView` | what the pages show of a pipeline and the step the banner offers | extends `FoundryChain` |
| `FoundryChainProofs` | theorems about both | |
| `Evolution` | the checks that connect generations of one project | |
| `BuilderChannel` | the builder's workspace and its channel, over the generations | extends `Evolution` |
| `BuilderChannelProofs` | theorems about both | |
| `GovernedBuild` | work orders, verification of a moving tree, completion | |
| `BuildView` | what pages, `nextSlice` and the builder's channel read from a build | extends `GovernedBuild` |
| `GovernedBuildProofs` | theorems about both | |
| `OperationStore` | operations and event streams | |
| `ConsolePage` | the page of one operation, polling | extends `OperationStore` |
| `ProjectPage` | the page of a Foundry project: loads, tray, controls, forms | extends and implements `OperationStore` |
| `AgentGrounding` | what an answer of a model may cite and what a run shows of it | functions only |
| `AgentRun` | one run of an agent as an operation, from request to artifact | extends `ConsolePage`, `AgentGrounding`; implements `OperationStore` |
| `ConsoleProofs` | theorems about the store, the project page and the run | |
| `AgentEvaluation` | one verification of an agent: pool of workers, evidence, verdict, saves | a run is one outcome here |
| `AgentEvaluationProofs` | theorems about it | |
| `PromotionLoop` | analysis, frozen comparison, gates, decision, release, export, the automatic loop | an evaluation is one step here |
| `AgentHandoff` | the registrations of workspaces, where evaluations run, handoffs of a proposal | extends `PromotionLoop` |
| `AgentHandoffProofs` | theorems about both | |
| `MC*` | instances of these for TLC: symmetry sets and small constants | |

Operators whose comment says "Mutation of ..., in no specification" are used by
no specification. Each is a plausible bug; `PROJECT.json` says which definition
it replaces and which property must then fail.

### ArtifactStore

`files[n]` is what the directory holds under a name: absent, torn (created and
not yet, or never, completely written) or whole. `Prepare`, `Create`, `Finish`
and `Fail` are the parts of a save between which another caller can look;
`BeginList`, `ReadNext` and `Return` those of a listing, which reads the
directory once and then file by file. A file that cannot be parsed or is over
the read-side size limit is reported as rejected. The ledger of the abstract
specification is the set of readable artifacts.

### IntakeInterview

Variables are the three artifact kinds (`briefs`, `turns`, `decisions`) and, per
caller, the turn in flight (`session`). A turn is `BeginTurn` (the reads of
`runTurn`), then the model call, then `DraftAccepted`, `DraftRejected` or
`AgentFails`, then `AppendVersion` or `VersionTaken` (the exclusive creation of
the next brief version succeeds or not), then `RecordTurn` or `TurnTaken`. A
draft is reduced to the criterion ids it carries and retires and to whether it
has open points, which is all the gates read. `reopen` is checked and saved in
two steps because the code reads in between; other decisions are one step, since
only their order by timestamp matters.

### FoundryChain

`artifacts[a]` is an artifact with the ids of what it was made from,
`decisions[a]` the decisions on it. A stage run is `Check` (the status of the
parent is derived), `Start` (the parent is loaded, and with it the completion to
evolve from and the revise decision to answer), `Save` or `Fail`. `Check` and
`Start` are separate because the code derives the status and then loads the
latest brief version in a second read. Digests always match, since an artifact
never changes: they are not modelled.

### ChainView

`NextStep` is the ladder of `computeNextStep`: a function of the artifacts and
decisions of `FoundryChain`, without state of its own. It derives statuses,
current artifacts and the base of an evolution by itself, as
`foundryChainView.ts` does; nothing is shared with the gates (`MayWorkFrom`,
`Revisable`, `Evolvable`, `MayDecide`), and `BannerAccepted` compares the two.
That the interview can go on is reduced to a reopened brief. The ladder ends at
an approved suite and goes on in `BuildView`.

### Evolution

`briefs[g]`, `plans[g]`, `suites[g]` are the approved artifacts of generation
`g`. Each action picks any answer a model could give and applies the checks of
`architectService.ts`, `architecturePlan.ts`, `testDesignerAgent.ts` (merge of
carried files), `testSuiteReconciliation.ts` and `testSuiteSuccession.ts`. A body
stands for a file's content and test type together. One lineage is modelled:
every plan after the first evolves from the completion before it.

### GovernedBuild

`disk` is the working tree, `head` the committed one; a tree is the set of its
parts that are in order (slices that work, and the visible tests). The builder
may edit or commit between any two steps. A verification copies the tree part by
part, each as it is on disk by then, and runs the files the order names on the
copy; a completion goes through the gate, git's clean check, HEAD, the digest
and the copy as separate steps, as the code awaits each. A slice whose
implementation works makes every test that covers only working slices pass:
tests are deterministic. `carried` is any set of slices closed under
dependencies, so the first generation and evolutions are checked together.

### BuildView

Again functions without state: `SliceStatus` and `NextBuildStep` of the pages,
`NextSlices` of the route that issues orders, and `OpenOrders`, what the
builder's MCP channel lists. `BuildBannerLeadsOn` says that they fit together:
when the banner waits for the builder, the builder is offered that order; when
it asks for an order or a completion, the service issues or accepts one. Where
the code takes the first slice in the order of the plan, the model takes them
all. The rung for unanswered builder questions is left out; what became of the
questions themselves is in `BuilderChannel`.

### BuilderChannel

The same generations as in `Evolution`, with the workspace the external builder
works in. `inForce` are the suites whose latest decision approves them: a
completed generation's suite stays in force for good, one under revision is not.
`workspace` is the acceptance tests on disk, as a function from paths to bodies.
Preparing it (`PrepareBuilderWorkspace`) and refreshing it (`MaterializeTests`)
write the visible tests and then remove the paths the suite's predecessor had and
it has not; `MaterializingDies` leaves any part of that undone. `OpenOrders`,
`Redacted` and `Anchor` are what the MCP server lists, names and what the page
shows. Reading an order (`GetWorkOrder`), refreshing and submitting all tell the
builder paths (`Tell`): `told` are those paths, `named` the suites it was told of,
`begun` and `written` the suites whose files were partly and completely written;
all four are history variables. The slices a
generation adds are one here, since how they interleave is `GovernedBuild`, and
the builder works on the order it is offered.

### OperationStore

The server is one event loop, so a handler is one step. `stream` is the
connection of an event-stream client. `Restart` empties the store; ids are UUIDs
and are not used again.

### ConsolePage

`console` is what the page of an operation shows, `answers` its polls under way,
whose answers arrive in any order.

### ProjectPage

Records of a project are only ever added, so what a page shows of it is a number:
how many of the records added since the page was opened. A load is handled by the
server (`ReadChain`) and answered (`Arrive`) in two steps, several overlap, and
none is cancelled. While the page loads nothing of it is mounted, so a reload
drops what the tray saw and what a control follows; a form that is gone still
reloads the page when its answer arrives. `Command` is another process adding
records; what a command adds is read off `runFoundry.ts`. `owed` and `own` are
history variables: completed operations the page was watching, and the last
record that was confirmed to a form, as long as no view shown has them.

### AgentGrounding and AgentRun

A run goes through the phases requested, preparing, reading, asking, saving,
saved; an error around the runner ends in "thrown" and a restart in "lost". Every
tool call sees a repository that anybody may change meanwhile, so its result is
arbitrary; so is the answer of the model, among those the output schema lets
through. `AgentGrounding` says, agent by agent, when an answer passes
(`Passes`) and which of the evidence the artifact then shows (`Shown`). The
points of an answer are the sets of what its findings cite, numbers where the
code numbers its facts. All nine agents that do more than the three planning
agents of the Foundry are in it.

### AgentEvaluation

`next` is the counter the workers of `mapWithConcurrency` share, `at[w]` the
entry of the plan worker `w` awaits, `results` the array they write. A worker
runs from one await to the next without being interrupted, so `Settle` both
records a result and takes the next entry. `SaveDataset` and `SaveExperiment`
may fail, and `Crash` may come before either. A run of an agent is reduced to
"failed", "wrong" (it succeeded and the assessment of its case does not accept
the output) and "right". `answers` is a history variable: the verdict is compared
with it and not with the evidence it was computed from. Thresholds are
percentages; the code compares quotients of small numbers, which is the same.

### PromotionLoop

`source` is the registration in the code, `loaded[p]` the one a process started
with; `Release` edits the first, with a new version or without, and `Restart`
brings the second up to date. Files are functions from ids to contents.
A policy is a function from fields to values and a patch a smaller one. A
comparison (`BeginComparison`, `RunSides`, then one action per file) is built
against the registration of the process; the automatic loop adds `StartLoop`
(the model comparison and its triage), `TakeCase`, `AskAnalyst`,
`CompareAnswer` and `DropCase`. How often the runs of a case passed in an
evaluation is arbitrary, so a baseline may measure what the analysed evaluation
did not. Every experiment records the policy that really ran; the code's
experiments do not (only a candidate's says so), which is what makes
`CandidateIsThePatch` worth checking.

### AgentHandoff

`registered` is the file of registrations, `request[r]` how far an edit has come:
an addition checks the list, reads it again and replaces the file, and another
edit or a resolution may come between any two of these. `place` says of every
evaluation which workspace it records and, as history, which directory that was.
A comparison looks its workspace up once (`Frozen`) and runs both sides there.
`runs` are the artifacts of the tool builder and the change risk reviewer;
`about`, `index` and `builder` are what their inputs claim, which a direct run may
claim too.

## 3. Runs

| run | module | question |
|---|---|---|
| `IntakeTurns` | `MCIntakeInterview` | two callers and a crash: is the turn log sound, does every turn end, is the model called finitely often |
| `IntakeOperator` | `MCIntakeInterview` | two callers against an operator who decides and reopens: does a closed interview stay closed, is the budget kept, are approved criteria kept, is it a ledger |
| `StoreConcurrency` | `MCArtifactStore` | two writers, a crash and a listing at once |
| `ChainGates` | `MCFoundryChain` | two stage runs and an operator, up to a completion: is everything signed, and can the banner always be followed |
| `EvolutionLineage` | `MCBuilderChannel` | three generations with arbitrary rewriting, adding and retiring of criteria, built in one workspace: do plans and suites keep what was built, is every requirement built, do the test files on disk fit, is the builder offered current work only and told no holdout |
| `BuildChain` | `MCGovernedBuild` | two dependent slices, ordered, submitted, completed against a moving tree; with none, one or both carried; do banner, order route and builder channel fit together |
| `Console` | `MCProjectPage` | streams, tray, controls, forms and overlapping loads: is every event delivered once, is a failure kept until it is dismissed, is everything shown that the page watched or recorded |
| `ConsoleRun` | `MCAgentRun` | one run of any agent: does the page end up with the outcome, is it recorded, is a success supported by what the model was given, is nothing left out silently |
| `AgentVerification` | `MCAgentEvaluation` | a pool of up to three workers, two datasets, failed saves and crashes: complete evidence in order, a right verdict |
| `PromotionEvidence` | `MCPromotionLoop` | evaluations, comparisons, handoffs, decisions and exports while the source and the workspaces are edited and the process restarts: does the evidence hang together, is a candidate the proposed patch, is what is approved no worse, is what is exported measured |
| `IntakeUnrecordedFailure` | `MCIntakeInterview` | violated: see section 5 |
| `ChainUnapprovedBrief` | `MCFoundryChain` | violated |

**Bounds.** Every unbounded counter has a constant named `Max...`. Two callers
are enough for every race of the interview, since a turn only meets the log and
one competitor at each exclusive creation; six turn records let the failure
bound, the budget and a crash combine. In `IntakeOperator` two decisions are an
approval and a reopen, three turns are one before, one between and one after.
Three names and a limit of two make a listing cut. Five artifacts are one chain
down to a completion, or a chain with revised siblings; five decisions are the
approvals of that chain and one withdrawal. There is one brief version, so that
a plan that evolves from a completion is beyond this run and left to the
theorem `BannerCanBeFollowed`. Three generations are the least in
which something can be dropped and come back. Two orders, submissions and
decisions are both slices, or one slice twice. Four operations are the least in
which three settle after a failure, so that it could leave the tray.
`EvolutionLineage` takes `ManualCriteria` as empty and one body per file, so that
writing over a text of the file that is out of date is not exercised, and one
revision, of the last generation: pairs of arbitrary suites are what makes the run
large, and with more it does not end in minutes. Revisions of the generations
before are left to the theorems, which bound neither; that they matter is the
history of `HoldoutsUntold` (section 4).

In `Console` at most two operations are started while the page is open and four
before that, event streams and progress are kept to the time no page is open, and
there are two loads, one request of a form and one record of other processes: a
pair is what it takes for answers to overtake each other, and `Limit`, which ends
up below the four, is what could hide a failure. In `ConsoleRun` there is one
operation (runs share nothing but the store, for which there is the theorem
`RunsAreOperations`), a repository of a few paths of every kind the code tells
apart, and a budget that two files exceed.

`AgentVerification` has plans of two to four entries with pools smaller than,
as large as and larger than the plan; two datasets let the second fail after the
first was saved. In `PromotionEvidence` five ids are an evaluation, a proposal
and a comparison (two experiments and the artifact itself), or an evaluation by
two models and two proposals; one edit of the source is enough for every
mismatch of two registrations, since only equality of policies and versions is
ever asked. One process stands for all of them: a restart gives it any
registration another process could have, and artifacts are all they share. Two
edits of the registrations are an addition, or a removal and an addition of the
same id; two runs are one of the tool builder and the review that links it.
`Apart` keeps behaviours with edits, other workspaces or handoffs to one
evaluation, and the automatic loop, releases and decisions to the others. The
theorems about the module do not depend on it.

**Deadlock** is checked where the system never rests (`StoreConcurrency`). The
others may stop: an interview is closed, a pipeline waits for an operator, or
every bound is used up.

**Fairness.** `IntakeTurns` assumes that a turn that has begun goes on: the
provider call returns or fails, and the runtime resumes the function. Nobody is
obliged to begin a turn or to decide. `ConsoleRun` assumes that the page's
timer keeps polling and that answers arrive, in any order. Nothing is assumed of
the executions. No other run has a liveness property.

## 4. Proofs

The theorems hold for any number of callers, artifacts, decisions, crashes,
names, workers, cases and repetitions.

- **ArtifactStore.** `StoreTyped`, `WholeArtifactsOnly` (a save that returned is
  durable, a listing returns only what can be loaded) and `StoreIsLedger` (the
  refinement). The invariant adds what a save in flight
  knows: once it has created its file that file is torn, and no two saves in
  flight have created the same one. A file therefore only goes from absent to
  torn to whole, and what a reader found stays readable. `ListingsMissNothing`
  (`NothingIsMissed`) adds the listings: the names found, rejected and still to be
  read are what the directory held, and what had been saved before is rejected only
  if it is too large. That a limit leaves out only older artifacts rests on
  `NewestFill`: the order of a listing gives every name found a place of its own,
  so the places below the limit are all taken. It assumes that names are finitely
  many numbers and that the limit is positive.

- **IntakeInterview.** `TypeCorrect` (`TypeOK`); `TurnLogCorrect` (no repeated
  question, growing versions, bounded failure runs, nothing after a closing turn
  without a reopen); `ChainCorrect` (the digest chain and the criterion-identity
  contract), of which `ClosedStaysClosed` and `CriteriaKept` are the parts a run
  names; `BudgetIsKept`; `LedgerImplemented` (the refinement). None of these is inductive by
  itself: what a caller has in flight was computed from a state that is gone. The
  invariant therefore says of every turn in flight what remains true of it until
  it is saved: the turn number it will claim is at most one above the log, the
  version it will create names the digest of the version it saw, its questions
  are disjoint from those of all turns below its number, and the approvals it
  was checked against are those not later than its timestamp. For the budget it
  says that the base only grows, so a turn that was counted from an older base has
  used up more of its budget than it would have now: the turns above the base that
  ask for answers have versions of their own within it, and at most one turn above
  it has closed the interview.
- **FoundryChain.** `TypeCorrect`, `Signed`, `BlockingStops` and
  `RevisionsStayInChain` follow from one invariant `Sound`, which is `TypeOK`
  with `RunSound` (the parent of a run was approved once, is of the right kind
  and has no blocking concerns), `ArtifactSound` (the same of the parent of every
  artifact), `ApprovedClean` (what was ever approved has no blocking concerns)
  and `LatestExists`. The lemma `Grows` says what the steps have in common:
  artifacts and decision sequences are only extended. That is why a fact about
  an old decision survives every later one.
- **ChainView**, in the same module. `BannerCanBeFollowed` (`BannerAccepted`). To
  the invariant of the pipeline it adds that a plan that evolves does so from a
  completion of an older brief version (`EvolvingArtifact`), which a revision of
  that plan will be checked for again, and that a non-empty set of artifacts has a
  newest one.
- **GovernedBuild and BuildView.** `BuildTyped`, `DependenciesComeFirst`,
  `ProgressHasNoRegression`, `CompletionIsWorking` and
  `BuildBannerCanBeFollowed`. The invariant says of every
  order that it froze what was satisfied when it was issued, and of every decision
  that it is later than its order; what was satisfied stays so. The last two
  theorems assume `Focused`: every slice has a test file that covers it and
  otherwise only slices it depends on. The code does not guarantee this. It only
  demands that every criterion be covered, and a suite whose only test of a slice
  also covers an unrelated one verifies neither until both are built
  (`workOrderService.ts:94-107`). `BuildBannerCanBeFollowed` assumes `Acyclic`,
  that no slices wait for each other, which the plan schema does not check either
  (section 5).
- **Evolution and BuilderChannel**, both under `ChannelSpec`. `PlansStayHistory`
  (`PlansAreHistory`), `RequirementsAreBuilt` (`RequirementsBuilt`) and
  `SuitesStayHistory` (`SuitesAreHistory`) follow from `LineageInv`: there is never
  a brief without a plan, nor a plan without a suite, except in the last generation
  (`Numbered`), every plan fits its own brief, and each property relates any two
  generations. The code compares neighbours only, so every step of the proof
  composes one such comparison with what holds of all the earlier ones; the last
  generation is also the only one whose suite may be replaced.
  `OffersStayCurrent` (`OffersAreCurrent`) needs that only the current suite of a
  generation is in force and that the orders of a closed one are approved
  (`OrdersInv`). `WorkspaceStaysFit` (`WorkspaceFits`) says what is on disk on the
  way: of every suite begun and not finished, a part of its files over those
  of the last suite written (`WorkspaceInv`), which the retired paths of the direct
  predecessor then account for. `HoldoutsStayUntold` (`HoldoutsUntold`) rests on
  `ToldInv`: every path told or on disk was visible in a suite the builder was told
  of or that was begun. Assumed are that paths are finitely many and that
  `MaxGenerations` is a number. The proof of the last one corrected its statement:
  it excused only suites whose files had begun to be written before they were
  revised, but a builder that has merely read its order knows the paths too, and a
  revision may then hide one of them. TLC had not met it, because its bounds allow
  a revision of the last generation only.
- **OperationStore.** `OperationsTyped`, `StreamsAreExact`, `OutcomesAreTold` and
  `FailuresStayListed`. The invariant adds that a client is subscribed exactly while
  it is connected, that what is settled is listed once, and that finitely many
  operations were ever started, without which the tray could not count its room.
- **ProjectPage.** `PageIsOfTheStore`: every step of the page is one of the operation
  store or leaves it alone. `WatchedGetsShown` (`WatchedIsShown`) and
  `OwnRecordsGetShown` (`OwnRecordsShown`) follow from `PageInv`: no view under way
  and no answer to a form is ahead of the records there are, a page that is not
  mounted holds nothing, so that whatever it is owed a load must still bring, and
  what is owed has completed. The proof goes
  action by action over everything that may be lost: overlapping loads, answers out
  of order, reloads, navigation, a restart of the server. It assumes that the
  banner's next step is one of the controls (`NextStepAssumption`).
- **AgentRun.** `RunsAreOperations`: every step of a run is a step of the operation
  store or leaves it alone, so what is proved of operations holds of runs.
  `OutcomesHaveEvidence` (`OutcomeHasEvidence`): the invariant says of every phase
  what its operation's status and its artifact are, and of a run that is about to
  be saved as a success that its answer passed on the evidence it now carries.
  `ContextsAreComplete` (`ContextComplete`): what is still to be read and what was
  read hold no path twice and share none, an audit has no more of both than it may
  read, and as long as nothing failed the selected paths of a review are read, too
  large or still to come (`ContextSound`). That a selection has nothing twice is
  `DistinctIs`, a counting argument: of the elements of a sequence that occur for
  the first time there is one at every place up to their number (`RankReached`).
  The budgets and sizes are assumed to be natural numbers and the listings to be
  sequences of paths (`BudgetsAssumption`).
- **AgentHandoff and PromotionLoop.** `EvidenceIsWhole`, `CandidatesArePatches`,
  `ApprovalsAreNoWorse` and `ExportsAreMeasured`. Files are only ever written under
  ids that were never used, so what an artifact refers to stays what it was; and a
  job or a loop remembers the registration its process started with until a restart
  ends both. The invariant says so of every step of a comparison: the ids it has
  minted, which of them it has saved, and that two comparisons under way or
  finished share none of their experiments. That outcomes count runs
  (`CasesAssumption`) is what an order on them needs.
- **AgentEvaluation.** `PoolStaysBusy`, `EntriesRunOnce` (no entry is with two
  workers, none is left out, evidence is in plan order) and
  `ExperimentHasEvidence` follow from one invariant.
  That an entry is with one worker is not inductive without the fact that every
  worker holds an entry below the counter, and that a saved dataset run is
  complete needs `NoIdleWorker`: when all workers have ended the counter must
  have passed the end of the plan, so every entry was handed out, and none is in
  flight, so every entry has its result. The assumptions are that there are
  datasets and cases, and that a request has at least one repetition and one
  worker (`parseExecutionOptions`). `VerdictIsRight` (`VerdictSound`) counts: the
  answers there were to a case are its evidence (`Accounted`), and a case has as
  many entries in the plan as there are repetitions (`PlanOfCase`), so a verdict
  is about every repetition of every case.

The type invariants of these modules are theorems and no run repeats them; so
are `TurnVersionsGrow`, `FailureRunsBounded` and `NoIdleWorker`.

Only model-checked is liveness under fairness (`TurnsEnd`, `ModelSpendFinite`,
`OutcomeShown`), which is out of the prover's reach. Every invariant, action
property and refinement that a run checks is a theorem.

## 5. Where code and documents disagree

Each of these two is a run that TLC finds violated.

1. `IntakeUnrecordedFailure`: a draft that breaks the identity contract ends its
   turn without a record (`intakeSessionController.ts:357`), so the bound on
   failures does not see it and the model can be called for ever.
2. `ChainUnapprovedBrief`: a brief version that arrives between the check of the
   status and the load is planned unapproved (`architectService.ts:118-124`).

Others were met while modelling. The models have the behaviour; no run is kept
for them.

- Two failed turns after a closing one keep the interview shut although the brief
  was approved and reopened (`intakeSessionController.ts:176`; the comment at
  150-151 says a reopen re-arms it).
- A completion may pin a commit that the suite never ran on
  (`buildCompletionService.ts:177-187`; the comment at `buildCompletion.ts:3-6`
  says against which commit the suite passed): the builder commits between the
  reading of HEAD and the copy.
- The improvement gate accepts any case outside protected datasets that improved
  (`agentCandidatePromotionGates.ts:176-180`), not the failure that was the
  target (`docs/agent-improvement-loop.md:283`).
- The automatic loop takes up the cases of protected datasets too and names them
  to the analyst (`agentAutoImprove.ts:61-69`, `97`; `docs/decisions.md:2000` says
  protected datasets affect promotion decisions but not proposals).
- An evaluation of a candidate, or of an older policy under the same manifest, is
  analysed as evidence about the registered policy
  (`agentApplicationService.ts:647-656`).
- Decisions on one comparison may contradict each other, and a comparison of a
  policy that has been replaced since may still be approved
  (`agentApplicationService.ts:574-627`).
- A turn of a brief that is already approved appends a version and silently
  returns it to draft (`intakeSessionController.ts:139`; `docs/decisions.md:2565`).
- Of two overlapping turns one may append its version and then lose its turn
  number: a failed turn has consumed budget, which the comment at
  `intakeSessionController.ts:249-251` excludes.
- A reopened brief closes the gate of the architect only: the other stages read
  the status of their direct parent (`capabilityService.ts:66`;
  `docs/decisions.md:2565-2567` says the downstream gates close).
- Which completion a plan evolves from is the caller's choice, so lineages can
  fork (`architectService.ts:132`; `docs/decisions.md:2549-2550` excludes it).
- After a reject or revise decision the slice keeps that status although it is
  submitted again, so the banner offers the next work order and not the decision
  on the new submission (`foundryChainView.ts:934-958`; `docs/operator-guide.md:115`).
- The build section is that of the newest approved suite of any generation
  (`foundryChainView.ts:792`); the ladder above it goes by the latest brief (the
  comment at 958-960: older generations are history).
- The base of the next evolution is the completion recorded last
  (`foundryChainView.ts:1007`), which may be one recorded retroactively for an
  older generation.
- A turn that fails after the interview closed makes the banner say that the
  interview goes on, although the brief is approved (`foundryChainView.ts:765`).
- A submission may verify a mixture of two trees, and edits made after it began
  (`submissionService.ts:157`; the comment at 149-152 excludes it).
- Slices that depend on each other pass the plan schema
  (`architecturePlan.ts:119-134`) and can never be built; `nextSlice` then answers
  that every slice has an approved submission (`agentWebServer.ts:1417`).
- A retired test path may come back two generations later
  (`testSuiteSuccession.ts:172`; `docs/decisions.md:2593-2594`).
- A byte-identical file of a rewritten criterion passes as revised when its list
  of covered criteria changes (`testSuiteSuccession.ts:132`, comment at 153-154).
- A carried file that covers a criterion of no slice never runs on a delta
  submission (`workOrderService.ts:96`, comment at 94-95).
- A criterion that verifies a built slice cannot be retired: no plan fits the
  brief any more (`architecturePlan.ts:271-279`, `architectService.ts:50-64`).

Met in the runs of agents (`AgentGrounding`, `AgentRun`):

- A Playwright triage may cite the output of a verification that was never
  requested (`Given` has it; `docs/decisions.md`, Decision 068, wants every cited
  source to be supplied).
- A documentation audit needs a document in the repository but not in its prompt:
  it can succeed although no document could be read or fitted.
- The review of the repository assistant is accepted when the model refused and
  when part of the inspection failed; the change risk review is not.

Met on the pages (`ProjectPage`):

- The comment at `web/src/foundry.tsx:424-428` says that the tray reloads the page
  when an operation settles. One that settles while the page reloads, after the
  server has read the chain for it, or between two polls of the tray that never
  saw it under way, is not noticed. `WatchedIsShown` is what remains true.
- Of overlapping loads the answer that arrives last is shown, not the newest.
- A control that follows an operation a restart has lost stays on "Running...".
- The button that issues work orders is not disabled while its request is under
  way, and a stage control is enabled again before its first poll: one click too
  many starts a stage twice.
- A stage that another process runs, or a command line decision, is shown at the
  next reload only.

Met in the builder's channel (`BuilderChannel`):

- A suite removes the test files of its direct predecessor only
  (`workOrderService.ts:222-224`). After a revision, a preparation that died half
  way, or a generation for which nothing was prepared, files stay that the scope
  check of the next submission refuses. `WorkspaceFits` says when they do not.
- A generation that adds no slice has no order, and so nothing that writes its
  revised test files into the workspace; its completion is refused until somebody
  does.
- A question about a suite that is no longer the newest one approved is not shown,
  although `ask_operator` says that the operator sees it in the console.
- The listing of orders says "only those whose pinned test suite is still current"
  (`src/mcp/builderMcpServer.ts:41-43`); the code asks for the digest and the
  approval. That this comes to the same is `OffersAreCurrent`.
- A revised suite may make a holdout of a path the builder knows
  (`testSuiteSuccession.ts:14-15` excludes it for a successor; a revision is held
  against the completed suite and not against the one it revises).

Met around workspaces and handoffs (`AgentHandoff`):

- An id can be removed and registered for another directory: the id that a run
  records ("evidence remains attributable", `docs/architecture.md:1150`) does not
  say where it ran, and a comparison or a review may run elsewhere than the
  evaluation it is about. Its two sides run in one place.
- Of two concurrent additions one can be lost, or both register the same id
  (`fileWorkspaceStore.ts:63-84`).
- A recommendation without a change, or without cited evidence, is refused by the
  handoff to the tool builder with a message about the change risk review
  (`agentApplicationService.ts:330-338`), and accepted by the handoff to the change
  risk reviewer; only the console filters there.
- A direct run of an agent may claim any proposal as its origin, so a lineage in
  the input of a run is no evidence of a handoff.

## 6. Not modelled

- Prompts, output schemas and dataset literals of the agents: what a model answers
  is arbitrary in every module. What the code does with an answer is modelled.
- The inside of the tools: time and output limits of child processes, path
  policies, searching. A tool's result is arbitrary in `AgentRun`.
- The harness, scenario datasets, suites and experiments, and the general
  multi-step workflow runner: sequential code over `mapWithConcurrency`, which is
  in `AgentEvaluation`; evaluators are predicates on text.
- The Workbench MCP server: read-only views and calls of services modelled here.
- Reports, presentation, portability and exporters: formatting of saved evidence.
- The pages for evaluations, model comparisons and self-hardening, and whatever
  only renders; argument parsing.
- Providers (external): retries inside the client library, usage accounting.
- Decisions with equal timestamps: their order would be that of file names. The
  500-artifact cut of a listing is in `ArtifactStore` but not in the statuses the
  other modules derive.

Two hazards have no property. A turn of an approved brief withdraws the approval
(`intakeSessionController.ts:200`): the model does it too, and section 5 describes
it. Slices that wait for each other (`architecturePlan.ts:120`) leave a project in
which nothing happens.

## 7. What is left

1. `ToolExecution`: the executor's timeout against a late answer, and the output
   and time limits of the verification command's child process.
2. `Workflow`: steps, failures and what is recorded; and the classifications of
   experiments as functions against a reference definition.
3. Proofs: the safety half of the liveness properties (a measure that every step of
   a turn decreases), and that an abstract ledger of suites is implemented by
   `Evolution` whatever is revised.
