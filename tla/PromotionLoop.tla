---------------------------- MODULE PromotionLoop ----------------------------
(***************************************************************************)
(* How the policy of an agent changes.  An evaluation is analysed, the     *)
(* analyst proposes a patch of the policy, a frozen comparison runs the    *)
(* registered policy and the patched one, gates judge the two, an operator *)
(* decides, someone edits the source, and an approved policy that is the   *)
(* source's may be exported.  The automatic loop does the first steps for  *)
(* the cases every model fails.                                            *)
(*                                                                         *)
(* Artifacts are files that are created once.  The registration of the     *)
(* agent is code: a process has the one of the source when it started,     *)
(* until it restarts, and the source is edited at any time, with a new     *)
(* version or, against the convention, without.  The manifest is fixed by  *)
(* the version; the policy is not part of it.                              *)
(*                                                                         *)
(* What an evaluation measures and what the analyst answers are arbitrary. *)
(* How an evaluation is run is AgentEvaluation.                            *)
(***************************************************************************)
EXTENDS Naturals, FiniteSets

CONSTANTS
  Processes,       \* the console and command-line processes
  Policies,        \* the policies the schema of the agent accepts
  FirstPolicy,     \* the one that is registered at first
  Patches,         \* what the analyst may propose, a set of functions from
                   \*   fields to values: the changes of a patch
  Mutable,         \* the fields of the revision surface
  Cases,           \* the cases of the datasets
  Protected,       \* those of protected datasets
  Regression,      \* those of regression datasets; the others are development
  Threshold,       \* how many runs of a case must pass
  Outcomes,        \* what an evaluation may measure: for each case, how many
                   \*   of its runs passed
  Measurements,    \* what is said of time and cost, a set of
                   \*   [comparable, latency, cost]
  MaxCases,        \* how many cases the loop takes up
  MaxAttempts,     \* how often the loop asks the analyst about a case
  MaxMeasured,     \* bound: the ids among which the registered policy is measured
  MaxIds,          \* bound: ids given out
  MaxDecisions,    \* bound: promotion decisions
  MaxReleases      \* bound: edits of the source

ASSUME CasesAssumption ==
  /\ Protected \subseteq Cases
  /\ Regression \subseteq Cases \ Protected
  /\ Threshold \in Nat
  /\ Outcomes \subseteq [Cases -> Nat]
  /\ MaxCases \in Nat
  /\ MaxAttempts \in Nat

VARIABLES
  source,       \* the registration in the source: [version, policy], and edits,
                \*   how often it was edited
  loaded,       \* loaded[p]: the registration process p started with
  minted,       \* the ids given out so far
  datasetRuns,  \* ids of the experiments whose dataset runs are on disk
  experiments,  \* experiments on disk, by id
  proposals,    \* proposals on disk, by id
  comparisons,  \* candidate evaluations on disk, by id
  decisions,    \* promotion decisions on disk
  exports,      \* what was exported
  job,          \* job[p]: the frozen comparison p is running
  loop          \* loop[p]: the automatic loop p is running

artifacts == <<datasetRuns, experiments, proposals, comparisons, decisions, exports>>
vars == <<source, loaded, minted, artifacts, job, loop>>

-----------------------------------------------------------------------------
None == 0

\* One more file.
With(files, id, content) ==
  [i \in DOMAIN files \cup {id} |-> IF i = id THEN content ELSE files[i]]

\* The policy with the changes of the patch applied.
Patched(policy, patch) ==
  [f \in DOMAIN policy \cup DOMAIN patch |->
     IF f \in DOMAIN patch THEN patch[f] ELSE policy[f]]

NoPatch == [f \in {} |-> None]

Visible      == Cases \ Protected
Fails(outcome, c) == outcome[c] < Threshold
VisibleFailures(outcome) == {c \in Visible : Fails(outcome, c)}

\* policy: what really ran, which no artifact but the candidate's says.
Experiment(registration, policy, proposal, outcome) ==
  [version |-> registration.version, policy |-> policy, proposal |-> proposal,
   outcome |-> outcome]

NoJob  == [step |-> "idle"]
NoLoop == [todo |-> {}, current |-> {}, attempts |-> 0, experiment |-> None]

-----------------------------------------------------------------------------
Init ==
  /\ source = [version |-> 1, policy |-> FirstPolicy, edits |-> 0]
  /\ loaded = [p \in Processes |-> source]
  /\ minted = 0
  /\ datasetRuns = {}
  /\ experiments = [i \in {} |-> None]
  /\ proposals = [i \in {} |-> None]
  /\ comparisons = [i \in {} |-> None]
  /\ decisions = {}
  /\ exports = {}
  /\ job = [p \in Processes |-> NoJob]
  /\ loop = [p \in Processes |-> NoLoop]

Idle(p) == job[p] = NoJob /\ loop[p] = NoLoop

\* The next n ids are given out.
Mint(n, bound) ==
  /\ minted + n <= bound
  /\ minted' = minted + n

\* verify: an evaluation of the registered policy.
Verify(p) ==
  /\ Idle(p)
  /\ Mint(1, MaxMeasured)
  /\ datasetRuns' = datasetRuns \cup {minted'}
  /\ \E outcome \in Outcomes :
       experiments' = With(experiments, minted',
                           Experiment(loaded[p], loaded[p].policy, None, outcome))
  /\ UNCHANGED <<source, loaded, proposals, comparisons, decisions, exports, job, loop>>

-----------------------------------------------------------------------------
(* Analysis.                                                               *)

\* analyzeEvaluation: the manifests of the registration and of the evidence are
\* the same, and the evidence shows a failure outside protected datasets.
Analysable(p, e) ==
  /\ e \in DOMAIN experiments
  /\ e \in datasetRuns
  /\ experiments[e].version = loaded[p].version
  /\ VisibleFailures(experiments[e].outcome) # {}

\* evaluateAgentImprovementProposal with the schema of the registration.
PolicyValid(p, patch) ==
  /\ patch # NoPatch
  /\ DOMAIN patch \subseteq Mutable
  /\ Patched(loaded[p].policy, patch) \in Policies

\* The proposal as saved.  named: the case the objective names, if any.  An
\* analyst that fails, refuses or proposes no change is one without a patch.
Proposal(p, e, named, patch) ==
  [experiment |-> e, version |-> loaded[p].version, policy |-> loaded[p].policy,
   named |-> named, patch |-> patch, ready |-> PolicyValid(p, patch)]

SaveProposal(p, e, named, patch) ==
  /\ Mint(1, MaxIds)
  /\ proposals' = With(proposals, minted', Proposal(p, e, named, patch))

Analyze(p, e) ==
  /\ Idle(p)
  /\ Analysable(p, e)
  /\ \E patch \in Patches \cup {NoPatch} : SaveProposal(p, e, {}, patch)
  /\ UNCHANGED <<source, loaded, datasetRuns, experiments, comparisons, decisions,
                 exports, job, loop>>

-----------------------------------------------------------------------------
(* The frozen comparison.                                                  *)

\* Mutation of SameSurface, in no specification: only the manifest is compared.
SameSurfaceUnchecked(p, proposal) == TRUE

\* The digest of the policy in the packet is that of the registered one.
SameSurface(p, proposal) == proposal.policy = loaded[p].policy

\* buildAgentCandidate: the proposal is about what is registered, and the patch
\* changes it to another policy the schema accepts.
Buildable(p, proposal) ==
  /\ proposal.ready
  /\ proposal.version = loaded[p].version
  /\ SameSurface(p, proposal)
  /\ Patched(loaded[p].policy, proposal.patch) \in Policies \ {loaded[p].policy}

Begin(p, id) ==
  /\ Buildable(p, proposals[id])
  /\ job' = [job EXCEPT ![p] = [step |-> "running", proposal |-> id]]

BeginComparison(p, id) ==
  /\ Idle(p)
  /\ Begin(p, id)
  /\ UNCHANGED <<source, loaded, minted, artifacts, loop>>

\* Time and cost are compared when both sides succeeded at the same runs; the
\* cost only when it is known.  "beyond": above the tolerance.
WithinTolerance(measured) ==
  measured.comparable => measured.latency # "beyond" /\ measured.cost # "beyond"

\* Both sides run from the plan; the job then holds what is to be saved.
RunSides(p) ==
  /\ job[p].step = "running"
  /\ Mint(2, MaxIds)
  /\ \E before \in Outcomes, after \in Outcomes, measured \in Measurements :
       LET proposal == proposals[job[p].proposal] IN
       job' = [job EXCEPT ![p] =
                 [step      |-> "runs",
                  proposal  |-> job[p].proposal,
                  effective |-> Patched(loaded[p].policy, proposal.patch),
                  baseline  |-> minted + 1, before |-> before,
                  candidate |-> minted + 2, after  |-> after,
                  within    |-> WithinTolerance(measured)]]
  /\ UNCHANGED <<source, loaded, artifacts, loop>>

\* A regression case that was classified as regressed.
Worse(j, c)  == j.after[c] < j.before[c]
Better(j, c) == j.after[c] > j.before[c]

\* Mutation of ProtectedHolds, in no specification: the threshold is enough.
ProtectedHoldsAbsolute(j) == \A c \in Protected : ~Fails(j.after, c)

ProtectedHolds(j) == \A c \in Protected : ~Fails(j.after, c) /\ ~Worse(j, c)

\* evaluateAgentCandidatePromotionGates.  The gates on completeness and scope
\* compare the execution with the plan it was made from.
GatesPassed(j) ==
  /\ \A c \in Regression : ~Worse(j, c)
  /\ ProtectedHolds(j)
  /\ \E c \in Visible : Better(j, c)
  /\ j.within

\* Mutation of Following, in no specification: the artifact is written first.
FollowingComparisonFirst(step) ==
  CASE step = "runs" -> "comparison" [] step = "comparison" -> "baseline"
    [] step = "baseline" -> "candidate" [] step = "candidate" -> "idle"

\* The order of the files of persistAgentCandidateEvaluation.
Following(step) ==
  CASE step = "runs" -> "baseline" [] step = "baseline" -> "candidate"
    [] step = "candidate" -> "comparison" [] step = "comparison" -> "idle"

\* One more file of the comparison is written.
Persist(p, step) ==
  /\ job[p].step = step
  /\ LET next == Following(step) IN
     job' = [job EXCEPT ![p] = IF next = "idle" THEN NoJob ELSE [@ EXCEPT !.step = next]]

SaveRuns(p) ==
  /\ Persist(p, "runs")
  /\ datasetRuns' = datasetRuns \cup {job[p].baseline, job[p].candidate}
  /\ UNCHANGED <<source, loaded, minted, experiments, proposals, comparisons, decisions,
                 exports, loop>>

SaveBaseline(p) ==
  /\ Persist(p, "baseline")
  /\ experiments' = With(experiments, job[p].baseline,
                         Experiment(loaded[p], loaded[p].policy, None, job[p].before))
  /\ UNCHANGED <<source, loaded, minted, datasetRuns, proposals, comparisons, decisions,
                 exports, loop>>

SaveCandidate(p) ==
  /\ Persist(p, "candidate")
  /\ experiments' = With(experiments, job[p].candidate,
                         Experiment(loaded[p], job[p].effective, job[p].proposal, job[p].after))
  /\ UNCHANGED <<source, loaded, minted, datasetRuns, proposals, comparisons, decisions,
                 exports, loop>>

SaveComparison(p) ==
  /\ Persist(p, "comparison")
  /\ Mint(1, MaxIds)
  /\ comparisons' = With(comparisons, minted',
                         [proposal  |-> job[p].proposal,
                          effective |-> job[p].effective,
                          baseline  |-> job[p].baseline,
                          candidate |-> job[p].candidate,
                          passed    |-> GatesPassed(job[p])])
  /\ UNCHANGED <<source, loaded, datasetRuns, experiments, proposals, decisions, exports, loop>>

\* An error, a failed save among them, ends the comparison.
FailComparison(p) ==
  /\ job[p] # NoJob
  /\ job' = [job EXCEPT ![p] = NoJob]
  /\ UNCHANGED <<source, loaded, minted, artifacts, loop>>

-----------------------------------------------------------------------------
(* The automatic loop (runAutoImprove and its command line).               *)

\* The cases every model measured fails, with no run passed on any of them.
SolidAmbiguity(outcomes) ==
  {c \in Cases : \A o \in outcomes : Fails(o, c) /\ o[c] = 0}

\* A strong and, unless it cannot run, a weak model are measured; the loop takes
\* up some of the cases both fail, with the evidence of the strong one.
StartLoop(p) ==
  /\ Idle(p)
  /\ \E strong \in Outcomes, weak \in Outcomes, both \in BOOLEAN :
       LET Saved(outcome) == Experiment(loaded[p], loaded[p].policy, None, outcome)
           first == With(experiments, minted + 1, Saved(strong))
           solid == SolidAmbiguity(IF both THEN {strong, weak} ELSE {strong})
       IN /\ Mint(IF both THEN 2 ELSE 1, MaxMeasured)
          /\ datasetRuns' = datasetRuns \cup ((minted + 1)..minted')
          /\ experiments' = IF both THEN With(first, minted + 2, Saved(weak)) ELSE first
          /\ \E todo \in SUBSET solid :
               /\ Cardinality(todo) <= MaxCases
               /\ Cardinality(todo) < MaxCases => todo = solid
               /\ loop' = [loop EXCEPT ![p] = [NoLoop EXCEPT !.todo = todo,
                                                             !.experiment = minted + 1]]
  /\ UNCHANGED <<source, loaded, proposals, comparisons, decisions, exports, job>>

\* The loop is between two cases.
Between(p) == loop[p] # NoLoop /\ loop[p].current = {} /\ job[p] = NoJob

TakeCase(p) ==
  /\ Between(p)
  /\ \E c \in loop[p].todo :
       loop' = [loop EXCEPT ![p].current = {c}, ![p].todo = @ \ {c}, ![p].attempts = 0]
  /\ UNCHANGED <<source, loaded, minted, artifacts, job>>

EndLoop(p) ==
  /\ Between(p)
  /\ loop[p].todo = {}
  /\ loop' = [loop EXCEPT ![p] = NoLoop]
  /\ UNCHANGED <<source, loaded, minted, artifacts, job>>

\* The analyst is asked about the case; a usable answer is compared at once, in
\* the next step.
AskAnalyst(p) ==
  /\ loop[p].current # {}
  /\ job[p] = NoJob
  /\ loop[p].attempts < MaxAttempts
  /\ Analysable(p, loop[p].experiment)
  /\ \E patch \in Patches \cup {NoPatch} :
       /\ SaveProposal(p, loop[p].experiment, loop[p].current, patch)
       /\ LET ready == PolicyValid(p, patch) IN
          /\ loop' = [loop EXCEPT ![p].attempts = @ + 1,
                                  ![p].current = IF ready THEN {} ELSE @]
          /\ job' = [job EXCEPT ![p] = IF ready THEN [step |-> "ready", proposal |-> minted']
                                               ELSE NoJob]
  /\ UNCHANGED <<source, loaded, datasetRuns, experiments, comparisons, decisions, exports>>

\* A usable answer is compared.
CompareAnswer(p) ==
  /\ job[p].step = "ready"
  /\ Begin(p, job[p].proposal)
  /\ UNCHANGED <<source, loaded, minted, artifacts, loop>>

\* No usable answer, or an error: the next case.
DropCase(p) ==
  /\ loop[p].current # {}
  /\ loop' = [loop EXCEPT ![p].current = {}]
  /\ UNCHANGED <<source, loaded, minted, artifacts, job>>

-----------------------------------------------------------------------------
(* Decisions, releases, exports.                                           *)

\* agentPromotionDecisionSchema: an approval needs gates that passed.
MayDecide(decision, comparison) == decision = "approve" => comparison.passed

Decide(id, decision) ==
  /\ Cardinality(decisions) < MaxDecisions
  /\ MayDecide(decision, comparisons[id])
  /\ decisions' = decisions \cup {[comparison |-> id, decision |-> decision]}
  /\ UNCHANGED <<source, loaded, minted, datasetRuns, experiments, proposals, comparisons,
                 exports, job, loop>>

\* Someone edits the source: any policy, with or without a new version.
Release ==
  /\ source.edits < MaxReleases
  /\ \E policy \in Policies, version \in {source.version, source.version + 1} :
       source' = [version |-> version, policy |-> policy, edits |-> source.edits + 1]
  /\ UNCHANGED <<loaded, minted, artifacts, job, loop>>

\* A process ends, whatever it was doing, and starts with the source of now.
Restart(p) ==
  /\ loaded[p] # source \/ ~Idle(p)
  /\ loaded' = [loaded EXCEPT ![p] = source]
  /\ job' = [job EXCEPT ![p] = NoJob]
  /\ loop' = [loop EXCEPT ![p] = NoLoop]
  /\ UNCHANGED <<source, minted, artifacts>>

\* Mutation of Exportable, in no specification: any approved decision is.
ExportableApproved(decision) == decision.decision = "approve"

\* createProjectIntakeExport: the policy of the source is the approved one.
Exportable(decision) ==
  /\ decision.decision = "approve"
  /\ comparisons[decision.comparison].effective = source.policy

Export(decision) ==
  /\ Exportable(decision)
  /\ exports' = exports \cup {[policy |-> source.policy, decision |-> decision]}
  /\ UNCHANGED <<source, loaded, minted, datasetRuns, experiments, proposals, comparisons,
                 decisions, job, loop>>

-----------------------------------------------------------------------------
ComparisonStep(p) ==
  RunSides(p) \/ SaveRuns(p) \/ SaveBaseline(p) \/ SaveCandidate(p)
  \/ SaveComparison(p) \/ FailComparison(p)

LoopStep(p) ==
  TakeCase(p) \/ EndLoop(p) \/ AskAnalyst(p) \/ CompareAnswer(p) \/ DropCase(p)

Next ==
  \/ \E p \in Processes :
       \/ Verify(p)
       \/ \E e \in DOMAIN experiments : Analyze(p, e)
       \/ \E id \in DOMAIN proposals : BeginComparison(p, id)
       \/ StartLoop(p)
       \/ ComparisonStep(p)
       \/ LoopStep(p)
       \/ Restart(p)
  \/ \E id \in DOMAIN comparisons, decision \in {"approve", "reject", "revise"} :
       Decide(id, decision)
  \/ \E decision \in decisions : Export(decision)
  \/ Release

Spec == Init /\ [][Next]_vars

-----------------------------------------------------------------------------
\* What is on disk only refers to what is on disk, whatever process died between
\* two files: an experiment to its dataset runs and to the proposal of its
\* candidate, a proposal to the experiment it analyses, a comparison to both its
\* experiments, a decision to its comparison.
ReferencesResolve ==
  /\ DOMAIN experiments \subseteq datasetRuns
  /\ \A e \in DOMAIN experiments : experiments[e].proposal \in DOMAIN proposals \cup {None}
  /\ \A pr \in DOMAIN proposals : proposals[pr].experiment \in DOMAIN experiments
  /\ \A c \in DOMAIN comparisons :
       /\ {comparisons[c].baseline, comparisons[c].candidate} \subseteq DOMAIN experiments
       /\ comparisons[c].proposal \in DOMAIN proposals
  /\ \A d \in decisions : d.comparison \in DOMAIN comparisons

Resolved == {c \in DOMAIN comparisons :
               {comparisons[c].baseline, comparisons[c].candidate} \subseteq DOMAIN experiments}

\* However often the source was edited and the processes restarted between the
\* analysis and the comparison, what ran as the baseline is the policy the
\* analyst was shown, and what ran as the candidate is that policy with the
\* proposed patch, which is what the artifact says and is a change
\* (buildAgentCandidate).
CandidateIsThePatch ==
  \A c \in Resolved :
    LET proposal  == proposals[comparisons[c].proposal]
        baseline  == experiments[comparisons[c].baseline]
        candidate == experiments[comparisons[c].candidate]
    IN /\ baseline.policy = proposal.policy
       /\ candidate.policy = Patched(proposal.policy, proposal.patch)
       /\ candidate.policy = comparisons[c].effective
       /\ candidate.policy # baseline.policy
       /\ baseline.version = proposal.version /\ candidate.version = proposal.version
       /\ baseline.proposal = None /\ candidate.proposal = comparisons[c].proposal

Approved == {c \in Resolved : [comparison |-> c, decision |-> "approve"] \in decisions}
Before(c, case) == experiments[comparisons[c].baseline].outcome[case]
After(c, case)  == experiments[comparisons[c].candidate].outcome[case]

\* An approved candidate did no regression case worse than the registered policy
\* under the same plan, holds every protected case at its threshold and at the
\* level it was, and did some other case better, by the evidence on disk.
ApprovedIsNoWorse ==
  \A c \in Approved :
    /\ \A case \in Regression : After(c, case) >= Before(c, case)
    /\ \A case \in Protected : After(c, case) >= Threshold /\ After(c, case) >= Before(c, case)
    /\ \E case \in Visible : After(c, case) > Before(c, case)

\* What is exported is a policy that ran as a candidate and was approved, not
\* one somebody edited since (createProjectIntakeExport).
ExportIsMeasured ==
  \A x \in exports :
    /\ x.decision.comparison \in Approved
    /\ experiments[comparisons[x.decision.comparison].candidate].policy = x.policy

===============================================================================
