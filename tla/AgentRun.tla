------------------------------- MODULE AgentRun -------------------------------
(***************************************************************************)
(* Running one agent as an operation of the web console, from the request  *)
(* to the artifact: the checks of the runner, the tools that collect       *)
(* evidence, the one call of the model, what its answer is worth, and the  *)
(* artifact that is saved before the operation settles.                    *)
(*                                                                         *)
(* Nothing protects the repository while an agent reads it: every tool     *)
(* call sees whatever is there at that moment, so its result is arbitrary. *)
(* A tool call does not throw, its failure is part of its evidence.        *)
(*                                                                         *)
(*   requested --Begin--> preparing --> reading --> asking --> saving      *)
(*             --Save--> saved --Finish--> (completed)                     *)
(*   a run that fails inside the runner goes to saving like any other; an  *)
(*   error around it ends in "thrown" and the operation fails.             *)
(*                                                                         *)
(* The clients of event streams are left to OperationStore.                *)
(***************************************************************************)
EXTENDS ConsolePage, AgentGrounding

CONSTANTS
  PathOrder,       \* the paths, in the order of a listing
  Orientation,     \* the paths every inspection looks for, in order
  Instructions,    \* the one of them that comes first
  Documents,       \* the paths that are documentation
  Manifests,       \* the paths that are project metadata
  MaximumFiles,    \* how many files a documentation audit reads
  DocumentBudget,  \* how many of them are documents before anything else
  ManifestBudget,  \* how many are manifests before any source
  ContextBytes,    \* the budget of what is put in a prompt
  Sizes,           \* sizes of files
  Proposals,       \* the tool proposals considered
  MaxChanged,      \* bound: changed paths
  MaxFacts,        \* bound: facts given to an agent
  MaxPoints        \* bound: points of an answer

ASSUME BudgetsAssumption ==
  /\ {MaximumFiles, DocumentBudget, ManifestBudget, ContextBytes} \cup Sizes \subseteq Nat
  /\ PathOrder \in Seq(Paths) /\ Orientation \in Seq(Paths)

VARIABLES
  run,   \* run[o]: the run of the agent that operation o executes
  disk   \* disk[o]: the artifact of that run

runVars == <<vars, pageVars, run, disk>>

-----------------------------------------------------------------------------
Phases == {"none", "requested", "preparing", "reading", "asking", "saving",
           "saved", "thrown", "lost"}
\* Where a run failed, if it did.
Failures == {"none", "catalog", "input", "execution", "output", "evaluation"}

\* todo: paths still to be read; sound: nothing that the agent insists on has
\* failed; over: paths left out because they did not fit; room: bytes left.
NoResult == [failure |-> "none", shown |-> {}]
RunOf(agent, phase, evidence, result) ==
  [agent |-> agent, phase |-> phase, evidence |-> evidence, result |-> result,
   todo |-> <<>>, room |-> ContextBytes, sound |-> TRUE, over |-> {}]
NoRun == RunOf("tool-builder", "none", Nothing, NoResult)

\* What the artifact of a run says of it.
Artifact(r) == [agent |-> r.agent, evidence |-> r.evidence,
                failure |-> r.result.failure, shown |-> r.result.shown]
Absence == Artifact(RunOf("tool-builder", "none", Nothing,
                         [failure |-> "absent", shown |-> {}]))

Ended(o, failure, shown) ==
  RunOf(run[o].agent, "saving", run[o].evidence, [failure |-> failure, shown |-> shown])

\* The elements of s that are in S, each where it occurs first.
Distinct(s, S) ==
  LET firsts  == {i \in DOMAIN s : s[i] \in S /\ \A j \in 1..(i - 1) : s[j] # s[i]}
      rank(i) == Cardinality({j \in firsts : j <= i}) IN
  [k \in 1..Cardinality(firsts) |-> s[CHOOSE i \in firsts : rank(i) = k]]
Unique(s)  == Distinct(s, ToSet(s))
Upto(s, n) == SubSeq(s, 1, IF n < Len(s) THEN n ELSE Len(s))
Among(S)   == Distinct(PathOrder, S)

\* What an inspection wants to read: the instructions of the repository, what
\* was changed, then the rest of what it always looks for.
Candidates(observed, changed) ==
  LET found == Distinct(Orientation, observed) IN
  Unique(Distinct(found, {Instructions}) \o changed \o found)

\* What an audit wants to read: documents, metadata and source, within budgets.
AuditPaths(inventory) ==
  LET documents == Among(inventory \cap Documents)
      manifests == Among(inventory \cap Manifests)
      source    == Among(inventory \ (Documents \cup Manifests)) IN
  Upto(Unique(Upto(documents, DocumentBudget) \o Upto(manifests, ManifestBudget)
              \o source \o documents), MaximumFiles)

-----------------------------------------------------------------------------
RunInit ==
  /\ Init /\ ConsoleInit
  /\ run = [o \in Operations |-> NoRun]
  /\ disk = [o \in Operations |-> Absence]

\* A request of the console starts an operation.
Request(o) ==
  /\ Start(o)
  /\ \E agent \in Agents :
       run' = [run EXCEPT ![o] = RunOf(agent, "requested", Nothing, NoResult)]
  /\ UNCHANGED <<pageVars, disk>>

\* The model is below the floor of the agent, or there is no such workspace: an
\* error.  The agent is retired, refers to what is not there, or its input does
\* not satisfy its schema: a failed run.  Otherwise the agent is executed.
Begin(o) ==
  /\ Run(o)
  /\ run[o].phase = "requested"
  /\ \/ run' = [run EXCEPT ![o].phase = "thrown"]
     \/ \E failure \in {"catalog", "input"} :
          run' = [run EXCEPT ![o] = Ended(o, failure, {})]
     \/ run' = [run EXCEPT ![o].phase = "preparing"]
  /\ UNCHANGED <<pageVars, disk>>

\* From here on evidence is collected: all of it, or path by path.
Collected(o, phase, selected, items, check) ==
  RunOf(run[o].agent, phase,
        [selected |-> selected, items |-> items, check |-> check], NoResult)
Asking(o, items, check) == Collected(o, "asking", <<>>, items, check)
Selected(o, paths) ==
  [Collected(o, "reading", paths, <<>>, "none") EXCEPT !.todo = paths]

\* The three tools of an inspection: the package, a listing that may be cut, and
\* the changed paths.
Inspect(o) ==
  /\ run[o].phase = "preparing" /\ run[o].agent \in Inspecting
  /\ \E package, listed, compared, whole \in BOOLEAN,
        observed \in SUBSET ToSet(Orientation),
        changed \in {s \in UNION {[1..n -> Paths] : n \in 0..MaxChanged} : IsInjective(s)} :
       /\ ~listed => observed = {}
       /\ ~compared => changed = <<>>
       /\ run' = [run EXCEPT ![o] =
            [Selected(o, Candidates(observed, changed)) EXCEPT
               !.sound = package /\ listed /\ compared /\
                         (run[o].agent = "change-risk-reviewer" => whole /\ changed # <<>>)]]
  /\ UNCHANGED <<vars, pageVars, disk>>

\* The inventory of an audit; it needs a document.
TakeInventory(o) ==
  /\ run[o].phase = "preparing" /\ run[o].agent = "documentation-auditor"
  /\ \/ \E inventory \in SUBSET Paths :
          LET paths == AuditPaths(inventory) IN
          run' = [run EXCEPT ![o] = IF ToSet(paths) \cap Documents # {}
                                    THEN Selected(o, paths)
                                    ELSE Ended(o, "execution", {})]
     \/ run' = [run EXCEPT ![o] = Ended(o, "execution", {})]
  /\ UNCHANGED <<vars, pageVars, disk>>

Rest(r) == [r EXCEPT !.todo = Tail(@)]

\* Mutation of Unreadable, in no specification: the failure is passed over.
UnreadableIgnored(r) == Rest(r)

\* The next path cannot be read.
Unreadable(r) == [Rest(r) EXCEPT !.sound = FALSE]

TooLarge(r) == [Rest(r) EXCEPT !.over = @ \cup {Head(r.todo)}]

Supplied(r, size) ==
  [[Rest(r) EXCEPT !.evidence.items = Append(@, Head(r.todo))] EXCEPT !.room = @ - size]

\* The next of the selected paths is read, unless an inspection has no room left.
Read(o) ==
  /\ run[o].phase = "reading" /\ run[o].todo # <<>>
  /\ \/ /\ run[o].room = 0 /\ run[o].agent \in Inspecting
        /\ run' = [run EXCEPT ![o] = TooLarge(run[o])]
     \/ /\ run[o].room > 0 \/ run[o].agent \notin Inspecting
        /\ \/ run' = [run EXCEPT ![o] = Unreadable(run[o])]
           \/ \E size \in Sizes :
                run' = [run EXCEPT ![o] = IF size > run[o].room THEN TooLarge(run[o])
                                                             ELSE Supplied(run[o], size)]
  /\ UNCHANGED <<vars, pageVars, disk>>

\* Everything is read.  A review needs an inspection without failures and a
\* change; a prompt needs something to be about.
Assemble(o) ==
  /\ run[o].phase = "reading" /\ run[o].todo = <<>>
  /\ run' = [run EXCEPT ![o] =
       IF run[o].agent = "change-risk-reviewer" /\ ~run[o].sound
       THEN Ended(o, "evaluation", {})
       ELSE IF run[o].evidence.items # <<>>
       THEN [run[o] EXCEPT !.phase = "asking"]
       ELSE Ended(o, IF run[o].agent = "repository-assistant" THEN "evaluation"
                                                              ELSE "execution", {})]
  /\ UNCHANGED <<vars, pageVars, disk>>

\* The paths of a failure are read at once and its test is run again if that was
\* requested; the diagnosis goes on with what there is.
CollectFailure(o) ==
  /\ run[o].phase = "preparing" /\ run[o].agent = "playwright-failure-triage"
  /\ \E found \in SUBSET Paths, check \in Checks :
       run' = [run EXCEPT ![o] = Asking(o, Among(found), check)]
  /\ UNCHANGED <<vars, pageVars, disk>>

\* The one tool of a forensics or impersonation analysis.
FetchDossier(o) ==
  /\ run[o].phase = "preparing" /\ run[o].agent \in Dossiers
  /\ \/ \E items \in UNION {[1..n -> Facts] : n \in 0..MaxFacts} :
          run' = [run EXCEPT ![o] = Asking(o, items, "none")]
     \/ run' = [run EXCEPT ![o] = Ended(o, "evaluation", {})]
  /\ UNCHANGED <<vars, pageVars, disk>>

\* The council judges the facts of its input, the tool builder needs none.
TakeInput(o) ==
  /\ run[o].phase = "preparing"
  /\ \/ /\ run[o].agent \in Council
        /\ \E items \in UNION {[1..n -> Facts] : n \in 1..MaxFacts} :
             run' = [run EXCEPT ![o] = Asking(o, items, "none")]
     \/ /\ run[o].agent = "tool-builder"
        /\ run' = [run EXCEPT ![o] = Asking(o, <<>>, "none")]
  /\ UNCHANGED <<vars, pageVars, disk>>

\* What the model may cite, there or not.
Citable(agent) ==
  IF agent = "playwright-failure-triage" THEN Paths \cup {Report, Verification}
  ELSE IF agent \in Citing THEN Paths
  ELSE 1..(MaxFacts + 1)

\* A finding about a repository cites something.
Points(agent) == {S \in SUBSET Citable(agent) : agent \in Citing => S # {}}

\* What the provider may deliver: an error, a refusal, something that is not of
\* the agreed shape, or an output, which may accompany a refusal.
Answers(agent) ==
  {[NoAnswer EXCEPT !.failed = TRUE], [NoAnswer EXCEPT !.refused = TRUE], NoAnswer}
  \cup
  {[NoAnswer EXCEPT !.parsed = TRUE, !.refused = refused, !.points = points] :
     refused \in BOOLEAN,
     points \in IF agent = "tool-builder" THEN {}
                ELSE {ToSet(p) : p \in UNION {[1..n -> Points(agent)] : n \in 0..MaxPoints}}}
  \cup
  {[NoAnswer EXCEPT !.parsed = TRUE, !.proposal = proposal] :
     proposal \in IF agent = "tool-builder" THEN Proposals ELSE {}}

\* The model answers and the answer is judged.  The output of the agent may still
\* violate its contract.
Answer(o) ==
  /\ run[o].phase = "asking"
  /\ \E answer \in Answers(run[o].agent), allowed \in BOOLEAN, valid \in BOOLEAN :
       LET shown  == Shown(run[o].agent, run[o].evidence, answer)
           passes == Passes(run[o].agent, run[o].evidence, answer, allowed) IN
       run' = [run EXCEPT ![o] =
                 IF ~valid THEN Ended(o, "output", {})
                 ELSE Ended(o, IF passes THEN "none" ELSE "evaluation", shown)]
  /\ UNCHANGED <<vars, pageVars, disk>>

\* The run is saved, whatever became of it, or the save throws.
Save(o) ==
  /\ run[o].phase = "saving"
  /\ \/ /\ disk' = [disk EXCEPT ![o] = Artifact(run[o])]
        /\ run' = [run EXCEPT ![o].phase = "saved"]
     \/ /\ run' = [run EXCEPT ![o].phase = "thrown"]
        /\ UNCHANGED disk
  /\ UNCHANGED <<vars, pageVars>>

\* The execution of the operation is over.
Finish(o) ==
  /\ run[o].phase \in {"saved", "thrown"}
  /\ Settle(o)
  /\ operation'[o].status = IF run[o].phase = "saved" THEN "completed" ELSE "failed"
  /\ UNCHANGED <<pageVars, run, disk>>

\* The server restarts: what was running is gone, artifacts are not.
Lose ==
  /\ Restart
  /\ run' = [o \in Operations |->
               IF Known(o) THEN RunOf("tool-builder", "lost", Nothing, NoResult) ELSE run[o]]
  /\ UNCHANGED <<pageVars, disk>>

\* What became of the run is reported as progress; what was reported when it began
\* is in the event of Run.
Tell(o) ==
  /\ run[o].phase = "saved"
  /\ Emit(o)
  /\ UNCHANGED <<pageVars, run, disk>>

\* What else happens to an operation does not concern its run.
Observe(o) ==
  /\ \/ Acknowledge(o) /\ UNCHANGED pageVars
     \/ Poll(o)
     \/ Show(o)
  /\ UNCHANGED <<run, disk>>

Collect(o) == \/ Inspect(o) \/ TakeInventory(o) \/ Read(o) \/ Assemble(o)
              \/ CollectFailure(o) \/ FetchDossier(o) \/ TakeInput(o)

RunNext ==
  \/ \E o \in Operations :
       \/ Request(o) \/ Begin(o) \/ Collect(o) \/ Answer(o) \/ Save(o) \/ Tell(o)
       \/ Finish(o) \/ Observe(o)
  \/ Lose

RunSpec == RunInit /\ [][RunNext]_runVars

\* Of a run nothing is assumed, only of the page.
FairRunSpec == RunSpec /\ Fairness

-----------------------------------------------------------------------------
\* What the model of a run was given.  A verification that was not requested is
\* not told from one that delivered.
Given(agent, evidence) ==
  ToSet(evidence.items) \cup
  IF agent = "playwright-failure-triage"
  THEN {Report} \cup (IF evidence.check = "failed" THEN {} ELSE {Verification})
  ELSE {}

\* An operation that completed left its artifact, and one that failed did not.
CompletedIsSaved ==
  \A o \in Operations :
    /\ operation[o].status = "completed" => disk[o].failure # "absent"
    /\ operation[o].status = "failed" => disk[o].failure = "absent"

\* An artifact claims nothing without evidence the model was given; a diagnosis
\* and an argument rest on something, and so does what is said of a repository.
Supported(artifact) ==
  /\ artifact.shown \subseteq Given(artifact.agent, artifact.evidence)
  /\ artifact.agent \in {"playwright-failure-triage", "council-advocate"}
       => artifact.shown # {}
  /\ artifact.agent \in Inspecting \cup {"documentation-auditor"}
       => artifact.evidence.items # <<>>

\* The artifact of a successful run is supported, whatever the tools and the model
\* returned.
GroundedRun ==
  \A o \in Operations : disk[o].failure = "none" => Supported(disk[o])

\* The outcome that the console shows of a run is recorded, across restarts, in
\* an artifact that its evidence supports.
OutcomeHasEvidence == CompletedIsSaved /\ GroundedRun

\* The context of an agent that reads a repository stays within its budgets and
\* has no file twice; and the model is asked to review a change only when every
\* file selected for that was read or did not fit.
ContextComplete ==
  \A o \in Operations :
    LET r == run[o] IN
    r.agent \in Inspecting \cup {"documentation-auditor"} =>
      /\ r.room >= 0
      /\ IsInjective(r.evidence.items)
      /\ r.agent = "documentation-auditor" => Len(r.evidence.items) <= MaximumFiles
      /\ r.agent = "change-risk-reviewer" /\ r.phase = "asking"
           => ToSet(r.evidence.selected) \subseteq ToSet(r.evidence.items) \cup r.over

===============================================================================
