----------------------------- MODULE AgentHandoff -----------------------------
(***************************************************************************)
(* Where the evidence about an agent is collected, and what is handed on   *)
(* from it.  An evaluation runs in a registered workspace and records the  *)
(* id of it; the proposal made from it, the frozen comparison of that      *)
(* proposal and the runs it is handed to use the same id.  What the id     *)
(* stands for is looked up in a file of registrations when each starts.    *)
(*                                                                         *)
(* The file is rewritten as a whole, by requests of the console and by the *)
(* command line, and nothing keeps two of them apart: an edit checks it,   *)
(* reads it again, and replaces it, in that order, and anything may happen *)
(* in between.  So may an id be removed and registered for another root    *)
(* while a comparison of it is running.                                    *)
(*                                                                         *)
(* A proposal without a patch may recommend an engineering change, which   *)
(* is handed to the tool builder and, once somebody made it, to the change *)
(* risk reviewer.  Both are ordinary agents: anybody may run them directly *)
(* with an input that claims any proposal.  How such a run goes is         *)
(* AgentRun; here it ends in an artifact that says whether it succeeded.   *)
(***************************************************************************)
EXTENDS PromotionLoop, Sequences, SequencesExt

CONSTANTS
  Requests,   \* the requests to edit the registrations
  Ids,        \* the ids they are about
  Roots,      \* the directories they register, none of them a file system's root
  BuiltIn,    \* the id of the workspace that is always there
  Home,       \* its root
  AtFirst,    \* the registrations there were before, a sequence of [id, root]
  Advices,    \* the categories of the recommendations an analyst may make
  MaxRuns,    \* bound: runs of the tool builder and of the reviewer
  Apart       \* bound: TRUE keeps kinds of behaviours apart, see Here below

ASSUME BuiltInAssumption == BuiltIn \notin Ids /\ Home \notin Roots

VARIABLES
  registered,  \* the registrations on disk, a sequence of [id, root]
  request,     \* request[r]: how far an edit has come
  place,       \* place[e]: the workspace the evaluation e records, and the root
               \*   it ran in, which no artifact says
  side,        \* side[p]: the plan of the comparison p is running
  advice,      \* advice[pr]: the categories of what proposal pr recommends
  runs,        \* runs of the two agents on disk, by id
  asked        \* asked[p]: the run of one of them that p is executing

workspaceVars == <<registered, request>>
handoffVars   == <<place, side, advice, runs, asked>>
allVars == <<vars, workspaceVars, handoffVars>>

-----------------------------------------------------------------------------
(* The registrations.                                                      *)

Entry(id, root) == [id |-> id, root |-> root]

\* What the file and the built-in workspace say.
Listed == {Entry(BuiltIn, Home)} \cup ToSet(registered)

\* The first registration of the id, if any; an unknown id is an error.
Known(id) == id \in {w.id : w \in Listed}
RootOf(id) ==
  IF id = BuiltIn THEN Home ELSE SelectSeq(registered, LAMBDA w : w.id = id)[1].root

NotAsked == [step |-> "none"]

\* add: refused when the id or the root is taken.
CheckAdd(r) ==
  /\ request[r] = NotAsked
  /\ \E id \in Ids, root \in Roots :
       /\ \A w \in Listed : w.id # id /\ w.root # root
       /\ request' = [request EXCEPT ![r] = [step |-> "checked", entry |-> Entry(id, root)]]
  /\ UNCHANGED <<vars, registered, handoffVars>>

ReadAdd(r) ==
  /\ request[r].step = "checked"
  /\ request' = [request EXCEPT ![r] = [step |-> "read",
                                        file |-> Append(registered, request[r].entry)]]
  /\ UNCHANGED <<vars, registered, handoffVars>>

\* remove: refused when the id is unknown; the built-in one stays.
ReadRemove(r) ==
  /\ request[r] = NotAsked
  /\ \E id \in Ids :
       LET remaining == SelectSeq(registered, LAMBDA w : w.id # id) IN
       /\ remaining # registered
       /\ request' = [request EXCEPT ![r] = [step |-> "read", file |-> remaining]]
  /\ UNCHANGED <<vars, registered, handoffVars>>

\* The file is replaced in one step.
Write(r) ==
  /\ request[r].step = "read"
  /\ registered' = request[r].file
  /\ request' = [request EXCEPT ![r] = [step |-> "done"]]
  /\ UNCHANGED <<vars, handoffVars>>

EditStep == \E r \in Requests : CheckAdd(r) \/ ReadAdd(r) \/ ReadRemove(r) \/ Write(r)

-----------------------------------------------------------------------------
(* Evaluations, proposals and comparisons, with where they run.            *)

Placed(id, root) == [workspace |-> id, root |-> root]
NoRoot == "none"
NoSide == [root |-> NoRoot, baseline |-> NoRoot]
NoRun  == [agent |-> "none"]

\* The workspace of the evaluation that a proposal is about.
WorkspaceOf(proposal) == place[proposals[proposal].experiment].workspace

\* Every new evaluation of the registered policy ran in one workspace.
PlacedNew(id) ==
  place' = [e \in DOMAIN place \cup ((minted + 1)..minted') |->
              IF e \in DOMAIN place THEN place[e] ELSE Placed(id, RootOf(id))]

VerifyIn(p, id) ==
  /\ Known(id)
  /\ Verify(p)
  /\ PlacedNew(id)
  /\ UNCHANGED <<workspaceVars, side, advice, runs, asked>>

\* The command line of the loop only knows the built-in workspace.
StartLoopAtHome(p) ==
  /\ StartLoop(p)
  /\ PlacedNew(BuiltIn)
  /\ UNCHANGED <<workspaceVars, side, advice, runs, asked>>

\* A proposal with a patch recommends nothing else that is handed on.
Advised ==
  \E categories \in Advices \cup {<<>>} :
    /\ proposals'[minted'].patch # NoPatch => categories = <<>>
    /\ advice' = With(advice, minted', categories)

AnalyzeIn(p) ==
  /\ \/ \E e \in DOMAIN experiments : Analyze(p, e)
     \/ AskAnalyst(p)
  /\ Advised
  /\ UNCHANGED <<workspaceVars, place, side, runs, asked>>

\* The plan of a comparison: the workspace is looked up once.
Frozen(proposal) == [root |-> RootOf(WorkspaceOf(proposal)), baseline |-> NoRoot]

BeginIn(p) ==
  /\ \E id \in DOMAIN proposals :
       /\ \/ BeginComparison(p, id)
          \/ job[p].step = "ready" /\ id = job[p].proposal /\ CompareAnswer(p)
       /\ Known(WorkspaceOf(id))
       /\ side' = [side EXCEPT ![p] = Frozen(id)]
  /\ UNCHANGED <<workspaceVars, place, advice, runs, asked>>

\* Mutation of SideRoot, in no specification: every side looks the id up.
SideRootNow(p) ==
  LET id == WorkspaceOf(job[p].proposal) IN IF Known(id) THEN RootOf(id) ELSE NoRoot

\* The root a side of the comparison runs in.
SideRoot(p) == side[p].root

RunBaseline(p) ==
  /\ job[p].step = "running"
  /\ side[p].baseline = NoRoot
  /\ side' = [side EXCEPT ![p].baseline = SideRoot(p)]
  /\ UNCHANGED <<vars, workspaceVars, place, advice, runs, asked>>

RunCandidate(p) ==
  /\ side[p].baseline # NoRoot
  /\ RunSides(p)
  /\ LET id == WorkspaceOf(job[p].proposal) IN
     place' = With(With(place, minted + 1, Placed(id, side[p].baseline)),
                   minted + 2, Placed(id, SideRoot(p)))
  /\ side' = [side EXCEPT ![p] = NoSide]
  /\ UNCHANGED <<workspaceVars, advice, runs, asked>>

FailIn(p) ==
  /\ FailComparison(p)
  /\ side' = [side EXCEPT ![p] = NoSide]
  /\ UNCHANGED <<workspaceVars, place, advice, runs, asked>>

-----------------------------------------------------------------------------
(* Handoffs.                                                               *)

\* handoff: whether the service made the request; no artifact says so.
AgentRun(agent, workspace, about, index, builder, handoff) ==
  [agent |-> agent, workspace |-> workspace, about |-> about, index |-> index,
   builder |-> builder, handoff |-> handoff, succeeded |-> FALSE]

Ask(p, agent, workspace, about, index, builder, handoff) ==
  /\ asked[p] = NoRun
  /\ Cardinality(DOMAIN runs) < MaxRuns
  /\ Known(workspace)
  /\ asked' = [asked EXCEPT ![p] =
                 AgentRun(agent, workspace, about, index, builder, handoff)]
  /\ UNCHANGED <<vars, workspaceVars, place, side, advice, runs>>

\* The proposal requires an engineering change and has the recommendation.
Recommends(proposal, index) == index \in DOMAIN advice[proposal]

ToolBuilderHandoff(p) ==
  \E proposal \in DOMAIN proposals, index \in 1..2 :
    /\ Recommends(proposal, index)
    /\ advice[proposal][index] = "tool-capability"
    /\ Ask(p, "tool-builder", WorkspaceOf(proposal), proposal, index, None, TRUE)

\* Mutation of Linked, in no specification: any successful run will do.
LinkedAny(builder, proposal, index) ==
  /\ runs[builder].agent = "tool-builder"
  /\ runs[builder].succeeded

\* The linked run is a successful one of the tool builder, in the workspace of
\* the proposal, and claims the same recommendation.
Linked(builder, proposal, index) ==
  /\ runs[builder].agent = "tool-builder"
  /\ runs[builder].succeeded
  /\ runs[builder].about = proposal
  /\ runs[builder].index = index
  /\ runs[builder].workspace = WorkspaceOf(proposal)

ChangeRiskHandoff(p) ==
  \E proposal \in DOMAIN proposals, index \in 1..2, builder \in DOMAIN runs \cup {None} :
    /\ Recommends(proposal, index)
    /\ builder # None => Linked(builder, proposal, index)
    /\ Ask(p, "change-risk-reviewer", WorkspaceOf(proposal), proposal, index, builder, TRUE)

\* The tool builder is run directly, with whatever origin its input claims.
RunBuilder(p) ==
  \E workspace \in Ids \cup {BuiltIn}, about \in DOMAIN proposals, index \in 1..2 :
    Ask(p, "tool-builder", workspace, about, index, None, FALSE)

SaveRun(p) ==
  /\ asked[p] # NoRun
  /\ Mint(1, MaxIds)
  /\ \E succeeded \in BOOLEAN :
       runs' = With(runs, minted', [asked[p] EXCEPT !.succeeded = succeeded])
  /\ asked' = [asked EXCEPT ![p] = NoRun]
  /\ UNCHANGED <<source, loaded, artifacts, job, loop, workspaceVars, place, side, advice>>

\* An error around the run: nothing is saved.
LoseRun(p) ==
  /\ asked[p] # NoRun
  /\ asked' = [asked EXCEPT ![p] = NoRun]
  /\ UNCHANGED <<vars, workspaceVars, place, side, advice, runs>>

RestartIn(p) ==
  /\ Restart(p)
  /\ side' = [side EXCEPT ![p] = NoSide]
  /\ asked' = [asked EXCEPT ![p] = NoRun]
  /\ UNCHANGED <<workspaceVars, place, advice, runs>>

-----------------------------------------------------------------------------
HandoffInit ==
  /\ Init
  /\ registered = AtFirst
  /\ request = [r \in Requests |-> NotAsked]
  /\ place = [e \in {} |-> None]
  /\ side = [p \in Processes |-> NoSide]
  /\ advice = [pr \in {} |-> None]
  /\ runs = [i \in {} |-> None]
  /\ asked = [p \in Processes |-> NoRun]

\* Nothing of this module is touched.
Aside(action) == action /\ UNCHANGED <<workspaceVars, handoffVars>>

\* If kept apart, behaviours in which registrations are edited, another workspace
\* is used or something is handed on are about one evaluation, without loops,
\* releases or decisions, which the other ones have; analyses, comparisons and
\* edits come before what is handed on, and edits before the results of a comparison.
Edited    == \E r \in Requests : request[r] # NotAsked
HandedOn  == Apart /\ (DOMAIN runs # {} \/ \E p \in Processes : asked[p] # NoRun)
Abroad(id) == Apart /\ id # BuiltIn
Elsewhere == \/ Apart /\ Edited
             \/ HandedOn
             \/ \E e \in DOMAIN place : Abroad(place[e].workspace)
Here == Apart =>
          /\ source.edits = 0 /\ decisions = {} /\ Cardinality(DOMAIN experiments) <= 1
          /\ \A p \in Processes : loop[p] = NoLoop /\ job[p].step \in {"idle", "running"}

\* What the console starts from a proposal.
HandOn(p) == Here /\ Idle(p) /\ (ToolBuilderHandoff(p) \/ ChangeRiskHandoff(p))

\* The operator decides on a comparison.
RecordDecision ==
  \E id \in DOMAIN comparisons, decision \in {"approve", "reject", "revise"} :
    Decide(id, decision)

HandoffNext ==
  \/ Here /\ ~HandedOn /\ EditStep
  \/ \E p \in Processes :
       \/ \E id \in Ids \cup {BuiltIn} :
            (Elsewhere \/ Abroad(id) => minted = 0) /\ VerifyIn(p, id)
       \/ ~Elsewhere /\ StartLoopAtHome(p)
       \/ ~HandedOn /\ (AnalyzeIn(p) \/ BeginIn(p))
       \/ RunBaseline(p)
       \/ RunCandidate(p)
       \/ FailIn(p)
       \/ Aside(SaveRuns(p) \/ SaveBaseline(p) \/ SaveCandidate(p) \/ SaveComparison(p))
       \/ Aside(TakeCase(p) \/ EndLoop(p) \/ DropCase(p))
       \/ HandOn(p)
       \/ Here /\ Idle(p) /\ RunBuilder(p)
       \/ SaveRun(p)
       \/ LoseRun(p)
       \/ RestartIn(p)
  \/ /\ ~Elsewhere
     /\ Aside(\/ RecordDecision
              \/ \E decision \in decisions : Export(decision)
              \/ Release)

HandoffSpec == HandoffInit /\ [][HandoffNext]_allVars

-----------------------------------------------------------------------------
\* Both sides of a comparison ran in one directory and record the workspace of
\* the evaluation that the proposal is about.
SidesTogether ==
  \A c \in DOMAIN comparisons :
    /\ place[comparisons[c].baseline] = place[comparisons[c].candidate]
    /\ place[comparisons[c].baseline].workspace = WorkspaceOf(comparisons[c].proposal)

\* What was handed on is a recommendation of a saved proposal without a patch,
\* in the workspace of its evaluation; the run that a review links is an earlier
\* success of the tool builder about the same recommendation and workspace.
HandoffsFollow ==
  \A i \in DOMAIN runs :
    LET r == runs[i] IN
    r.handoff =>
      /\ r.about \in DOMAIN proposals
      /\ proposals[r.about].patch = NoPatch
      /\ Recommends(r.about, r.index)
      /\ r.workspace = WorkspaceOf(r.about)
      /\ r.builder # None =>
           /\ r.builder \in DOMAIN runs /\ r.builder < i
           /\ runs[r.builder].agent = "tool-builder" /\ runs[r.builder].succeeded
           /\ runs[r.builder].about = r.about /\ runs[r.builder].index = r.index
           /\ runs[r.builder].workspace = r.workspace

\* The evidence about an agent hangs together, whatever processes died between
\* two files and however the registrations were edited meanwhile: references
\* resolve, what is compared ran side by side, what is handed on has its origin.
EvidenceHangsTogether == ReferencesResolve /\ SidesTogether /\ HandoffsFollow

===============================================================================
