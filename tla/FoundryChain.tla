----------------------------- MODULE FoundryChain -----------------------------
(***************************************************************************)
(* The gated pipeline of one brief: architecture plans, capability plans,  *)
(* test suites and build completions, each created by a stage run that     *)
(* checks its gate, works for minutes (a model call, a full test run) and  *)
(* saves its artifact, while the operator decides on any artifact and the  *)
(* interview appends brief versions.  Nothing serialises the runs: the web *)
(* console starts every stage as a background operation, and the command   *)
(* line and the MCP server are processes of their own.                     *)
(*                                                                         *)
(*   idle --Check--> checked --Start--> working --Save--> idle             *)
(*                                                                         *)
(* Check reads the status of the parent, Start loads the parent and reads  *)
(* the decision a revision answers.  An artifact is saved under a fresh id *)
(* and never changed, so its position in "artifacts" is its id, and the     *)
(* digests that pin a parent always match.  Decisions are looked up by the *)
(* artifact they are on and ordered by their timestamps.                   *)
(***************************************************************************)
EXTENDS Naturals, SequencesExt, FiniteSets

CONSTANTS
  Runners,        \* stage runs that may be in flight together
  Verdicts,       \* bound: the decision kinds explored
  MaxBriefs,      \* bound: brief versions
  MaxArtifacts,   \* bound: artifacts of all kinds
  MaxDecisions    \* bound: decisions of the operator, on all artifacts

VARIABLES
  artifacts,   \* artifacts[a]: a persisted brief version, plan, suite, ...
  decisions,   \* decisions[a]: the decisions on artifact a, oldest first
  run          \* the stage run each runner has in flight

vars == <<artifacts, decisions, run>>

-----------------------------------------------------------------------------
Stages == {"plan", "capability", "suite", "completion"}
Kinds  == {"brief"} \cup Stages

DecisionKinds == {"approve", "reject", "revise", "reopen"}
ASSUME VerdictsAssumption == Verdicts \subseteq DecisionKinds

\* The kind of artifact each stage works from.
ParentKind ==
  [plan |-> "brief", capability |-> "plan", suite |-> "capability",
   completion |-> "suite"]

\* parent, revises, evolves: ids of the artifact worked from, of the artifact
\* revised and of the completion a plan evolves from; 0 stands for none.
\* answers: which decision on the revised artifact the revision answers.
\* brief: the brief version at the head of the chain.  blocking: there are
\* blocking concerns, unresolved entries or open questions.
Artifact == [kind : Kinds, parent : Nat, brief : Nat, blocking : BOOLEAN,
             revises : Nat, answers : Nat, evolves : Nat]

Run == [pc : {"idle", "checked", "working"}, stage : Stages, parent : Nat,
        revises : Nat, answers : Nat, evolves : Nat]

Idle == [pc |-> "idle", stage |-> "plan", parent |-> 0,
         revises |-> 0, answers |-> 0, evolves |-> 0]

-----------------------------------------------------------------------------
OfKind(kind) == {a \in DOMAIN artifacts : artifacts[a].kind = kind}

IsLatestBrief(a) ==
  a \in OfKind("brief") /\ \A b \in OfKind("brief") : b <= a

\* The latest decision on artifact a is of this kind.
LatestIs(a, kind) == decisions[a] # <<>> /\ Last(decisions[a]) = kind

\* The status derived for artifact a is "approved"; a brief is judged by the
\* decisions on its latest version only.
Approved(a) ==
  LatestIs(a, "approve") /\ (artifacts[a].kind = "brief" => IsLatestBrief(a))

\* Mutation of MayDecide, in no specification: blocking concerns are not looked at.
MayDecideBlocking(a, kind) ==
  kind = "reopen" => artifacts[a].kind = "brief" /\ Approved(a)

\* A decision the services accept: nothing with blocking concerns is approved,
\* only the approved latest brief version is reopened, completions are final.
MayDecide(a, kind) ==
  /\ artifacts[a].kind # "completion"
  /\ kind = "approve" => ~artifacts[a].blocking
  /\ kind = "reopen" => artifacts[a].kind = "brief" /\ Approved(a)

\* Mutation of MayWorkFrom, in no specification: any decision opens the gate.
MayWorkFromDecided(stage, a) ==
  /\ artifacts[a].kind = ParentKind[stage]
  /\ decisions[a] # <<>>

\* The gate of a stage: its parent is approved.
MayWorkFrom(stage, a) ==
  artifacts[a].kind = ParentKind[stage] /\ Approved(a)

\* Mutation of Revisable, in no specification: the parents are not compared.
RevisableElsewhere(stage, a, parent) ==
  artifacts[a].kind = stage /\ LatestIs(a, "revise")

\* Artifact a may seed a revision made from this parent: it has the same
\* parent (a plan need only share the brief) and was decided to be revised.
Revisable(stage, a, parent) ==
  /\ artifacts[a].kind = stage
  /\ stage = "plan" \/ artifacts[a].parent = parent
  /\ LatestIs(a, "revise")

\* A plan for this brief version may evolve from completion c.
Evolvable(c, brief) ==
  artifacts[c].kind = "completion" /\ artifacts[c].brief < brief

-----------------------------------------------------------------------------
Init ==
  /\ artifacts = <<>>
  /\ decisions = <<>>
  /\ run = [r \in Runners |-> Idle]

\* The interview persists another brief version.
AppendBrief ==
  /\ Len(artifacts) < MaxArtifacts
  /\ Cardinality(OfKind("brief")) < MaxBriefs
  /\ \E blocking \in BOOLEAN :
       artifacts' = Append(artifacts,
         [kind |-> "brief", parent |-> 0, brief |-> Len(artifacts) + 1,
          blocking |-> blocking, revises |-> 0, answers |-> 0, evolves |-> 0])
  /\ decisions' = Append(decisions, <<>>)
  /\ UNCHANGED run

\* How many decisions the operator has taken.
Decided == Cardinality(UNION {{a} \X DOMAIN decisions[a] : a \in DOMAIN decisions})

\* The operator decides on an artifact.
Decide ==
  /\ Decided < MaxDecisions
  /\ \E a \in DOMAIN artifacts, kind \in Verdicts :
       /\ MayDecide(a, kind)
       /\ decisions' = [decisions EXCEPT ![a] = Append(@, kind)]
  /\ UNCHANGED <<artifacts, run>>

\* A stage run finds its parent approved.
Check(r) ==
  /\ run[r].pc = "idle"
  /\ \E stage \in Stages, a \in DOMAIN artifacts :
       /\ MayWorkFrom(stage, a)
       /\ run' = [run EXCEPT ![r] =
            [Idle EXCEPT !.pc = "checked", !.stage = stage, !.parent = a]]
  /\ UNCHANGED <<artifacts, decisions>>

\* The artifact the run loads: the one it checked, or the latest brief version.
Loaded(r) ==
  IF run[r].stage = "plan" THEN CHOOSE b \in OfKind("brief") : IsLatestBrief(b)
  ELSE run[r].parent

\* The run loads its inputs and begins to work.
Start(r) ==
  /\ run[r].pc = "checked"
  /\ LET stage == run[r].stage
         parent == Loaded(r) IN
     \E evolves, revises \in {0} \cup DOMAIN artifacts :
       /\ evolves # 0 => stage = "plan" /\ Evolvable(evolves, parent)
       /\ revises # 0 => stage # "completion" /\ Revisable(stage, revises, parent)
       /\ run' = [run EXCEPT ![r].pc = "working", ![r].parent = parent,
                             ![r].evolves = evolves, ![r].revises = revises,
                             ![r].answers = IF revises = 0 THEN 0
                                            ELSE Len(decisions[revises])]
  /\ UNCHANGED <<artifacts, decisions>>

\* The run succeeds and its artifact is saved.  The gate is not checked again.
Save(r) ==
  /\ run[r].pc = "working"
  /\ Len(artifacts) < MaxArtifacts
  /\ \E blocking \in BOOLEAN :
       /\ run[r].stage = "completion" => ~blocking
       /\ artifacts' = Append(artifacts,
            [kind |-> run[r].stage, parent |-> run[r].parent,
             brief |-> artifacts[run[r].parent].brief, blocking |-> blocking,
             revises |-> run[r].revises, answers |-> run[r].answers,
             evolves |-> run[r].evolves])
  /\ decisions' = Append(decisions, <<>>)
  /\ run' = [run EXCEPT ![r] = Idle]

\* A check, the model or the tests fail, or the process dies: nothing is saved.
Fail(r) ==
  /\ run[r].pc # "idle"
  /\ run' = [run EXCEPT ![r] = Idle]
  /\ UNCHANGED <<artifacts, decisions>>

Next ==
  \/ AppendBrief \/ Decide
  \/ \E r \in Runners : Check(r) \/ Start(r) \/ Save(r) \/ Fail(r)

Spec == Init /\ [][Next]_vars

-----------------------------------------------------------------------------
\* Every variable holds a value of its kind, and references lead to earlier
\* artifacts of the right kind.
TypeOK ==
  /\ artifacts \in Seq(Artifact)
  /\ decisions \in Seq(Seq(DecisionKinds)) /\ Len(decisions) = Len(artifacts)
  /\ run \in [Runners -> Run]
  /\ \A a \in DOMAIN artifacts : artifacts[a].kind # "brief" =>
       /\ artifacts[a].parent \in 1..(a - 1)
       /\ artifacts[artifacts[a].parent].kind = ParentKind[artifacts[a].kind]

\* The operator approved artifact a at some time.
OnceApproved(a) == \E d \in DOMAIN decisions[a] : decisions[a][d] = "approve"

\* A build is never completed behind the operator's back: the suite, the
\* capability plan and the plan above a completion were each approved at some
\* time, although runs overlap, versions are revised and any approval may have
\* been withdrawn meanwhile.
CompletionIsSigned ==
  \A c \in OfKind("completion") :
    LET suite == artifacts[c].parent
        capability == artifacts[suite].parent
        plan == artifacts[capability].parent IN
    \A a \in {suite, capability, plan} : OnceApproved(a)

\* Blocking concerns stop the chain: nothing is ever built on an artifact that
\* has them, whatever the operator decides.
BlockingStopsTheChain ==
  \A a \in DOMAIN artifacts :
    artifacts[a].kind \notin {"brief", "plan"} =>
      ~artifacts[artifacts[a].parent].blocking

\* A revision stays in its chain: it answers a revise decision on an artifact of
\* its own kind that hangs below the same parent, a plan's below a brief version
\* no newer than its own.
RevisionsStay ==
  \A a \in DOMAIN artifacts : artifacts[a].revises # 0 =>
    LET source == artifacts[a].revises IN
    /\ artifacts[source].kind = artifacts[a].kind
    /\ decisions[source][artifacts[a].answers] = "revise"
    /\ IF artifacts[a].kind = "plan"
       THEN artifacts[source].parent <= artifacts[a].parent
       ELSE artifacts[source].parent = artifacts[a].parent

\* Every plan was made for a brief version that the operator approved.
PlansApprovedBrief ==
  \A p \in OfKind("plan") :
    OnceApproved(artifacts[p].parent)

=============================================================================
