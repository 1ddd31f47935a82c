------------------------------ MODULE ChainView ------------------------------
(***************************************************************************)
(* What the pages show of a chain: for every stage one current artifact,   *)
(* and the banner with the next step the operator should take.  The view   *)
(* is derived from all artifacts at once, by code that shares nothing with *)
(* the services that will accept or refuse the step.                       *)
(***************************************************************************)
EXTENDS FoundryChain

-----------------------------------------------------------------------------
\* The status shown for artifact a; a reopen makes it a draft again.
Status(a) ==
  IF LatestIs(a, "approve") THEN "approved"
  ELSE IF LatestIs(a, "reject") THEN "rejected"
  ELSE IF LatestIs(a, "revise") THEN "revision-requested"
  ELSE "draft"

\* The newest artifact of a set, 0 if there is none.
Newest(S) == IF S = {} THEN 0 ELSE CHOOSE a \in S : \A b \in S : b <= a

\* Mutation of Current, in no specification: the newest of the kind.
CurrentNewest(stage, parent) == Newest(OfKind(stage))

\* The artifact shown for a stage: the newest made from this parent.
Current(stage, parent) == Newest({a \in OfKind(stage) : artifacts[a].parent = parent})

\* The newest completion is the base of an evolution if the brief is newer.
EvolveFrom(brief) ==
  LET completion == Newest(OfKind("completion")) IN
  IF completion # 0 /\ artifacts[completion].brief < brief THEN completion ELSE 0

\* The build that is shown: that of the newest approved suite of the project.
Anchor == Newest({a \in OfKind("suite") : Status(a) = "approved"})

\* A banner: decide on artifact "on", or start a stage run with these inputs, or
\* work on the build of suite "on", or answer the interview.
Banner(kind, on) == [kind |-> kind, on |-> on, stage |-> "", parent |-> 0,
                     revises |-> 0, evolves |-> 0]
RunBanner(stage, parent, revises, evolves) ==
  [kind |-> "run", on |-> 0, stage |-> stage, parent |-> parent,
   revises |-> revises, evolves |-> evolves]

\* The step for a stage whose parent is approved and whose own artifact a is not.
StageStep(stage, parent, a) ==
  CASE a = 0 \/ (a # 0 /\ Status(a) = "rejected") ->
         RunBanner(stage, parent, 0, IF stage = "plan" THEN EvolveFrom(parent) ELSE 0)
    [] a # 0 /\ Status(a) = "draft" -> Banner("decide", a)
    [] OTHER -> RunBanner(stage, parent, a, artifacts[a].evolves)

\* Down the ladder of gates: the first stage that is not approved.
NextStep ==
  LET brief      == Newest(OfKind("brief"))
      plan       == Current("plan", brief)
      capability == Current("capability", plan)
      suite      == Current("suite", capability)
      Open(a)    == a = 0 \/ (a # 0 /\ Status(a) # "approved") IN
  CASE brief = 0 -> Banner("blocked", 0)
    [] brief # 0 /\ LatestIs(brief, "reopen") -> Banner("answer", brief)
    [] brief # 0 /\ decisions[brief] = <<>> -> Banner("decide", brief)
    [] brief # 0 /\ Status(brief) \in {"rejected", "revision-requested"} ->
         Banner("blocked", brief)
    [] OTHER ->
         IF Open(plan) THEN StageStep("plan", brief, plan)
         ELSE IF Open(capability) THEN StageStep("capability", plan, capability)
         ELSE IF Open(suite) THEN StageStep("suite", capability, suite)
         ELSE Banner("build", Anchor)

-----------------------------------------------------------------------------
\* The banner can be followed: the services accept the step it offers, in every
\* state that overlapping runs, revisions and withdrawn approvals can lead to.
\* A run it starts finds its parent approved, the artifact it revises revisable
\* and its completion older than the brief, and the build is of an approved suite.
BannerAccepted ==
  LET step == NextStep IN
  /\ step.kind = "run" =>
       /\ MayWorkFrom(step.stage, step.parent)
       /\ step.revises # 0 => Revisable(step.stage, step.revises, step.parent)
       /\ step.evolves # 0 => step.stage = "plan" /\ Evolvable(step.evolves, step.parent)
  /\ step.kind = "decide" => \E kind \in DecisionKinds : MayDecide(step.on, kind)
  /\ step.kind = "build" => step.on # 0 /\ MayWorkFrom("completion", step.on)

=============================================================================
