-------------------------- MODULE FoundryChainProofs --------------------------
(***************************************************************************)
(* Proofs about FoundryChain for any number of runners, artifacts and      *)
(* decisions.  What was persisted never changes and only grows, so a fact  *)
(* about an earlier artifact or decision, once true, stays true: this is   *)
(* what carries the gates checked at the start of a run to the artifact    *)
(* saved at its end.                                                       *)
(*                                                                         *)
(* The last part is about ChainView: the banner can always be followed.    *)
(***************************************************************************)
EXTENDS ChainView, TLAPS

-----------------------------------------------------------------------------
\* Artifact s is one that a revision of this kind, made from this parent and
\* answering decision d, may revise.
RevisionOf(kind, parent, s, d) ==
  /\ s \in DOMAIN artifacts
  /\ artifacts[s].kind = kind
  /\ d \in DOMAIN decisions[s] /\ decisions[s][d] = "revise"
  /\ IF kind = "plan" THEN artifacts[s].parent <= parent
                      ELSE artifacts[s].parent = parent

\* What the gate of a run established still holds while the run works.
RunSound(r) ==
  run[r].pc # "idle" =>
    /\ run[r].parent \in DOMAIN artifacts
    /\ artifacts[run[r].parent].kind = ParentKind[run[r].stage]
    /\ run[r].stage # "plan" => OnceApproved(run[r].parent)
    /\ run[r].revises # 0 =>
         RevisionOf(run[r].stage, run[r].parent, run[r].revises, run[r].answers)

\* What the gate of its run established holds for every artifact.
ArtifactSound(a) ==
  /\ artifacts[a].kind \notin {"brief", "plan"} => OnceApproved(artifacts[a].parent)
  /\ artifacts[a].revises # 0 =>
       RevisionOf(artifacts[a].kind, artifacts[a].parent,
                  artifacts[a].revises, artifacts[a].answers)

\* Nothing with blocking concerns was ever approved.
ApprovedClean ==
  \A a \in DOMAIN artifacts : OnceApproved(a) => ~artifacts[a].blocking

\* When there is a brief version there is a latest one.
LatestExists ==
  OfKind("brief") # {} => \E b \in DOMAIN artifacts : IsLatestBrief(b)

Sound ==
  /\ TypeOK
  /\ \A r \in Runners : RunSound(r)
  /\ \A a \in DOMAIN artifacts : ArtifactSound(a)
  /\ ApprovedClean
  /\ LatestExists

\* Persisted artifacts and decisions stay; more may come.
Grows ==
  /\ Len(artifacts) <= Len(artifacts')
  /\ Len(decisions) <= Len(decisions')
  /\ \A a \in DOMAIN artifacts :
       /\ artifacts'[a] = artifacts[a]
       /\ Len(decisions[a]) <= Len(decisions'[a])
       /\ \A d \in DOMAIN decisions[a] : decisions'[a][d] = decisions[a][d]

-----------------------------------------------------------------------------
\* Every step of the system only adds to what is persisted.
LEMMA StepGrows == TypeOK /\ [Next]_vars => Grows
<1> SUFFICES ASSUME TypeOK, [Next]_vars PROVE Grows
  OBVIOUS
<1> USE DEF TypeOK, Grows
<1>1. CASE AppendBrief
  <2>1. \E x : artifacts' = Append(artifacts, x)
    BY <1>1 DEF AppendBrief
  <2>2. decisions' = Append(decisions, <<>>)
    BY <1>1 DEF AppendBrief
  <2> QED
    BY <2>1, <2>2
<1>2. CASE Decide
  <2>1. PICK a \in DOMAIN artifacts, kind \in Verdicts :
          decisions' = [decisions EXCEPT ![a] = Append(@, kind)]
    BY <1>2 DEF Decide
  <2>2. artifacts' = artifacts
    BY <1>2 DEF Decide
  <2>3. \A b \in DOMAIN decisions : decisions[b] \in Seq(DecisionKinds)
    OBVIOUS
  <2>4. \A b \in DOMAIN artifacts : b # a => decisions'[b] = decisions[b]
    BY <2>1
  <2>5. decisions'[a] = Append(decisions[a], kind)
    BY <2>1
  <2> QED
    BY <2>1, <2>2, <2>3, <2>4, <2>5
<1>3. ASSUME NEW r \in Runners, Check(r) \/ Start(r) \/ Fail(r) PROVE Grows
  <2>1. artifacts' = artifacts /\ decisions' = decisions
    BY <1>3 DEF Check, Start, Fail
  <2> QED
    BY <2>1
<1>4. ASSUME NEW r \in Runners, Save(r) PROVE Grows
  <2>1. \E x : artifacts' = Append(artifacts, x)
    BY <1>4 DEF Save
  <2>2. decisions' = Append(decisions, <<>>)
    BY <1>4 DEF Save
  <2> QED
    BY <2>1, <2>2
<1>5. CASE UNCHANGED vars
  BY <1>5 DEF vars
<1> QED
  BY <1>1, <1>2, <1>3, <1>4, <1>5 DEF Next

\* What is known of an artifact and of the decisions on it survives growth.
LEMMA GrowthKeeps ==
  ASSUME TypeOK, TypeOK', Grows
  PROVE  /\ DOMAIN artifacts \subseteq DOMAIN artifacts'
         /\ \A a \in DOMAIN artifacts : artifacts'[a] = artifacts[a]
         /\ \A a \in DOMAIN artifacts : OnceApproved(a) => OnceApproved(a)'
         /\ \A kind \in Kinds, parent \in Nat, s, d \in Nat :
              RevisionOf(kind, parent, s, d) => RevisionOf(kind, parent, s, d)'
<1>1. DOMAIN artifacts \subseteq DOMAIN artifacts'
  BY DEF TypeOK, Grows
<1>2. \A a \in DOMAIN artifacts : DOMAIN decisions[a] \subseteq DOMAIN decisions'[a]
  <2> SUFFICES ASSUME NEW a \in DOMAIN artifacts
               PROVE  DOMAIN decisions[a] \subseteq DOMAIN decisions'[a]
    OBVIOUS
  <2>1. decisions[a] \in Seq(DecisionKinds) /\ decisions'[a] \in Seq(DecisionKinds)
    BY <1>1 DEF TypeOK
  <2> QED
    BY <2>1 DEF Grows
<1>3. \A a \in DOMAIN artifacts : OnceApproved(a) => OnceApproved(a)'
  BY <1>2 DEF OnceApproved, Grows
<1>4. \A kind \in Kinds, parent \in Nat, s, d \in Nat :
        RevisionOf(kind, parent, s, d) => RevisionOf(kind, parent, s, d)'
  BY <1>1, <1>2 DEF RevisionOf, Grows
<1> QED
  BY <1>1, <1>3, <1>4 DEF Grows

-----------------------------------------------------------------------------
\* The version a planning run loads is the latest brief version.
LEMMA LoadedBrief ==
  ASSUME Sound, NEW r \in Runners, run[r].pc = "checked", run[r].stage = "plan"
  PROVE  Loaded(r) \in DOMAIN artifacts /\ IsLatestBrief(Loaded(r))
<1>1. run[r].parent \in OfKind("brief")
  BY DEF Sound, RunSound, ParentKind, OfKind
<1>2. \E b \in DOMAIN artifacts : IsLatestBrief(b)
  BY <1>1 DEF Sound, LatestExists
<1>3. \E b \in OfKind("brief") : IsLatestBrief(b)
  BY <1>2 DEF IsLatestBrief
<1> QED
  BY <1>3 DEF Loaded, OfKind

\* The parent a run works from is of the kind its stage works from.
LEMMA LoadedKind ==
  ASSUME Sound, NEW r \in Runners, run[r].pc = "checked"
  PROVE  /\ Loaded(r) \in DOMAIN artifacts
         /\ artifacts[Loaded(r)].kind = ParentKind[run[r].stage]
         /\ run[r].stage # "plan" => OnceApproved(Loaded(r))
<1>1. CASE run[r].stage = "plan"
  BY <1>1, LoadedBrief DEF IsLatestBrief, OfKind, ParentKind
<1>2. CASE run[r].stage # "plan"
  BY <1>2 DEF Loaded, Sound, RunSound
<1> QED
  BY <1>1, <1>2

LEMMA CheckedType ==
  ASSUME NEW stage \in Stages, NEW a \in Nat
  PROVE  [Idle EXCEPT !.pc = "checked", !.stage = stage, !.parent = a] \in Run
BY DEF Idle, Run

LEMMA WorkingType ==
  ASSUME NEW x \in Run, NEW p \in Nat, NEW e \in Nat, NEW s \in Nat, NEW d \in Nat
  PROVE  [x EXCEPT !.pc = "working", !.parent = p, !.evolves = e, !.revises = s,
                   !.answers = d] \in Run
BY DEF Run

LEMMA TypeInit == Init => TypeOK
BY DEF Init, TypeOK, Idle, Run, Stages

LEMMA TypeStep == Sound /\ [Next]_vars => TypeOK'
<1> SUFFICES ASSUME Sound, [Next]_vars PROVE TypeOK'
  OBVIOUS
<1>0. TypeOK
  BY DEF Sound
<1> USE DEF TypeOK
<1>1. CASE AppendBrief
  <2>1. PICK blocking \in BOOLEAN :
          artifacts' = Append(artifacts,
            [kind |-> "brief", parent |-> 0, brief |-> Len(artifacts) + 1,
             blocking |-> blocking, revises |-> 0, answers |-> 0, evolves |-> 0])
    BY <1>1 DEF AppendBrief
  <2>2. [kind |-> "brief", parent |-> 0, brief |-> Len(artifacts) + 1,
         blocking |-> blocking, revises |-> 0, answers |-> 0, evolves |-> 0]
          \in Artifact
    BY <1>0 DEF Artifact, Kinds
  <2>3. artifacts' \in Seq(Artifact)
    BY <1>0, <2>1, <2>2
  <2>4. decisions' \in Seq(Seq(DecisionKinds)) /\ Len(decisions') = Len(artifacts')
    BY <1>0, <1>1, <2>1 DEF AppendBrief
  <2>5. run' = run
    BY <1>1 DEF AppendBrief
  <2> QED
    BY <1>0, <2>1, <2>3, <2>4, <2>5
<1>2. CASE Decide
  <2>1. PICK a \in DOMAIN artifacts, kind \in Verdicts :
          decisions' = [decisions EXCEPT ![a] = Append(@, kind)]
    BY <1>2 DEF Decide
  <2>2. Append(decisions[a], kind) \in Seq(DecisionKinds)
    BY <1>0, VerdictsAssumption
  <2>3. decisions' \in Seq(Seq(DecisionKinds)) /\ Len(decisions') = Len(decisions)
    BY <1>0, <2>1, <2>2
  <2> QED
    BY <1>0, <1>2, <2>3 DEF Decide
<1>3. ASSUME NEW r \in Runners, Check(r) PROVE TypeOK'
  <2>1. PICK stage \in Stages, a \in DOMAIN artifacts :
          run' = [run EXCEPT ![r] =
            [Idle EXCEPT !.pc = "checked", !.stage = stage, !.parent = a]]
    BY <1>3 DEF Check
  <2>2. a \in Nat
    BY <1>0
  <2>3. [Idle EXCEPT !.pc = "checked", !.stage = stage, !.parent = a] \in Run
    BY <2>2, CheckedType
  <2> QED
    BY <1>0, <1>3, <2>1, <2>3 DEF Check
<1>4. ASSUME NEW r \in Runners, Start(r) PROVE TypeOK'
  <2>1. PICK evolves \in {0} \cup DOMAIN artifacts,
             revises \in {0} \cup DOMAIN artifacts :
          run' = [run EXCEPT ![r].pc = "working", ![r].parent = Loaded(r),
                             ![r].evolves = evolves, ![r].revises = revises,
                             ![r].answers = IF revises = 0 THEN 0
                                            ELSE Len(decisions[revises])]
    BY <1>4 DEF Start
  <2>2. Loaded(r) \in Nat /\ evolves \in Nat /\ revises \in Nat
    BY <1>0, <1>4, LoadedKind DEF Start
  <2>3. (IF revises = 0 THEN 0 ELSE Len(decisions[revises])) \in Nat
    BY <1>0
  <2> DEFINE answers == IF revises = 0 THEN 0 ELSE Len(decisions[revises])
             working == [run[r] EXCEPT !.pc = "working", !.parent = Loaded(r),
                           !.evolves = evolves, !.revises = revises,
                           !.answers = answers]
  <2>4. working \in Run
    BY <1>0, <2>2, <2>3, WorkingType
  <2>5. run' \in [Runners -> Run]
    <3>1. run' = [run EXCEPT ![r] = working]
      BY <1>0, <2>1
    <3> HIDE DEF working
    <3> QED
      BY <1>0, <2>4, <3>1
  <2> QED
    BY <1>0, <1>4, <2>5 DEF Start
<1>5. ASSUME NEW r \in Runners, Save(r) PROVE TypeOK'
  <2> DEFINE new(blocking) ==
        [kind |-> run[r].stage, parent |-> run[r].parent,
         brief |-> artifacts[run[r].parent].brief, blocking |-> blocking,
         revises |-> run[r].revises, answers |-> run[r].answers,
         evolves |-> run[r].evolves]
  <2>1. PICK blocking \in BOOLEAN : artifacts' = Append(artifacts, new(blocking))
    BY <1>5 DEF Save
  <2>2. /\ run[r].parent \in DOMAIN artifacts
        /\ artifacts[run[r].parent].kind = ParentKind[run[r].stage]
        /\ run[r] \in Run
    BY <1>0, <1>5 DEF Save, Sound, RunSound
  <2>3. new(blocking) \in Artifact
    <3>1. artifacts[run[r].parent] \in Artifact
      BY <1>0, <2>2
    <3> QED
      BY <2>2, <3>1 DEF Artifact, Run, Kinds
  <2>4. artifacts' \in Seq(Artifact)
    BY <1>0, <2>1, <2>3
  <2>5. decisions' \in Seq(Seq(DecisionKinds)) /\ Len(decisions') = Len(artifacts')
    BY <1>0, <1>5, <2>1 DEF Save
  <2>6. run' \in [Runners -> Run]
    BY <1>0, <1>5 DEF Save, Idle, Run, Stages
  <2>7. \A a \in DOMAIN artifacts' : artifacts'[a].kind # "brief" =>
          /\ artifacts'[a].parent \in 1..(a - 1)
          /\ artifacts'[artifacts'[a].parent].kind = ParentKind[artifacts'[a].kind]
    BY <1>0, <2>1, <2>2, <2>4
  <2> QED
    BY <2>4, <2>5, <2>6, <2>7
<1>6. ASSUME NEW r \in Runners, Fail(r) PROVE TypeOK'
  BY <1>0, <1>6 DEF Fail, Idle, Run, Stages
<1>7. CASE UNCHANGED vars
  BY <1>0, <1>7 DEF vars
<1> QED
  BY <1>1, <1>2, <1>3, <1>4, <1>5, <1>6, <1>7 DEF Next

-----------------------------------------------------------------------------
LEMMA SoundInit == Init => Sound
<1> SUFFICES ASSUME Init PROVE Sound
  OBVIOUS
<1>1. TypeOK
  BY TypeInit
<1>2. \A r \in Runners : RunSound(r)
  BY DEF Init, RunSound, Idle
<1>3. /\ \A a \in DOMAIN artifacts : ArtifactSound(a)
      /\ ApprovedClean
      /\ LatestExists
  BY DEF Init, ApprovedClean, LatestExists, OfKind
<1> QED
  BY <1>1, <1>2, <1>3 DEF Sound

\* What a run relies on is not disturbed by the steps of others.
LEMMA RunKept ==
  ASSUME Sound, TypeOK', Grows, NEW r \in Runners, run'[r] = run[r]
  PROVE  RunSound(r)'
<1>1. TypeOK
  BY DEF Sound
<1>2. run[r] \in Run
  BY <1>1 DEF TypeOK
<1>3. run[r].stage \in Kinds /\ run[r].parent \in Nat
      /\ run[r].revises \in Nat /\ run[r].answers \in Nat
  BY <1>2 DEF Run, Kinds
<1> QED
  BY <1>1, <1>3, GrowthKeeps DEF Sound, RunSound

LEMMA RunStep == Sound /\ [Next]_vars => \A r \in Runners : RunSound(r)'
<1> SUFFICES ASSUME Sound, [Next]_vars, NEW q \in Runners PROVE RunSound(q)'
  OBVIOUS
<1>0. TypeOK /\ TypeOK' /\ Grows
  BY TypeStep, StepGrows DEF Sound
<1>1. CASE run'[q] = run[q]
  BY <1>0, <1>1, RunKept
<1>2. CASE run'[q] = Idle
  BY <1>2 DEF RunSound, Idle
<1>3. CASE Check(q)
  <2>1. PICK stage \in Stages, a \in DOMAIN artifacts :
          /\ MayWorkFrom(stage, a)
          /\ run' = [run EXCEPT ![q] =
               [Idle EXCEPT !.pc = "checked", !.stage = stage, !.parent = a]]
    BY <1>3 DEF Check
  <2>2. run'[q].stage = stage /\ run'[q].parent = a /\ run'[q].revises = 0
    BY <1>0, <2>1 DEF Idle, TypeOK
  <2>3. artifacts' = artifacts /\ decisions' = decisions
    BY <1>3 DEF Check
  <2>4. artifacts[a].kind = ParentKind[stage]
    BY <2>1 DEF MayWorkFrom
  <2>5. OnceApproved(a)
    <3>1. LatestIs(a, "approve") /\ decisions[a] \in Seq(DecisionKinds)
      BY <1>0, <2>1 DEF MayWorkFrom, Approved, TypeOK
    <3>2. Len(decisions[a]) \in DOMAIN decisions[a]
      BY <3>1 DEF LatestIs
    <3> QED
      BY <3>1, <3>2 DEF LatestIs, OnceApproved, Last
  <2>6. OnceApproved(a)'
    BY <2>3, <2>5 DEF OnceApproved
  <2> QED
    BY <2>2, <2>3, <2>4, <2>6 DEF RunSound
<1>4. CASE Start(q)
  <2>1. PICK evolves \in {0} \cup DOMAIN artifacts,
             revises \in {0} \cup DOMAIN artifacts :
          /\ revises # 0 => Revisable(run[q].stage, revises, Loaded(q))
          /\ run' = [run EXCEPT ![q].pc = "working", ![q].parent = Loaded(q),
                             ![q].evolves = evolves, ![q].revises = revises,
                             ![q].answers = IF revises = 0 THEN 0
                                            ELSE Len(decisions[revises])]
    BY <1>4 DEF Start
  <2>2. /\ run'[q].stage = run[q].stage
        /\ run'[q].parent = Loaded(q)
        /\ run'[q].revises = revises
        /\ revises # 0 => run'[q].answers = Len(decisions[revises])
    BY <1>0, <2>1 DEF TypeOK, Run
  <2>3. /\ Loaded(q) \in DOMAIN artifacts
        /\ artifacts[Loaded(q)].kind = ParentKind[run[q].stage]
        /\ run[q].stage # "plan" => OnceApproved(Loaded(q))
    BY <1>4, LoadedKind DEF Start
  <2>4. revises # 0 =>
          RevisionOf(run[q].stage, Loaded(q), revises, Len(decisions[revises]))
    <3> SUFFICES ASSUME revises # 0
                 PROVE  RevisionOf(run[q].stage, Loaded(q), revises,
                                   Len(decisions[revises]))
      OBVIOUS
    <3>1. /\ revises \in DOMAIN artifacts
          /\ artifacts[revises].kind = run[q].stage
          /\ run[q].stage = "plan" \/ artifacts[revises].parent = Loaded(q)
          /\ LatestIs(revises, "revise")
      BY <2>1 DEF Revisable
    <3>2. decisions[revises] \in Seq(DecisionKinds)
      BY <1>0, <3>1 DEF TypeOK
    <3>3. /\ Len(decisions[revises]) \in DOMAIN decisions[revises]
          /\ decisions[revises][Len(decisions[revises])] = "revise"
      BY <3>1, <3>2 DEF LatestIs, Last
    <3>4. run[q].stage = "plan" => artifacts[revises].parent <= Loaded(q)
      <4> SUFFICES ASSUME run[q].stage = "plan"
                   PROVE  artifacts[revises].parent <= Loaded(q)
        OBVIOUS
      <4>1. artifacts[revises].parent \in OfKind("brief")
        BY <1>0, <3>1 DEF TypeOK, OfKind, ParentKind
      <4>2. IsLatestBrief(Loaded(q))
        BY <1>4, LoadedBrief DEF Start
      <4> QED
        BY <4>1, <4>2 DEF IsLatestBrief
    <3> QED
      BY <3>1, <3>3, <3>4 DEF RevisionOf
  <2>5. artifacts' = artifacts /\ decisions' = decisions
    BY <1>4 DEF Start
  <2>6. PICK stage, p, d : stage = run[q].stage /\ p = Loaded(q)
                           /\ d = IF revises = 0 THEN 0 ELSE Len(decisions[revises])
    OBVIOUS
  <2>7. OnceApproved(p) => OnceApproved(p)'
    BY <2>5 DEF OnceApproved
  <2>8. RevisionOf(stage, p, revises, d) => RevisionOf(stage, p, revises, d)'
    BY <2>5 DEF RevisionOf
  <2>9. /\ p \in DOMAIN artifacts'
        /\ artifacts'[p].kind = ParentKind[stage]
        /\ stage # "plan" => OnceApproved(p)'
        /\ revises # 0 => RevisionOf(stage, p, revises, d)'
    BY <2>3, <2>4, <2>5, <2>6, <2>7, <2>8
  <2>10. /\ run'[q].stage = stage /\ run'[q].parent = p
         /\ run'[q].revises = revises
         /\ revises # 0 => run'[q].answers = d
    BY <2>2, <2>6
  <2> QED
    BY <2>9, <2>10 DEF RunSound
<1>5. run'[q] = run[q] \/ run'[q] = Idle \/ Check(q) \/ Start(q)
  <2>1. CASE AppendBrief \/ Decide \/ UNCHANGED vars
    BY <2>1 DEF AppendBrief, Decide, vars
  <2>2. ASSUME NEW r \in Runners, r # q, Check(r) \/ Start(r) \/ Save(r) \/ Fail(r)
        PROVE  run'[q] = run[q]
    BY <1>0, <2>2 DEF Check, Start, Save, Fail, TypeOK
  <2>3. CASE Save(q) \/ Fail(q)
    BY <1>0, <2>3 DEF Save, Fail, TypeOK
  <2> QED
    BY <2>1, <2>2, <2>3 DEF Next
<1> QED
  BY <1>1, <1>2, <1>3, <1>4, <1>5

LEMMA ArtifactStep ==
  Sound /\ [Next]_vars => \A a \in DOMAIN artifacts' : ArtifactSound(a)'
<1> SUFFICES ASSUME Sound, [Next]_vars, NEW a \in DOMAIN artifacts'
             PROVE  ArtifactSound(a)'
  OBVIOUS
<1>0. TypeOK /\ TypeOK' /\ Grows
  BY TypeStep, StepGrows DEF Sound
<1>1. CASE a \in DOMAIN artifacts
  <2>1. artifacts[a] \in Artifact /\ artifacts'[a] = artifacts[a]
    BY <1>0, <1>1 DEF TypeOK, Grows
  <2>2. /\ artifacts[a].kind \in Kinds /\ artifacts[a].parent \in Nat
        /\ artifacts[a].revises \in Nat /\ artifacts[a].answers \in Nat
    BY <2>1 DEF Artifact
  <2>3. artifacts[a].kind # "brief" => artifacts[a].parent \in DOMAIN artifacts
    BY <1>0, <1>1 DEF TypeOK
  <2>4. ArtifactSound(a)
    BY <1>1 DEF Sound
  <2>5. PICK k \in Kinds, p \in Nat, s \in Nat, d \in Nat :
          k = artifacts[a].kind /\ p = artifacts[a].parent
          /\ s = artifacts[a].revises /\ d = artifacts[a].answers
    BY <2>2
  <2>6. k \notin {"brief", "plan"} => OnceApproved(p)'
    BY <1>0, <2>3, <2>4, <2>5, GrowthKeeps DEF ArtifactSound
  <2>7. s # 0 => RevisionOf(k, p, s, d)'
    BY <1>0, <2>4, <2>5, GrowthKeeps DEF ArtifactSound
  <2> QED
    BY <2>1, <2>5, <2>6, <2>7 DEF ArtifactSound
<1>2. CASE a \notin DOMAIN artifacts
  <2>1. CASE AppendBrief
    <3>1. a = Len(artifacts) + 1
      BY <1>0, <1>2, <2>1 DEF AppendBrief, TypeOK
    <3>2. artifacts'[a].kind = "brief" /\ artifacts'[a].revises = 0
      BY <1>0, <2>1, <3>1 DEF AppendBrief, TypeOK
    <3> QED
      BY <3>2 DEF ArtifactSound
  <2>2. ASSUME NEW r \in Runners, Save(r) PROVE ArtifactSound(a)'
    <3>1. PICK blocking \in BOOLEAN :
            artifacts' = Append(artifacts,
              [kind |-> run[r].stage, parent |-> run[r].parent,
               brief |-> artifacts[run[r].parent].brief, blocking |-> blocking,
               revises |-> run[r].revises, answers |-> run[r].answers,
               evolves |-> run[r].evolves])
      BY <2>2 DEF Save
    <3>2. a = Len(artifacts) + 1
      BY <1>0, <1>2, <3>1 DEF TypeOK
    <3>3. run[r] \in Run
      BY <1>0 DEF TypeOK
    <3>4. PICK k \in Kinds, p \in Nat, s \in Nat, d \in Nat :
            k = run[r].stage /\ p = run[r].parent
            /\ s = run[r].revises /\ d = run[r].answers
      BY <3>3 DEF Run, Kinds
    <3>5. /\ artifacts'[a].kind = k /\ artifacts'[a].parent = p
          /\ artifacts'[a].revises = s /\ artifacts'[a].answers = d
      BY <1>0, <3>1, <3>2, <3>4 DEF TypeOK
    <3>6. /\ p \in DOMAIN artifacts
          /\ k # "plan" => OnceApproved(p)
          /\ s # 0 => RevisionOf(k, p, s, d)
      BY <2>2, <3>4 DEF Save, Sound, RunSound
    <3>7. /\ k # "plan" => OnceApproved(p)'
          /\ s # 0 => RevisionOf(k, p, s, d)'
      BY <1>0, <3>6, GrowthKeeps
    <3> QED
      BY <3>5, <3>7 DEF ArtifactSound
  <2>3. CASE Decide \/ UNCHANGED vars
    BY <1>2, <2>3 DEF Decide, vars
  <2>4. ASSUME NEW r \in Runners, Check(r) \/ Start(r) \/ Fail(r)
        PROVE  ArtifactSound(a)'
    BY <1>2, <2>4 DEF Check, Start, Fail
  <2> QED
    BY <2>1, <2>2, <2>3, <2>4 DEF Next
<1> QED
  BY <1>1, <1>2

LEMMA CleanStep == Sound /\ [Next]_vars => ApprovedClean'
<1> SUFFICES ASSUME Sound, [Next]_vars, NEW a \in DOMAIN artifacts', OnceApproved(a)'
             PROVE  ~artifacts'[a].blocking
  BY DEF ApprovedClean
<1>0. TypeOK /\ TypeOK' /\ Grows
  BY TypeStep, StepGrows DEF Sound
<1>1. CASE Decide
  <2>1. PICK b \in DOMAIN artifacts, kind \in Verdicts :
          /\ MayDecide(b, kind)
          /\ decisions' = [decisions EXCEPT ![b] = Append(@, kind)]
    BY <1>1 DEF Decide
  <2>2. artifacts' = artifacts /\ a \in DOMAIN decisions
    BY <1>0, <1>1 DEF Decide, TypeOK
  <2>3. CASE OnceApproved(a)
    BY <2>2, <2>3 DEF Sound, ApprovedClean
  <2>4. CASE ~OnceApproved(a)
    <3>1. PICK d \in DOMAIN decisions'[a] : decisions'[a][d] = "approve"
      BY DEF OnceApproved
    <3>2. a = b
      BY <2>1, <2>2, <2>4, <3>1 DEF OnceApproved
    <3>3. decisions[a] \in Seq(DecisionKinds)
      BY <1>0, <2>2 DEF TypeOK
    <3>4. decisions'[a] = Append(decisions[a], kind)
      BY <1>0, <2>1, <2>2, <3>2 DEF TypeOK
    <3>5. d = Len(decisions[a]) + 1
      BY <2>4, <3>1, <3>3, <3>4 DEF OnceApproved
    <3>6. kind = "approve"
      BY <3>1, <3>3, <3>4, <3>5
    <3> QED
      BY <2>1, <2>2, <3>2, <3>6 DEF MayDecide
  <2> QED
    BY <2>3, <2>4
<1>2. ASSUME AppendBrief \/ \E r \in Runners : Save(r)
      PROVE  ~artifacts'[a].blocking
  <2>1. decisions' = Append(decisions, <<>>)
    BY <1>2 DEF AppendBrief, Save
  <2>2. a # Len(decisions) + 1
    <3> SUFFICES ASSUME a = Len(decisions) + 1 PROVE FALSE
      OBVIOUS
    <3>1. decisions'[a] = <<>>
      BY <1>0, <2>1 DEF TypeOK
    <3> QED
      BY <3>1 DEF OnceApproved
  <2>3. a \in DOMAIN artifacts /\ decisions'[a] = decisions[a]
    BY <1>0, <2>1, <2>2 DEF TypeOK
  <2>4. OnceApproved(a)
    BY <2>3 DEF OnceApproved
  <2> QED
    BY <1>0, <2>3, <2>4 DEF Sound, ApprovedClean, Grows
<1>3. ASSUME UNCHANGED vars \/ \E r \in Runners : Check(r) \/ Start(r) \/ Fail(r)
      PROVE  ~artifacts'[a].blocking
  <2>1. artifacts' = artifacts /\ decisions' = decisions
    BY <1>3 DEF Check, Start, Fail, vars
  <2>2. OnceApproved(a)
    BY <2>1 DEF OnceApproved
  <2> QED
    BY <2>1, <2>2 DEF Sound, ApprovedClean
<1> QED
  BY <1>1, <1>2, <1>3 DEF Next

LEMMA LatestStep == Sound /\ [Next]_vars => LatestExists'
<1> SUFFICES ASSUME Sound, [Next]_vars, OfKind("brief")' # {}
             PROVE  \E b \in DOMAIN artifacts' : IsLatestBrief(b)'
  BY DEF LatestExists
<1>0. TypeOK /\ TypeOK' /\ Grows
  BY TypeStep, StepGrows DEF Sound
<1>1. CASE AppendBrief
  <2>1. /\ Len(artifacts) + 1 \in DOMAIN artifacts'
        /\ DOMAIN artifacts' = 1..(Len(artifacts) + 1)
        /\ artifacts'[Len(artifacts) + 1].kind = "brief"
    BY <1>0, <1>1 DEF AppendBrief, TypeOK
  <2>2. PICK n : n = Len(artifacts) + 1
    OBVIOUS
  <2>3. IsLatestBrief(n)'
    BY <1>0, <2>1, <2>2 DEF IsLatestBrief, OfKind, TypeOK
  <2> QED
    BY <2>1, <2>2, <2>3
<1>2. CASE OfKind("brief")' = OfKind("brief")
  <2>1. PICK b \in DOMAIN artifacts : IsLatestBrief(b)
    BY <1>2 DEF Sound, LatestExists
  <2>2. IsLatestBrief(b)'
    BY <1>2, <2>1 DEF IsLatestBrief
  <2>3. b \in DOMAIN artifacts'
    BY <1>2, <2>1 DEF IsLatestBrief, OfKind
  <2> QED
    BY <2>2, <2>3
<1>3. ASSUME NEW r \in Runners, Save(r) PROVE OfKind("brief")' = OfKind("brief")
  <2>1. run[r].stage \in Stages
    BY <1>0 DEF TypeOK, Run
  <2>2. /\ DOMAIN artifacts' = DOMAIN artifacts \cup {Len(artifacts) + 1}
        /\ artifacts'[Len(artifacts) + 1].kind = run[r].stage
    BY <1>0, <1>3 DEF Save, TypeOK
  <2> QED
    BY <1>0, <2>1, <2>2 DEF OfKind, Stages, Grows
<1>4. ASSUME Decide \/ UNCHANGED vars
             \/ \E r \in Runners : Check(r) \/ Start(r) \/ Fail(r)
      PROVE  OfKind("brief")' = OfKind("brief")
  BY <1>4 DEF Decide, Check, Start, Fail, vars, OfKind
<1> QED
  BY <1>1, <1>2, <1>3, <1>4 DEF Next

-----------------------------------------------------------------------------
\* Whatever the runs and the operator do, the pipeline stays sound: what the
\* gate of a stage established holds for the run and for what it saves.
THEOREM Soundness == Spec => []Sound
<1>1. Sound /\ [Next]_vars => Sound'
  BY TypeStep, RunStep, ArtifactStep, CleanStep, LatestStep DEF Sound
<1> QED
  BY <1>1, SoundInit, PTL DEF Spec

\* The variables keep their types and references lead to earlier artifacts of
\* the kind the stage works from, for any number of concurrent runs.
THEOREM TypeCorrect == Spec => []TypeOK
<1>1. Sound => TypeOK
  BY DEF Sound
<1> QED
  BY <1>1, Soundness, PTL

\* No build is completed on a suite, capability plan or plan that the operator
\* never approved, for any number of concurrent runs and of decisions.
THEOREM Signed == Spec => []CompletionIsSigned
<1>1. Sound => CompletionIsSigned
  <2> SUFFICES ASSUME Sound, NEW c \in OfKind("completion")
      PROVE  LET suite == artifacts[c].parent
                 capability == artifacts[suite].parent
                 plan == artifacts[capability].parent IN
             \A a \in {suite, capability, plan} : OnceApproved(a)
    BY DEF CompletionIsSigned
  <2> DEFINE suite == artifacts[c].parent
             capability == artifacts[suite].parent
             plan == artifacts[capability].parent
  <2>1. TypeOK /\ \A a \in DOMAIN artifacts : ArtifactSound(a)
    BY DEF Sound
  <2>2. c \in DOMAIN artifacts /\ artifacts[c].kind = "completion"
    BY DEF OfKind
  <2>3. suite \in DOMAIN artifacts /\ artifacts[suite].kind = "suite"
    <3>1. suite \in 1..(c - 1) /\ artifacts[suite].kind = ParentKind["completion"]
      BY <2>1, <2>2 DEF TypeOK
    <3>2. suite \in DOMAIN artifacts
      BY <2>1, <2>2, <3>1 DEF TypeOK
    <3> QED
      BY <3>1, <3>2 DEF ParentKind
  <2>4. capability \in DOMAIN artifacts /\ artifacts[capability].kind = "capability"
    BY <2>1, <2>3 DEF TypeOK, ParentKind
  <2>5. OnceApproved(suite)
    BY <2>1, <2>2 DEF ArtifactSound
  <2>6. OnceApproved(capability)
    BY <2>1, <2>3 DEF ArtifactSound
  <2>7. OnceApproved(plan)
    BY <2>1, <2>4 DEF ArtifactSound
  <2> QED
    BY <2>5, <2>6, <2>7
<1> QED
  BY <1>1, Soundness, PTL

\* Nothing is ever built on an artifact with blocking concerns.
THEOREM BlockingStops == Spec => []BlockingStopsTheChain
<1>1. Sound => BlockingStopsTheChain
  <2> SUFFICES ASSUME Sound, NEW a \in DOMAIN artifacts,
                      artifacts[a].kind \notin {"brief", "plan"}
               PROVE  ~artifacts[artifacts[a].parent].blocking
    BY DEF BlockingStopsTheChain
  <2>1. artifacts[a].parent \in DOMAIN artifacts
    BY DEF Sound, TypeOK
  <2>2. OnceApproved(artifacts[a].parent)
    BY DEF Sound, ArtifactSound
  <2> QED
    BY <2>1, <2>2 DEF Sound, ApprovedClean
<1> QED
  BY <1>1, Soundness, PTL

\* A revision never leaves its chain, whatever is decided while it is made.
THEOREM RevisionsStayInChain == Spec => []RevisionsStay
<1>1. Sound => RevisionsStay
  BY DEF Sound, ArtifactSound, RevisionOf, RevisionsStay
<1> QED
  BY <1>1, Soundness, PTL

-----------------------------------------------------------------------------
(* The banner.  What the view derives from the artifacts is what the gates  *)
(* ask, once it is known that whatever a plan evolves from is an older      *)
(* completion: the banner of a revision repeats the completion of the plan  *)
(* it revises.                                                              *)

\* Completion c is older than the brief version p.
OlderCompletion(c, p) == c \in DOMAIN artifacts /\ Evolvable(c, p)

EvolvingRun(r) ==
  run[r].pc = "working" /\ run[r].evolves # 0 =>
    run[r].stage = "plan" /\ OlderCompletion(run[r].evolves, run[r].parent)

EvolvingArtifact(a) ==
  artifacts[a].evolves # 0 =>
    artifacts[a].kind = "plan" /\ OlderCompletion(artifacts[a].evolves, artifacts[a].parent)

\* Every set of artifacts has a newest one.
SetsHaveNewest ==
  \A S \in SUBSET DOMAIN artifacts : S # {} => \E a \in S : \A b \in S : b <= a

ViewSound ==
  /\ Sound
  /\ \A r \in Runners : EvolvingRun(r)
  /\ \A a \in DOMAIN artifacts : EvolvingArtifact(a)
  /\ SetsHaveNewest

-----------------------------------------------------------------------------
LEMMA OlderStays ==
  ASSUME TypeOK, TypeOK', Grows, NEW c \in Nat, NEW p \in Nat, OlderCompletion(c, p)
  PROVE  OlderCompletion(c, p)'
<1>1. c \in DOMAIN artifacts' /\ artifacts'[c] = artifacts[c]
  BY GrowthKeeps DEF OlderCompletion
<1> QED BY <1>1 DEF OlderCompletion, Evolvable

\* Every step adds at most one artifact: a brief version, or that of a run.
LEMMA OneMore ==
  ASSUME Sound, [Next]_vars
  PROVE  \/ artifacts' = artifacts
         \/ \E x : /\ artifacts' = Append(artifacts, x)
                   /\ x.kind = "brief" /\ x.evolves = 0
         \/ \E x : \E r \in Runners :
              /\ artifacts' = Append(artifacts, x) /\ run[r].pc = "working"
              /\ x.kind = run[r].stage /\ x.parent = run[r].parent
              /\ x.evolves = run[r].evolves
<1>1. CASE AppendBrief
  BY <1>1 DEF AppendBrief
<1>2. ASSUME NEW r \in Runners, Save(r)
      PROVE  \E x : /\ artifacts' = Append(artifacts, x) /\ run[r].pc = "working"
                    /\ x.kind = run[r].stage /\ x.parent = run[r].parent
                    /\ x.evolves = run[r].evolves
  BY <1>2 DEF Save
<1>3. CASE Decide \/ UNCHANGED vars \/ \E r \in Runners : Check(r) \/ Start(r) \/ Fail(r)
  BY <1>3 DEF Decide, Check, Start, Fail, vars
<1> QED BY <1>1, <1>2, <1>3 DEF Next

LEMMA EvolvingRunStep ==
  ASSUME ViewSound, [Next]_vars, NEW q \in Runners PROVE EvolvingRun(q)'
<1>0. Sound /\ TypeOK /\ TypeOK' /\ Grows
  BY TypeStep, StepGrows DEF ViewSound, Sound
<1>1. CASE run'[q] = run[q]
  <2>1. PICK c \in Nat, p \in Nat : c = run[q].evolves /\ p = run[q].parent
    BY <1>0 DEF TypeOK, Run
  <2>2. OlderCompletion(c, p) => OlderCompletion(c, p)'
    BY <1>0, OlderStays
  <2> QED BY <1>1, <2>1, <2>2 DEF ViewSound, EvolvingRun
<1>2. CASE run'[q].pc # "working"
  BY <1>2 DEF EvolvingRun
<1>3. CASE Start(q)
  <2>1. PICK evolves \in {0} \cup DOMAIN artifacts, revises \in {0} \cup DOMAIN artifacts :
          /\ evolves # 0 => run[q].stage = "plan" /\ Evolvable(evolves, Loaded(q))
          /\ run' = [run EXCEPT ![q].pc = "working", ![q].parent = Loaded(q),
                             ![q].evolves = evolves, ![q].revises = revises,
                             ![q].answers = IF revises = 0 THEN 0
                                            ELSE Len(decisions[revises])]
    BY <1>3 DEF Start
  <2>2. PICK p : p = Loaded(q)
    OBVIOUS
  <2>3. run'[q].evolves = evolves /\ run'[q].parent = p /\ run'[q].stage = run[q].stage
    BY <1>0, <2>1, <2>2 DEF TypeOK, Run
  <2>4. artifacts' = artifacts
    BY <1>3 DEF Start
  <2>5. evolves # 0 => OlderCompletion(evolves, p)'
    BY <2>1, <2>2, <2>4 DEF OlderCompletion, Evolvable
  <2> QED BY <2>1, <2>3, <2>5 DEF EvolvingRun
<1>4. run'[q] = run[q] \/ run'[q].pc # "working" \/ Start(q)
  <2>1. CASE AppendBrief \/ Decide \/ UNCHANGED vars
    BY <2>1 DEF AppendBrief, Decide, vars
  <2>2. ASSUME NEW r \in Runners, r # q, Check(r) \/ Start(r) \/ Save(r) \/ Fail(r)
        PROVE  run'[q] = run[q]
    BY <1>0, <2>2 DEF Check, Start, Save, Fail, TypeOK
  <2>3. CASE Check(q)
    <3>1. PICK stage \in Stages, a \in DOMAIN artifacts :
            run' = [run EXCEPT ![q] = [Idle EXCEPT !.pc = "checked", !.stage = stage, !.parent = a]]
      BY <2>3 DEF Check
    <3> QED BY <1>0, <3>1 DEF TypeOK, Idle
  <2>4. CASE Save(q) \/ Fail(q)
    <3>1. run' = [run EXCEPT ![q] = Idle]
      BY <2>4 DEF Save, Fail
    <3> QED BY <1>0, <3>1 DEF TypeOK, Idle
  <2> QED BY <2>1, <2>2, <2>3, <2>4 DEF Next
<1> QED BY <1>1, <1>2, <1>3, <1>4

LEMMA EvolvingArtifactStep ==
  ASSUME ViewSound, [Next]_vars, NEW a \in DOMAIN artifacts' PROVE EvolvingArtifact(a)'
<1>0. Sound /\ TypeOK /\ TypeOK' /\ Grows
  BY TypeStep, StepGrows DEF ViewSound, Sound
<1>1. CASE a \in DOMAIN artifacts
  <2>0. artifacts[a] \in Artifact
    BY <1>0, <1>1 DEF TypeOK
  <2>1. PICK c \in Nat, p \in Nat : c = artifacts[a].evolves /\ p = artifacts[a].parent
    BY <2>0 DEF Artifact
  <2>2. OlderCompletion(c, p) => OlderCompletion(c, p)'
    BY <1>0, OlderStays
  <2> QED BY <1>0, <1>1, <2>1, <2>2 DEF ViewSound, EvolvingArtifact, Grows
<1>2. ASSUME NEW x, artifacts' = Append(artifacts, x), a \notin DOMAIN artifacts
      PROVE  artifacts'[a] = x
  BY <1>0, <1>2 DEF TypeOK
<1>3. ASSUME NEW x, artifacts' = Append(artifacts, x), a \notin DOMAIN artifacts,
             x.evolves = 0
      PROVE  EvolvingArtifact(a)'
  BY <1>2, <1>3 DEF EvolvingArtifact
<1>4. ASSUME NEW x, NEW r \in Runners, artifacts' = Append(artifacts, x),
             a \notin DOMAIN artifacts, run[r].pc = "working", x.kind = run[r].stage,
             x.parent = run[r].parent, x.evolves = run[r].evolves
      PROVE  EvolvingArtifact(a)'
  <2>1. PICK c \in Nat, p \in Nat : c = run[r].evolves /\ p = run[r].parent
    BY <1>0 DEF TypeOK, Run
  <2>2. OlderCompletion(c, p) => OlderCompletion(c, p)'
    BY <1>0, OlderStays
  <2>3. artifacts'[a] = x
    BY <1>2, <1>4
  <2> QED BY <1>4, <2>1, <2>2, <2>3 DEF ViewSound, EvolvingRun, EvolvingArtifact
<1> QED BY <1>0, <1>1, <1>3, <1>4, OneMore

LEMMA NewestStep == ASSUME ViewSound, [Next]_vars PROVE SetsHaveNewest'
<1>0. Sound /\ TypeOK
  BY DEF ViewSound, Sound
<1>1. ASSUME NEW x, artifacts' = Append(artifacts, x) PROVE SetsHaveNewest'
  <2>1. DOMAIN artifacts = 1..Len(artifacts) /\ Len(artifacts) \in Nat
        /\ DOMAIN artifacts' = 1..(Len(artifacts) + 1)
    BY <1>0, <1>1 DEF TypeOK
  <2> SUFFICES ASSUME NEW S \in SUBSET DOMAIN artifacts', S # {}
               PROVE  \E a \in S : \A b \in S : b <= a
    BY DEF SetsHaveNewest
  <2>2. CASE Len(artifacts) + 1 \in S
    BY <2>1, <2>2
  <2>3. CASE Len(artifacts) + 1 \notin S
    <3>1. S \in SUBSET DOMAIN artifacts
      BY <2>1, <2>3
    <3> QED BY <3>1 DEF ViewSound, SetsHaveNewest
  <2> QED BY <2>2, <2>3
<1>2. CASE artifacts' = artifacts
  BY <1>2 DEF ViewSound, SetsHaveNewest
<1> QED BY <1>0, <1>1, <1>2, OneMore

LEMMA ViewInit == Init => ViewSound
<1> SUFFICES ASSUME Init PROVE ViewSound
  OBVIOUS
<1>1. \A r \in Runners : EvolvingRun(r)
  BY DEF Init, EvolvingRun, Idle
<1>2. (\A a \in DOMAIN artifacts : EvolvingArtifact(a)) /\ SetsHaveNewest
  BY DEF Init, SetsHaveNewest
<1> QED BY <1>1, <1>2, SoundInit DEF ViewSound

\* The inductive invariant: that of the pipeline, and that plans evolve from
\* completions older than their brief version.
THEOREM ViewSoundness == Spec => []ViewSound
<1>1. ViewSound /\ [Next]_vars => ViewSound'
  <2> SUFFICES ASSUME ViewSound, [Next]_vars PROVE ViewSound'
    OBVIOUS
  <2>1. Sound'
    BY TypeStep, RunStep, ArtifactStep, CleanStep, LatestStep DEF ViewSound, Sound
  <2> QED BY <2>1, EvolvingRunStep, EvolvingArtifactStep, NewestStep DEF ViewSound
<1> QED BY <1>1, ViewInit, PTL DEF Spec

-----------------------------------------------------------------------------
LEMMA NewestOf ==
  ASSUME SetsHaveNewest, NEW S \in SUBSET DOMAIN artifacts, TypeOK
  PROVE  /\ S = {} => Newest(S) = 0
         /\ S # {} => Newest(S) \in S /\ Newest(S) # 0 /\ \A a \in S : a <= Newest(S)
<1>1. S # {} => Newest(S) \in S /\ \A a \in S : a <= Newest(S)
  BY DEF SetsHaveNewest, Newest
<1>2. 0 \notin S
  BY DEF TypeOK
<1>3. S = {} => Newest(S) = 0
  BY DEF Newest
<1> QED BY <1>1, <1>2, <1>3

\* What is shown for a stage is an artifact of it, made from that parent.
LEMMA CurrentIs ==
  ASSUME ViewSound, NEW stage \in Stages, NEW p
  PROVE  LET a == Current(stage, p) IN
         a # 0 => a \in DOMAIN artifacts /\ artifacts[a].kind = stage
                  /\ artifacts[a].parent = p
<1> DEFINE S == {a \in OfKind(stage) : artifacts[a].parent = p}
<1>1. S \in SUBSET DOMAIN artifacts
  BY DEF OfKind
<1>2. Current(stage, p) # 0 => Current(stage, p) \in S
  BY <1>1, NewestOf DEF Current, ViewSound, Sound
<1> QED BY <1>2 DEF OfKind

LEMMA StatusIs ==
  ASSUME NEW a
  PROVE  /\ Status(a) = "approved" => LatestIs(a, "approve")
         /\ Status(a) = "revision-requested" => LatestIs(a, "revise")
         /\ Status(a) \in {"approved", "rejected", "revision-requested", "draft"}
BY DEF Status

LEMMA EvolveFromIs ==
  ASSUME ViewSound, NEW b
  PROVE  EvolveFrom(b) # 0 => Evolvable(EvolveFrom(b), b)
<1>1. OfKind("completion") \in SUBSET DOMAIN artifacts
  BY DEF OfKind
<1>2. Newest(OfKind("completion")) # 0 => Newest(OfKind("completion")) \in OfKind("completion")
  BY <1>1, NewestOf DEF ViewSound, Sound
<1> QED BY <1>2 DEF EvolveFrom, Evolvable, OfKind

LEMMA BannerIs ==
  ASSUME NEW kind, NEW a PROVE Banner(kind, a).kind = kind /\ Banner(kind, a).on = a
BY DEF Banner

\* The services accept this step.
Accepted(step) ==
  /\ step.kind = "run" =>
       /\ MayWorkFrom(step.stage, step.parent)
       /\ step.revises # 0 => Revisable(step.stage, step.revises, step.parent)
       /\ step.evolves # 0 => step.stage = "plan" /\ Evolvable(step.evolves, step.parent)
  /\ step.kind = "decide" => \E kind \in DecisionKinds : MayDecide(step.on, kind)
  /\ step.kind = "build" => step.on # 0 /\ MayWorkFrom("completion", step.on)

LEMMA MayReject ==
  ASSUME NEW a, artifacts[a].kind # "completion"
  PROVE  \E kind \in DecisionKinds : MayDecide(a, kind)
<1>1. "reject" \in DecisionKinds /\ MayDecide(a, "reject")
  BY DEF DecisionKinds, MayDecide
<1> QED BY <1>1

LEMMA StageStepAccepted ==
  ASSUME ViewSound, NEW stage \in {"plan", "capability", "suite"}, NEW p,
         MayWorkFrom(stage, p), NEW a, a = Current(stage, p),
         a = 0 \/ Status(a) # "approved"
  PROVE  Accepted(StageStep(stage, p, a))
<1>1. a # 0 => a \in DOMAIN artifacts /\ artifacts[a].kind = stage /\ artifacts[a].parent = p
  BY CurrentIs DEF Stages
<1>2. CASE a = 0 \/ (a # 0 /\ Status(a) = "rejected")
  <2>1. StageStep(stage, p, a) =
          RunBanner(stage, p, 0, IF stage = "plan" THEN EvolveFrom(p) ELSE 0)
    BY <1>2 DEF StageStep
  <2> QED BY <2>1, EvolveFromIs DEF Accepted, RunBanner
<1>3. CASE a # 0 /\ Status(a) = "draft"
  <2>1. StageStep(stage, p, a) = Banner("decide", a)
    BY <1>3 DEF StageStep
  <2>2. \E kind \in DecisionKinds : MayDecide(a, kind)
    BY <1>1, <1>3, MayReject
  <2> QED BY <2>1, <2>2, BannerIs DEF Accepted
<1>4. CASE a # 0 /\ Status(a) = "revision-requested"
  <2>1. StageStep(stage, p, a) = RunBanner(stage, p, a, artifacts[a].evolves)
    BY <1>4 DEF StageStep
  <2>2. Revisable(stage, a, p)
    BY <1>1, <1>4, StatusIs DEF Revisable
  <2>3. artifacts[a].evolves # 0 => stage = "plan" /\ Evolvable(artifacts[a].evolves, p)
    BY <1>1, <1>4 DEF ViewSound, EvolvingArtifact, OlderCompletion
  <2> QED BY <2>1, <2>2, <2>3 DEF Accepted, RunBanner
<1> QED BY <1>2, <1>3, <1>4, StatusIs

LEMMA ApprovedOpens ==
  ASSUME NEW a \in DOMAIN artifacts, NEW stage \in {"capability", "suite", "completion"},
         artifacts[a].kind = ParentKind[stage], Status(a) = "approved"
  PROVE  MayWorkFrom(stage, a)
BY StatusIs DEF MayWorkFrom, Approved, ParentKind

LEMMA BannerHolds == ViewSound => BannerAccepted
<1> SUFFICES ASSUME ViewSound PROVE Accepted(NextStep)
  BY DEF BannerAccepted, Accepted
<1> DEFINE brief == Newest(OfKind("brief"))
<1>1. brief # 0 => brief \in DOMAIN artifacts /\ IsLatestBrief(brief)
  <2>1. OfKind("brief") \in SUBSET DOMAIN artifacts
    BY DEF OfKind
  <2> QED BY <2>1, NewestOf DEF ViewSound, Sound, IsLatestBrief, OfKind
<1>2. CASE brief # 0 /\ Status(brief) = "approved"
  <2>0. PICK b : b = brief
    OBVIOUS
  <2>1. PICK p : p = Current("plan", b)
    OBVIOUS
  <2>2. PICK c : c = Current("capability", p)
    OBVIOUS
  <2>3. PICK s : s = Current("suite", c)
    OBVIOUS
  <2> DEFINE Open(a) == a = 0 \/ (a # 0 /\ Status(a) # "approved")
             ladder  == IF Open(p) THEN StageStep("plan", b, p)
                        ELSE IF Open(c) THEN StageStep("capability", p, c)
                        ELSE IF Open(s) THEN StageStep("suite", c, s)
                        ELSE Banner("build", Anchor)
  <2>4. NextStep = ladder
    BY <1>2, <2>0, <2>1, <2>2, <2>3 DEF NextStep, Status, LatestIs
  <2>5. CASE Open(p)
    <3>1. MayWorkFrom("plan", b)
      BY <1>1, <1>2, <2>0, StatusIs DEF MayWorkFrom, Approved, ParentKind, IsLatestBrief, OfKind
    <3>2. Accepted(StageStep("plan", b, p))
      BY <2>1, <2>5, <3>1, StageStepAccepted
    <3> QED BY <2>4, <2>5, <3>2
  <2>6. CASE ~Open(p) /\ Open(c)
    <3>1. MayWorkFrom("capability", p)
      BY <2>1, <2>6, CurrentIs, ApprovedOpens DEF Stages, ParentKind
    <3>2. Accepted(StageStep("capability", p, c))
      BY <2>2, <2>6, <3>1, StageStepAccepted
    <3> QED BY <2>4, <2>6, <3>2
  <2>7. CASE ~Open(p) /\ ~Open(c) /\ Open(s)
    <3>1. MayWorkFrom("suite", c)
      BY <2>2, <2>7, CurrentIs, ApprovedOpens DEF Stages, ParentKind
    <3>2. Accepted(StageStep("suite", c, s))
      BY <2>3, <2>7, <3>1, StageStepAccepted
    <3> QED BY <2>4, <2>7, <3>2
  <2>8. CASE ~Open(p) /\ ~Open(c) /\ ~Open(s)
    <3> DEFINE S == {a \in OfKind("suite") : Status(a) = "approved"}
    <3>1. s \in DOMAIN artifacts /\ artifacts[s].kind = "suite"
      BY <2>3, <2>8, CurrentIs DEF Stages
    <3>2. s \in S /\ S \in SUBSET DOMAIN artifacts
      BY <2>8, <3>1 DEF OfKind
    <3>3. Anchor # 0 /\ Anchor \in S
      BY <3>2, NewestOf DEF Anchor, ViewSound, Sound
    <3>4. MayWorkFrom("completion", Anchor)
      BY <3>3, ApprovedOpens DEF OfKind, ParentKind
    <3>5. Accepted(Banner("build", Anchor))
      BY <3>3, <3>4, BannerIs DEF Accepted
    <3> QED BY <2>4, <2>8, <3>5
  <2> QED BY <2>5, <2>6, <2>7, <2>8
<1>3. CASE brief = 0
  BY <1>3, BannerIs DEF NextStep, Accepted
<1>4. CASE brief # 0 /\ Status(brief) # "approved"
  <2>0. PICK b : b = brief
    OBVIOUS
  <2>1. \E kind \in DecisionKinds : MayDecide(b, kind)
    BY <1>1, <1>4, <2>0, MayReject DEF IsLatestBrief, OfKind
  <2>2. Accepted(Banner("decide", b)) /\ Accepted(Banner("answer", b))
        /\ Accepted(Banner("blocked", b))
    BY <2>1, BannerIs DEF Accepted
  <2>3. NextStep \in {Banner("decide", b), Banner("answer", b), Banner("blocked", b)}
    <3>1. \/ LatestIs(b, "reopen") \/ decisions[b] = <<>>
          \/ Status(b) \in {"rejected", "revision-requested"}
      <4>1. b \in DOMAIN artifacts /\ decisions[b] \in Seq(DecisionKinds)
        BY <1>1, <1>4, <2>0 DEF ViewSound, Sound, TypeOK
      <4>2. decisions[b] # <<>> => Last(decisions[b]) \in DecisionKinds
        BY <4>1 DEF Last
      <4> QED BY <1>4, <2>0, <4>2 DEF Status, LatestIs, DecisionKinds
    <3>2. CASE LatestIs(b, "reopen")
      BY <1>4, <2>0, <3>2 DEF NextStep, LatestIs
    <3>3. CASE decisions[b] = <<>>
      BY <1>4, <2>0, <3>3 DEF NextStep, LatestIs
    <3>4. CASE Status(b) \in {"rejected", "revision-requested"}
      BY <1>4, <2>0, <3>4 DEF NextStep, Status, LatestIs
    <3> QED BY <3>1, <3>2, <3>3, <3>4
  <2> QED BY <2>2, <2>3
<1> QED BY <1>2, <1>3, <1>4

\* Whatever runs overlap and whatever is decided, the services accept the step
\* that the banner offers.
THEOREM BannerCanBeFollowed == Spec => []BannerAccepted
<1> QED BY BannerHolds, ViewSoundness, PTL
=============================================================================
