------------------------- MODULE BuilderChannelProofs -------------------------
(***************************************************************************)
(* What holds of plans, suites and the builder's workspace over any number *)
(* of generations, criteria, slices, paths and revisions.                  *)
(***************************************************************************)
EXTENDS BuilderChannel, FiniteSetTheorems, TLAPS

-----------------------------------------------------------------------------
\* A suite as a function from some of the paths; a revision may leave none.
SuiteForms == UNION {[D -> TestFile] : D \in SUBSET Paths}

\* A generation begins when the one before it is closed, and its plan comes
\* before its suite.
Numbered ==
  /\ completed \in Nat
  /\ completed <= Len(suites) /\ Len(suites) <= Len(plans)
  /\ Len(plans) <= Len(briefs) /\ Len(briefs) <= completed + 1
  /\ Len(briefs) <= MaxGenerations

LineageTyped ==
  /\ briefs \in Seq(Brief) /\ plans \in Seq(Plan) /\ suites \in Seq(SuiteForms)
  /\ Numbered

PlansFit == \A g \in DOMAIN plans : SatisfiesBrief(plans[g], briefs[g])

\* The lineage.
LineageInv ==
  /\ LineageTyped /\ PlansFit
  /\ BuiltIsHistory /\ RequirementsBuilt
  /\ RegressionKept /\ HoldoutsAccumulate

\* The suite of generation g is designed or revised, on those before it.
Placed(g, suite) ==
  /\ g \in 1..Len(plans) /\ g - 1 <= Len(suites) /\ Len(suites) <= g
  /\ completed < g
  /\ suite \in SuiteForms
  /\ suites' \in Seq(SuiteForms) /\ Len(suites') = g /\ suites'[g] = suite
  /\ \A k \in 1..(g - 1) : suites'[k] = suites[k]
  /\ g > 1 => Succeeds(suite, suites[g - 1], briefs[g - 1], briefs[g])
  /\ UNCHANGED <<briefs, plans, completed>>

-----------------------------------------------------------------------------
LEMMA SuiteFormIs ==
  \A f : f \in SuiteForms <=> /\ DOMAIN f \subseteq Paths
                              /\ f = [p \in DOMAIN f |-> f[p]]
                              /\ \A p \in DOMAIN f : f[p] \in TestFile
BY DEF SuiteForms

LEMMA SuiteIsForm == \A f \in Suite \cup {<<>>} : f \in SuiteForms
<1>1. Suite \subseteq SuiteForms
  BY DEF Suite, SuiteForms, Partial, NonEmpty
<1>2. <<>> \in [{} -> TestFile]
  OBVIOUS
<1>3. <<>> \in SuiteForms
  BY <1>2 DEF SuiteForms
<1> QED BY <1>1, <1>3

LEMMA MergedIsForm ==
  ASSUME NEW emitted \in SuiteForms, NEW prior \in SuiteForms, NEW brief
  PROVE  Merged(emitted, prior, brief) \in SuiteForms
<1> DEFINE full == Merged(emitted, prior, brief)
<1>1. /\ DOMAIN full \subseteq DOMAIN emitted \cup DOMAIN prior
      /\ full = [p \in DOMAIN full |-> full[p]]
      /\ \A p \in DOMAIN full : full[p] = IF p \in DOMAIN emitted THEN emitted[p] ELSE prior[p]
  BY DEF Merged
<1>2. \A p \in DOMAIN full : full[p] \in TestFile
  BY <1>1, SuiteFormIs
<1> HIDE DEF full
<1>3. DOMAIN full \subseteq Paths
  BY <1>1, SuiteFormIs
<1> QED BY <1>1, <1>2, <1>3, SuiteFormIs DEF full

LEMMA ReconciledIsForm ==
  ASSUME NEW full \in SuiteForms, NEW brief, CoversSomething(full, brief)
  PROVE  Reconciled(full, brief) \in SuiteForms
<1> DEFINE suite == Reconciled(full, brief)
<1>1. suite = [p \in DOMAIN full |-> [full[p] EXCEPT !.covers = @ \cap DOMAIN brief]]
  BY DEF Reconciled
<1>2. ASSUME NEW p \in DOMAIN full
      PROVE  [full[p] EXCEPT !.covers = @ \cap DOMAIN brief] \in TestFile
  <2>1. full[p] \in TestFile /\ full[p].covers \cap DOMAIN brief # {}
    BY SuiteFormIs DEF CoversSomething
  <2>2. full[p].covers \cap DOMAIN brief \in NonEmpty(Criteria)
    BY <2>1 DEF TestFile, NonEmpty
  <2> QED BY <2>1, <2>2 DEF TestFile
<1>3. suite \in [DOMAIN full -> TestFile]
  BY <1>1, <1>2
<1>4. DOMAIN full \subseteq Paths
  BY SuiteFormIs
<1> QED BY <1>3, <1>4 DEF SuiteForms

LEMMA HoldoutsFinite ==
  ASSUME NEW suite \in SuiteForms
  PROVE  IsFiniteSet(Holdouts(suite)) /\ Cardinality(Holdouts(suite)) \in Nat
<1>1. Holdouts(suite) \subseteq Paths
  BY SuiteFormIs DEF Holdouts
<1> QED BY <1>1, PathsAssumption, FS_Subset, FS_CardinalityType

-----------------------------------------------------------------------------
\* Where the next plan and the next suite go.
LEMMA PlanIsAppended ==
  ASSUME LineageTyped, CreatePlan
  PROVE  \E plan \in Plan :
           /\ Plannable(plan)
           /\ Generation = Len(plans) + 1
           /\ plans' \in Seq(Plan) /\ Len(plans') = Generation /\ plans'[Generation] = plan
           /\ \A g \in 1..Len(plans) : plans'[g] = plans[g]
           /\ UNCHANGED <<briefs, suites, completed>>
<1>1. PICK plan \in Plan : Plannable(plan) /\ plans' = Append(plans, plan)
  BY DEF CreatePlan
<1>2. Generation = Len(plans) + 1
  BY DEF CreatePlan, Generation, LineageTyped, Numbered
<1>3. /\ plans' \in Seq(Plan) /\ Len(plans') = Len(plans) + 1
      /\ plans'[Len(plans) + 1] = plan
      /\ \A g \in 1..Len(plans) : plans'[g] = plans[g]
  BY <1>1 DEF LineageTyped
<1> QED BY <1>1, <1>2, <1>3 DEF CreatePlan

LEMMA FirstSuiteIsPlaced ==
  ASSUME LineageTyped, CreateFirstSuite
  PROVE  \E suite : Placed(1, suite) /\ Len(suites) = 0
<1>1. PICK emitted \in Suite :
        /\ CoversSomething(emitted, briefs[1])
        /\ suites' = <<Reconciled(emitted, briefs[1])>>
  BY DEF CreateFirstSuite
<1> DEFINE suite == Reconciled(emitted, briefs[1])
<1>2. suite \in SuiteForms
  BY <1>1, SuiteIsForm, ReconciledIsForm
<1> HIDE DEF suite
<1>3. suites' = <<suite>>
  BY <1>1 DEF suite
<1>4. suites' \in Seq(SuiteForms) /\ Len(suites') = 1 /\ suites'[1] = suite
  BY <1>2, <1>3
<1>5. Len(suites) = 0 /\ Len(plans) = 1 /\ UNCHANGED <<briefs, plans, completed>>
  BY DEF CreateFirstSuite
<1>6. completed = 0
  BY <1>5 DEF LineageTyped, Numbered
<1> QED BY <1>2, <1>4, <1>5, <1>6 DEF Placed

LEMMA SuccessorIsPlaced ==
  ASSUME LineageTyped, CreateSuccessorSuite
  PROVE  \E suite : Placed(Len(suites) + 1, suite)
<1> DEFINE g == Generation
           brief == briefs[g]
           prior == suites[g - 1]
<1>1. PICK emitted \in Suite \cup {<<>>} :
        LET full == Merged(emitted, prior, brief)
            suite == Reconciled(full, brief) IN
        /\ CoversSomething(full, brief)
        /\ Succeeds(suite, prior, briefs[g - 1], brief)
        /\ suites' = Append(suites, suite)
  BY DEF CreateSuccessorSuite
<1> DEFINE suite == Reconciled(Merged(emitted, prior, brief), brief)
<1>2. /\ g > 1 /\ g \in Nat /\ Len(plans) = g /\ Len(suites) = g - 1
      /\ completed < g
      /\ UNCHANGED <<briefs, plans, completed>>
  BY DEF CreateSuccessorSuite, Generation, LineageTyped, Numbered
<1>3. prior \in SuiteForms
  BY <1>2 DEF LineageTyped
<1>4. suite \in SuiteForms
  BY <1>1, <1>3, SuiteIsForm, MergedIsForm, ReconciledIsForm
<1>5. suites' = Append(suites, suite) /\ Succeeds(suite, suites[g - 1], briefs[g - 1], briefs[g])
  BY <1>1
<1> HIDE DEF suite
<1>6. /\ suites' \in Seq(SuiteForms) /\ Len(suites') = g /\ suites'[g] = suite
      /\ \A k \in 1..(g - 1) : suites'[k] = suites[k]
  BY <1>2, <1>4, <1>5 DEF LineageTyped
<1> HIDE DEF g
<1>7. Placed(g, suite)
  BY <1>2, <1>4, <1>5, <1>6 DEF Placed
<1>8. g = Len(suites) + 1
  BY <1>2 DEF LineageTyped
<1> QED BY <1>7, <1>8

LEMMA RevisionIsPlaced ==
  ASSUME LineageTyped, ApproveRevision
  PROVE  Len(suites) > 0 /\ \E suite : Placed(Len(suites), suite)
<1> DEFINE g == Len(suites)
           brief == briefs[g]
<1>1. PICK emitted \in Suite :
        LET full  == IF g = 1 THEN emitted ELSE Merged(emitted, suites[g - 1], brief)
            suite == Reconciled(full, brief) IN
        /\ CoversSomething(full, brief)
        /\ g > 1 => Succeeds(suite, suites[g - 1], briefs[g - 1], brief)
        /\ suites' = [suites EXCEPT ![g] = suite]
  BY DEF ApproveRevision
<1> DEFINE full  == IF g = 1 THEN emitted ELSE Merged(emitted, suites[g - 1], brief)
           suite == Reconciled(full, brief)
<1>2. /\ g \in Nat /\ g > 0 /\ completed < g /\ g <= Len(plans)
      /\ UNCHANGED <<briefs, plans, completed>>
  BY DEF ApproveRevision, LineageTyped, Numbered
<1>3. full \in SuiteForms
  <2>1. emitted \in SuiteForms
    BY SuiteIsForm
  <2>2. ASSUME g # 1 PROVE suites[g - 1] \in SuiteForms
    <3>1. \A k \in Nat : k > 0 /\ k # 1 => k - 1 \in 1..k
      OBVIOUS
    <3>2. g - 1 \in 1..Len(suites)
      BY <1>2, <2>2, <3>1
    <3> QED BY <3>2 DEF LineageTyped
  <2> QED BY <2>1, <2>2, MergedIsForm
<1>4. suite \in SuiteForms
  BY <1>1, <1>3, ReconciledIsForm
<1>5. suites' = [suites EXCEPT ![g] = suite]
      /\ (g > 1 => Succeeds(suite, suites[g - 1], briefs[g - 1], briefs[g]))
  BY <1>1
<1> HIDE DEF suite, full
<1>6. /\ suites' \in Seq(SuiteForms) /\ Len(suites') = g /\ suites'[g] = suite
      /\ \A k \in 1..(g - 1) : suites'[k] = suites[k]
  BY <1>2, <1>4, <1>5 DEF LineageTyped
<1>7. Len(plans) \in Nat
  BY DEF LineageTyped
<1> HIDE DEF g
<1>8. Placed(g, suite)
  BY <1>2, <1>4, <1>5, <1>6, <1>7 DEF Placed
<1> QED BY <1>2, <1>8 DEF g

\* What the steps of the channel are for the lineage.
LEMMA LineageSteps ==
  ASSUME LineageTyped, [ChannelNext]_<<vars, records, project>>
  PROVE  \/ ApproveBrief \/ CreatePlan \/ RecordCompletion
         \/ \E g, suite : Placed(g, suite)
         \/ UNCHANGED vars
<1>1. CASE Sign
  BY <1>1 DEF Sign
<1>2. CASE ApproveSuite
  BY <1>2, FirstSuiteIsPlaced, SuccessorIsPlaced DEF ApproveSuite
<1>3. CASE ApproveRevision
  BY <1>3, RevisionIsPlaced
<1>4. CASE Complete
  BY <1>4 DEF Complete
<1> QED BY <1>1, <1>2, <1>3, <1>4
     DEF ChannelNext, RequestRevision, CreateWorkOrder, ApproveSubmission,
         PrepareBuilderWorkspace, MaterializingDies, GetWorkOrder, MaterializeTests,
         SubmitSlice, Speak, AnswerQuestion

-----------------------------------------------------------------------------
LEMMA TypedStep ==
  ASSUME LineageTyped, [ChannelNext]_<<vars, records, project>> PROVE LineageTyped'
<1>1. CASE ApproveBrief
  <2>1. PICK brief \in Brief : briefs' = Append(briefs, brief)
    BY <1>1 DEF ApproveBrief
  <2>2. briefs' \in Seq(Brief) /\ Len(briefs') = Len(briefs) + 1
    BY <2>1 DEF LineageTyped
  <2>3. UNCHANGED <<plans, suites, completed>> /\ completed = Len(briefs)
        /\ Len(briefs) < MaxGenerations
    BY <1>1 DEF ApproveBrief, Generation
  <2> QED BY <2>2, <2>3, GenerationsAssumption DEF LineageTyped, Numbered
<1>2. CASE CreatePlan
  BY <1>2, PlanIsAppended DEF LineageTyped, Numbered, Generation
<1>3. CASE RecordCompletion
  <2>1. completed' = completed + 1 /\ UNCHANGED <<briefs, plans, suites>>
        /\ completed < Len(suites)
    BY <1>3 DEF RecordCompletion, Generation
  <2>2. Len(briefs) \in Nat /\ Len(suites) \in Nat
    BY DEF LineageTyped
  <2> QED BY <2>1, <2>2 DEF LineageTyped, Numbered
<1>4. ASSUME NEW g, NEW suite, Placed(g, suite) PROVE LineageTyped'
  <2>1. Len(plans) \in Nat /\ Len(suites) \in Nat
    BY DEF LineageTyped
  <2> QED BY <1>4, <2>1 DEF Placed, LineageTyped, Numbered
<1>5. CASE UNCHANGED vars
  BY <1>5 DEF vars, LineageTyped, Numbered
<1> QED BY <1>1, <1>2, <1>3, <1>4, <1>5, LineageSteps

\* A criterion that says the same throughout says so in every part.
LEMMA SameInParts ==
  ASSUME NEW c, NEW g \in Nat, NEW h \in Nat, NEW k \in Nat, g <= k, k <= h,
         SaysTheSame(c, g, h)
  PROVE  SaysTheSame(c, g, k) /\ SaysTheSame(c, k, h)
<1>1. \A i \in g..h : c \in DOMAIN briefs[i] /\ briefs[i][c] = briefs[h][c]
  BY DEF SaysTheSame
<1>2. k \in g..h
  OBVIOUS
<1>3. \A i \in g..k : i \in g..h
  OBVIOUS
<1>4. \A i \in k..h : i \in g..h
  OBVIOUS
<1> QED BY <1>1, <1>2, <1>3, <1>4 DEF SaysTheSame

\* It goes on when the next brief leaves it unchanged.
LEMMA SameGoesOn ==
  ASSUME NEW c, NEW g \in Nat, NEW h \in Nat, g <= h, SaysTheSame(c, g, h),
         c \in Unchanged(briefs[h], briefs[h + 1])
  PROVE  SaysTheSame(c, g, h + 1)
<1>1. \A i \in g..h : c \in DOMAIN briefs[i] /\ briefs[i][c] = briefs[h][c]
  BY DEF SaysTheSame
<1>2. c \in DOMAIN briefs[h + 1] /\ briefs[h][c] = briefs[h + 1][c]
  BY DEF Unchanged
<1>3. \A i \in g..(h + 1) : i \in g..h \/ i = h + 1
  OBVIOUS
<1> QED BY <1>1, <1>2, <1>3 DEF SaysTheSame

LEMMA SameIsUnchanged ==
  ASSUME NEW c, NEW g \in Nat, NEW h \in Nat, g <= h, SaysTheSame(c, g, h + 1)
  PROVE  c \in Unchanged(briefs[h], briefs[h + 1])
<1>1. h \in g..(h + 1)
  OBVIOUS
<1> QED BY <1>1 DEF SaysTheSame, Unchanged

\* What a criterion says in generations that are there does not change any more.
LEMMA SameStays ==
  ASSUME LineageTyped, NEW c, NEW g \in Nat, NEW h \in 1..Len(briefs),  g >= 1,
         \A k \in 1..Len(briefs) : briefs'[k] = briefs[k]
  PROVE  SaysTheSame(c, g, h)' <=> SaysTheSame(c, g, h)
<1>1. \A k \in g..h : k \in 1..Len(briefs)
  BY DEF LineageTyped
<1>2. \A k \in g..h : briefs'[k] = briefs[k]
  BY <1>1
<1> QED BY <1>2 DEF SaysTheSame

-----------------------------------------------------------------------------
\* The step that adds a plan.
LEMMA PlanStep ==
  ASSUME LineageInv, CreatePlan
  PROVE  PlansFit' /\ BuiltIsHistory' /\ RequirementsBuilt'
<1>1. PICK plan \in Plan :
        /\ Plannable(plan)
        /\ Generation = Len(plans) + 1
        /\ plans' \in Seq(Plan) /\ Len(plans') = Generation /\ plans'[Generation] = plan
        /\ \A g \in 1..Len(plans) : plans'[g] = plans[g]
        /\ UNCHANGED <<briefs, suites, completed>>
  BY PlanIsAppended DEF LineageInv
<1>n. PICK n \in Nat : n = Len(plans)
  BY DEF LineageInv, LineageTyped
<1>2. /\ n \in Nat /\ DOMAIN plans = 1..n /\ DOMAIN plans' = 1..(n + 1)
      /\ Len(briefs) = n + 1
      /\ plans'[n + 1] = plan /\ \A g \in 1..n : plans'[g] = plans[g]
      /\ briefs' = briefs
  BY <1>1, <1>n DEF LineageInv, LineageTyped, Generation
<1>3. /\ SatisfiesBrief(plan, briefs[n + 1])
      /\ n + 1 > 1 => /\ CarriesBuilt(plan, plans[n])
                      /\ OwnedByDelta(plan, plans[n], briefs[n], briefs[n + 1])
  BY <1>1, <1>2 DEF Plannable, Generation
<1>4. PlansFit'
  <2>1. \A g \in 1..n : SatisfiesBrief(plans[g], briefs[g])
    BY <1>2 DEF LineageInv, PlansFit
  <2>2. ASSUME NEW g \in 1..(n + 1) PROVE SatisfiesBrief(plans'[g], briefs[g])
    <3>1. CASE g = n + 1
      BY <1>2, <1>3, <3>1
    <3>2. CASE g # n + 1
      <4>1. g \in 1..n
        BY <1>2, <3>2
      <4> QED BY <1>2, <2>1, <4>1
    <3> QED BY <3>1, <3>2
  <2> QED BY <1>2, <2>2 DEF PlansFit, SatisfiesBrief
<1>5. \A g, h \in 1..n : g <= h =>
        \A s \in DOMAIN plans[g].slices :
          s \in DOMAIN plans[h].slices /\ plans[h].slices[s] = plans[g].slices[s]
  BY <1>2 DEF LineageInv, BuiltIsHistory
<1>6. \A g \in 1..n : \A s \in DOMAIN plans[g].slices :
        s \in DOMAIN plan.slices /\ plan.slices[s] = plans[g].slices[s]
  <2> SUFFICES ASSUME NEW g \in 1..n, NEW s \in DOMAIN plans[g].slices
               PROVE  s \in DOMAIN plan.slices /\ plan.slices[s] = plans[g].slices[s]
    OBVIOUS
  <2>1. n \in 1..n /\ g <= n /\ n + 1 > 1
    BY <1>2
  <2>2. s \in DOMAIN plans[n].slices /\ plans[n].slices[s] = plans[g].slices[s]
    BY <1>5, <2>1
  <2> QED BY <1>3, <2>1, <2>2 DEF CarriesBuilt
<1>7. BuiltIsHistory'
  <2> SUFFICES ASSUME NEW g \in 1..(n + 1), NEW h \in 1..(n + 1), g <= h,
                      NEW s \in DOMAIN plans'[g].slices
               PROVE  s \in DOMAIN plans'[h].slices /\ plans'[h].slices[s] = plans'[g].slices[s]
    BY <1>2 DEF BuiltIsHistory
  <2>1. CASE h = n + 1 /\ g = n + 1
    BY <2>1
  <2>2. CASE h = n + 1 /\ g # n + 1
    <3>1. g \in 1..n
      BY <1>2, <2>2
    <3> QED BY <1>2, <1>6, <2>2, <3>1
  <2>3. CASE h # n + 1
    <3>1. g \in 1..n /\ h \in 1..n
      BY <1>2, <2>3
    <3> QED BY <1>2, <1>5, <3>1
  <2> QED BY <2>1, <2>2, <2>3
<1>8. ASSUME NEW h \in 1..n, NEW s PROVE PlannedIn(s, h)' <=> PlannedIn(s, h)
  <2>1. \A k : k \in 1..n /\ k < h <=> k \in 1..(n + 1) /\ k < h
    BY <1>2
  <2> QED BY <1>2, <2>1 DEF PlannedIn
<1>9. \A c, g, h : SaysTheSame(c, g, h)' <=> SaysTheSame(c, g, h)
  BY <1>2 DEF SaysTheSame
<1>10. \A g \in 1..n : \A c \in DOMAIN briefs[g] : ~SaysTheSame(c, 1, g) =>
         \E h \in 2..g : SaysTheSame(c, h, g) /\
           \E s \in DOMAIN plans[h].slices : PlannedIn(s, h) /\ c \in plans[h].slices[s]
  BY <1>2 DEF LineageInv, RequirementsBuilt
<1> DEFINE Built(c, g, h) ==
      SaysTheSame(c, h, g)' /\
        \E s \in DOMAIN plans'[h].slices : PlannedIn(s, h)' /\ c \in plans'[h].slices[s]
<1>11. ASSUME NEW g \in 1..n, NEW c, NEW h \in 2..g, SaysTheSame(c, h, g),
              NEW s \in DOMAIN plans[h].slices, PlannedIn(s, h), c \in plans[h].slices[s]
       PROVE  Built(c, g, h)
  <2>1. h \in 1..n
    BY <1>2
  <2> QED BY <1>2, <1>8, <1>9, <1>11, <2>1
<1>12. ASSUME NEW g \in 1..(n + 1), NEW c \in DOMAIN briefs[g], ~SaysTheSame(c, 1, g)
       PROVE  \E h \in 2..g : Built(c, g, h)
  <2>1. CASE g # n + 1
    <3>1. g \in 1..n
      BY <1>2, <2>1
    <3>2. PICK h \in 2..g : SaysTheSame(c, h, g) /\
            \E s \in DOMAIN plans[h].slices : PlannedIn(s, h) /\ c \in plans[h].slices[s]
      BY <1>10, <1>12, <3>1
    <3>3. Built(c, g, h)
      BY <1>11, <3>1, <3>2
    <3> QED BY <3>3
  <2>2. CASE g = n + 1 /\ n = 0
    <3>1. g = 1
      BY <2>2
    <3>2. \A k \in 1..1 : k = 1
      OBVIOUS
    <3>3. SaysTheSame(c, 1, 1)
      BY <3>1, <3>2 DEF SaysTheSame
    <3> QED BY <1>12, <3>1, <3>3
  <2>3. CASE g = n + 1 /\ n # 0
    <3>1. n \in 1..n /\ n + 1 > 1 /\ n + 1 \in 2..(n + 1) /\ 1 <= n
      BY <1>2, <2>3
    <3>2. CASE c \in Changed(briefs[n], briefs[n + 1]) \cup New(briefs[n], briefs[n + 1])
      <4>1. PICK s \in Delta(plan, plans[n]) : c \in plan.slices[s]
        BY <1>3, <3>1, <3>2 DEF OwnedByDelta
      <4>2. s \in DOMAIN plan.slices /\ s \notin DOMAIN plans[n].slices
        BY <4>1 DEF Delta
      <4>3. \A h \in 1..n : s \notin DOMAIN plans[h].slices
        BY <1>5, <3>1, <4>2
      <4>4. \A h \in 1..(n + 1) : h < n + 1 => h \in 1..n
        BY <1>2
      <4>5. PlannedIn(s, n + 1)'
        BY <1>2, <4>2, <4>3, <4>4 DEF PlannedIn
      <4>6. \A k \in (n + 1)..(n + 1) : k = n + 1
        BY <1>2
      <4>7. SaysTheSame(c, n + 1, n + 1)
        BY <1>12, <2>3, <4>6 DEF SaysTheSame
      <4>8. Built(c, g, n + 1)
        BY <1>2, <1>9, <2>3, <4>1, <4>2, <4>5, <4>7
      <4> QED BY <2>3, <3>1, <4>8
    <3>3. CASE c \notin Changed(briefs[n], briefs[n + 1]) \cup New(briefs[n], briefs[n + 1])
      <4>1. c \in Unchanged(briefs[n], briefs[n + 1])
        BY <1>12, <2>3, <3>3 DEF Changed, New, Unchanged
      <4>2. ~SaysTheSame(c, 1, n)
        BY <1>2, <1>12, <2>3, <3>1, <4>1, SameGoesOn
      <4>3. c \in DOMAIN briefs[n]
        BY <4>1 DEF Unchanged
      <4>4. PICK h \in 2..n : SaysTheSame(c, h, n) /\
              \E s \in DOMAIN plans[h].slices : PlannedIn(s, h) /\ c \in plans[h].slices[s]
        BY <1>10, <3>1, <4>2, <4>3
      <4>5. h \in Nat /\ h <= n /\ h \in 2..g /\ h \in 1..n
        BY <1>2, <2>3
      <4>6. SaysTheSame(c, h, g)
        BY <1>2, <2>3, <4>1, <4>4, <4>5, SameGoesOn
      <4>7. Built(c, g, h)
        BY <1>2, <1>8, <1>9, <4>4, <4>5, <4>6
      <4> QED BY <4>5, <4>7
    <3> QED BY <3>2, <3>3
  <2> QED BY <2>1, <2>2, <2>3
<1>13. RequirementsBuilt'
  BY <1>2, <1>9, <1>12 DEF RequirementsBuilt
<1> QED BY <1>4, <1>7, <1>13

-----------------------------------------------------------------------------
\* A file of untouched criteria is in the suite that succeeds its own.
LEMMA UntouchedIsCarried ==
  ASSUME NEW suite, NEW prior \in SuiteForms, NEW priorBrief, NEW brief,
         Succeeds(suite, prior, priorBrief, brief),
         NEW p \in DOMAIN prior, prior[p].covers \subseteq Unchanged(priorBrief, brief)
  PROVE  p \in DOMAIN suite /\ SameFile(suite[p], prior[p])
<1>1. prior[p].covers # {}
  BY SuiteFormIs DEF TestFile, NonEmpty
<1>2. ~MayRetire(prior[p], priorBrief, brief)
  BY <1>1 DEF MayRetire
<1>3. p \in DOMAIN suite /\ MaySucceed(suite[p], prior[p], priorBrief, brief)
  BY <1>2 DEF Succeeds
<1>4. SameFile(suite[p], prior[p])
  BY <1>3 DEF MaySucceed
<1> QED BY <1>3, <1>4

\* The step that designs or revises a suite.
LEMMA SuiteStep ==
  ASSUME LineageInv, NEW g, NEW suite, Placed(g, suite)
  PROVE  RegressionKept' /\ HoldoutsAccumulate'
<1>1. /\ g \in Nat /\ g >= 1 /\ DOMAIN suites' = 1..g /\ suites'[g] = suite
      /\ \A k \in 1..(g - 1) : suites'[k] = suites[k] /\ k \in DOMAIN suites
      /\ briefs' = briefs /\ suite \in SuiteForms
  BY DEF Placed, LineageInv, LineageTyped
<1>2. \A c, i, j : SaysTheSame(c, i, j)' <=> SaysTheSame(c, i, j)
  BY <1>1 DEF SaysTheSame
<1>3. \A k \in 1..g : k # g => k \in 1..(g - 1)
  BY <1>1
<1>4. ASSUME g > 1
      PROVE  /\ g - 1 \in 1..(g - 1) /\ g - 1 \in Nat /\ (g - 1) + 1 = g
             /\ suites[g - 1] \in SuiteForms
             /\ Succeeds(suite, suites[g - 1], briefs[g - 1], briefs[g])
  <2>1. g - 1 \in 1..(g - 1) /\ g - 1 \in Nat /\ (g - 1) + 1 = g
    BY <1>1, <1>4
  <2>2. g - 1 \in DOMAIN suites
    BY <1>1, <2>1
  <2> QED BY <1>4, <2>1, <2>2 DEF Placed, LineageInv, LineageTyped
<1>5. RegressionKept'
  <2> DEFINE Kept(i, j, p) == p \in DOMAIN suites'[j] /\ SameFile(suites'[j][p], suites'[i][p])
  <2> SUFFICES ASSUME NEW i \in 1..g, NEW j \in 1..g, i <= j,
                      NEW p \in DOMAIN suites'[i],
                      \A c \in suites'[i][p].covers : SaysTheSame(c, i, j)
               PROVE  Kept(i, j, p)
    BY <1>1, <1>2 DEF RegressionKept
  <2>1. CASE j # g
    <3>1. i \in 1..(g - 1) /\ j \in 1..(g - 1)
      BY <1>1, <1>3, <2>1
    <3> QED BY <1>1, <3>1 DEF LineageInv, RegressionKept
  <2>2. CASE i = g
    <3>1. j = g
      BY <1>1, <2>2
    <3> QED BY <2>2, <3>1 DEF SameFile
  <2>3. CASE j = g /\ i # g
    <3>1. i \in 1..(g - 1) /\ g > 1 /\ i \in Nat /\ i <= g - 1
      BY <1>1, <1>3, <2>3
    <3>2. suites'[i] = suites[i] /\ i \in DOMAIN suites /\ g - 1 \in DOMAIN suites
      BY <1>1, <1>4, <3>1
    <3>3. ASSUME NEW c \in suites[i][p].covers
          PROVE  SaysTheSame(c, i, g - 1) /\ c \in Unchanged(briefs[g - 1], briefs[g])
      <4>1. SaysTheSame(c, i, g)
        BY <2>3, <3>2, <3>3
      <4>2. SaysTheSame(c, i, g - 1)
        BY <1>1, <1>4, <3>1, <4>1, SameInParts
      <4>3. c \in Unchanged(briefs[g - 1], briefs[(g - 1) + 1])
        BY <1>4, <3>1, <4>1, SameIsUnchanged
      <4> QED BY <1>4, <3>1, <4>2, <4>3
    <3>4. p \in DOMAIN suites[g - 1] /\ SameFile(suites[g - 1][p], suites[i][p])
      BY <3>1, <3>2, <3>3 DEF LineageInv, RegressionKept
    <3>5. suites[g - 1][p].covers \subseteq Unchanged(briefs[g - 1], briefs[g])
      BY <3>3, <3>4 DEF SameFile
    <3>6. p \in DOMAIN suite /\ SameFile(suite[p], suites[g - 1][p])
      BY <1>4, <3>1, <3>4, <3>5, UntouchedIsCarried
    <3> QED BY <1>1, <2>3, <3>2, <3>4, <3>6 DEF SameFile
  <2> QED BY <2>1, <2>2, <2>3
<1> DEFINE Count(s) == Cardinality(Holdouts(s))
<1>6. \A s \in SuiteForms : Count(s) \in Nat
  BY HoldoutsFinite
<1>7. \A i \in DOMAIN suites : Count(suites[i]) = Count(suites[1]) + i - 1
  BY DEF LineageInv, HoldoutsAccumulate
<1>8. ASSUME NEW i \in 1..g PROVE Count(suites'[i]) = Count(suites'[1]) + i - 1
  <2>1. CASE g = 1
    <3>1. i = 1 /\ Count(suites'[1]) \in Nat
      BY <1>1, <1>6, <2>1
    <3> HIDE DEF Count
    <3> QED BY <3>1
  <2>2. CASE g > 1 /\ i # g
    <3>1. 1 \in 1..(g - 1) /\ i \in 1..(g - 1)
      BY <1>1, <1>3, <2>2
    <3> QED BY <1>1, <1>7, <3>1
  <2>3. CASE g > 1 /\ i = g
    <3>1. 1 \in 1..(g - 1) /\ g - 1 \in 1..(g - 1)
      BY <1>1, <2>3
    <3>2. Count(suites[g - 1]) = Count(suites[1]) + (g - 1) - 1 /\ suites'[1] = suites[1]
      BY <1>1, <1>7, <3>1
    <3>3. Count(suite) = Count(suites[g - 1]) + 1
      BY <1>4, <2>3 DEF Succeeds, HoldoutsGrow
    <3>4. suites[1] \in SuiteForms
      BY <1>1, <3>1 DEF LineageInv, LineageTyped
    <3>5. Count(suites[1]) \in Nat
      BY <1>6, <3>4
    <3> HIDE DEF Count
    <3> QED BY <1>1, <2>3, <3>2, <3>3, <3>5
  <2> QED BY <1>1, <2>1, <2>2, <2>3
<1>9. ASSUME NEW i \in 1..g, NEW j \in 1..g, i <= j, NEW p \in DOMAIN suites'[i],
             suites'[i][p].visible, \A k \in i..j : p \in DOMAIN suites'[k]
      PROVE  suites'[j][p].visible
  <2>1. CASE i = g
    <3>1. j = g
      BY <1>1, <1>9, <2>1
    <3> QED BY <1>9, <2>1, <3>1
  <2>2. CASE j # g
    <3>1. i \in 1..(g - 1) /\ j \in 1..(g - 1) /\ \A k \in i..j : k \in 1..(g - 1)
      BY <1>1, <1>3, <1>9, <2>2
    <3>2. \A k \in i..j : p \in DOMAIN suites[k]
      BY <1>1, <1>9, <3>1
    <3> QED BY <1>1, <1>9, <3>1, <3>2 DEF LineageInv, HoldoutsAccumulate
  <2>3. CASE j = g /\ i # g
    <3>1. i \in 1..(g - 1) /\ g > 1 /\ g \in i..j /\ g - 1 \in i..j
      BY <1>1, <1>3, <2>3
    <3>2. \A k \in i..(g - 1) : k \in 1..(g - 1) /\ k \in i..j
      BY <1>1, <2>3, <3>1
    <3>3. \A k \in i..(g - 1) : p \in DOMAIN suites[k]
      BY <1>1, <1>9, <3>2
    <3>4. suites[g - 1][p].visible /\ p \in DOMAIN suites[g - 1]
      <4>1. i \in DOMAIN suites /\ g - 1 \in DOMAIN suites /\ i <= g - 1
        BY <1>1, <1>4, <3>1
      <4>2. p \in DOMAIN suites[i] /\ suites[i][p].visible
        BY <1>1, <1>9, <3>1
      <4>3. suites[g - 1][p].visible
        BY <3>3, <4>1, <4>2 DEF LineageInv, HoldoutsAccumulate
      <4> QED BY <1>1, <3>1, <3>3, <4>1, <4>3
    <3>5. p \in DOMAIN suite
      BY <1>1, <1>9, <3>1
    <3>6. MaySucceed(suite[p], suites[g - 1][p], briefs[g - 1], briefs[g])
      BY <1>4, <3>1, <3>4, <3>5 DEF Succeeds
    <3> QED BY <1>1, <2>3, <3>4, <3>6 DEF MaySucceed
  <2> QED BY <2>1, <2>2, <2>3
<1>10. HoldoutsAccumulate'
  BY <1>1, <1>8, <1>9 DEF HoldoutsAccumulate
<1> QED BY <1>5, <1>10

\* The steps that change no plan and no suite.
LEMMA BriefStep ==
  ASSUME LineageInv, plans' = plans, suites' = suites,
         \A k \in 1..Len(briefs) : briefs'[k] = briefs[k]
  PROVE  PlansFit' /\ BuiltIsHistory' /\ RequirementsBuilt' /\ RegressionKept'
         /\ HoldoutsAccumulate'
<1>1. /\ DOMAIN plans \subseteq 1..Len(briefs) /\ DOMAIN suites \subseteq 1..Len(briefs)
      /\ Len(briefs) \in Nat
  BY DEF LineageInv, LineageTyped, Numbered
<1>2. \A c : \A i \in Nat : \A j \in 1..Len(briefs) :
        i >= 1 => (SaysTheSame(c, i, j)' <=> SaysTheSame(c, i, j))
  BY SameStays DEF LineageInv
<1>3. \A k \in DOMAIN plans : briefs'[k] = briefs[k]
  BY <1>1
<1>4. \A s, h : PlannedIn(s, h)' <=> PlannedIn(s, h)
  BY DEF PlannedIn
<1>5. PlansFit' /\ BuiltIsHistory' /\ HoldoutsAccumulate'
  BY <1>3 DEF LineageInv, PlansFit, SatisfiesBrief, BuiltIsHistory, HoldoutsAccumulate
<1>6. RegressionKept'
  <2> SUFFICES ASSUME NEW i \in DOMAIN suites, NEW j \in DOMAIN suites, i <= j,
                      NEW p \in DOMAIN suites[i],
                      \A c \in suites[i][p].covers : SaysTheSame(c, i, j)'
               PROVE  p \in DOMAIN suites[j] /\ SameFile(suites[j][p], suites[i][p])
    BY DEF RegressionKept
  <2>1. i \in Nat /\ i >= 1 /\ j \in 1..Len(briefs)
    BY <1>1
  <2>2. \A c \in suites[i][p].covers : SaysTheSame(c, i, j)
    BY <1>2, <2>1
  <2> QED BY <2>2 DEF LineageInv, RegressionKept
<1>7. RequirementsBuilt'
  <2> SUFFICES ASSUME NEW g \in DOMAIN plans, NEW c \in DOMAIN briefs[g],
                      ~SaysTheSame(c, 1, g)'
               PROVE  \E h \in 2..g : SaysTheSame(c, h, g)' /\
                        \E s \in DOMAIN plans[h].slices :
                          PlannedIn(s, h)' /\ c \in plans[h].slices[s]
    BY <1>3 DEF RequirementsBuilt
  <2>1. g \in Nat /\ g \in 1..Len(briefs)
    BY <1>1
  <2>2. ~SaysTheSame(c, 1, g)
    BY <1>2, <2>1
  <2>3. PICK h \in 2..g : SaysTheSame(c, h, g) /\
          \E s \in DOMAIN plans[h].slices : PlannedIn(s, h) /\ c \in plans[h].slices[s]
    BY <2>2 DEF LineageInv, RequirementsBuilt
  <2>4. h \in Nat /\ h >= 1
    BY <2>1
  <2>5. SaysTheSame(c, h, g)'
    BY <1>2, <2>1, <2>3, <2>4
  <2> QED BY <1>4, <2>3, <2>5
<1> QED BY <1>5, <1>6, <1>7

LEMMA LineageStep ==
  ASSUME LineageInv, [ChannelNext]_<<vars, records, project>> PROVE LineageInv'
<1>1. LineageTyped'
  BY TypedStep DEF LineageInv
<1>2. ASSUME UNCHANGED suites
      PROVE  UNCHANGED briefs => RegressionKept' /\ HoldoutsAccumulate'
  BY <1>2 DEF LineageInv, RegressionKept, HoldoutsAccumulate, SaysTheSame
<1>3. ASSUME UNCHANGED <<plans, briefs>>
      PROVE  PlansFit' /\ BuiltIsHistory' /\ RequirementsBuilt'
  BY <1>3 DEF LineageInv, PlansFit, BuiltIsHistory, RequirementsBuilt, PlannedIn, SaysTheSame
<1>4. CASE ApproveBrief
  <2>1. PICK brief \in Brief : briefs' = Append(briefs, brief)
    BY <1>4 DEF ApproveBrief
  <2>2. \A k \in 1..Len(briefs) : briefs'[k] = briefs[k]
    BY <2>1 DEF LineageInv, LineageTyped
  <2> QED BY <1>1, <1>4, <2>2, BriefStep DEF ApproveBrief, LineageInv
<1>5. CASE CreatePlan
  BY <1>1, <1>2, <1>5, PlanStep DEF CreatePlan, LineageInv
<1>6. CASE RecordCompletion
  BY <1>1, <1>2, <1>3, <1>6 DEF RecordCompletion, LineageInv
<1>7. ASSUME NEW g, NEW suite, Placed(g, suite) PROVE LineageInv'
  BY <1>1, <1>3, <1>7, SuiteStep DEF Placed, LineageInv
<1>8. CASE UNCHANGED vars
  BY <1>1, <1>2, <1>3, <1>8 DEF vars, LineageInv
<1> QED BY <1>4, <1>5, <1>6, <1>7, <1>8, LineageSteps DEF LineageInv

LEMMA LineageInit == ChannelInit => LineageInv
<1> SUFFICES ASSUME ChannelInit PROVE LineageInv
  OBVIOUS
<1>1. briefs = <<>> /\ plans = <<>> /\ suites = <<>> /\ completed = 0
  BY DEF ChannelInit, Init
<1>2. LineageTyped
  BY <1>1, GenerationsAssumption DEF LineageTyped, Numbered
<1>3. DOMAIN plans = {} /\ DOMAIN suites = {}
  BY <1>1
<1> QED BY <1>2, <1>3 DEF LineageInv, PlansFit, BuiltIsHistory, RequirementsBuilt,
             RegressionKept, HoldoutsAccumulate

\* The invariant of the lineage holds of the specification with the workspace.
THEOREM LineageSound == ChannelSpec => []LineageInv
<1> QED BY LineageInit, LineageStep, PTL DEF ChannelSpec

\* Built slices are never lost or rewritten, and what verifies them stays in the
\* brief (computeSliceDispositions, validatePlanAgainstBrief).
THEOREM PlansStayHistory == ChannelSpec => []PlansAreHistory
<1>1. LineageInv => PlansAreHistory
  <2> SUFFICES ASSUME LineageInv, NEW g \in DOMAIN plans, NEW h \in DOMAIN plans, g <= h,
                      NEW s \in DOMAIN plans[g].slices
               PROVE  plans[g].slices[s] \subseteq DOMAIN briefs[h]
    BY DEF LineageInv, PlansAreHistory, VerifiersStay
  <2>1. s \in DOMAIN plans[h].slices /\ plans[h].slices[s] = plans[g].slices[s]
    BY DEF LineageInv, BuiltIsHistory
  <2>2. plans[h].slices[s] \subseteq DOMAIN briefs[h]
    BY <2>1 DEF LineageInv, PlansFit, SatisfiesBrief
  <2> QED BY <2>1, <2>2
<1> QED BY <1>1, LineageSound, PTL

\* Every criterion that was added or rewritten is verified by a slice that was
\* planned while it said what it says (createPlan of ArchitectService).
THEOREM RequirementsAreBuilt == ChannelSpec => []RequirementsBuilt
<1>1. LineageInv => RequirementsBuilt
  BY DEF LineageInv
<1> QED BY <1>1, LineageSound, PTL

\* Files of untouched criteria survive every generation and revision, there is one
\* holdout more with each generation, and what was visible stays visible
\* (validateSuiteSuccession).
THEOREM SuitesStayHistory == ChannelSpec => []SuitesAreHistory
<1>1. LineageInv => SuitesAreHistory
  BY DEF LineageInv, SuitesAreHistory
<1> QED BY <1>1, LineageSound, PTL

-----------------------------------------------------------------------------
\* A suite that was current at some time: of a generation that has a suite, and
\* not revised more often than the one that is there.
Past(s) == \E g \in 1..Len(suites) : \E r \in 0..revisions[g] : s = <<g, r>>

ChannelTyped ==
  /\ revisions \in [1..MaxGenerations -> Nat]
  /\ \A g \in 1..MaxGenerations : g > Len(suites) => revisions[g] = 0
  /\ inForce \subseteq Latest /\ written \subseteq begun
  /\ \A s \in orders \cup begun \cup named : Past(s)

LEMMA SuitesFit ==
  ASSUME LineageTyped PROVE Len(suites) \in Nat /\ Len(suites) <= MaxGenerations
BY GenerationsAssumption DEF LineageTyped, Numbered

\* What an approved suite, first or revised, is for the channel.
LEMMA ApproveSuiteIs ==
  ASSUME LineageInv, ApproveSuite, NEW n \in Nat, n = Len(suites)
  PROVE  /\ n + 1 \in 1..MaxGenerations /\ Len(suites') = n + 1
         /\ \A k \in 1..n : suites'[k] = suites[k]
         /\ UNCHANGED <<briefs, plans, completed, revisions, orders, submitted, approved,
                        words, guarded, workspace, told, named, begun, written>>
         /\ inForce' = inForce \cup {<<n + 1, 0>>}
         /\ completed = n
<1>1. PICK suite : Placed(n + 1, suite)
  <2>1. CASE CreateFirstSuite
    BY <2>1, FirstSuiteIsPlaced DEF LineageInv
  <2>2. CASE CreateSuccessorSuite
    BY <2>2, SuccessorIsPlaced DEF LineageInv
  <2> QED BY <2>1, <2>2 DEF ApproveSuite
<1>2. Len(suites') = n + 1 /\ \A k \in 1..n : suites'[k] = suites[k]
  BY <1>1 DEF Placed
<1>3. n + 1 \in 1..MaxGenerations /\ completed = n
  BY <1>1, GenerationsAssumption DEF Placed, LineageInv, LineageTyped, Numbered
<1> QED BY <1>1, <1>2, <1>3 DEF ApproveSuite, Placed, project

LEMMA ApproveRevisionIs ==
  ASSUME LineageInv, ApproveRevision, NEW n \in Nat, n = Len(suites)
  PROVE  /\ n \in 1..MaxGenerations /\ Len(suites') = n
         /\ \A k \in 1..n : k < n => suites'[k] = suites[k]
         /\ UNCHANGED <<briefs, plans, completed, orders, submitted, approved,
                        words, guarded, workspace, told, named, begun, written>>
         /\ revisions' = [revisions EXCEPT ![n] = @ + 1]
         /\ inForce' = inForce \cup {<<n, revisions[n] + 1>>}
         /\ <<n, revisions[n]>> \notin inForce /\ completed < n
<1>1. n > 0 /\ \E suite : Placed(n, suite)
  BY RevisionIsPlaced DEF LineageInv
<1>2. Len(suites') = n /\ \A k \in 1..n : k < n => suites'[k] = suites[k]
  BY <1>1 DEF Placed
<1>3. n \in 1..MaxGenerations
  BY <1>1, SuitesFit, GenerationsAssumption DEF LineageInv
<1> QED BY <1>1, <1>2, <1>3 DEF ApproveRevision, project, Current

\* The steps that leave suites and revisions alone.
Quiet == UNCHANGED <<suites, revisions>>

LEMMA QuietSteps ==
  ASSUME LineageInv, [ChannelNext]_<<vars, records, project>>
  PROVE  ApproveSuite \/ ApproveRevision \/ Quiet
BY DEF ChannelNext, Quiet, vars, records, project, Sign, ApproveBrief, CreatePlan,
       RequestRevision, CreateWorkOrder, ApproveSubmission, Complete, RecordCompletion,
       PrepareBuilderWorkspace, MaterializingDies, GetWorkOrder, MaterializeTests,
       SubmitSlice, Speak, AnswerQuestion

\* Suites that were current stay so.
LEMMA PastStays ==
  ASSUME LineageInv, ChannelTyped, ApproveSuite \/ ApproveRevision \/ Quiet,
         NEW s, Past(s)
  PROVE  Past(s)'
<1>1. PICK g \in 1..Len(suites) : \E r \in 0..revisions[g] : s = <<g, r>>
  BY DEF Past
<1>2. PICK r \in 0..revisions[g] : s = <<g, r>>
  BY <1>1
<1>n. PICK n \in Nat : n = Len(suites) /\ n <= MaxGenerations
  BY SuitesFit DEF LineageInv
<1>3. g \in 1..MaxGenerations /\ revisions[g] \in Nat
  BY <1>n, GenerationsAssumption DEF ChannelTyped
<1>4. CASE ApproveSuite
  <2>1. Len(suites') = n + 1 /\ revisions' = revisions
    BY <1>4, <1>n, ApproveSuiteIs
  <2>2. g \in 1..Len(suites')
    BY <1>n, <2>1
  <2> QED BY <1>2, <2>1, <2>2 DEF Past
<1>5. CASE ApproveRevision
  <2>1. /\ Len(suites') = n /\ n \in 1..MaxGenerations
        /\ revisions' = [revisions EXCEPT ![n] = @ + 1]
    BY <1>5, <1>n, ApproveRevisionIs
  <2>2. revisions[g] <= revisions'[g] /\ revisions'[g] \in Nat
    BY <1>3, <2>1 DEF ChannelTyped
  <2>3. r \in 0..revisions'[g] /\ g \in 1..Len(suites')
    BY <1>3, <1>n, <2>1, <2>2
  <2> QED BY <1>2, <2>3 DEF Past
<1>6. CASE Quiet
  BY <1>1, <1>6 DEF Past, Quiet
<1> QED BY <1>4, <1>5, <1>6

LEMMA CurrentIsPast ==
  ASSUME LineageInv, ChannelTyped, Len(suites) > 0
  PROVE  Past(Current) /\ Current \in Latest /\ revisions[Len(suites)] \in Nat
         /\ Current = <<Len(suites), revisions[Len(suites)]>>
<1>n. PICK n \in Nat : n = Len(suites) /\ n <= MaxGenerations
  BY SuitesFit DEF LineageInv
<1>1. n \in 1..MaxGenerations /\ n \in 1..n
  BY <1>n, GenerationsAssumption
<1>2. revisions[n] \in Nat
  BY <1>1 DEF ChannelTyped
<1>3. revisions[n] \in 0..revisions[n]
  BY <1>2
<1> QED BY <1>n, <1>1, <1>2, <1>3 DEF Past, Current, Latest

\* An order presupposes a suite.
LEMMA OrderedHasSuite ==
  ASSUME LineageInv, ChannelTyped, orders # {} PROVE Len(suites) > 0
<1>1. PICK s \in orders : Past(s)
  BY DEF ChannelTyped
<1>2. Len(suites) \in Nat
  BY SuitesFit DEF LineageInv
<1> QED BY <1>1, <1>2 DEF Past

LEMMA ChannelTypedStep ==
  ASSUME LineageInv, ChannelTyped, [ChannelNext]_<<vars, records, project>>
  PROVE  ChannelTyped'
<1>n. PICK n \in Nat : n = Len(suites) /\ n <= MaxGenerations
  BY SuitesFit DEF LineageInv
<1>0. ApproveSuite \/ ApproveRevision \/ Quiet
  BY QuietSteps
<1>1. CASE ApproveSuite
  <2>1. /\ Len(suites') = n + 1 /\ revisions' = revisions /\ n + 1 \in 1..MaxGenerations
        /\ UNCHANGED <<orders, begun, named, written>>
        /\ inForce' = inForce \cup {<<n + 1, 0>>}
    BY <1>1, <1>n, ApproveSuiteIs
  <2>2. \A s \in orders' \cup begun' \cup named' : Past(s)'
    BY <1>0, <2>1, PastStays DEF ChannelTyped
  <2>3. revisions[n + 1] = 0
    BY <1>n, <2>1 DEF ChannelTyped
  <2>4. Latest' = Latest \cup {<<n + 1, 0>>}
    <3>1. 1..(n + 1) = 1..n \cup {n + 1}
      OBVIOUS
    <3> QED BY <1>n, <2>1, <2>3, <3>1 DEF Latest
  <2>5. \A g \in 1..MaxGenerations : g > n + 1 => revisions[g] = 0
    BY <1>n, GenerationsAssumption DEF ChannelTyped
  <2> QED BY <2>1, <2>2, <2>4, <2>5 DEF ChannelTyped
<1>2. CASE ApproveRevision
  <2>1. /\ n \in 1..MaxGenerations /\ Len(suites') = n
        /\ UNCHANGED <<orders, begun, named, written>>
        /\ revisions' = [revisions EXCEPT ![n] = @ + 1]
        /\ inForce' = inForce \cup {<<n, revisions[n] + 1>>}
        /\ <<n, revisions[n]>> \notin inForce
    BY <1>2, <1>n, ApproveRevisionIs
  <2>2. \A s \in orders' \cup begun' \cup named' : Past(s)'
    BY <1>0, <2>1, PastStays DEF ChannelTyped
  <2>3. /\ revisions' \in [1..MaxGenerations -> Nat] /\ revisions'[n] = revisions[n] + 1
        /\ \A g \in 1..MaxGenerations : g # n => revisions'[g] = revisions[g]
    BY <2>1 DEF ChannelTyped
  <2>4. \A g \in 1..MaxGenerations : g > n => revisions'[g] = 0
    BY <1>n, <2>3, GenerationsAssumption DEF ChannelTyped
  <2>5. ASSUME NEW s \in inForce' PROVE s \in Latest'
    <3>1. CASE s = <<n, revisions[n] + 1>>
      <4>1. n \in 1..n
        BY <2>1, GenerationsAssumption
      <4> QED BY <2>1, <2>3, <3>1, <4>1 DEF Latest
    <3>2. CASE s \in inForce
      <4>1. PICK g \in 1..n : s = <<g, revisions[g]>>
        BY <1>n, <3>2 DEF ChannelTyped, Latest
      <4>2. g # n /\ g \in 1..MaxGenerations
        BY <1>n, <2>1, <3>2, <4>1, GenerationsAssumption
      <4> QED BY <2>1, <2>3, <4>1, <4>2 DEF Latest
    <3> QED BY <2>1, <2>5, <3>1, <3>2
  <2> QED BY <2>1, <2>2, <2>3, <2>4, <2>5 DEF ChannelTyped
<1>3. CASE Quiet
  <2>1. Len(suites') = Len(suites) /\ revisions' = revisions /\ Latest' = Latest
        /\ \A s : Past(s)' <=> Past(s)
    BY <1>3 DEF Quiet, Latest, Past
  <2>2. ASSUME Ordered PROVE Past(Current) /\ Current \in Latest
    BY <2>2, OrderedHasSuite, CurrentIsPast DEF Ordered
  <2>3. ASSUME Served PROVE Past(Current) /\ Current \in Latest
    BY <2>3, OrderedHasSuite, CurrentIsPast DEF Served, OpenOrders
  <2>4. ASSUME InWork PROVE Past(Current) /\ Current \in Latest
    <3>1. n > 0
      BY <1>n, <2>4 DEF InWork, LineageInv, LineageTyped, Numbered
    <3> QED BY <1>n, <3>1, CurrentIsPast
  <2>5. /\ inForce' \subseteq Latest /\ written' \subseteq begun'
        /\ \A s \in orders' \cup begun' \cup named' : Past(s)
    <3>1. CASE Sign \/ Complete \/ UNCHANGED <<vars, records, project>>
      BY <3>1 DEF Sign, Complete, records, project, ChannelTyped
    <3>2. CASE RequestRevision \/ CreateWorkOrder \/ ApproveSubmission
      BY <2>4, <3>2 DEF RequestRevision, CreateWorkOrder, ApproveSubmission, project, ChannelTyped
    <3>3. CASE PrepareBuilderWorkspace \/ MaterializingDies
      BY <2>2, <3>3 DEF PrepareBuilderWorkspace, MaterializingDies, MaterializeVisibleTests,
           Tell, records, ChannelTyped
    <3>4. CASE GetWorkOrder \/ MaterializeTests \/ SubmitSlice
      BY <2>3, <3>4 DEF GetWorkOrder, MaterializeTests, SubmitSlice, MaterializeVisibleTests,
           Tell, records, ChannelTyped
    <3>5. CASE Speak \/ AnswerQuestion
      BY <3>5 DEF Speak, AnswerQuestion, project, ChannelTyped
    <3>6. CASE ApproveSuite \/ ApproveRevision
      <4>1. CASE ApproveSuite
        BY <1>3, <1>n, <4>1, ApproveSuiteIs DEF Quiet
      <4>2. CASE ApproveRevision
        <5>1. /\ n \in 1..MaxGenerations
              /\ revisions' = [revisions EXCEPT ![n] = @ + 1] /\ revisions' = revisions
          BY <1>3, <1>n, <4>2, ApproveRevisionIs DEF Quiet
        <5>2. revisions[n] \in Nat /\ revisions'[n] = revisions[n] + 1
          BY <5>1 DEF ChannelTyped
        <5> QED BY <5>1, <5>2
      <4> QED BY <3>6, <4>1, <4>2
    <3> QED BY <3>1, <3>2, <3>3, <3>4, <3>5, <3>6 DEF ChannelNext
  <2> QED BY <2>1, <2>5 DEF ChannelTyped
<1> QED BY <1>0, <1>1, <1>2, <1>3

-----------------------------------------------------------------------------
\* Orders are for suites that add slices, and the ones of a closed generation are
\* approved, unless its suite was revised.
OrdersInv ==
  /\ Ordered => NewSlices # {}
  /\ \A s \in orders \cap Latest : s[1] <= completed => s \in approved

LEMMA CurrentStays ==
  ASSUME Quiet PROVE Current' = Current /\ Latest' = Latest /\ Content' = Content
BY DEF Quiet, Current, Latest, Content

\* The slices a generation adds are settled when it has a suite.
LEMMA NewSlicesStay ==
  ASSUME LineageInv, [ChannelNext]_<<vars, records, project>>, Quiet, Len(suites) > 0
  PROVE  NewSlices' = NewSlices
<1>n. PICK n \in Nat : n = Len(suites) /\ n <= Len(plans) /\ n > 0
  BY SuitesFit DEF LineageInv, LineageTyped, Numbered
<1>1. Len(plans) \in Nat
  BY DEF LineageInv, LineageTyped
<1>2. \A k \in 1..n : plans'[k] = plans[k]
  <2>1. CASE CreatePlan
    <3>1. \A k \in 1..Len(plans) : plans'[k] = plans[k]
      BY <2>1, PlanIsAppended DEF LineageInv
    <3> QED BY <1>n, <1>1, <3>1
  <2>2. CASE UNCHANGED plans
    BY <2>2
  <2>3. CreatePlan \/ UNCHANGED plans
    BY LineageSteps DEF LineageInv, ApproveBrief, RecordCompletion, Placed, vars
  <2> QED BY <2>1, <2>2, <2>3
<1>3. 1 \in 1..n /\ n \in 1..n /\ (n # 1 => n - 1 \in 1..n)
  BY <1>n
<1>4. Len(suites') = n
  BY <1>n DEF Quiet
<1>5. plans'[1] = plans[1] /\ plans'[n] = plans[n] /\ (n # 1 => plans'[n - 1] = plans[n - 1])
  BY <1>2, <1>3
<1> QED BY <1>n, <1>4, <1>5 DEF NewSlices

LEMMA OrdersStep ==
  ASSUME LineageInv, ChannelTyped, OrdersInv, [ChannelNext]_<<vars, records, project>>
  PROVE  OrdersInv'
<1>n. PICK n \in Nat : n = Len(suites) /\ n <= MaxGenerations
  BY SuitesFit DEF LineageInv
<1>c. completed \in Nat /\ n <= completed + 1
  BY <1>n DEF LineageInv, LineageTyped, Numbered
<1>p. \A s \in orders : \E g \in 1..n : \E r \in 0..revisions[g] : s = <<g, r>>
  BY <1>n DEF ChannelTyped, Past
<1>1. CASE ApproveSuite
  <2>1. /\ Len(suites') = n + 1 /\ revisions' = revisions
        /\ UNCHANGED <<orders, approved, completed>>
    BY <1>1, <1>n, ApproveSuiteIs
  <2>2. <<n + 1, revisions[n + 1]>> \notin orders
    BY <1>p
  <2>3. ~Ordered'
    BY <2>1, <2>2 DEF Ordered, Current
  <2>4. ASSUME NEW s \in orders, s \in Latest' PROVE s \in Latest
    <3>1. PICK g \in 1..(n + 1) : s = <<g, revisions[g]>>
      BY <2>1, <2>4 DEF Latest
    <3>2. g \in 1..n
      BY <2>2, <2>4, <3>1
    <3> QED BY <1>n, <3>1, <3>2 DEF Latest
  <2> QED BY <2>1, <2>3, <2>4 DEF OrdersInv
<1>2. CASE ApproveRevision
  <2>1. /\ n \in 1..MaxGenerations /\ Len(suites') = n
        /\ UNCHANGED <<orders, approved, completed>>
        /\ revisions' = [revisions EXCEPT ![n] = @ + 1]
        /\ completed < n
    BY <1>2, <1>n, ApproveRevisionIs
  <2>2. /\ revisions[n] \in Nat /\ revisions'[n] = revisions[n] + 1
        /\ \A g \in 1..MaxGenerations : g # n => revisions'[g] = revisions[g]
    BY <2>1 DEF ChannelTyped
  <2>3. <<n, revisions[n] + 1>> \notin orders
    <3> SUFFICES ASSUME <<n, revisions[n] + 1>> \in orders PROVE FALSE
      OBVIOUS
    <3>1. PICK g \in 1..n : \E r \in 0..revisions[g] : <<n, revisions[n] + 1>> = <<g, r>>
      BY <1>p
    <3>2. PICK r \in 0..revisions[g] : <<n, revisions[n] + 1>> = <<g, r>>
      BY <3>1
    <3>3. g = n /\ r = revisions[n] + 1
      BY <3>2
    <3> QED BY <2>2, <3>3
  <2>4. ~Ordered'
    BY <2>1, <2>2, <2>3 DEF Ordered, Current
  <2>5. ASSUME NEW s \in orders, s \in Latest', s[1] <= completed PROVE s \in Latest
    <3>1. PICK g \in 1..n : s = <<g, revisions'[g]>>
      BY <2>1, <2>5 DEF Latest
    <3>2. g # n /\ g \in 1..MaxGenerations
      BY <1>n, <1>c, <2>1, <2>5, <3>1, GenerationsAssumption
    <3> QED BY <1>n, <2>2, <3>1, <3>2 DEF Latest
  <2> QED BY <2>1, <2>4, <2>5 DEF OrdersInv
<1>3. CASE Quiet /\ UNCHANGED <<orders, approved, completed>>
  <2>1. Ordered' = Ordered /\ Latest' = Latest
    BY <1>3, CurrentStays DEF Ordered
  <2>2. Ordered => NewSlices' = NewSlices
    BY <1>3, NewSlicesStay, OrderedHasSuite DEF Ordered
  <2> QED BY <1>3, <2>1, <2>2 DEF OrdersInv
<1>4. CASE CreateWorkOrder
  <2>1. /\ Quiet /\ completed < n /\ NewSlices # {}
        /\ orders' = orders \cup {Current} /\ UNCHANGED <<approved, completed>>
    BY <1>4, <1>n DEF CreateWorkOrder, InWork, Quiet, vars
  <2>2. n > 0 /\ Current[1] = n
    BY <1>n, <1>c, <2>1, CurrentIsPast
  <2>3. NewSlices' = NewSlices /\ Latest' = Latest
    BY <1>n, <2>1, <2>2, NewSlicesStay, CurrentStays
  <2>4. ~(Current[1] <= completed)
    BY <1>c, <2>1, <2>2
  <2> QED BY <2>1, <2>3, <2>4 DEF OrdersInv
<1>5. CASE ApproveSubmission
  <2>1. Quiet /\ UNCHANGED <<orders, completed>> /\ approved \subseteq approved'
    BY <1>5 DEF ApproveSubmission, Quiet, vars
  <2>2. Ordered' = Ordered /\ Latest' = Latest
    BY <2>1, CurrentStays DEF Ordered
  <2>3. Ordered => NewSlices' = NewSlices
    BY <2>1, NewSlicesStay, OrderedHasSuite DEF Ordered
  <2> QED BY <2>1, <2>2, <2>3 DEF OrdersInv
<1>6. CASE Complete
  <2>1. /\ Quiet /\ UNCHANGED <<orders, approved>> /\ completed' = completed + 1
        /\ completed < n /\ SlicesDone
    BY <1>6, <1>n DEF Complete, RecordCompletion, Quiet, records, project, Generation
  <2>2. Ordered' = Ordered /\ Latest' = Latest
    BY <2>1, CurrentStays DEF Ordered
  <2>3. Ordered => NewSlices' = NewSlices
    BY <2>1, NewSlicesStay, OrderedHasSuite DEF Ordered
  <2>4. ASSUME NEW s \in orders, s \in Latest, s[1] <= completed + 1 PROVE s \in approved
    <3>1. PICK g \in 1..n : s = <<g, revisions[g]>>
      BY <1>n, <2>4 DEF Latest
    <3>2. CASE g <= completed
      BY <2>4, <3>1, <3>2 DEF OrdersInv
    <3>3. CASE ~(g <= completed)
      <4>1. g = n
        BY <1>c, <2>1, <2>4, <3>1, <3>3
      <4>2. s = Current
        BY <1>n, <3>1, <4>1 DEF Current
      <4>3. NewSlices # {}
        BY <2>4, <4>2 DEF OrdersInv, Ordered
      <4> QED BY <2>1, <4>2, <4>3 DEF SlicesDone
    <3> QED BY <3>2, <3>3
  <2> QED BY <2>1, <2>2, <2>3, <2>4 DEF OrdersInv
<1> QED BY <1>1, <1>2, <1>3, <1>4, <1>5, <1>6
     DEF ChannelNext, Quiet, vars, records, project, Sign, ApproveBrief, CreatePlan,
         RequestRevision, PrepareBuilderWorkspace, MaterializingDies, GetWorkOrder,
         MaterializeTests, SubmitSlice, Speak, AnswerQuestion

LEMMA OffersFollow ==
  ASSUME LineageInv, ChannelTyped, OrdersInv PROVE OffersAreCurrent
<1>n. PICK n \in Nat : n = Len(suites) /\ n <= MaxGenerations
  BY SuitesFit DEF LineageInv
<1>c. completed \in Nat /\ n <= completed + 1
  BY <1>n DEF LineageInv, LineageTyped, Numbered
<1>1. ASSUME NEW s \in OpenOrders
      PROVE  s = Current /\ completed < n /\ n > 0
  <2>1. s \in orders /\ s \in Latest /\ s \notin approved
    BY DEF OpenOrders, ChannelTyped
  <2>2. PICK g \in 1..n : s = <<g, revisions[g]>>
    BY <1>n, <2>1 DEF Latest
  <2>3. ~(g <= completed)
    BY <2>1, <2>2 DEF OrdersInv
  <2>4. g = n /\ completed < n
    BY <1>c, <2>2, <2>3
  <2> QED BY <1>n, <2>2, <2>4 DEF Current
<1>2. ASSUME Current \in inForce, n > 0 PROVE Current \in Anchor
  <2> SUFFICES ASSUME NEW t \in inForce, Before(Current, t) PROVE FALSE
    BY <1>2 DEF Anchor
  <2>1. PICK g \in 1..n : t = <<g, revisions[g]>>
    BY <1>n DEF ChannelTyped, Latest
  <2>2. Current = <<n, revisions[n]>> /\ revisions[n] \in Nat
    BY <1>n, <1>2, CurrentIsPast
  <2>3. n < g \/ (n = g /\ revisions[n] < revisions[g])
    BY <2>1, <2>2 DEF Before
  <2> QED BY <2>1, <2>2, <2>3
<1>3. ASSUME NEW w \in DOMAIN words, words[w].suite \in OpenOrders
      PROVE  w \in WordsShown
  <2>1. words[w].suite = Current /\ n > 0 /\ Current \in inForce
    BY <1>1, <1>3 DEF OpenOrders
  <2> QED BY <1>2, <2>1 DEF WordsShown
<1> QED BY <1>1, <1>3, <1>n DEF OffersAreCurrent

-----------------------------------------------------------------------------
\* The paths of the visible tests of generation g.
Visible(g) == DOMAIN VisibleTests(suites[g])

\* The suites of the generations before the current one.
Earlier == {s \in Latest : s[1] < Len(suites)}

\* Those of the generation before, if there is one.
VisibleBefore == IF Len(suites) > 1 THEN Visible(Len(suites) - 1) ELSE {}

\* What is on disk when every earlier suite was written and none that was revised
\* since had begun to be: the visible tests of the last suite that was written, or
\* a part of those of the current one over them.
WorkspaceInv ==
  /\ Len(suites) = 0 => DOMAIN workspace = {}
  /\ Len(suites) > 0 /\ begun \subseteq Latest /\ Earlier \subseteq written =>
       /\ Current \notin begun => DOMAIN workspace \subseteq VisibleBefore
       /\ DOMAIN workspace \subseteq VisibleBefore \cup Visible(Len(suites))
       /\ Current \in written => workspace = VisibleTests(Content)

\* What the builder was told and what is on disk is of suites it was told of or that
\* were begun to be written, when none of these was revised since.
ToldInv ==
  named \cup begun \subseteq Latest =>
    \A p \in told \cup DOMAIN workspace :
      \E g \in 1..Len(suites) : p \in Visible(g) /\ <<g, revisions[g]>> \in named \cup begun

LEMMA VisibleIs ==
  ASSUME LineageInv, NEW g \in DOMAIN suites
  PROVE  \A p : p \in Visible(g) <=> p \in DOMAIN suites[g] /\ suites[g][p].visible
<1>1. suites[g] \in SuiteForms
  BY DEF LineageInv, LineageTyped
<1>2. \A p \in DOMAIN suites[g] : suites[g][p].visible \in BOOLEAN
  BY <1>1, SuiteFormIs DEF TestFile
<1> QED BY <1>2 DEF Visible, VisibleTests, Holdouts

\* A visible test of the generation before is visible, or has left the suite.
LEMMA VisibleOrRetired ==
  ASSUME LineageInv, NEW n \in Nat, n = Len(suites), n > 0
  PROVE  /\ VisibleBefore \ Retired \subseteq Visible(n)
         /\ Visible(n) \cap Retired = {}
<1>1. n \in DOMAIN suites /\ DOMAIN suites = 1..n /\ Content = suites[n]
  BY DEF LineageInv, LineageTyped, Content
<1>2. Visible(n) \subseteq DOMAIN suites[n]
  BY <1>1, VisibleIs
<1>3. CASE n = 1
  BY <1>3 DEF VisibleBefore, Retired
<1>4. CASE n > 1
  <2>1. n - 1 \in DOMAIN suites /\ n - 1 \in Nat /\ n - 1 <= n
    BY <1>1, <1>4
  <2>2. VisibleBefore = Visible(n - 1) /\ Retired = DOMAIN suites[n - 1] \ DOMAIN suites[n]
    BY <1>1, <1>4 DEF VisibleBefore, Retired
  <2>3. ASSUME NEW p \in Visible(n - 1), p \in DOMAIN suites[n] PROVE p \in Visible(n)
    <3>1. p \in DOMAIN suites[n - 1] /\ suites[n - 1][p].visible
      BY <2>1, VisibleIs
    <3>2. \A k \in (n - 1)..n : k = n - 1 \/ k = n
      OBVIOUS
    <3>3. \A k \in (n - 1)..n : p \in DOMAIN suites[k]
      BY <2>3, <3>1, <3>2
    <3>4. suites[n][p].visible
      BY <1>1, <2>1, <3>1, <3>3 DEF LineageInv, HoldoutsAccumulate
    <3> QED BY <1>1, <2>3, <3>4, VisibleIs
  <2>4. \A p \in Visible(n - 1) : p \in DOMAIN suites[n - 1]
    BY <2>1, VisibleIs
  <2> QED BY <1>2, <2>2, <2>3, <2>4
<1> QED BY <1>3, <1>4

\* Writing the visible tests and removing what retired leaves the visible tests.
LEMMA WrittenFits ==
  ASSUME LineageInv, NEW n \in Nat, n = Len(suites), n > 0,
         DOMAIN workspace \subseteq VisibleBefore \cup Visible(n)
  PROVE  Rewritten(DOMAIN VisibleTests(Content), Retired) = VisibleTests(Content)
<1>v. PICK V : V = VisibleTests(Content)
  OBVIOUS
<1>w. PICK W : W = Rewritten(DOMAIN V, Retired)
  OBVIOUS
<1>1. DOMAIN V = Visible(n) /\ V = [p \in DOMAIN V |-> V[p]]
  BY <1>v DEF Visible, Content, VisibleTests
<1>2. /\ DOMAIN W = (DOMAIN workspace \cup DOMAIN V) \ Retired
      /\ W = [p \in DOMAIN W |-> W[p]]
      /\ \A p \in DOMAIN W : p \in DOMAIN V => W[p] = V[p]
  BY <1>v, <1>w DEF Rewritten
<1>3. DOMAIN W = DOMAIN V
  BY <1>1, <1>2, VisibleOrRetired
<1>4. W = V
  BY <1>1, <1>2, <1>3
<1> QED BY <1>4, <1>v, <1>w

\* The workspace is written, as a whole or in part.
LEMMA WriteStep ==
  ASSUME LineageInv, ChannelTyped, WorkspaceInv, Len(suites) > 0, Quiet,
         begun' = begun \cup {Current},
         \/ MaterializeVisibleTests
         \/ /\ \E paths \in SUBSET DOMAIN VisibleTests(Content) :
                  workspace' = Rewritten(paths, {})
            /\ written' = written /\ Current \notin begun
  PROVE  WorkspaceInv'
<1>n. PICK n \in Nat : n = Len(suites)
  BY SuitesFit DEF LineageInv
<1>1. /\ Len(suites') = n /\ Latest' = Latest /\ Current' = Current /\ Content' = Content
      /\ Earlier' = Earlier /\ VisibleBefore' = VisibleBefore
      /\ Visible(Len(suites))' = Visible(n)
  BY <1>n, CurrentStays DEF Quiet, Earlier, VisibleBefore, Visible
<1>2. Current \in begun' /\ Current \notin Earlier
  <2>1. Current[1] = n
    BY <1>n, CurrentIsPast
  <2> QED BY <1>n, <2>1 DEF Earlier
<1>3. Content = suites[n] /\ Visible(n) = DOMAIN VisibleTests(Content)
  BY <1>n DEF Content, Visible
<1>4. CASE MaterializeVisibleTests
  <2>1. workspace' = Rewritten(DOMAIN VisibleTests(Content), Retired)
        /\ written' = written \cup {Current}
    BY <1>4 DEF MaterializeVisibleTests
  <2>2. ASSUME begun' \subseteq Latest, Earlier \subseteq written'
        PROVE  workspace' = VisibleTests(Content)
    <3>1. begun \subseteq Latest /\ Earlier \subseteq written
      BY <1>2, <2>1, <2>2
    <3>2. DOMAIN workspace \subseteq VisibleBefore \cup Visible(n)
      BY <1>n, <3>1 DEF WorkspaceInv
    <3> QED BY <1>n, <2>1, <3>2, WrittenFits
  <2>3. VisibleTests(Content)' = VisibleTests(Content)
    BY <1>1 DEF VisibleTests, Holdouts
  <2> QED BY <1>n, <1>1, <1>2, <1>3, <2>2, <2>3 DEF WorkspaceInv
<1>5. CASE /\ \E paths \in SUBSET DOMAIN VisibleTests(Content) :
                workspace' = Rewritten(paths, {})
           /\ written' = written /\ Current \notin begun
  <2>1. PICK paths \in SUBSET DOMAIN VisibleTests(Content) :
          workspace' = Rewritten(paths, {})
    BY <1>5
  <2>2. DOMAIN workspace' \subseteq DOMAIN workspace \cup Visible(n)
    BY <1>3, <2>1 DEF Rewritten
  <2>3. Current \notin written'
    BY <1>5 DEF ChannelTyped
  <2>4. ASSUME begun' \subseteq Latest, Earlier \subseteq written
        PROVE  DOMAIN workspace \subseteq VisibleBefore
    BY <1>n, <1>5, <2>4 DEF WorkspaceInv
  <2> QED BY <1>n, <1>1, <1>2, <1>5, <2>2, <2>3, <2>4 DEF WorkspaceInv
<1> QED BY <1>4, <1>5

LEMMA WorkspaceStep ==
  ASSUME LineageInv, ChannelTyped, WorkspaceInv, [ChannelNext]_<<vars, records, project>>
  PROVE  WorkspaceInv'
<1>n. PICK n \in Nat : n = Len(suites) /\ n <= MaxGenerations
  BY SuitesFit DEF LineageInv
<1>b. \A s \in begun : \E g \in 1..n : \E r \in 0..revisions[g] : s = <<g, r>>
  BY <1>n DEF ChannelTyped, Past
<1>1. CASE ApproveSuite
  <2>1. /\ Len(suites') = n + 1 /\ \A k \in 1..n : suites'[k] = suites[k]
        /\ UNCHANGED <<revisions, workspace, begun, written>>
    BY <1>1, <1>n, ApproveSuiteIs
  <2>2. <<n + 1, revisions[n + 1]>> \notin begun
    BY <1>b
  <2>3. Current' \notin begun' /\ Current' \notin written'
    BY <2>1, <2>2 DEF Current, ChannelTyped
  <2>4. ASSUME begun \subseteq Latest', Earlier' \subseteq written
        PROVE  DOMAIN workspace \subseteq VisibleBefore'
    <3>1. CASE n = 0
      BY <1>n, <3>1 DEF WorkspaceInv
    <3>2. CASE n > 0
      <4>1. Latest \subseteq Earlier'
        <5> SUFFICES ASSUME NEW g \in 1..n PROVE <<g, revisions[g]>> \in Earlier'
          BY <1>n DEF Latest
        <5>1. g \in 1..(n + 1) /\ g < n + 1
          OBVIOUS
        <5> QED BY <2>1, <5>1 DEF Earlier, Latest
      <4>2. Current \in written /\ Earlier \subseteq written
        BY <1>n, <2>4, <3>2, <4>1, CurrentIsPast DEF Earlier
      <4>3. begun \subseteq Latest
        <5> SUFFICES ASSUME NEW s \in begun PROVE s \in Latest
          OBVIOUS
        <5>1. PICK g \in 1..n : \E r \in 0..revisions[g] : s = <<g, r>>
          BY <1>b
        <5>2. PICK h \in 1..(n + 1) : s = <<h, revisions[h]>>
          BY <2>1, <2>4 DEF Latest
        <5>3. h = g
          BY <5>1, <5>2
        <5> QED BY <1>n, <5>2, <5>3 DEF Latest
      <4>4. DOMAIN workspace = Visible(n)
        BY <1>n, <3>2, <4>2, <4>3 DEF WorkspaceInv, Visible, Content
      <4>5. VisibleBefore' = Visible(n)
        <5>1. n \in 1..n /\ n + 1 > 1 /\ (n + 1) - 1 = n
          BY <3>2
        <5>2. suites'[n] = suites[n]
          BY <2>1, <5>1
        <5> QED BY <2>1, <5>1, <5>2 DEF VisibleBefore, Visible, VisibleTests, Holdouts
      <4> QED BY <4>4, <4>5
    <3> QED BY <3>1, <3>2
  <2> QED BY <2>1, <2>3, <2>4 DEF WorkspaceInv
<1>2. CASE ApproveRevision
  <2>1. /\ n \in 1..MaxGenerations /\ Len(suites') = n
        /\ \A k \in 1..n : k < n => suites'[k] = suites[k]
        /\ UNCHANGED <<workspace, begun, written>>
        /\ revisions' = [revisions EXCEPT ![n] = @ + 1]
    BY <1>2, <1>n, ApproveRevisionIs
  <2>2. /\ revisions[n] \in Nat /\ revisions'[n] = revisions[n] + 1
        /\ \A g \in 1..MaxGenerations : g # n => revisions'[g] = revisions[g]
    BY <2>1 DEF ChannelTyped
  <2>3. <<n, revisions[n] + 1>> \notin begun
    <3> SUFFICES ASSUME <<n, revisions[n] + 1>> \in begun PROVE FALSE
      OBVIOUS
    <3>1. PICK g \in 1..n : \E r \in 0..revisions[g] : <<n, revisions[n] + 1>> = <<g, r>>
      BY <1>b
    <3>2. PICK r \in 0..revisions[g] : <<n, revisions[n] + 1>> = <<g, r>>
      BY <3>1
    <3>3. g = n /\ r = revisions[n] + 1
      BY <3>2
    <3> QED BY <2>2, <3>3
  <2>4. Current' \notin begun' /\ Current' \notin written'
    BY <2>1, <2>2, <2>3 DEF Current, ChannelTyped
  <2>5. ASSUME begun \subseteq Latest', Earlier' \subseteq written
        PROVE  DOMAIN workspace \subseteq VisibleBefore'
    <3>1. \A g \in 1..n : g \in 1..MaxGenerations
      BY <1>n, GenerationsAssumption
    <3>2. begun \subseteq Latest /\ Current \notin begun
      <4>1. ASSUME NEW s \in begun PROVE s \in Latest /\ s # Current
        <5>1. PICK g \in 1..n : s = <<g, revisions'[g]>>
          BY <2>1, <2>5 DEF Latest
        <5>2. g # n
          BY <2>2, <2>3, <5>1
        <5>3. s = <<g, revisions[g]>>
          BY <2>2, <3>1, <5>1, <5>2
        <5> QED BY <1>n, <5>2, <5>3 DEF Latest, Current
      <4> QED BY <4>1
    <3>3. Earlier \subseteq Earlier'
      <4> SUFFICES ASSUME NEW s \in Earlier PROVE s \in Earlier'
        OBVIOUS
      <4>1. PICK g \in 1..n : s = <<g, revisions[g]>> /\ g < n
        BY <1>n DEF Earlier, Latest
      <4>2. s = <<g, revisions'[g]>>
        BY <2>2, <3>1, <4>1
      <4> QED BY <2>1, <4>1, <4>2 DEF Earlier, Latest
    <3>4. DOMAIN workspace \subseteq VisibleBefore
      BY <1>n, <2>1, <2>5, <3>2, <3>3 DEF WorkspaceInv
    <3>5. VisibleBefore' = VisibleBefore
      <4>1. CASE n > 1
        <5>1. n - 1 \in 1..n /\ n - 1 < n
          BY <4>1
        <5>2. suites'[n - 1] = suites[n - 1]
          BY <2>1, <5>1
        <5> QED BY <1>n, <2>1, <5>2 DEF VisibleBefore, Visible, VisibleTests, Holdouts
      <4>2. CASE ~(n > 1)
        BY <1>n, <2>1, <4>2 DEF VisibleBefore
      <4> QED BY <4>1, <4>2
    <3> QED BY <3>4, <3>5
  <2> QED BY <2>1, <2>4, <2>5 DEF WorkspaceInv
<1>3. CASE Quiet /\ UNCHANGED <<workspace, begun, written>>
  <2>1. /\ Len(suites') = Len(suites) /\ Latest' = Latest /\ Current' = Current
        /\ VisibleTests(Content)' = VisibleTests(Content) /\ Earlier' = Earlier
        /\ VisibleBefore' = VisibleBefore /\ Visible(Len(suites))' = Visible(Len(suites))
    BY <1>3 DEF Quiet, Latest, Current, Content, VisibleTests, Holdouts, Earlier,
         VisibleBefore, Visible
  <2> QED BY <1>3, <2>1 DEF WorkspaceInv
<1>4. CASE PrepareBuilderWorkspace \/ MaterializeTests \/ MaterializingDies
  <2>1. Len(suites) > 0 /\ Quiet
    BY <1>4, OrderedHasSuite DEF PrepareBuilderWorkspace, MaterializeTests,
         MaterializingDies, Ordered, Served, OpenOrders, Quiet, vars, records
  <2>2. CASE PrepareBuilderWorkspace \/ MaterializeTests
    BY <2>1, <2>2, WriteStep DEF PrepareBuilderWorkspace, MaterializeTests,
         MaterializeVisibleTests
  <2>3. CASE MaterializingDies
    BY <2>1, <2>3, WriteStep DEF MaterializingDies
  <2> QED BY <1>4, <2>2, <2>3
<1> QED BY <1>1, <1>2, <1>3, <1>4
     DEF ChannelNext, Quiet, vars, records, project, Sign, ApproveBrief, CreatePlan,
         RequestRevision, CreateWorkOrder, ApproveSubmission, Complete, RecordCompletion,
         GetWorkOrder, SubmitSlice, Speak, AnswerQuestion

LEMMA FitFollows ==
  ASSUME LineageInv, ChannelTyped, WorkspaceInv PROVE WorkspaceFits
<1> SUFFICES ASSUME suites # <<>>, written = Latest, begun = Latest
             PROVE  workspace = VisibleTests(Content)
  BY DEF WorkspaceFits
<1>1. Len(suites) > 0
  BY DEF LineageInv, LineageTyped
<1>2. Current \in written /\ Earlier \subseteq written
  BY <1>1, CurrentIsPast DEF Earlier
<1> QED BY <1>1, <1>2 DEF WorkspaceInv

-----------------------------------------------------------------------------
\* A suite of the past that counts after an approval counted before, and is not the
\* one that was revised.
LEMMA CountedBefore ==
  ASSUME LineageInv, ChannelTyped, ApproveSuite \/ ApproveRevision, NEW s, Past(s),
         s \in Latest', NEW n \in Nat, n = Len(suites)
  PROVE  \E g \in 1..n : /\ s = <<g, revisions[g]>> /\ revisions'[g] = revisions[g]
                         /\ suites'[g] = suites[g]
<1>n. n <= MaxGenerations
  BY SuitesFit DEF LineageInv
<1>1. PICK g \in 1..n : \E r \in 0..revisions[g] : s = <<g, r>>
  BY DEF Past
<1>2. PICK r \in 0..revisions[g] : s = <<g, r>>
  BY <1>1
<1>3. CASE ApproveSuite
  <2>1. /\ Len(suites') = n + 1 /\ revisions' = revisions
        /\ \A k \in 1..n : suites'[k] = suites[k]
    BY <1>3, ApproveSuiteIs
  <2>2. PICK h \in 1..(n + 1) : s = <<h, revisions[h]>>
    BY <2>1 DEF Latest
  <2>3. h = g
    BY <1>2, <2>2
  <2> QED BY <2>1, <2>2, <2>3
<1>4. CASE ApproveRevision
  <2>1. /\ n \in 1..MaxGenerations /\ Len(suites') = n
        /\ \A k \in 1..n : k < n => suites'[k] = suites[k]
        /\ revisions' = [revisions EXCEPT ![n] = @ + 1]
    BY <1>4, ApproveRevisionIs
  <2>2. /\ revisions[n] \in Nat /\ revisions'[n] = revisions[n] + 1
        /\ \A k \in 1..MaxGenerations : k # n => revisions'[k] = revisions[k]
    BY <2>1 DEF ChannelTyped
  <2>3. PICK h \in 1..n : s = <<h, revisions'[h]>>
    BY <2>1 DEF Latest
  <2>4. h = g /\ revisions'[g] = r
    BY <1>2, <2>3
  <2>5. g # n /\ g < n /\ g \in 1..MaxGenerations
    BY <1>n, <2>1, <2>2, <2>4, GenerationsAssumption
  <2> QED BY <1>2, <2>1, <2>2, <2>4, <2>5
<1> QED BY <1>3, <1>4

LEMMA ToldStep ==
  ASSUME LineageInv, ChannelTyped, ToldInv, [ChannelNext]_<<vars, records, project>>
  PROVE  ToldInv'
<1>n. PICK n \in Nat : n = Len(suites) /\ n <= MaxGenerations
  BY SuitesFit DEF LineageInv
<1>1. CASE ApproveSuite \/ ApproveRevision
  <2>1. UNCHANGED <<told, named, begun, workspace>> /\ Len(suites') \in {n, n + 1}
    <3>1. CASE ApproveSuite
      BY <1>n, <3>1, ApproveSuiteIs
    <3>2. CASE ApproveRevision
      BY <1>n, <3>2, ApproveRevisionIs
    <3> QED BY <1>1, <3>1, <3>2
  <2>2. ASSUME NEW s \in named \cup begun, s \in Latest'
        PROVE  \E g \in 1..n : /\ s = <<g, revisions[g]>> /\ revisions'[g] = revisions[g]
                               /\ suites'[g] = suites[g]
    BY <1>1, <1>n, <2>2, CountedBefore DEF ChannelTyped
  <2> SUFFICES ASSUME named \cup begun \subseteq Latest', NEW p \in told \cup DOMAIN workspace
               PROVE  \E g \in 1..Len(suites') : /\ p \in Visible(g)'
                                                 /\ <<g, revisions'[g]>> \in named \cup begun
    BY <2>1 DEF ToldInv
  <2>3. named \cup begun \subseteq Latest
    BY <1>n, <2>2 DEF Latest
  <2>4. PICK g \in 1..n : p \in Visible(g) /\ <<g, revisions[g]>> \in named \cup begun
    BY <1>n, <2>3 DEF ToldInv
  <2>5. revisions'[g] = revisions[g] /\ suites'[g] = suites[g]
    BY <2>2, <2>4
  <2>6. Visible(g)' = Visible(g)
    BY <2>5 DEF Visible, VisibleTests, Holdouts
  <2>7. g \in 1..Len(suites')
    BY <2>1
  <2> QED BY <2>4, <2>5, <2>6, <2>7
<1>2. ASSUME Quiet, named \cup begun \subseteq named' \cup begun',
             \A p \in told' \cup DOMAIN workspace' :
               \/ p \in told \cup DOMAIN workspace
               \/ n > 0 /\ p \in Visible(n) /\ Current \in named' \cup begun'
      PROVE  ToldInv'
  <2> SUFFICES ASSUME named' \cup begun' \subseteq Latest',
                      NEW p \in told' \cup DOMAIN workspace'
               PROVE  \E g \in 1..Len(suites') : /\ p \in Visible(g)'
                                                 /\ <<g, revisions'[g]>> \in named' \cup begun'
    BY DEF ToldInv
  <2>1. Latest' = Latest /\ Len(suites') = n /\ revisions' = revisions /\ suites' = suites
    BY <1>2, <1>n, CurrentStays DEF Quiet
  <2>2. \A g \in 1..n : Visible(g)' = Visible(g)
    BY <2>1 DEF Visible, VisibleTests, Holdouts
  <2>3. CASE p \in told \cup DOMAIN workspace
    <3>1. PICK g \in 1..n : p \in Visible(g) /\ <<g, revisions[g]>> \in named \cup begun
      BY <1>2, <1>n, <2>1, <2>3 DEF ToldInv
    <3> QED BY <1>2, <2>1, <2>2, <3>1
  <2>4. CASE n > 0 /\ p \in Visible(n) /\ Current \in named' \cup begun'
    <3>1. n \in 1..n /\ Current = <<n, revisions[n]>>
      BY <1>n, <2>4 DEF Current
    <3> QED BY <2>1, <2>2, <2>4, <3>1
  <2> QED BY <1>2, <2>3, <2>4
<1>3. Content = suites[n] /\ Visible(n) = DOMAIN VisibleTests(Content)
      /\ Visible(n) = DOMAIN Content \ Holdouts(Content)
  BY <1>n DEF Content, Visible, VisibleTests
<1>4. CASE Quiet /\ UNCHANGED <<told, named, begun, workspace>>
  BY <1>2, <1>4
<1>5. CASE PrepareBuilderWorkspace \/ MaterializeTests
  <2>1. Len(suites) > 0 /\ Quiet /\ MaterializeVisibleTests
    BY <1>5, OrderedHasSuite DEF PrepareBuilderWorkspace, MaterializeTests, Ordered,
       Served, OpenOrders, Quiet, vars, records
  <2>2. /\ DOMAIN workspace' \subseteq DOMAIN workspace \cup Visible(n)
        /\ told' \subseteq told \cup Visible(n)
        /\ named' = named \cup {Current} /\ begun' = begun \cup {Current}
    BY <1>3, <2>1 DEF MaterializeVisibleTests, Rewritten, Tell, Redacted
  <2> QED BY <1>2, <1>n, <2>1, <2>2
<1>6. CASE MaterializingDies
  <2>1. Len(suites) > 0 /\ Quiet
    BY <1>6, OrderedHasSuite DEF MaterializingDies, Ordered, Quiet, vars, records
  <2>2. PICK paths \in SUBSET DOMAIN VisibleTests(Content) : workspace' = Rewritten(paths, {})
    BY <1>6 DEF MaterializingDies
  <2>3. /\ DOMAIN workspace' \subseteq DOMAIN workspace \cup Visible(n)
        /\ told' = told /\ named' = named /\ begun' = begun \cup {Current}
    BY <1>3, <1>6, <2>2 DEF MaterializingDies, Rewritten
  <2> QED BY <1>2, <1>n, <2>1, <2>3
<1>7. CASE GetWorkOrder \/ SubmitSlice
  <2>1. Len(suites) > 0 /\ Quiet /\ UNCHANGED <<workspace, begun>>
    BY <1>7, OrderedHasSuite DEF GetWorkOrder, SubmitSlice, Served, OpenOrders, Quiet,
       vars, records
  <2>2. Tell(DOMAIN Content) \/ Tell(DOMAIN Content \cup DOMAIN workspace)
    BY <1>7 DEF GetWorkOrder, SubmitSlice
  <2>3. /\ told' \subseteq told \cup DOMAIN workspace \cup Visible(n)
        /\ named' = named \cup {Current}
    BY <1>3, <2>2 DEF Tell, Redacted
  <2> QED BY <1>2, <1>n, <2>1, <2>3
<1> QED BY <1>1, <1>4, <1>5, <1>6, <1>7
     DEF ChannelNext, Quiet, vars, records, project, Sign, ApproveBrief, CreatePlan,
         RequestRevision, CreateWorkOrder, ApproveSubmission, Complete, RecordCompletion,
         Speak, AnswerQuestion

\* A path that was visible and is a holdout had left the suite in between.
LEMMA ToldFollows ==
  ASSUME LineageInv, ChannelTyped, ToldInv PROVE HoldoutsUntold
<1> SUFFICES ASSUME named \cup begun \subseteq Latest, NEW p \in told, suites # <<>>,
                    p \in Holdouts(Content)
             PROVE  \E g, h \in DOMAIN suites :
                      /\ g < h /\ p \in DOMAIN VisibleTests(suites[g])
                      /\ p \notin DOMAIN suites[h]
  BY DEF HoldoutsUntold
<1>n. PICK n \in Nat : n = Len(suites) /\ n > 0 /\ DOMAIN suites = 1..n
  BY DEF LineageInv, LineageTyped
<1>1. PICK g \in 1..n : p \in Visible(g)
  BY <1>n DEF ToldInv
<1>2. p \in DOMAIN suites[g] /\ suites[g][p].visible
  BY <1>n, <1>1, VisibleIs
<1>3. n \in 1..n /\ p \in DOMAIN suites[n] /\ ~suites[n][p].visible
  BY <1>n DEF Content, Holdouts
<1>4. PICK h \in g..n : p \notin DOMAIN suites[h]
  BY <1>n, <1>1, <1>2, <1>3 DEF LineageInv, HoldoutsAccumulate
<1>5. g < h /\ h \in 1..n
  BY <1>1, <1>2, <1>4
<1> QED BY <1>n, <1>1, <1>4, <1>5 DEF Visible

-----------------------------------------------------------------------------
ChannelInv ==
  LineageInv /\ ChannelTyped /\ OrdersInv /\ WorkspaceInv /\ ToldInv

LEMMA ChannelStarts == ChannelInit => ChannelInv
<1> SUFFICES ASSUME ChannelInit PROVE ChannelInv
  OBVIOUS
<1>1. LineageInv
  BY LineageInit
<1>2. /\ Len(suites) = 0 /\ \A g \in 1..MaxGenerations : revisions[g] = 0
      /\ revisions \in [1..MaxGenerations -> Nat]
      /\ inForce = {} /\ orders = {} /\ told = {} /\ named = {} /\ begun = {} /\ written = {}
      /\ DOMAIN workspace = {}
  BY DEF ChannelInit, Init
<1>3. ChannelTyped
  BY <1>2 DEF ChannelTyped
<1>4. OrdersInv /\ WorkspaceInv /\ ToldInv
  BY <1>2 DEF OrdersInv, Ordered, WorkspaceInv, ToldInv
<1> QED BY <1>1, <1>3, <1>4 DEF ChannelInv

\* Of the lineage, the records of the channel, the workspace and what the builder was
\* told, the invariant all the theorems about the channel rest on.
THEOREM ChannelSound == ChannelSpec => []ChannelInv
<1>1. ChannelInit => ChannelInv
  BY ChannelStarts
<1>2. ChannelInv /\ [ChannelNext]_<<vars, records, project>> => ChannelInv'
  BY LineageStep, ChannelTypedStep, OrdersStep, WorkspaceStep, ToldStep DEF ChannelInv
<1> QED BY <1>1, <1>2, PTL DEF ChannelSpec

\* When every suite was written to the one workspace and none that was revised since
\* had begun to be, the tests on disk are those of the current suite: the scope check
\* refuses nothing the Workbench left behind (materializeVisibleTests, submitSlice).
THEOREM WorkspaceStaysFit == ChannelSpec => []WorkspaceFits
<1>1. ChannelInv => WorkspaceFits
  BY FitFollows DEF ChannelInv
<1> QED BY <1>1, ChannelSound, PTL

\* The builder is only ever offered orders of the current suite of an open generation,
\* and the operator sees every word about one (listWorkOrders, the notes of the page).
THEOREM OffersStayCurrent == ChannelSpec => []OffersAreCurrent
<1>1. ChannelInv => OffersAreCurrent
  BY OffersFollow DEF ChannelInv
<1> QED BY <1>1, ChannelSound, PTL

\* No holdout of the current suite was named to the builder, except where a visible
\* test had left the suite, or a suite was revised after the builder was told of it
\* (redactWorkOrder, materializeVisibleTests, the report of a submission).
THEOREM HoldoutsStayUntold == ChannelSpec => []HoldoutsUntold
<1>1. ChannelInv => HoldoutsUntold
  BY ToldFollows DEF ChannelInv
<1> QED BY <1>1, ChannelSound, PTL

=============================================================================
