-------------------------- MODULE AgentHandoffProofs --------------------------
(***************************************************************************)
(* What the evidence about an agent is worth, for any number of processes, *)
(* requests, policies, cases, edits and restarts: references resolve, the  *)
(* sides of a comparison ran together, the candidate is the registered     *)
(* policy with the patch, what is approved is no worse, and what is        *)
(* exported was approved.                                                  *)
(*                                                                         *)
(* Files are created under fresh ids, so what is on disk only grows.  What *)
(* a process knows when it starts a comparison stays true until it is      *)
(* saved: of the registration because only a restart replaces it, which    *)
(* ends the comparison; of the files because no other process has its ids. *)
(***************************************************************************)
EXTENDS AgentHandoff, TLAPS

-----------------------------------------------------------------------------
(* The invariant.                                                          *)

Measured == {"runs", "baseline", "candidate", "comparison"}

\* Ids are fresh, and files refer to ids that were given out.
Filed ==
  /\ minted \in Nat
  /\ datasetRuns \subseteq 1..minted
  /\ DOMAIN experiments \subseteq datasetRuns
  /\ DOMAIN experiments \subseteq DOMAIN place
  /\ DOMAIN place \subseteq 1..minted
  /\ DOMAIN proposals \subseteq 1..minted
  /\ DOMAIN advice = DOMAIN proposals
  /\ DOMAIN comparisons \subseteq 1..minted
  /\ DOMAIN runs \subseteq 1..minted

\* Every process has its registration, its comparison and the rest.
PerProcess ==
  /\ loaded = [p \in Processes |-> loaded[p]]
  /\ job = [p \in Processes |-> job[p]]
  /\ side = [p \in Processes |-> side[p]]
  /\ asked = [p \in Processes |-> asked[p]]

\* A comparison with its results, as a process holds it.
Shaped(j) ==
  j = [step |-> j.step, proposal |-> j.proposal, effective |-> j.effective,
       baseline |-> j.baseline, before |-> j.before,
       candidate |-> j.candidate, after |-> j.after, within |-> j.within]

Sides(j) == {j.baseline, j.candidate}

\* The sides ran in one place, in the workspace of the analysed evaluation.
RanTogether(baseline, candidate, proposal) ==
  /\ {baseline, candidate} \subseteq DOMAIN place
  /\ place[baseline] = place[candidate]
  /\ place[baseline].workspace = WorkspaceOf(proposal)

JobMeasured(p, j) ==
  /\ Shaped(j)
  /\ j.effective = Patched(loaded[p].policy, proposals[j.proposal].patch)
  /\ j.before \in Outcomes /\ j.after \in Outcomes
  /\ j.baseline # j.candidate
  /\ RanTogether(j.baseline, j.candidate, j.proposal)

BaselineOf(p, j) == Experiment(loaded[p], loaded[p].policy, None, j.before)
CandidateOf(p, j) == Experiment(loaded[p], j.effective, j.proposal, j.after)

\* Its experiments are on disk once they are written, and not before.
JobWritten(p, j) ==
  /\ j.step \in {"runs", "baseline"} => j.baseline \notin DOMAIN experiments
  /\ j.step \in {"runs", "baseline", "candidate"} => j.candidate \notin DOMAIN experiments
  /\ j.step \in Measured \ {"runs"} => Sides(j) \subseteq datasetRuns
  /\ j.step \in {"candidate", "comparison"} =>
       j.baseline \in DOMAIN experiments /\ experiments[j.baseline] = BaselineOf(p, j)
  /\ j.step = "comparison" =>
       j.candidate \in DOMAIN experiments /\ experiments[j.candidate] = CandidateOf(p, j)

JobSound(p, j) ==
  /\ j.step \in {"idle", "ready", "running"} \cup Measured
  /\ j.step = "idle" => j = NoJob
  /\ j.step # "idle" => j.proposal \in DOMAIN proposals
  /\ j.step \in {"running"} \cup Measured => Buildable(p, proposals[j.proposal])
  /\ j.step \in Measured => JobMeasured(p, j) /\ JobWritten(p, j)

JobsSound == \A p \in Processes : JobSound(p, job[p])

\* No two comparisons have an id in common.
JobsApart ==
  \A p, q \in Processes :
    p # q /\ job[p].step \in Measured /\ job[q].step \in Measured
      => Sides(job[p]) \cap Sides(job[q]) = {}

\* A baseline that ran, ran where the candidate will run.
SideSound ==
  \A p \in Processes :
    /\ side[p] = [root |-> side[p].root, baseline |-> side[p].baseline]
    /\ side[p].baseline \in {NoRoot, side[p].root}

ExperimentsSound ==
  \A e \in DOMAIN experiments : experiments[e].proposal \in DOMAIN proposals \cup {None}

ProposalsSound ==
  \A pr \in DOMAIN proposals :
    /\ proposals[pr].experiment \in DOMAIN experiments
    /\ proposals[pr].patch # NoPatch => advice[pr] = <<>>

\* What the gates promise of two outcomes.
NoWorse(before, after) ==
  /\ \A c \in Regression : after[c] >= before[c]
  /\ \A c \in Protected : after[c] >= Threshold /\ after[c] >= before[c]
  /\ \E c \in Visible : after[c] > before[c]

\* What the candidate and the baseline of a comparison of a proposal say.
Compares(baseline, candidate, effective, proposal, id) ==
  /\ baseline.policy = proposal.policy
  /\ candidate.policy = Patched(proposal.policy, proposal.patch)
  /\ candidate.policy = effective
  /\ candidate.policy # baseline.policy
  /\ baseline.version = proposal.version /\ candidate.version = proposal.version
  /\ baseline.proposal = None /\ candidate.proposal = id

ComparisonSound(c) ==
  /\ c.proposal \in DOMAIN proposals
  /\ {c.baseline, c.candidate} \subseteq DOMAIN experiments
  /\ RanTogether(c.baseline, c.candidate, c.proposal)
  /\ Compares(experiments[c.baseline], experiments[c.candidate], c.effective,
              proposals[c.proposal], c.proposal)
  /\ c.passed => NoWorse(experiments[c.baseline].outcome, experiments[c.candidate].outcome)

ComparisonsSound == \A c \in DOMAIN comparisons : ComparisonSound(comparisons[c])

DecisionsSound ==
  \A d \in decisions :
    /\ d = [comparison |-> d.comparison, decision |-> d.decision]
    /\ d.comparison \in DOMAIN comparisons
    /\ d.decision = "approve" => comparisons[d.comparison].passed

ExportsSound ==
  \A x \in exports :
    /\ x.decision \in decisions /\ x.decision.decision = "approve"
    /\ comparisons[x.decision.comparison].effective = x.policy

\* What a run that was handed on has behind it.
Origin(r) ==
  r.handoff =>
    /\ r.about \in DOMAIN proposals
    /\ Recommends(r.about, r.index)
    /\ r.workspace = WorkspaceOf(r.about)
    /\ r.builder # None =>
         r.builder \in DOMAIN runs /\ Linked(r.builder, r.about, r.index)

HandedSound ==
  /\ \A i \in DOMAIN runs : /\ Origin(runs[i])
                            /\ runs[i].handoff /\ runs[i].builder # None => runs[i].builder < i
  /\ \A p \in Processes : asked[p] # NoRun =>
       /\ asked[p] = AgentRun(asked[p].agent, asked[p].workspace, asked[p].about,
                              asked[p].index, asked[p].builder, asked[p].handoff)
       /\ Origin(asked[p])

IInv ==
  /\ Filed /\ PerProcess
  /\ JobsSound /\ JobsApart /\ SideSound
  /\ ExperimentsSound /\ ProposalsSound /\ ComparisonsSound
  /\ DecisionsSound /\ ExportsSound
  /\ HandedSound

-----------------------------------------------------------------------------
(* What is on disk stays.                                                  *)

Ext(f, g) == DOMAIN f \subseteq DOMAIN g /\ \A i \in DOMAIN f : g[i] = f[i]

Grown ==
  /\ minted <= minted'
  /\ datasetRuns \subseteq datasetRuns'
  /\ Ext(experiments, experiments') /\ Ext(place, place')
  /\ Ext(proposals, proposals') /\ Ext(advice, advice')
  /\ Ext(comparisons, comparisons') /\ Ext(runs, runs')
  /\ decisions \subseteq decisions'

\* The steps that leave the files alone.
Quiet ==
  /\ UNCHANGED <<minted, artifacts, place, advice, runs>>

LEMMA WorkspaceStays ==
  ASSUME Filed, ProposalsSound, Grown, NEW pr \in DOMAIN proposals
  PROVE  WorkspaceOf(pr)' = WorkspaceOf(pr)
<1>1. proposals'[pr] = proposals[pr]
  BY DEF Grown, Ext
<1>2. proposals[pr].experiment \in DOMAIN place
  BY DEF Filed, ProposalsSound
<1>3. place'[proposals[pr].experiment] = place[proposals[pr].experiment]
  BY <1>2 DEF Grown, Ext
<1> QED
  BY <1>1, <1>3 DEF WorkspaceOf

LEMMA TogetherStays ==
  ASSUME Filed, ProposalsSound, Grown, NEW pr \in DOMAIN proposals,
         NEW b, NEW c, RanTogether(b, c, pr)
  PROVE  RanTogether(b, c, pr)'
BY WorkspaceStays DEF RanTogether, Grown, Ext

\* A comparison under way stays sound when its process keeps it, its
\* registration is the same and nobody else writes its experiments.
LEMMA JobStays ==
  ASSUME Filed, ProposalsSound, Grown, NEW p \in Processes,
         JobSound(p, job[p]), job'[p] = job[p], loaded'[p] = loaded[p],
         job[p].step \in Measured =>
           DOMAIN experiments' \cap Sides(job[p]) \subseteq DOMAIN experiments
  PROVE  JobSound(p, job[p])'
<1> DEFINE j == job[p]
<1>1. j.step # "idle" => /\ j.proposal \in DOMAIN proposals'
                         /\ proposals'[j.proposal] = proposals[j.proposal]
  BY DEF JobSound, Grown, Ext
<1>2. j.step \in {"running"} \cup Measured => Buildable(p, proposals[j.proposal])'
  BY <1>1 DEF JobSound, Buildable, SameSurface, Measured
<1>3. j.step \in Measured => JobMeasured(p, j)'
  BY <1>1, TogetherStays DEF JobSound, JobMeasured, Shaped, Measured
<1>4. ASSUME j.step \in Measured PROVE JobWritten(p, j)'
  <2>1. JobWritten(p, j)
    BY <1>4 DEF JobSound
  <2>2. \A e \in Sides(j) : e \in DOMAIN experiments' => e \in DOMAIN experiments
    BY <1>4
  <2>3. /\ j.step \in {"runs", "baseline"} => j.baseline \notin DOMAIN experiments'
        /\ j.step \in {"runs", "baseline", "candidate"}
             => j.candidate \notin DOMAIN experiments'
    BY <2>1, <2>2 DEF JobWritten, Sides
  <2>4. Ext(experiments, experiments') /\ datasetRuns \subseteq datasetRuns'
    BY DEF Grown
  <2>5. /\ BaselineOf(p, j)' = BaselineOf(p, j)
        /\ CandidateOf(p, j)' = CandidateOf(p, j)
    BY DEF BaselineOf, CandidateOf, Experiment
  <2> QED
    BY <2>1, <2>3, <2>4, <2>5 DEF JobWritten, Ext, Sides
<1> QED
  BY <1>1, <1>2, <1>3, <1>4 DEF JobSound

LEMMA ComparisonStays ==
  ASSUME Filed, ProposalsSound, Grown, NEW c, ComparisonSound(c)
  PROVE  ComparisonSound(c)'
<1>1. /\ c.proposal \in DOMAIN proposals'
      /\ proposals'[c.proposal] = proposals[c.proposal]
  BY DEF ComparisonSound, Grown, Ext
<1>2. \A e \in {c.baseline, c.candidate} :
        e \in DOMAIN experiments' /\ experiments'[e] = experiments[e]
  BY DEF ComparisonSound, Grown, Ext
<1>3. RanTogether(c.baseline, c.candidate, c.proposal)'
  BY TogetherStays DEF ComparisonSound
<1> QED
  BY <1>1, <1>2, <1>3 DEF ComparisonSound

LEMMA OriginStays ==
  ASSUME Filed, ProposalsSound, Grown, NEW r, Origin(r)
  PROVE  Origin(r)'
<1> SUFFICES ASSUME r.handoff PROVE Origin(r)'
  BY DEF Origin
<1>1. /\ r.about \in DOMAIN proposals /\ r.about \in DOMAIN proposals'
      /\ advice'[r.about] = advice[r.about]
  BY DEF Origin, Grown, Ext, Filed
<1>2. WorkspaceOf(r.about)' = WorkspaceOf(r.about)
  BY <1>1, WorkspaceStays
<1>3. r.builder # None => /\ r.builder \in DOMAIN runs'
                          /\ runs'[r.builder] = runs[r.builder]
  BY DEF Origin, Grown, Ext
<1>4. r.builder # None => Linked(r.builder, r.about, r.index)'
  BY <1>2, <1>3 DEF Origin, Linked
<1> QED
  BY <1>1, <1>2, <1>3, <1>4 DEF Origin, Recommends

\* What a step does not touch stays sound.
LEMMA Untouched ==
  ASSUME IInv, Grown
  PROVE  /\ UNCHANGED experiments => ExperimentsSound'
         /\ UNCHANGED <<proposals, advice>> => ProposalsSound'
         /\ UNCHANGED comparisons => ComparisonsSound'
         /\ UNCHANGED decisions => DecisionsSound'
         /\ UNCHANGED exports => ExportsSound'
         /\ UNCHANGED <<runs, asked>> => HandedSound'
         /\ UNCHANGED side => SideSound'
<1> USE DEF IInv
<1>1. UNCHANGED experiments => ExperimentsSound'
  BY DEF ExperimentsSound, Grown, Ext
<1>2. UNCHANGED <<proposals, advice>> => ProposalsSound'
  BY DEF ProposalsSound, Grown, Ext
<1>3. UNCHANGED comparisons => ComparisonsSound'
  <2> SUFFICES ASSUME UNCHANGED comparisons, NEW c \in DOMAIN comparisons
               PROVE  ComparisonSound(comparisons[c])'
    BY DEF ComparisonsSound
  <2>1. ComparisonSound(comparisons[c])
    BY DEF ComparisonsSound
  <2> QED
    BY <2>1, ComparisonStays
<1>4. UNCHANGED decisions => DecisionsSound'
  BY DEF DecisionsSound, Grown, Ext
<1>5. UNCHANGED exports => ExportsSound'
  <2> SUFFICES ASSUME UNCHANGED exports, NEW x \in exports
               PROVE  /\ x.decision \in decisions'
                      /\ x.decision.decision = "approve"
                      /\ comparisons'[x.decision.comparison].effective = x.policy
    BY DEF ExportsSound
  <2>1. x.decision.comparison \in DOMAIN comparisons
    BY DEF ExportsSound, DecisionsSound
  <2> QED
    BY <2>1 DEF ExportsSound, Grown, Ext
<1>6. UNCHANGED <<runs, asked>> => HandedSound'
  BY OriginStays DEF HandedSound
<1>7. UNCHANGED side => SideSound'
  BY DEF SideSound
<1> QED
  BY <1>1, <1>2, <1>3, <1>4, <1>5, <1>6, <1>7

\* A step of p leaves the comparisons of the others alone.
LEMMA OthersStay ==
  ASSUME IInv, Grown, NEW p \in Processes,
         \A q \in Processes \ {p} :
           /\ job'[q] = job[q] /\ loaded'[q] = loaded[q]
           /\ job[q].step \in Measured =>
                DOMAIN experiments' \cap Sides(job[q]) \subseteq DOMAIN experiments,
         JobSound(p, job[p])'
  PROVE  JobsSound'
<1> SUFFICES ASSUME NEW q \in Processes PROVE JobSound(q, job[q])'
  BY DEF JobsSound
<1>1. CASE q = p
  BY <1>1
<1>2. CASE q # p
  <2>1. JobSound(q, job[q])
    BY DEF IInv, JobsSound
  <2> QED
    BY <1>2, <2>1, JobStays DEF IInv
<1> QED
  BY <1>1, <1>2

\* The ids of a comparison were given out.
LEMMA SidesAreOld ==
  ASSUME IInv, NEW p \in Processes, job[p].step \in Measured
  PROVE  Sides(job[p]) \subseteq 1..minted
BY DEF IInv, JobsSound, JobSound, JobMeasured, RanTogether, Sides, Filed

\* Comparisons stay apart when the one of p keeps its ids or has none.
LEMMA ApartStays ==
  ASSUME IInv, NEW p \in Processes,
         \A q \in Processes \ {p} : job'[q] = job[q],
         job'[p].step \in Measured =>
           \/ job[p].step \in Measured /\ Sides(job'[p]) = Sides(job[p])
           \/ Sides(job'[p]) \cap 1..minted = {}
  PROVE  JobsApart'
<1> SUFFICES ASSUME NEW q \in Processes, NEW r \in Processes, q # r,
                    job'[q].step \in Measured, job'[r].step \in Measured
             PROVE  Sides(job'[q]) \cap Sides(job'[r]) = {}
  BY DEF JobsApart, Sides
<1>1. \A a, b \in Processes :
        a # b /\ job[a].step \in Measured /\ job[b].step \in Measured
          => Sides(job[a]) \cap Sides(job[b]) = {}
  BY DEF IInv, JobsApart
<1>2. \A a \in Processes : job[a].step \in Measured => Sides(job[a]) \subseteq 1..minted
  BY SidesAreOld
<1>3. CASE q = p
  BY <1>1, <1>2, <1>3
<1>4. CASE r = p
  BY <1>1, <1>2, <1>4
<1>5. CASE q # p /\ r # p
  BY <1>1, <1>5
<1> QED
  BY <1>3, <1>4, <1>5

-----------------------------------------------------------------------------
(* Steps that write no file.                                               *)

LEMMA QuietGrows ==
  ASSUME IInv, Quiet PROVE Grown /\ Filed'
BY DEF IInv, Quiet, Grown, Ext, Filed, artifacts

LEMMA QuietUntouched ==
  ASSUME IInv, Quiet
  PROVE  /\ ExperimentsSound' /\ ProposalsSound' /\ ComparisonsSound'
         /\ DecisionsSound' /\ ExportsSound'
BY QuietGrows, Untouched DEF Quiet, artifacts

\* When nothing that a comparison knows changes, all comparisons stay sound.
LEMMA SameJobs ==
  ASSUME IInv, Grown, UNCHANGED <<job, loaded>>,
         DOMAIN experiments' \cap 1..minted \subseteq DOMAIN experiments
  PROVE  JobsSound' /\ JobsApart'
<1>1. JobsApart'
  BY DEF IInv, JobsApart, Sides
<1>2. ASSUME NEW q \in Processes, job[q].step \in Measured
      PROVE  DOMAIN experiments' \cap Sides(job[q]) \subseteq DOMAIN experiments
  BY <1>2, SidesAreOld DEF IInv, Filed
<1>3. ASSUME NEW q \in Processes PROVE JobSound(q, job[q])'
  <2>1. JobSound(q, job[q])
    BY DEF IInv, JobsSound
  <2> QED
    BY <1>2, <2>1, JobStays DEF IInv
<1> QED
  BY <1>1, <1>3 DEF JobsSound

LEMMA EditSound == ASSUME IInv, EditStep \/ UNCHANGED allVars PROVE IInv'
<1>1. Quiet /\ UNCHANGED <<vars, handoffVars>>
  BY DEF EditStep, CheckAdd, ReadAdd, ReadRemove, Write, Quiet, vars, handoffVars, allVars
<1>2. UNCHANGED <<job, loaded, side, asked, runs, experiments>>
  BY <1>1 DEF vars, handoffVars, artifacts
<1>3. Grown /\ Filed'
  BY <1>1, QuietGrows
<1>4. PerProcess'
  BY <1>2 DEF IInv, PerProcess
<1>5. JobsSound' /\ JobsApart'
  BY <1>2, <1>3, SameJobs
<1>6. SideSound' /\ HandedSound'
  BY <1>2, <1>3, Untouched
<1> QED
  BY <1>1, <1>3, <1>4, <1>5, <1>6, QuietUntouched DEF IInv

\* A step that only moves the comparison of p, and where it runs, on.
LEMMA MoveSound ==
  ASSUME IInv, NEW p \in Processes, Quiet, UNCHANGED <<runs, asked>>,
         PerProcess',
         \A q \in Processes \ {p} : job'[q] = job[q] /\ loaded'[q] = loaded[q],
         JobSound(p, job[p])', job'[p].step \notin Measured \/ job'[p] = job[p],
         SideSound'
  PROVE  IInv'
<1>1. Grown /\ Filed'
  BY QuietGrows
<1>2. UNCHANGED experiments
  BY DEF Quiet, artifacts
<1>3. JobsSound'
  BY <1>1, <1>2, OthersStay
<1>4. JobsApart'
  BY ApartStays
<1>5. HandedSound'
  BY <1>1, Untouched
<1> QED
  BY <1>1, <1>3, <1>4, <1>5, QuietUntouched DEF IInv

LEMMA BeginSound ==
  ASSUME IInv, NEW p \in Processes, BeginIn(p) PROVE IInv'
<1>1. PICK id \in DOMAIN proposals :
        /\ Begin(p, id)
        /\ side' = [side EXCEPT ![p] = Frozen(id)]
        /\ UNCHANGED <<source, loaded, minted, artifacts, loop>>
  <2>1. PICK id \in DOMAIN proposals :
          /\ \/ BeginComparison(p, id)
             \/ job[p].step = "ready" /\ id = job[p].proposal /\ CompareAnswer(p)
          /\ side' = [side EXCEPT ![p] = Frozen(id)]
    BY DEF BeginIn
  <2> QED
    BY <2>1 DEF BeginComparison, CompareAnswer
<1>2. /\ Buildable(p, proposals[id])
      /\ job' = [job EXCEPT ![p] = [step |-> "running", proposal |-> id]]
  BY <1>1 DEF Begin
<1>3. job'[p] = [step |-> "running", proposal |-> id]
  BY <1>2 DEF IInv, PerProcess
<1>4. Quiet /\ UNCHANGED <<loaded, proposals, asked, runs>>
  BY <1>1 DEF BeginIn, Quiet, artifacts
<1>5. JobSound(p, job[p])'
  BY <1>2, <1>3, <1>4 DEF JobSound, Measured, Buildable, SameSurface
<1>6. SideSound'
  BY <1>1 DEF IInv, PerProcess, SideSound, Frozen, NoRoot
<1>7. PerProcess' /\ \A q \in Processes \ {p} : job'[q] = job[q] /\ loaded'[q] = loaded[q]
  BY <1>1, <1>2, <1>4 DEF IInv, PerProcess
<1> QED
  BY <1>3, <1>4, <1>5, <1>6, <1>7, MoveSound DEF Measured

LEMMA BaselineRunSound ==
  ASSUME IInv, NEW p \in Processes, RunBaseline(p) PROVE IInv'
<1>1. /\ UNCHANGED vars /\ UNCHANGED <<place, advice, runs, asked>>
      /\ side' = [side EXCEPT ![p].baseline = SideRoot(p)]
  BY DEF RunBaseline
<1>2. Quiet /\ UNCHANGED <<job, loaded, runs, asked, experiments>>
  BY <1>1 DEF Quiet, vars, artifacts
<1>3. SideSound'
  BY <1>1 DEF IInv, PerProcess, SideSound, SideRoot
<1>4. PerProcess'
  BY <1>1, <1>2 DEF IInv, PerProcess
<1>5. JobSound(p, job[p])'
  BY <1>2, QuietGrows, JobStays DEF IInv, JobsSound
<1> QED
  BY <1>2, <1>3, <1>4, <1>5, MoveSound

\* A comparison ends, and with it the process or not.
LEMMA EndSound ==
  ASSUME IInv, NEW p \in Processes, FailIn(p) \/ RestartIn(p) PROVE IInv'
<1>1. /\ Quiet /\ UNCHANGED runs
      /\ job' = [job EXCEPT ![p] = NoJob]
      /\ side' = [side EXCEPT ![p] = NoSide]
      /\ asked' = asked \/ asked' = [asked EXCEPT ![p] = NoRun]
      /\ loaded' = loaded \/ loaded' = [loaded EXCEPT ![p] = source]
  BY DEF FailIn, RestartIn, FailComparison, Restart, Quiet, artifacts
<1>2. Grown /\ Filed' /\ UNCHANGED experiments
  BY <1>1, QuietGrows DEF Quiet, artifacts
<1>3. job'[p] = NoJob /\ \A q \in Processes \ {p} : job'[q] = job[q] /\ loaded'[q] = loaded[q]
  BY <1>1 DEF IInv, PerProcess
<1>4. JobSound(p, job[p])'
  BY <1>3 DEF JobSound, NoJob, Measured
<1>5. JobsSound'
  BY <1>2, <1>3, <1>4, OthersStay
<1>6. JobsApart'
  BY <1>3, ApartStays DEF NoJob, Measured
<1>7. SideSound' /\ PerProcess'
  BY <1>1 DEF IInv, PerProcess, SideSound, NoSide
<1>8. HandedSound'
  BY <1>1, <1>2, OriginStays DEF IInv, PerProcess, HandedSound
<1> QED
  BY <1>1, <1>2, <1>5, <1>6, <1>7, <1>8, QuietUntouched DEF IInv

\* The loop between two cases, an edit of the source.
LEMMA LoopSound ==
  ASSUME IInv, UNCHANGED handoffVars,
         Release \/ \E p \in Processes : TakeCase(p) \/ EndLoop(p) \/ DropCase(p)
  PROVE  IInv'
<1>1. Quiet /\ UNCHANGED <<job, loaded, side, asked, runs, experiments>>
  BY DEF Release, TakeCase, EndLoop, DropCase, Quiet, handoffVars, artifacts
<1>2. Grown /\ Filed'
  BY <1>1, QuietGrows
<1>3. PerProcess'
  BY <1>1 DEF IInv, PerProcess
<1> QED
  BY <1>1, <1>2, <1>3, SameJobs, Untouched, QuietUntouched DEF IInv

\* What p has asked for is replaced.
LEMMA AskedSound ==
  ASSUME IInv, NEW p \in Processes, NEW r,
         asked' = [asked EXCEPT ![p] = r],
         UNCHANGED <<vars, place, side, advice, runs>>,
         r # NoRun =>
           /\ r = AgentRun(r.agent, r.workspace, r.about, r.index, r.builder, r.handoff)
           /\ Origin(r)
  PROVE  IInv'
<1>1. Quiet /\ UNCHANGED <<job, loaded, side, runs, experiments>>
  BY DEF Quiet, vars, artifacts
<1>2. Grown /\ Filed'
  BY <1>1, QuietGrows
<1>3. PerProcess'
  BY <1>1 DEF IInv, PerProcess
<1>4. asked'[p] = r /\ \A q \in Processes \ {p} : asked'[q] = asked[q]
  BY DEF IInv, PerProcess
<1>5. HandedSound'
  BY <1>1, <1>2, <1>4, OriginStays DEF IInv, HandedSound
<1> QED
  BY <1>1, <1>2, <1>3, <1>5, SameJobs, Untouched, QuietUntouched DEF IInv

LEMMA AskSound ==
  ASSUME IInv, NEW p \in Processes,
         NEW agent, NEW workspace, NEW about, NEW index, NEW builder, NEW handoff,
         Ask(p, agent, workspace, about, index, builder, handoff),
         handoff => /\ about \in DOMAIN proposals
                    /\ Recommends(about, index)
                    /\ workspace = WorkspaceOf(about)
                    /\ builder # None =>
                         builder \in DOMAIN runs /\ Linked(builder, about, index)
  PROVE  IInv'
<1> DEFINE r == AgentRun(agent, workspace, about, index, builder, handoff)
<1>1. /\ r.agent = agent /\ r.workspace = workspace /\ r.about = about
      /\ r.index = index /\ r.builder = builder /\ r.handoff = handoff
  BY DEF AgentRun
<1> HIDE DEF r
<1>2. Origin(r)
  BY <1>1 DEF Origin
<1>3. r = AgentRun(r.agent, r.workspace, r.about, r.index, r.builder, r.handoff)
  BY <1>1 DEF r
<1>4. asked' = [asked EXCEPT ![p] = r] /\ UNCHANGED <<vars, place, side, advice, runs>>
  BY DEF Ask, r
<1> QED
  BY <1>2, <1>3, <1>4, AskedSound

\* A run is asked for or lost; what is handed on has its origin.
LEMMA AskingSound ==
  ASSUME IInv, NEW p \in Processes, HandOn(p) \/ RunBuilder(p) \/ LoseRun(p)
  PROVE  IInv'
<1>1. CASE LoseRun(p)
  BY <1>1, AskedSound DEF LoseRun
<1>2. CASE RunBuilder(p)
  <2>1. PICK workspace, about, index :
          Ask(p, "tool-builder", workspace, about, index, None, FALSE)
    BY <1>2 DEF RunBuilder
  <2> QED
    BY <2>1, AskSound
<1>3. CASE ToolBuilderHandoff(p)
  <2>1. PICK proposal \in DOMAIN proposals, index \in 1..2 :
          /\ Recommends(proposal, index)
          /\ Ask(p, "tool-builder", WorkspaceOf(proposal), proposal, index, None, TRUE)
    BY <1>3 DEF ToolBuilderHandoff
  <2>2. PICK workspace :
          /\ workspace = WorkspaceOf(proposal)
          /\ Ask(p, "tool-builder", workspace, proposal, index, None, TRUE)
    BY <2>1
  <2> QED
    BY <2>1, <2>2, AskSound
<1>4. CASE ChangeRiskHandoff(p)
  <2>1. PICK proposal \in DOMAIN proposals, index \in 1..2,
             builder \in DOMAIN runs \cup {None} :
          /\ Recommends(proposal, index)
          /\ builder # None => Linked(builder, proposal, index)
          /\ Ask(p, "change-risk-reviewer", WorkspaceOf(proposal), proposal, index,
                 builder, TRUE)
    BY <1>4 DEF ChangeRiskHandoff
  <2>2. PICK workspace :
          /\ workspace = WorkspaceOf(proposal)
          /\ Ask(p, "change-risk-reviewer", workspace, proposal, index, builder, TRUE)
    BY <2>1
  <2> QED
    BY <2>1, <2>2, AskSound
<1> QED
  BY <1>1, <1>2, <1>3, <1>4 DEF HandOn

-----------------------------------------------------------------------------
(* Steps that write files.                                                 *)

\* New evaluations: files under new ids, with the places they ran in.
LEMMA EvaluationsSound ==
  ASSUME IInv,
         minted' \in Nat, minted' > minted,
         datasetRuns' = datasetRuns \cup ((minted + 1)..minted'),
         Ext(experiments, experiments'),
         DOMAIN experiments' = DOMAIN experiments \cup ((minted + 1)..minted'),
         \A e \in (minted + 1)..minted' : experiments'[e].proposal = None,
         NEW id \in Ids \cup {BuiltIn}, PlacedNew(id),
         UNCHANGED <<loaded, proposals, comparisons, decisions, exports, job,
                     side, advice, runs, asked>>
  PROVE  IInv'
<1>1. DOMAIN place' = DOMAIN place \cup ((minted + 1)..minted') /\ Ext(place, place')
  BY DEF PlacedNew, Ext
<1>2. Filed'
  BY <1>1 DEF IInv, Filed
<1>3. Grown
  BY <1>1 DEF Grown, Ext, IInv, Filed
<1>4. DOMAIN experiments' \cap 1..minted \subseteq DOMAIN experiments
  BY DEF IInv, Filed
<1>5. JobsSound' /\ JobsApart'
  BY <1>3, <1>4, SameJobs
<1>6. ExperimentsSound'
  BY <1>3 DEF IInv, ExperimentsSound, Ext
<1>7. PerProcess'
  BY DEF IInv, PerProcess
<1> QED
  BY <1>2, <1>3, <1>5, <1>6, <1>7, Untouched DEF IInv

LEMMA VerifySound ==
  ASSUME IInv, NEW p \in Processes, NEW id \in Ids \cup {BuiltIn}, VerifyIn(p, id)
  PROVE  IInv'
<1>1. /\ minted' = minted + 1 /\ minted' \in Nat
      /\ (minted + 1)..minted' = {minted'}
  BY DEF VerifyIn, Verify, Mint, IInv, Filed
<1>2. PICK outcome \in Outcomes :
        experiments' = With(experiments, minted',
                            Experiment(loaded[p], loaded[p].policy, None, outcome))
  BY DEF VerifyIn, Verify
<1>3. minted' \notin DOMAIN experiments
  BY <1>1 DEF IInv, Filed
<1>4. /\ Ext(experiments, experiments')
      /\ DOMAIN experiments' = DOMAIN experiments \cup {minted'}
      /\ experiments'[minted'].proposal = None
  BY <1>2, <1>3 DEF Experiment, With, Ext
<1> QED
  BY <1>1, <1>4, EvaluationsSound DEF VerifyIn, Verify, IInv, Filed

LEMMA LoopStartSound ==
  ASSUME IInv, NEW p \in Processes, StartLoopAtHome(p) PROVE IInv'
<1> DEFINE Saved(outcome) == Experiment(loaded[p], loaded[p].policy, None, outcome)
<1>1. PICK strong \in Outcomes, weak \in Outcomes, both \in BOOLEAN :
        /\ minted' = minted + (IF both THEN 2 ELSE 1)
        /\ datasetRuns' = datasetRuns \cup ((minted + 1)..minted')
        /\ experiments' = IF both THEN With(With(experiments, minted + 1, Saved(strong)),
                                            minted + 2, Saved(weak))
                                  ELSE With(experiments, minted + 1, Saved(strong))
  BY DEF StartLoopAtHome, StartLoop, Mint
<1>2. minted \in Nat /\ DOMAIN experiments \subseteq 1..minted
  BY DEF IInv, Filed
<1> DEFINE first == With(experiments, minted + 1, Saved(strong))
           second == With(first, minted + 2, Saved(weak))
<1>3. /\ Ext(experiments, first)
      /\ DOMAIN first = DOMAIN experiments \cup {minted + 1}
      /\ first[minted + 1] = Saved(strong)
  BY <1>2 DEF With, Ext
<1>4. /\ Ext(first, second)
      /\ DOMAIN second = DOMAIN first \cup {minted + 2}
      /\ second[minted + 2] = Saved(weak)
  BY <1>2, <1>3 DEF With, Ext
<1>5. /\ Ext(experiments, second)
      /\ second[minted + 1] = Saved(strong)
  BY <1>3, <1>4 DEF Ext
<1>6. Saved(strong).proposal = None /\ Saved(weak).proposal = None
  BY DEF Experiment
<1> HIDE DEF first, second, Saved
<1>7. /\ Ext(experiments, experiments')
      /\ DOMAIN experiments' = DOMAIN experiments \cup ((minted + 1)..minted')
      /\ \A e \in (minted + 1)..minted' : experiments'[e].proposal = None
  <2>1. CASE both
    <3>1. (minted + 1)..minted' = {minted + 1, minted + 2}
      BY <1>1, <1>2, <2>1
    <3>2. experiments' = second
      BY <1>1, <2>1 DEF first, second
    <3> QED
      BY <1>3, <1>4, <1>5, <1>6, <3>1, <3>2
  <2>2. CASE ~both
    <3>1. (minted + 1)..minted' = {minted + 1}
      BY <1>1, <1>2, <2>2
    <3>2. experiments' = first
      BY <1>1, <2>2 DEF first
    <3> QED
      BY <1>3, <1>6, <3>1, <3>2
  <2> QED
    BY <2>1, <2>2
<1>8. minted' \in Nat /\ minted' > minted
  BY <1>1, <1>2
<1> QED
  BY <1>1, <1>7, <1>8, EvaluationsSound DEF StartLoopAtHome, StartLoop

LEMMA AnalysisSound ==
  ASSUME IInv, NEW p \in Processes, AnalyzeIn(p) PROVE IInv'
<1>1. PICK e, named, patch :
        /\ Analysable(p, e) /\ SaveProposal(p, e, named, patch)
        /\ \/ UNCHANGED job
           \/ job[p] = NoJob /\ job' = [job EXCEPT ![p] = NoJob]
           \/ job[p] = NoJob /\ job' = [job EXCEPT ![p] = [step |-> "ready", proposal |-> minted']]
        /\ UNCHANGED <<source, loaded, datasetRuns, experiments, comparisons, decisions, exports>>
  <2>1. CASE \E e \in DOMAIN experiments : Analyze(p, e)
    BY <2>1 DEF Analyze
  <2>2. CASE AskAnalyst(p)
    BY <2>2 DEF AskAnalyst
  <2> QED
    BY <2>1, <2>2 DEF AnalyzeIn
<1>2. /\ minted' = minted + 1 /\ minted' \in Nat /\ minted' \notin DOMAIN proposals
      /\ minted' \notin DOMAIN advice
      /\ proposals' = With(proposals, minted', Proposal(p, e, named, patch))
  BY <1>1 DEF SaveProposal, Mint, IInv, Filed
<1>3. /\ Ext(proposals, proposals')
      /\ DOMAIN proposals' = DOMAIN proposals \cup {minted'}
      /\ proposals'[minted'] = Proposal(p, e, named, patch)
  BY <1>2 DEF With, Ext
<1>4. PICK categories : /\ proposals'[minted'].patch # NoPatch => categories = <<>>
                        /\ advice' = With(advice, minted', categories)
  BY DEF AnalyzeIn, Advised
<1>5. /\ Ext(advice, advice')
      /\ DOMAIN advice' = DOMAIN advice \cup {minted'}
      /\ advice'[minted'] = categories
  BY <1>2, <1>4 DEF With, Ext
<1>6. UNCHANGED <<place, side, runs, asked>>
  BY DEF AnalyzeIn
<1>7. Grown
  BY <1>1, <1>2, <1>3, <1>5, <1>6 DEF Grown, Ext, IInv, Filed
<1>8. Filed'
  BY <1>1, <1>2, <1>3, <1>5, <1>6 DEF IInv, Filed
<1>9. ProposalsSound'
  <2>1. /\ e \in DOMAIN experiments /\ UNCHANGED experiments
        /\ Proposal(p, e, named, patch).experiment = e
    BY <1>1 DEF Analysable, Proposal
  <2> QED
    BY <2>1, <1>3, <1>4, <1>5 DEF IInv, Filed, ProposalsSound, Ext
<1>10. PerProcess'
  BY <1>1, <1>6 DEF IInv, PerProcess
<1>11. /\ \A q \in Processes \ {p} : job'[q] = job[q] /\ loaded'[q] = loaded[q]
       /\ job'[p] = job[p] \/ job'[p] = [step |-> "ready", proposal |-> minted']
  BY <1>1 DEF IInv, PerProcess
<1>12. JobSound(p, job[p])'
  <2>1. CASE job'[p] = job[p]
    BY <1>1, <1>7, <2>1, JobStays DEF IInv, JobsSound
  <2>2. CASE job'[p] = [step |-> "ready", proposal |-> minted']
    BY <1>3, <2>2 DEF JobSound, Measured
  <2> QED
    BY <1>11, <2>1, <2>2
<1>13. JobsSound'
  BY <1>1, <1>7, <1>11, <1>12, OthersStay
<1>14. JobsApart'
  BY <1>11, ApartStays DEF Measured
<1> QED
  BY <1>1, <1>6, <1>7, <1>8, <1>9, <1>10, <1>13, <1>14, Untouched DEF IInv

\* The sides have run: from here on the comparison has its ids.
LEMMA CandidateRunSound ==
  ASSUME IInv, NEW p \in Processes, RunCandidate(p) PROVE IInv'
<1>1. /\ job[p].step = "running"
      /\ minted' = minted + 2
      /\ UNCHANGED <<source, loaded, artifacts, loop, advice, runs, asked>>
      /\ side' = [side EXCEPT ![p] = NoSide]
  BY DEF RunCandidate, RunSides, Mint
<1>2. PICK proposal, w : proposal = job[p].proposal /\ w = WorkspaceOf(proposal)
  OBVIOUS
<1>3. PICK before \in Outcomes, after \in Outcomes, measured \in Measurements :
        job' = [job EXCEPT ![p] =
                 [step      |-> "runs",
                  proposal  |-> proposal,
                  effective |-> Patched(loaded[p].policy, proposals[proposal].patch),
                  baseline  |-> minted + 1, before |-> before,
                  candidate |-> minted + 2, after  |-> after,
                  within    |-> WithinTolerance(measured)]]
  BY <1>2 DEF RunCandidate, RunSides
<1>4. PICK j : j = job'[p]
  OBVIOUS
<1>5. /\ Shaped(j) /\ j.step = "runs" /\ j.proposal = proposal
      /\ j.effective = Patched(loaded[p].policy, proposals[proposal].patch)
      /\ j.baseline = minted + 1 /\ j.candidate = minted + 2
      /\ j.before \in Outcomes /\ j.after \in Outcomes
  BY <1>3, <1>4 DEF IInv, PerProcess, Shaped
<1>6. /\ minted \in Nat /\ DOMAIN place \subseteq 1..minted
      /\ DOMAIN experiments \subseteq 1..minted
  BY DEF IInv, Filed
<1>7. side[p].baseline = side[p].root
  BY DEF IInv, SideSound, RunCandidate
<1>8. place' = With(With(place, minted + 1, Placed(w, side[p].root)),
                    minted + 2, Placed(w, side[p].root))
  BY <1>2, <1>7 DEF RunCandidate, SideRoot
<1>9. /\ DOMAIN place' = DOMAIN place \cup {minted + 1, minted + 2}
      /\ Ext(place, place')
      /\ place'[minted + 1] = Placed(w, side[p].root)
      /\ place'[minted + 2] = Placed(w, side[p].root)
  BY <1>6, <1>8 DEF With, Ext
<1>10. Filed'
  BY <1>1, <1>6, <1>9 DEF IInv, Filed, artifacts
<1>11. Grown
  BY <1>1, <1>6, <1>9 DEF Grown, Ext, artifacts
<1>12. proposal \in DOMAIN proposals /\ Buildable(p, proposals[proposal])
  BY <1>1, <1>2 DEF IInv, JobsSound, JobSound
<1>13. JobMeasured(p, j)'
  <2>1. WorkspaceOf(proposal)' = w
    BY <1>2, <1>11, <1>12, WorkspaceStays DEF IInv
  <2>2. RanTogether(j.baseline, j.candidate, j.proposal)'
    BY <1>5, <1>9, <2>1 DEF RanTogether, Placed
  <2>3. j.baseline # j.candidate
    BY <1>5, <1>6
  <2> QED
    BY <1>1, <1>5, <2>2, <2>3 DEF JobMeasured, artifacts
<1>14. JobWritten(p, j)'
  BY <1>1, <1>5, <1>6 DEF JobWritten, Measured, artifacts
<1>15. JobSound(p, j)'
  BY <1>1, <1>5, <1>12, <1>13, <1>14 DEF JobSound, Measured, Buildable, SameSurface, artifacts
<1>16. \A q \in Processes \ {p} : job'[q] = job[q] /\ loaded'[q] = loaded[q]
  BY <1>1, <1>3 DEF IInv, PerProcess
<1>17. UNCHANGED <<experiments, proposals, comparisons, decisions, exports>>
  BY <1>1 DEF artifacts
<1>18. JobsSound'
  BY <1>4, <1>11, <1>15, <1>16, <1>17, OthersStay
<1>19. JobsApart'
  BY <1>4, <1>5, <1>6, <1>16, ApartStays DEF Sides
<1>20. SideSound' /\ PerProcess'
  BY <1>1, <1>3 DEF IInv, PerProcess, SideSound, NoSide
<1> QED
  BY <1>1, <1>10, <1>11, <1>17, <1>18, <1>19, <1>20, Untouched DEF IInv

\* The next file of a comparison is written; the comparison stays what it is.
LEMMA PersistKeeps ==
  ASSUME IInv, NEW p \in Processes, NEW step \in Measured \ {"comparison"},
         Persist(p, step), NEW j, j = job'[p]
  PROVE  /\ job[p].step = step
         /\ j.step = Following(step) /\ j.step \in Measured
         /\ Shaped(j)
         /\ j.proposal = job[p].proposal /\ j.effective = job[p].effective
         /\ j.baseline = job[p].baseline /\ j.candidate = job[p].candidate
         /\ j.before = job[p].before /\ j.after = job[p].after
         /\ job' = [q \in Processes |-> IF q = p THEN j ELSE job[q]]
<1>1. job[p].step = step /\ Shaped(job[p])
  BY DEF Persist, IInv, JobsSound, JobSound, JobMeasured
<1>2. Following(step) \in Measured
  BY DEF Following, Measured
<1>3. job' = [job EXCEPT ![p] = [job[p] EXCEPT !.step = Following(step)]]
  BY <1>1, <1>2 DEF Persist, Measured
<1>4. j = [job[p] EXCEPT !.step = Following(step)]
  BY <1>3 DEF IInv, PerProcess
<1>5. j = [step |-> Following(step), proposal |-> job[p].proposal,
           effective |-> job[p].effective,
           baseline |-> job[p].baseline, before |-> job[p].before,
           candidate |-> job[p].candidate, after |-> job[p].after,
           within |-> job[p].within]
  BY <1>1, <1>4 DEF Shaped
<1>6. job' = [q \in Processes |-> IF q = p THEN j ELSE job[q]]
  BY <1>3, <1>4 DEF IInv, PerProcess
<1> QED
  BY <1>1, <1>2, <1>5, <1>6 DEF Shaped

LEMMA PersistSound ==
  ASSUME IInv, NEW p \in Processes, NEW step \in Measured \ {"comparison"},
         Persist(p, step),
         UNCHANGED <<loaded, minted, proposals, comparisons, decisions, exports, handoffVars>>,
         datasetRuns \subseteq datasetRuns', datasetRuns' \subseteq 1..minted,
         Ext(experiments, experiments'),
         DOMAIN experiments' \subseteq datasetRuns',
         DOMAIN experiments' \subseteq DOMAIN experiments \cup Sides(job[p]),
         JobWritten(p, job[p])', ExperimentsSound'
  PROVE  IInv'
<1>1. PICK j : j = job'[p]
  OBVIOUS
<1>2. /\ job[p].step = step
      /\ j.step = Following(step) /\ j.step \in Measured
      /\ Shaped(j)
      /\ j.proposal = job[p].proposal /\ j.effective = job[p].effective
      /\ j.baseline = job[p].baseline /\ j.candidate = job[p].candidate
      /\ j.before = job[p].before /\ j.after = job[p].after
      /\ job' = [q \in Processes |-> IF q = p THEN j ELSE job[q]]
  BY <1>1, PersistKeeps
<1>3. /\ job[p].proposal \in DOMAIN proposals
      /\ Buildable(p, proposals[job[p].proposal])
      /\ JobMeasured(p, job[p])
  BY <1>2 DEF IInv, JobsSound, JobSound, Measured
<1>4. UNCHANGED <<place, side, advice, runs, asked>>
  BY DEF handoffVars
<1>5. Sides(job[p]) \subseteq DOMAIN place
  BY <1>3 DEF JobMeasured, RanTogether, Sides
<1>6. Filed'
  BY <1>4, <1>5 DEF IInv, Filed
<1>7. Grown
  BY <1>4 DEF Grown, Ext, IInv, Filed
<1>8. RanTogether(j.baseline, j.candidate, j.proposal)'
  BY <1>2, <1>3, <1>7, TogetherStays DEF IInv, JobMeasured
<1>9. JobMeasured(p, j)'
  BY <1>2, <1>3, <1>8 DEF JobMeasured
<1>10. JobSound(p, job[p])'
  <2>1. Buildable(p, proposals[j.proposal])'
    BY <1>2, <1>3 DEF Buildable, SameSurface
  <2>2. JobWritten(p, j)'
    BY <1>1
  <2> QED
    BY <1>1, <1>2, <1>3, <1>9, <2>1, <2>2 DEF JobSound, Measured
<1>11. ASSUME NEW q \in Processes \ {p}
       PROVE  /\ job'[q] = job[q] /\ loaded'[q] = loaded[q]
              /\ job[q].step \in Measured =>
                   DOMAIN experiments' \cap Sides(job[q]) \subseteq DOMAIN experiments
  <2>1. job[q].step \in Measured => Sides(job[q]) \cap Sides(job[p]) = {}
    BY <1>2 DEF IInv, JobsApart
  <2> QED
    BY <1>2, <2>1
<1>12. JobsSound'
  BY <1>7, <1>10, <1>11, OthersStay
<1>13. JobsApart'
  BY <1>1, <1>2, <1>11, ApartStays DEF Sides
<1>14. PerProcess'
  BY <1>1, <1>2, <1>4 DEF IInv, PerProcess
<1> QED
  BY <1>4, <1>6, <1>7, <1>12, <1>13, <1>14, Untouched DEF IInv

LEMMA RunsSaved ==
  ASSUME IInv, NEW p \in Processes, SaveRuns(p), UNCHANGED handoffVars PROVE IInv'
<1>1. /\ Persist(p, "runs")
      /\ datasetRuns' = datasetRuns \cup Sides(job[p])
      /\ UNCHANGED <<loaded, minted, experiments, proposals, comparisons, decisions, exports>>
  BY DEF SaveRuns, Sides
<1>2. PICK j : j = job'[p]
  OBVIOUS
<1>3. /\ job[p].step = "runs" /\ j.step = "baseline"
      /\ j.baseline = job[p].baseline /\ j.candidate = job[p].candidate
  BY <1>1, <1>2, PersistKeeps DEF Measured, Following
<1>4. JobWritten(p, job[p]) /\ Sides(job[p]) \subseteq 1..minted
  BY <1>3, SidesAreOld DEF IInv, JobsSound, JobSound, Measured
<1>5. JobWritten(p, j)'
  BY <1>1, <1>3, <1>4 DEF JobWritten, Sides, Measured
<1>6. Ext(experiments, experiments') /\ ExperimentsSound'
  BY <1>1 DEF Ext, IInv, ExperimentsSound
<1> QED
  BY <1>1, <1>2, <1>4, <1>5, <1>6, PersistSound DEF IInv, Filed, Measured

LEMMA BaselineSaved ==
  ASSUME IInv, NEW p \in Processes, SaveBaseline(p), UNCHANGED handoffVars PROVE IInv'
<1>1. /\ Persist(p, "baseline")
      /\ experiments' = With(experiments, job[p].baseline, BaselineOf(p, job[p]))
      /\ UNCHANGED <<loaded, minted, datasetRuns, proposals, comparisons, decisions, exports>>
  BY DEF SaveBaseline, BaselineOf
<1>2. PICK j : j = job'[p]
  OBVIOUS
<1>3. /\ job[p].step = "baseline" /\ j.step = "candidate"
      /\ j.baseline = job[p].baseline /\ j.candidate = job[p].candidate
      /\ j.before = job[p].before
  BY <1>1, <1>2, PersistKeeps DEF Measured, Following
<1>4. JobWritten(p, job[p]) /\ JobMeasured(p, job[p])
  BY <1>3 DEF IInv, JobsSound, JobSound, Measured
<1>5. /\ j.baseline \notin DOMAIN experiments /\ j.candidate \notin DOMAIN experiments
      /\ j.baseline # j.candidate /\ Sides(job[p]) \subseteq datasetRuns
  BY <1>3, <1>4 DEF JobWritten, JobMeasured, Measured
<1>6. /\ Ext(experiments, experiments')
      /\ DOMAIN experiments' = DOMAIN experiments \cup {j.baseline}
      /\ experiments'[j.baseline] = BaselineOf(p, job[p])
  BY <1>1, <1>3, <1>5 DEF With, Ext
<1>7. BaselineOf(p, j)' = BaselineOf(p, job[p]) /\ BaselineOf(p, job[p]).proposal = None
  BY <1>1, <1>3 DEF BaselineOf, Experiment
<1>8. JobWritten(p, j)'
  BY <1>1, <1>3, <1>5, <1>6, <1>7 DEF JobWritten, Sides, Measured
<1>9. ExperimentsSound'
  BY <1>1, <1>6, <1>7 DEF IInv, ExperimentsSound, Ext
<1> QED
  BY <1>1, <1>2, <1>3, <1>5, <1>6, <1>8, <1>9, PersistSound DEF IInv, Filed, Measured, Sides

LEMMA CandidateSaved ==
  ASSUME IInv, NEW p \in Processes, SaveCandidate(p), UNCHANGED handoffVars PROVE IInv'
<1>1. /\ Persist(p, "candidate")
      /\ experiments' = With(experiments, job[p].candidate, CandidateOf(p, job[p]))
      /\ UNCHANGED <<loaded, minted, datasetRuns, proposals, comparisons, decisions, exports>>
  BY DEF SaveCandidate, CandidateOf
<1>2. PICK j : j = job'[p]
  OBVIOUS
<1>3. /\ job[p].step = "candidate" /\ j.step = "comparison"
      /\ j.baseline = job[p].baseline /\ j.candidate = job[p].candidate
      /\ j.before = job[p].before /\ j.after = job[p].after
      /\ j.effective = job[p].effective /\ j.proposal = job[p].proposal
  BY <1>1, <1>2, PersistKeeps DEF Measured, Following
<1>4. /\ JobWritten(p, job[p]) /\ JobMeasured(p, job[p])
      /\ job[p].proposal \in DOMAIN proposals
  BY <1>3 DEF IInv, JobsSound, JobSound, Measured
<1>5. /\ j.candidate \notin DOMAIN experiments /\ j.baseline \in DOMAIN experiments
      /\ experiments[j.baseline] = BaselineOf(p, job[p])
      /\ Sides(job[p]) \subseteq datasetRuns
  BY <1>3, <1>4 DEF JobWritten, Measured
<1>6. /\ Ext(experiments, experiments')
      /\ DOMAIN experiments' = DOMAIN experiments \cup {j.candidate}
      /\ experiments'[j.candidate] = CandidateOf(p, job[p])
      /\ experiments'[j.baseline] = BaselineOf(p, job[p])
  BY <1>1, <1>3, <1>5 DEF With, Ext
<1>7. /\ BaselineOf(p, j)' = BaselineOf(p, job[p])
      /\ CandidateOf(p, j)' = CandidateOf(p, job[p])
      /\ CandidateOf(p, job[p]).proposal = job[p].proposal
  BY <1>1, <1>3 DEF BaselineOf, CandidateOf, Experiment
<1>8. JobWritten(p, j)'
  BY <1>1, <1>3, <1>5, <1>6, <1>7 DEF JobWritten, Sides, Measured
<1>9. ExperimentsSound'
  BY <1>1, <1>4, <1>6, <1>7 DEF IInv, ExperimentsSound, Ext
<1> QED
  BY <1>1, <1>2, <1>3, <1>5, <1>6, <1>8, <1>9, PersistSound DEF IInv, Filed, Measured, Sides

\* The gates, for outcomes that count runs.
LEMMA GatesMeanNoWorse ==
  ASSUME NEW j, j.before \in Outcomes, j.after \in Outcomes, GatesPassed(j)
  PROVE  NoWorse(j.before, j.after)
<1>1. \A c \in Cases : j.before[c] \in Nat /\ j.after[c] \in Nat
  BY CasesAssumption
<1>2. Regression \subseteq Cases /\ Protected \subseteq Cases /\ Visible \subseteq Cases
  BY CasesAssumption DEF Visible
<1> QED
  BY <1>1, <1>2, CasesAssumption DEF GatesPassed, ProtectedHolds, Fails, Worse, Better, NoWorse

\* The comparison itself is written last, when all it refers to is on disk.
LEMMA ComparisonSaved ==
  ASSUME IInv, NEW p \in Processes, SaveComparison(p), UNCHANGED handoffVars PROVE IInv'
<1>1. /\ job[p].step = "comparison"
      /\ job' = [job EXCEPT ![p] = NoJob]
      /\ minted' = minted + 1
      /\ UNCHANGED <<loaded, datasetRuns, experiments, proposals, decisions, exports>>
  BY DEF SaveComparison, Persist, Following, Mint
<1>2. PICK j : j = job[p]
  OBVIOUS
<1>3. PICK c : c = [proposal  |-> j.proposal, effective |-> j.effective,
                    baseline  |-> j.baseline, candidate |-> j.candidate,
                    passed    |-> GatesPassed(j)]
  OBVIOUS
<1>4. comparisons' = With(comparisons, minted', c)
  BY <1>2, <1>3 DEF SaveComparison
<1>5. minted \in Nat /\ minted' \notin DOMAIN comparisons
  BY <1>1 DEF IInv, Filed
<1>6. /\ Ext(comparisons, comparisons')
      /\ DOMAIN comparisons' = DOMAIN comparisons \cup {minted'}
      /\ comparisons'[minted'] = c
  BY <1>4, <1>5 DEF With, Ext
<1>7. UNCHANGED <<place, side, advice, runs, asked>>
  BY DEF handoffVars
<1>8. Filed'
  BY <1>1, <1>5, <1>6, <1>7 DEF IInv, Filed
<1>9. Grown
  BY <1>1, <1>5, <1>6, <1>7 DEF Grown, Ext
<1>10. ComparisonSound(c)
  <2>1. /\ JobMeasured(p, j) /\ JobWritten(p, j)
        /\ j.proposal \in DOMAIN proposals /\ Buildable(p, proposals[j.proposal])
    BY <1>1, <1>2 DEF IInv, JobsSound, JobSound, Measured
  <2>2. /\ j.baseline \in DOMAIN experiments /\ j.candidate \in DOMAIN experiments
        /\ experiments[j.baseline] = BaselineOf(p, j)
        /\ experiments[j.candidate] = CandidateOf(p, j)
    BY <1>1, <1>2, <2>1 DEF JobWritten
  <2>3. Compares(experiments[j.baseline], experiments[j.candidate], j.effective,
                 proposals[j.proposal], j.proposal)
    BY <2>1, <2>2 DEF Compares, BaselineOf, CandidateOf, Experiment, Buildable, SameSurface,
                      JobMeasured
  <2>4. GatesPassed(j) => NoWorse(j.before, j.after)
    BY <2>1, GatesMeanNoWorse DEF JobMeasured
  <2>5. /\ experiments[j.baseline].outcome = j.before
        /\ experiments[j.candidate].outcome = j.after
    BY <2>2 DEF BaselineOf, CandidateOf, Experiment
  <2> QED
    BY <1>3, <2>1, <2>2, <2>3, <2>4, <2>5 DEF ComparisonSound, JobMeasured
<1>11. ComparisonsSound'
  <2> SUFFICES ASSUME NEW i \in DOMAIN comparisons' PROVE ComparisonSound(comparisons[i])'
    BY DEF ComparisonsSound
  <2>1. CASE i \in DOMAIN comparisons
    <3>1. ComparisonSound(comparisons[i]) /\ comparisons'[i] = comparisons[i]
      BY <1>6, <2>1 DEF IInv, ComparisonsSound, Ext
    <3> QED
      BY <1>9, <3>1, ComparisonStays DEF IInv
  <2>2. CASE i = minted'
    BY <1>6, <1>9, <1>10, <2>2, ComparisonStays DEF IInv
  <2> QED
    BY <1>6, <2>1, <2>2
<1>12. job'[p] = NoJob /\ \A q \in Processes \ {p} : job'[q] = job[q] /\ loaded'[q] = loaded[q]
  BY <1>1 DEF IInv, PerProcess
<1>13. JobSound(p, job[p])'
  BY <1>12 DEF JobSound, NoJob, Measured
<1>14. JobsSound' /\ JobsApart'
  BY <1>1, <1>9, <1>12, <1>13, OthersStay, ApartStays DEF NoJob, Measured
<1>15. PerProcess'
  BY <1>1, <1>7 DEF IInv, PerProcess
<1> QED
  BY <1>1, <1>7, <1>8, <1>9, <1>11, <1>14, <1>15, Untouched DEF IInv

LEMMA RunSaved ==
  ASSUME IInv, NEW p \in Processes, SaveRun(p) PROVE IInv'
<1>1. PICK succeeded, r :
        /\ asked[p] # NoRun /\ r = [asked[p] EXCEPT !.succeeded = succeeded]
        /\ runs' = With(runs, minted', r)
        /\ minted' = minted + 1
        /\ asked' = [asked EXCEPT ![p] = NoRun]
        /\ UNCHANGED <<source, loaded, artifacts, job, loop, workspaceVars, place, side, advice>>
  BY DEF SaveRun, Mint
<1>2. /\ asked[p] = AgentRun(asked[p].agent, asked[p].workspace, asked[p].about,
                             asked[p].index, asked[p].builder, asked[p].handoff)
      /\ Origin(asked[p])
  BY <1>1 DEF IInv, HandedSound
<1>3. /\ r.handoff = asked[p].handoff /\ r.workspace = asked[p].workspace
      /\ r.about = asked[p].about /\ r.index = asked[p].index /\ r.builder = asked[p].builder
  BY <1>1, <1>2 DEF AgentRun
<1>4. Origin(r)
  BY <1>2, <1>3 DEF Origin
<1>5. minted \in Nat /\ DOMAIN runs \subseteq 1..minted
  BY DEF IInv, Filed
<1>6. /\ Ext(runs, runs')
      /\ DOMAIN runs' = DOMAIN runs \cup {minted'}
      /\ runs'[minted'] = r
  BY <1>1, <1>5 DEF With, Ext
<1>7. UNCHANGED <<experiments, proposals, comparisons, decisions, exports, datasetRuns>>
  BY <1>1 DEF artifacts
<1>8. Filed'
  BY <1>1, <1>5, <1>6, <1>7 DEF IInv, Filed
<1>9. Grown
  BY <1>1, <1>5, <1>6, <1>7 DEF Grown, Ext
<1>10. PerProcess'
  BY <1>1 DEF IInv, PerProcess
<1>11. r.handoff /\ r.builder # None => r.builder < minted'
  BY <1>1, <1>4, <1>5 DEF Origin
<1>12. \A i \in DOMAIN runs' :
         /\ Origin(runs[i])'
         /\ runs'[i].handoff /\ runs'[i].builder # None => runs'[i].builder < i
  <2> SUFFICES ASSUME NEW i \in DOMAIN runs'
               PROVE  /\ Origin(runs[i])'
                      /\ runs'[i].handoff /\ runs'[i].builder # None => runs'[i].builder < i
    OBVIOUS
  <2>1. CASE i = minted'
    BY <1>4, <1>6, <1>9, <1>11, <2>1, OriginStays DEF IInv
  <2>2. CASE i \in DOMAIN runs
    <3>1. /\ Origin(runs[i]) /\ runs'[i] = runs[i]
          /\ runs[i].handoff /\ runs[i].builder # None => runs[i].builder < i
      BY <1>6, <2>2 DEF IInv, HandedSound, Ext
    <3> QED
      BY <1>9, <3>1, OriginStays DEF IInv
  <2> QED
    BY <1>6, <2>1, <2>2
<1>13. asked'[p] = NoRun /\ \A q \in Processes \ {p} : asked'[q] = asked[q]
  BY <1>1 DEF IInv, PerProcess
<1>14. HandedSound'
  BY <1>9, <1>12, <1>13, OriginStays DEF IInv, HandedSound
<1>15. JobsSound' /\ JobsApart'
  BY <1>1, <1>7, <1>9, SameJobs
<1> QED
  BY <1>1, <1>7, <1>8, <1>9, <1>10, <1>14, <1>15, Untouched DEF IInv

\* An operator's decision, an export.
LEMMA OperatorSound ==
  ASSUME IInv, UNCHANGED handoffVars,
         RecordDecision \/ \E decision \in decisions : Export(decision)
  PROVE  IInv'
<1>1. /\ UNCHANGED <<loaded, minted, datasetRuns, experiments, proposals, comparisons, job>>
      /\ UNCHANGED <<place, side, advice, runs, asked>>
      /\ decisions \subseteq decisions'
  BY DEF RecordDecision, Decide, Export, handoffVars
<1>2. Filed' /\ Grown
  BY <1>1 DEF IInv, Filed, Grown, Ext
<1>3. PerProcess'
  BY <1>1 DEF IInv, PerProcess
<1>4. JobsSound' /\ JobsApart'
  BY <1>1, <1>2, SameJobs
<1>5. CASE RecordDecision
  <2>1. PICK id, decision :
          /\ id \in DOMAIN comparisons
          /\ MayDecide(decision, comparisons[id])
          /\ decisions' = decisions \cup {[comparison |-> id, decision |-> decision]}
    BY <1>5 DEF RecordDecision, Decide
  <2>2. DecisionsSound'
    BY <1>1, <2>1 DEF IInv, DecisionsSound, MayDecide
  <2>3. UNCHANGED exports
    BY <1>5 DEF RecordDecision, Decide
  <2> QED
    BY <1>1, <1>2, <1>3, <1>4, <2>2, <2>3, Untouched DEF IInv
<1>6. CASE \E decision \in decisions : Export(decision)
  <2>1. PICK decision \in decisions :
          /\ decision.decision = "approve"
          /\ comparisons[decision.comparison].effective = source.policy
          /\ exports' = exports \cup {[policy |-> source.policy, decision |-> decision]}
          /\ UNCHANGED decisions
    BY <1>6 DEF Export, Exportable
  <2>2. ExportsSound'
    BY <1>1, <2>1 DEF IInv, ExportsSound
  <2> QED
    BY <1>1, <1>2, <1>3, <1>4, <2>1, <2>2, Untouched DEF IInv
<1> QED
  BY <1>5, <1>6

-----------------------------------------------------------------------------
LEMMA InitSound == HandoffInit => IInv
<1> SUFFICES ASSUME HandoffInit PROVE IInv
  OBVIOUS
<1> USE DEF HandoffInit, Init
<1>1. Filed
  BY DEF Filed
<1>2. PerProcess
  BY DEF PerProcess
<1>3. JobsSound /\ JobsApart
  BY DEF JobsSound, JobSound, JobsApart, NoJob, Measured
<1>4. SideSound
  BY DEF SideSound, NoSide
<1>5. ExperimentsSound /\ ProposalsSound /\ ComparisonsSound /\ DecisionsSound /\ ExportsSound
  BY DEF ExperimentsSound, ProposalsSound, ComparisonsSound, DecisionsSound, ExportsSound
<1>6. HandedSound
  BY DEF HandedSound
<1> QED
  BY <1>1, <1>2, <1>3, <1>4, <1>5, <1>6 DEF IInv

LEMMA StepSound == IInv /\ [HandoffNext]_allVars => IInv'
<1> SUFFICES ASSUME IInv, [HandoffNext]_allVars PROVE IInv'
  OBVIOUS
<1>1. CASE EditStep \/ UNCHANGED allVars
  BY <1>1, EditSound
<1>2. ASSUME NEW p \in Processes, NEW id \in Ids \cup {BuiltIn}, VerifyIn(p, id) PROVE IInv'
  BY <1>2, VerifySound
<1>3. ASSUME NEW p \in Processes, StartLoopAtHome(p) PROVE IInv'
  BY <1>3, LoopStartSound
<1>4. ASSUME NEW p \in Processes, AnalyzeIn(p) PROVE IInv'
  BY <1>4, AnalysisSound
<1>5. ASSUME NEW p \in Processes, BeginIn(p) PROVE IInv'
  BY <1>5, BeginSound
<1>6. ASSUME NEW p \in Processes, RunBaseline(p) PROVE IInv'
  BY <1>6, BaselineRunSound
<1>7. ASSUME NEW p \in Processes, RunCandidate(p) PROVE IInv'
  BY <1>7, CandidateRunSound
<1>8. ASSUME NEW p \in Processes, FailIn(p) \/ RestartIn(p) PROVE IInv'
  BY <1>8, EndSound
<1>9. ASSUME NEW p \in Processes, UNCHANGED handoffVars,
             SaveRuns(p) \/ SaveBaseline(p) \/ SaveCandidate(p) \/ SaveComparison(p)
      PROVE  IInv'
  BY <1>9, RunsSaved, BaselineSaved, CandidateSaved, ComparisonSaved
<1>10. ASSUME UNCHANGED handoffVars,
              Release \/ \E p \in Processes : TakeCase(p) \/ EndLoop(p) \/ DropCase(p)
       PROVE  IInv'
  BY <1>10, LoopSound
<1>11. ASSUME NEW p \in Processes, HandOn(p) \/ RunBuilder(p) \/ LoseRun(p) PROVE IInv'
  BY <1>11, AskingSound
<1>12. ASSUME NEW p \in Processes, SaveRun(p) PROVE IInv'
  BY <1>12, RunSaved
<1>13. ASSUME UNCHANGED handoffVars,
              RecordDecision \/ \E decision \in decisions : Export(decision)
       PROVE  IInv'
  BY <1>13, OperatorSound
<1> QED
  BY <1>1, <1>2, <1>3, <1>4, <1>5, <1>6, <1>7, <1>8, <1>9, <1>10, <1>11, <1>12, <1>13
     DEF HandoffNext, Aside

LEMMA AlwaysSound == HandoffSpec => []IInv
BY InitSound, StepSound, PTL DEF HandoffSpec

-----------------------------------------------------------------------------
LEMMA TogetherHolds == IInv => EvidenceHangsTogether
<1> SUFFICES ASSUME IInv PROVE EvidenceHangsTogether
  OBVIOUS
<1> USE DEF IInv
<1>1. ReferencesResolve
  BY DEF ReferencesResolve, Filed, ExperimentsSound, ProposalsSound, ComparisonsSound,
         ComparisonSound, DecisionsSound
<1>2. SidesTogether
  BY DEF SidesTogether, ComparisonsSound, ComparisonSound, RanTogether
<1>3. HandoffsFollow
  <2> SUFFICES ASSUME NEW i \in DOMAIN runs, runs[i].handoff
               PROVE  LET r == runs[i] IN
                      /\ r.about \in DOMAIN proposals
                      /\ proposals[r.about].patch = NoPatch
                      /\ Recommends(r.about, r.index)
                      /\ r.workspace = WorkspaceOf(r.about)
                      /\ r.builder # None =>
                           /\ r.builder \in DOMAIN runs /\ r.builder < i
                           /\ runs[r.builder].agent = "tool-builder"
                           /\ runs[r.builder].succeeded
                           /\ runs[r.builder].about = r.about
                           /\ runs[r.builder].index = r.index
                           /\ runs[r.builder].workspace = r.workspace
    BY DEF HandoffsFollow
  <2>1. Origin(runs[i]) /\ (runs[i].builder # None => runs[i].builder < i)
    BY DEF HandedSound
  <2>2. proposals[runs[i].about].patch = NoPatch
    BY <2>1 DEF Origin, Recommends, ProposalsSound
  <2> QED
    BY <2>1, <2>2 DEF Origin, Linked
<1> QED
  BY <1>1, <1>2, <1>3 DEF EvidenceHangsTogether

\* References resolve, sides run together and handoffs have their origin, whatever
\* process dies between two files and however the registrations are edited.
THEOREM EvidenceIsWhole == HandoffSpec => []EvidenceHangsTogether
BY AlwaysSound, TogetherHolds, PTL

\* What ran as the candidate is the registered policy with the proposed patch.
THEOREM CandidatesArePatches == HandoffSpec => []CandidateIsThePatch
<1>1. IInv => CandidateIsThePatch
  BY DEF IInv, ComparisonsSound, ComparisonSound, Compares, CandidateIsThePatch, Resolved
<1> QED
  BY <1>1, AlwaysSound, PTL

\* An approved candidate did no case that is guarded worse than the baseline.
THEOREM ApprovalsAreNoWorse == HandoffSpec => []ApprovedIsNoWorse
<1>1. IInv => ApprovedIsNoWorse
  <2> SUFFICES ASSUME IInv, NEW c \in Approved
               PROVE  NoWorse(experiments[comparisons[c].baseline].outcome,
                              experiments[comparisons[c].candidate].outcome)
    BY DEF ApprovedIsNoWorse, NoWorse, Before, After
  <2>1. c \in DOMAIN comparisons /\ [comparison |-> c, decision |-> "approve"] \in decisions
    BY DEF Approved, Resolved
  <2>2. comparisons[c].passed
    BY <2>1 DEF IInv, DecisionsSound
  <2> QED
    BY <2>1, <2>2 DEF IInv, ComparisonsSound, ComparisonSound
<1> QED
  BY <1>1, AlwaysSound, PTL

\* What is exported ran as a candidate that was approved.
THEOREM ExportsAreMeasured == HandoffSpec => []ExportIsMeasured
<1>1. IInv => ExportIsMeasured
  <2> SUFFICES ASSUME IInv, NEW x \in exports
               PROVE  /\ x.decision.comparison \in Approved
                      /\ experiments[comparisons[x.decision.comparison].candidate].policy = x.policy
    BY DEF ExportIsMeasured
  <2> DEFINE d == x.decision
  <2>1. /\ d \in decisions /\ d.decision = "approve"
        /\ comparisons[d.comparison].effective = x.policy
    BY DEF IInv, ExportsSound
  <2>2. /\ d.comparison \in DOMAIN comparisons
        /\ d = [comparison |-> d.comparison, decision |-> "approve"]
    BY <2>1 DEF IInv, DecisionsSound
  <2>3. ComparisonSound(comparisons[d.comparison])
    BY <2>2 DEF IInv, ComparisonsSound
  <2>4. d.comparison \in Approved
    BY <2>1, <2>2, <2>3 DEF ComparisonSound, Approved, Resolved
  <2> QED
    BY <2>1, <2>3, <2>4 DEF ComparisonSound, Compares
<1> QED
  BY <1>1, AlwaysSound, PTL
=============================================================================
