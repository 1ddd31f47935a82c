---------------------------- MODULE AgentGrounding ----------------------------
(***************************************************************************)
(* What the platform makes of the answer of a model: whether it rests on   *)
(* the evidence the agent was given, whether the run counts as a success,  *)
(* and which evidence the output of the run shows for its claims.          *)
(*                                                                         *)
(* Agents that read a repository let the model cite paths; the others      *)
(* number the facts and let it cite numbers.  Prompts and wording are left *)
(* out; the points of an answer are the sets of citations of its findings. *)
(***************************************************************************)
EXTENDS Integers, SequencesExt

CONSTANTS
  Paths,        \* paths of the repository
  Facts,        \* facts, or tokens, that are numbered for the model
  Report,       \* cites the failure report of a triage
  Verification  \* cites the output of the verification of a triage

Inspecting == {"change-risk-reviewer", "repository-assistant"}
Citing     == Inspecting \cup {"documentation-auditor", "playwright-failure-triage"}
Dossiers   == {"deployer-forensics", "impersonation-analyst"}
Council    == {"council-advocate", "council-judge"}
Agents     == Citing \cup Dossiers \cup Council \cup {"tool-builder"}

\* What a run has collected when it asks its model.  selected: the paths to be
\* read; items: what was read, or the numbered facts; check: the verification of
\* a triage, which is optional.
Checks == {"none", "failed", "available"}
Nothing == [selected |-> <<>>, items |-> <<>>, check |-> "none"]

\* What a tool proposal holds, as far as its policy looks at it.  files: kinds of
\* paths, "twice" when one occurs twice; steps: what it says must be done.
Proposal ==
  [disposition : {"propose", "needs-clarification", "reject"},
   contract    : {"none", "read-only", "side-effects"},
   files       : SUBSET {"tool", "test", "elsewhere", "twice"},
   steps       : SUBSET {"registration", "typecheck", "npm test"},
   asks        : BOOLEAN,
   explains    : BOOLEAN]
NoProposal == [disposition |-> "reject", contract |-> "none", files |-> {},
               steps |-> {}, asks |-> FALSE, explains |-> FALSE]

\* failed: the call threw; parsed: there is an output of the agreed shape, which
\* a refusal does not rule out.
NoAnswer == [failed |-> FALSE, refused |-> FALSE, parsed |-> FALSE, points |-> {},
             proposal |-> NoProposal]

-----------------------------------------------------------------------------
Cited(answer) == UNION answer.points

\* Mutation of Available, in no specification: what was to be read counts.
AvailableSelected(evidence) == ToSet(evidence.selected)

\* The paths that may be cited are those in the prompt.
Available(evidence) == ToSet(evidence.items)

ReviewGrounded(evidence, answer)   == Cited(answer) \subseteq Available(evidence)
AuditGrounded(evidence, answer)    == Cited(answer) \subseteq Available(evidence)
AnalysisGrounded(evidence, answer) == Cited(answer) \subseteq Available(evidence)

\* A diagnosis rests on the report, and not on a verification that failed to
\* run; one that was not even requested is not noticed.
TriageGrounded(evidence, answer) ==
  /\ Cited(answer) \ {Report, Verification} \subseteq Available(evidence)
  /\ Report \in Cited(answer)
  /\ Verification \in Cited(answer) => evidence.check # "failed"

NumbersGrounded(evidence, answer) == Cited(answer) \subseteq DOMAIN evidence.items

\* Numbers that are in range are replaced by what they stand for.
Resolved(numbers, items) == {items[i] : i \in numbers \cap DOMAIN items}

-----------------------------------------------------------------------------
Answered(answer) == ~answer.failed /\ ~answer.refused /\ answer.parsed

RunChangeRiskReview(evidence, answer) ==
  Answered(answer) /\ ReviewGrounded(evidence, answer)

RunDocumentationAudit(evidence, answer) ==
  Answered(answer) /\ AuditGrounded(evidence, answer)

RunPlaywrightFailureTriage(evidence, answer) ==
  Answered(answer) /\ TriageGrounded(evidence, answer)

\* The verify step of the assistant looks at the call, the shape and the
\* citations, not at a refusal.
ReviewRepositoryAnalysis(evidence, answer) ==
  ~answer.failed /\ answer.parsed /\ AnalysisGrounded(evidence, answer)

RunDeployerForensics(evidence, answer) ==
  Answered(answer) /\ NumbersGrounded(evidence, answer)

RunImpersonationAnalysis(evidence, answer) ==
  Answered(answer) /\ NumbersGrounded(evidence, answer)

\* A number out of range does not cost the ruling.
RunCouncilJudge(answer) == Answered(answer)

\* The points of an argument that cite at least one fact; the others are dropped.
KeptPoints(evidence, answer) ==
  {point \in answer.points : point \cap DOMAIN evidence.items # {}}

\* An argument without any supported point was made, but is not useful.
RunCouncilAdvocate(evidence, answer) ==
  Answered(answer) /\ KeptPoints(evidence, answer) # {}

\* A proposal is complete or holds nothing that could be installed.
EvaluateToolProposal(proposal, allowSideEffects) ==
  /\ proposal.files \cap {"elsewhere", "twice"} = {}
  /\ \/ /\ proposal.disposition = "propose"
        /\ \/ proposal.contract = "read-only"
           \/ proposal.contract = "side-effects" /\ allowSideEffects
        /\ {"tool", "test"} \subseteq proposal.files
        /\ proposal.steps = {"registration", "typecheck", "npm test"}
        /\ ~proposal.asks
     \/ /\ proposal.disposition # "propose"
        /\ proposal.contract = "none"
        /\ proposal.files = {} /\ proposal.steps = {}
        /\ proposal.disposition = "reject" => proposal.explains
        /\ proposal.disposition = "needs-clarification" => proposal.asks

\* The assessment of each agent after its model answered.
Passes(agent, evidence, answer, allowSideEffects) ==
  \/ agent = "change-risk-reviewer"      /\ RunChangeRiskReview(evidence, answer)
  \/ agent = "documentation-auditor"     /\ RunDocumentationAudit(evidence, answer)
  \/ agent = "playwright-failure-triage" /\ RunPlaywrightFailureTriage(evidence, answer)
  \/ agent = "repository-assistant"      /\ ReviewRepositoryAnalysis(evidence, answer)
  \/ agent = "deployer-forensics"        /\ RunDeployerForensics(evidence, answer)
  \/ agent = "impersonation-analyst"     /\ RunImpersonationAnalysis(evidence, answer)
  \/ agent = "council-judge"             /\ RunCouncilJudge(answer)
  \/ agent = "council-advocate"          /\ RunCouncilAdvocate(evidence, answer)
  \/ /\ agent = "tool-builder" /\ Answered(answer)
     /\ EvaluateToolProposal(answer.proposal, allowSideEffects)

\* What the output of an agent shows for the claims of its model: its citations as
\* they are, the facts behind the numbers in range, the facts behind the points that
\* are kept, or the facts behind the flags when every number is in range.
ShownFindings(answer)           == Cited(answer)
ShownRuling(evidence, answer)   == Resolved(Cited(answer), evidence.items)
ShownArgument(evidence, answer) == Resolved(UNION KeptPoints(evidence, answer), evidence.items)
ShownFlags(evidence, answer)    ==
  IF NumbersGrounded(evidence, answer) THEN Resolved(Cited(answer), evidence.items) ELSE {}

Shown(agent, evidence, answer) ==
  IF ~answer.parsed THEN {}
  ELSE IF agent \in Citing THEN ShownFindings(answer)
  ELSE IF agent = "council-judge" THEN ShownRuling(evidence, answer)
  ELSE IF agent = "council-advocate" THEN ShownArgument(evidence, answer)
  ELSE IF agent \in Dossiers THEN ShownFlags(evidence, answer)
  ELSE {}
===============================================================================
