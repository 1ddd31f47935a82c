--------------------------- MODULE IntakeInterview ---------------------------
(***************************************************************************)
(* The intake interview of one project brief: IntakeSessionController,     *)
(* ProjectBriefService and the three artifact kinds they persist (brief    *)
(* versions, turn records, operator decisions).                            *)
(*                                                                         *)
(* Nothing serialises the callers.  The web console starts every turn as a *)
(* background operation and the command line runs one per process, so any  *)
(* number of turns of the same brief may be in flight while the operator   *)
(* decides on it; only the exclusive creation of artifact files ("wx")     *)
(* arbitrates.  A turn is therefore modelled in the steps between which    *)
(* the code awaits something slow or something other callers can see:      *)
(*                                                                         *)
(*   idle --BeginTurn--> agent --DraftAccepted--> append --> record --> idle *)
(*                                                                         *)
(* The reads a step makes back to back (a few directory listings) are one  *)
(* atomic step.  One brief is modelled: artifacts of different briefs      *)
(* never share a key.                                                      *)
(***************************************************************************)
EXTENDS Naturals, Sequences, FiniteSets

CONSTANTS
  Sessions,       \* callers that run turns: web operations, CLI commands
  Criteria,       \* acceptance-criterion ids a draft may carry or retire
  Questions,      \* normalised question texts the model may ask
  MaxTurns,       \* the maxTurns given to startIntake
  MaxAttempts,    \* bound: turn records a run may reach
  MaxDecisions,   \* bound: decisions the operator may record
  MaxCrashes      \* bound: turns lost to a crash or an I/O error

ASSUME MaxTurnsAssumption == MaxTurns \in Nat \ {0}

MAX_CONSECUTIVE_TURN_FAILURES == 2

VARIABLES
  briefs,      \* briefs[v]: the persisted brief version v
  turns,       \* turns[n]: the persisted record of turn n
  decisions,   \* decisions on the brief, in the order of their timestamps
  session,     \* the turn each caller has in flight
  reopening,   \* version a reopen has been checked for but not yet saved, or 0
  crashes      \* turns lost so far

vars == <<briefs, turns, decisions, session, reopening, crashes>>

-----------------------------------------------------------------------------
\* A brief's content, reduced to what the gates read: the ids of its
\* acceptance criteria, the ids it retires, and whether it is free of
\* unresolved entries and open questions.
Content == [active : SUBSET Criteria, retired : SUBSET Criteria, clear : BOOLEAN]

InitialContent == [active |-> {}, retired |-> {}, clear |-> TRUE]

\* previousDigest is {} for version 1; createdAt counts the decisions whose
\* timestamps are not later than the version's own.
Brief == [content : Content, previousDigest : SUBSET Content, createdAt : Nat]

OpenStatuses   == {"awaiting-answers", "model-failure"}
ClosedStatuses == {"ready-for-decision", "turn-budget-exhausted"}

\* resultingBriefVersion is null, here 0, exactly for a failed turn.
Turn == [status  : OpenStatuses \cup ClosedStatuses,
         version : Nat,
         asked   : SUBSET Questions]

\* "refuse" stands for reject and for revise: the interview never tells them
\* apart, and both leave the brief not approved.
DecisionKinds == {"approve", "refuse", "reopen"}
Decision == [kind : DecisionKinds, version : Nat]

\* turn: its turnNumber; base: the budget base read when it began; seen: the
\* latest brief version appendBriefVersion loaded; brief: the version it is
\* about to create; entry: the turn record it is about to save.
Session == [pc    : {"idle", "agent", "append", "record"},
            turn  : Nat,
            base  : Nat,
            seen  : Nat,
            brief : Brief,
            blocking : BOOLEAN,
            entry : Turn]

NoBrief == [content |-> InitialContent, previousDigest |-> {}, createdAt |-> 0]
NoEntry == [status |-> "model-failure", version |-> 0, asked |-> {}]
Idle    == [pc |-> "idle", turn |-> 0, base |-> 0, seen |-> 0,
            brief |-> NoBrief, blocking |-> FALSE, entry |-> NoEntry]

-----------------------------------------------------------------------------
\* What the services derive from the persisted artifacts.

LatestVersion == Len(briefs)

\* Decision i is the latest of its kind.
IsLatest(i, kind) ==
  /\ decisions[i].kind = kind
  /\ \A j \in DOMAIN decisions : j > i => decisions[j].kind # kind

EverReopened == \E i \in DOMAIN decisions : IsLatest(i, "reopen")

\* 0 stands for null: the brief was never reopened.
LatestReopenVersion ==
  IF EverReopened
  THEN decisions[CHOOSE i \in DOMAIN decisions : IsLatest(i, "reopen")].version
  ELSE 0

BudgetBase == IF EverReopened THEN LatestReopenVersion ELSE 1

\* The latest decision on the latest version.
DecidesLatest(i) ==
  /\ decisions[i].version = LatestVersion
  /\ \A j \in DOMAIN decisions : j > i => decisions[j].version # LatestVersion

Approved == \E i \in DOMAIN decisions :
              DecidesLatest(i) /\ decisions[i].kind = "approve"

\* Mutation of AskedBefore, in no specification: only the latest turn is consulted.
AskedLastTurn == IF turns = <<>> THEN {} ELSE turns[Len(turns)].asked

\* The questions of every turn recorded so far.
AskedBefore == UNION {turns[n].asked : n \in DOMAIN turns}

\* The last MAX_CONSECUTIVE_TURN_FAILURES turns all failed.
FailedOut ==
  /\ Len(turns) >= MAX_CONSECUTIVE_TURN_FAILURES
  /\ \A n \in DOMAIN turns :
       n > Len(turns) - MAX_CONSECUTIVE_TURN_FAILURES
          => turns[n].status = "model-failure"

\* Mutation of AcceptsTurn, in no specification: the status of the previous turn is not read.
AcceptsAnyTurn == turns # <<>> /\ ~FailedOut

\* runTurn accepts a turn.
AcceptsTurn ==
  /\ turns # <<>>
  /\ LET previous == turns[Len(turns)] IN
       previous.status \in ClosedStatuses => LatestReopenVersion = LatestVersion
  /\ ~FailedOut

\* Mutation of KeepsIdentity, in no specification: an approval is forgotten once another decision follows.
KeepsLastDecided(draft) ==
  \A i \in DOMAIN decisions :
    i = Len(decisions) /\ decisions[i].kind = "approve"
      => briefs[decisions[i].version].content.active
           \subseteq draft.active \cup draft.retired

\* The criterion-identity contract of appendBriefVersion.
KeepsIdentity(draft) ==
  \A i \in DOMAIN decisions :
    IsLatest(i, "approve")
      => /\ briefs[decisions[i].version].content.active
              \subseteq draft.active \cup draft.retired
         /\ draft.active \cap draft.retired = {}

\* Mutation of IntakeStatus, in no specification: the budget is compared with > instead of >=.
IntakeStatusLate(draft, blocking, completedTurns) ==
  IF draft.clear /\ ~blocking THEN "ready-for-decision"
  ELSE IF completedTurns > MaxTurns THEN "turn-budget-exhausted"
  ELSE "awaiting-answers"

IntakeStatus(draft, blocking, completedTurns) ==
  IF draft.clear /\ ~blocking THEN "ready-for-decision"
  ELSE IF completedTurns >= MaxTurns THEN "turn-budget-exhausted"
  ELSE "awaiting-answers"

\* A brief with unresolved entries or open questions cannot be approved.
MayDecide(kind, version) == kind = "approve" => briefs[version].content.clear

-----------------------------------------------------------------------------
Init ==
  /\ briefs = <<>>
  /\ turns = <<>>
  /\ decisions = <<>>
  /\ session = [s \in Sessions |-> Idle]
  /\ reopening = 0
  /\ crashes = 0

Enter(s, number, base) ==
  session' = [session EXCEPT ![s] =
                [Idle EXCEPT !.pc = "agent", !.turn = number, !.base = base]]

Leave(s) == session' = [session EXCEPT ![s] = Idle]

\* startIntake: version 1 is persisted, then the first turn runs.
StartIntake(s) ==
  /\ session[s].pc = "idle"
  /\ briefs = <<>>
  /\ briefs' = <<NoBrief>>
  /\ Enter(s, 1, 1)
  /\ UNCHANGED <<turns, decisions, reopening, crashes>>

\* runTurn up to the agent call.  MaxAttempts bounds the turn numbers.
BeginTurn(s) ==
  /\ session[s].pc = "idle"
  /\ AcceptsTurn
  /\ Len(turns) < MaxAttempts
  /\ Enter(s, Len(turns) + 1, BudgetBase)
  /\ UNCHANGED <<briefs, turns, decisions, reopening, crashes>>

\* Mutation of AgentFails, in no specification: the failed turn is not recorded.
AgentFailsUnrecorded(s) ==
  /\ session[s].pc = "agent"
  /\ Leave(s)
  /\ UNCHANGED <<briefs, turns, decisions, reopening, crashes>>

\* The agent run throws, fails or returns no valid output.
AgentFails(s) ==
  /\ session[s].pc = "agent"
  /\ session' = [session EXCEPT ![s].pc = "record"]
  /\ UNCHANGED <<briefs, turns, decisions, reopening, crashes>>

\* The agent answers: repeated questions are filtered out, then
\* appendBriefVersion loads the latest version and checks the contract.
DraftAccepted(s) ==
  /\ session[s].pc = "agent"
  /\ \E draft \in Content, blocking \in BOOLEAN, nextQuestions \in SUBSET Questions :
       /\ KeepsIdentity(draft)
       /\ session' = [session EXCEPT ![s] =
            [@ EXCEPT
              !.pc = "append",
              !.seen = LatestVersion,
              !.blocking = blocking,
              !.brief = [content |-> draft,
                         previousDigest |-> {briefs[LatestVersion].content},
                         createdAt |-> Len(decisions)],
              !.entry = [NoEntry EXCEPT !.asked = nextQuestions \ AskedBefore]]]
  /\ UNCHANGED <<briefs, turns, decisions, reopening, crashes>>

\* The draft drops an approved criterion: appendBriefVersion throws, and the
\* turn ends without a record.
DraftRejected(s) ==
  /\ session[s].pc = "agent"
  /\ \E draft \in Content : ~KeepsIdentity(draft)
  /\ Leave(s)
  /\ UNCHANGED <<briefs, turns, decisions, reopening, crashes>>

\* Mutation of VersionFree, in no specification: the file is created without "wx".
AnyVersionFree(s) == TRUE

\* The exclusive creation of the file of version seen + 1 succeeds.
VersionFree(s) == LatestVersion = session[s].seen

\* The record of a turn that produced version seen + 1; progress is counted
\* from the budget base the turn began with.
CompletedEntry(s) ==
  LET version == session[s].seen + 1 IN
  [status  |-> IntakeStatus(session[s].brief.content, session[s].blocking,
                            version - session[s].base),
   version |-> version,
   asked   |-> session[s].entry.asked]

\* saveProjectBrief creates the file of version seen + 1.
AppendVersion(s) ==
  /\ session[s].pc = "append"
  /\ VersionFree(s)
  /\ briefs' = Append(briefs, session[s].brief)
  /\ session' = [session EXCEPT ![s] =
       [Idle EXCEPT !.pc = "record", !.turn = session[s].turn,
                    !.entry = CompletedEntry(s)]]
  /\ UNCHANGED <<turns, decisions, reopening, crashes>>

\* Mutation of VersionTaken, in no specification: the turn waits for the name to become free.
VersionAwaited(s) ==
  /\ session[s].pc = "append"
  /\ ~VersionFree(s)
  /\ UNCHANGED vars

\* The file exists (EEXIST): the turn ends without a record.
VersionTaken(s) ==
  /\ session[s].pc = "append"
  /\ ~VersionFree(s)
  /\ Leave(s)
  /\ UNCHANGED <<briefs, turns, decisions, reopening, crashes>>

\* The exclusive creation of the file of this turn number succeeds.
TurnFree(s) == Len(turns) < session[s].turn

\* saveIntakeTurnRecord creates the file of this turn number.
RecordTurn(s) ==
  /\ session[s].pc = "record"
  /\ TurnFree(s)
  /\ turns' = Append(turns, session[s].entry)
  /\ Leave(s)
  /\ UNCHANGED <<briefs, decisions, reopening, crashes>>

\* Mutation of TurnTaken, in no specification: the record file is opened with "w".
TurnOverwritten(s) ==
  /\ session[s].pc = "record"
  /\ ~TurnFree(s)
  /\ turns' = [turns EXCEPT ![session[s].turn] = session[s].entry]
  /\ Leave(s)
  /\ UNCHANGED <<briefs, decisions, reopening, crashes>>

\* The file exists (EEXIST): another turn took the number.
TurnTaken(s) ==
  /\ session[s].pc = "record"
  /\ ~TurnFree(s)
  /\ Leave(s)
  /\ UNCHANGED <<briefs, turns, decisions, reopening, crashes>>

\* The process dies, or a read or write fails, between two steps.
Crash(s) ==
  /\ session[s].pc # "idle"
  /\ crashes < MaxCrashes
  /\ crashes' = crashes + 1
  /\ Leave(s)
  /\ UNCHANGED <<briefs, turns, decisions, reopening>>

\* recordDecision for approve, and for reject and revise: any existing version may be
\* decided on.
Decide ==
  /\ Len(decisions) < MaxDecisions
  /\ \E kind \in {"approve", "refuse"}, version \in DOMAIN briefs :
       /\ MayDecide(kind, version)
       /\ decisions' = Append(decisions, [kind |-> kind, version |-> version])
  /\ UNCHANGED <<briefs, turns, session, reopening, crashes>>

\* recordDecision for reopen checks that the version is the latest one and
\* approved, ...
CheckReopen ==
  /\ reopening = 0
  /\ Len(decisions) < MaxDecisions
  /\ briefs # <<>>
  /\ Approved
  /\ reopening' = LatestVersion
  /\ UNCHANGED <<briefs, turns, decisions, session, crashes>>

\* ... and saves the decision afterwards.
SaveReopen ==
  /\ reopening # 0
  /\ decisions' = Append(decisions, [kind |-> "reopen", version |-> reopening])
  /\ reopening' = 0
  /\ UNCHANGED <<briefs, turns, session, crashes>>

TurnStep(s) ==
  \/ AgentFails(s) \/ DraftAccepted(s) \/ DraftRejected(s)
  \/ AppendVersion(s) \/ VersionTaken(s)
  \/ RecordTurn(s) \/ TurnTaken(s)

Operator == Decide \/ CheckReopen \/ SaveReopen

Next ==
  \/ \E s \in Sessions : StartIntake(s) \/ BeginTurn(s) \/ TurnStep(s) \/ Crash(s)
  \/ Operator

Spec == Init /\ [][Next]_vars

\* A turn that has begun is carried on by the runtime (the provider call
\* returns or fails); nobody is obliged to begin a turn or to decide.
FairSpec == Spec /\ \A s \in Sessions : WF_vars(TurnStep(s))

-----------------------------------------------------------------------------
\* Every variable holds a value of its kind.
TypeOK ==
  /\ briefs \in Seq(Brief)
  /\ turns \in Seq(Turn)
  /\ decisions \in Seq(Decision)
  /\ session \in [Sessions -> Session]
  /\ reopening \in Nat
  /\ crashes \in Nat

\* verifyLineage finds no failure: every version but the first pins the
\* digest of the version that is persisted before it, even when several
\* turns prepared a version from the same predecessor.
LineageIntact ==
  \A v \in DOMAIN briefs :
    briefs[v].previousDigest = IF v = 1 THEN {} ELSE {briefs[v - 1].content}

\* The criterion-identity contract, read off the artifacts: a version carries
\* or retires every criterion of the version whose approval was the latest
\* when it was created.
CriterionIdentity ==
  \A v \in DOMAIN briefs, i \in DOMAIN decisions :
    /\ i <= briefs[v].createdAt
    /\ decisions[i].kind = "approve"
    /\ \A j \in DOMAIN decisions :
         i < j /\ j <= briefs[v].createdAt => decisions[j].kind # "approve"
    => briefs[decisions[i].version].content.active
         \subseteq briefs[v].content.active \cup briefs[v].content.retired

\* The repeat-question guard: no question is recorded by two turns, although
\* turns in flight read the earlier questions before either is recorded.
NoRepeatedQuestion ==
  \A m, n \in DOMAIN turns : m < n => turns[m].asked \cap turns[n].asked = {}

\* Successful turns, in the order of their numbers, produced strictly growing
\* brief versions, all of them persisted: no two turns claim one version.
TurnVersionsGrow ==
  \A n \in DOMAIN turns :
    /\ turns[n].version <= LatestVersion
    /\ (turns[n].version = 0) = (turns[n].status = "model-failure")
    /\ \A m \in DOMAIN turns :
         m < n /\ turns[n].version # 0 => turns[m].version < turns[n].version

\* MAX_CONSECUTIVE_TURN_FAILURES bounds every run of failed turn records, not
\* only those a single caller produces.
FailureRunsBounded ==
  \A n \in DOMAIN turns :
    n > MAX_CONSECUTIVE_TURN_FAILURES =>
      \E m \in DOMAIN turns :
        /\ m <= n /\ m >= n - MAX_CONSECUTIVE_TURN_FAILURES
        /\ turns[m].status # "model-failure"

\* A closed interview stays closed: a turn follows one that closed it only if
\* the brief was reopened at a version at least as late as that turn's.
ClosedUntilReopened ==
  \A n \in DOMAIN turns :
    n + 1 \in DOMAIN turns /\ turns[n].status \in ClosedStatuses =>
      \E i \in DOMAIN decisions :
        decisions[i].kind = "reopen" /\ decisions[i].version >= turns[n].version

\* The recorded turns since the latest reopen stay within the budget, however
\* many turns were in flight when it ran out.
BudgetKept ==
  Cardinality({n \in DOMAIN turns : turns[n].version > BudgetBase}) <= MaxTurns

\* The persisted artifacts under their file names.  Decisions are saved under
\* fresh UUIDs, here their positions.
Artifacts ==
  {[key |-> <<"project-brief", v>>, value |-> briefs[v]] : v \in DOMAIN briefs}
  \cup {[key |-> <<"intake-turn", n>>, value |-> turns[n]] : n \in DOMAIN turns}
  \cup {[key |-> <<"project-brief-decision", i>>, value |-> decisions[i]]
           : i \in DOMAIN decisions}

Ledger == INSTANCE ArtifactLedger WITH ledger <- Artifacts

\* Concurrent turns and decisions publish artifacts one at a time and never
\* touch a published one: the interview implements the ledger.
ImplementsLedger == Ledger!Spec

\* Retries are bounded: the interview does not call the model forever.
ModelSpendFinite == <>[][\A s \in Sessions : ~BeginTurn(s)]_vars

\* Every turn that begins ends, recorded or not.
TurnsEnd == \A s \in Sessions : session[s].pc # "idle" ~> session[s].pc = "idle"

=============================================================================
