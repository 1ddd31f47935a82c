------------------------ MODULE IntakeInterviewProofs ------------------------
(***************************************************************************)
(* Proofs about IntakeInterview for any number of callers, criteria,       *)
(* questions, turns, decisions and crashes.                                *)
(***************************************************************************)
EXTENDS IntakeInterview, FiniteSetTheorems, TLAPS

-----------------------------------------------------------------------------
\* The services never derive a budget base outside the naturals: a reopen that
\* was found in the decisions carries a version.
LEMMA BudgetBaseType ==
  ASSUME decisions \in Seq(Decision)
  PROVE  BudgetBase \in Nat
<1>1. CASE EverReopened
  <2>1. PICK i \in DOMAIN decisions : IsLatest(i, "reopen")
    BY <1>1 DEF EverReopened
  <2> DEFINE c == CHOOSE j \in DOMAIN decisions : IsLatest(j, "reopen")
  <2>2. c \in DOMAIN decisions
    BY <2>1
  <2>3. decisions[c] \in Decision
    BY <2>2
  <2> QED
    BY <1>1, <2>3 DEF BudgetBase, LatestReopenVersion, Decision
<1>2. CASE ~EverReopened
  BY <1>2 DEF BudgetBase
<1> QED
  BY <1>1, <1>2

\* Turns run, and are recorded, on a brief that has its first version.
Started ==
  /\ \A s \in Sessions : session[s].pc # "idle" => briefs # <<>>
  /\ turns # <<>> => briefs # <<>>

TypeInv == TypeOK /\ Started

LEMMA ConstantTypes ==
  /\ NoBrief \in Brief
  /\ NoEntry \in Turn
  /\ Idle \in Session
BY DEF NoBrief, Brief, InitialContent, Content, NoEntry, Turn, OpenStatuses,
       ClosedStatuses, Idle, Session

LEMMA EnteredType ==
  ASSUME NEW n \in Nat, NEW b \in Nat
  PROVE  [Idle EXCEPT !.pc = "agent", !.turn = n, !.base = b] \in Session
BY ConstantTypes DEF Idle, Session

LEMMA TypeStep == TypeInv /\ [Next]_vars => TypeInv'
<1> SUFFICES ASSUME TypeInv, [Next]_vars PROVE TypeInv'
  OBVIOUS
<1> USE DEF TypeInv, TypeOK, Started
<1>1. ASSUME NEW s \in Sessions, StartIntake(s) PROVE TypeInv'
  <2>1. [Idle EXCEPT !.pc = "agent", !.turn = 1, !.base = 1] \in Session
    BY EnteredType
  <2>2. briefs' \in Seq(Brief) /\ briefs' # <<>>
    BY <1>1, ConstantTypes DEF StartIntake
  <2> QED
    BY <1>1, <2>1, <2>2 DEF StartIntake, Enter
<1>2. ASSUME NEW s \in Sessions, BeginTurn(s) PROVE TypeInv'
  <2>1. Len(turns) + 1 \in Nat /\ BudgetBase \in Nat
    BY BudgetBaseType
  <2>2. [Idle EXCEPT !.pc = "agent", !.turn = Len(turns) + 1, !.base = BudgetBase]
          \in Session
    BY <2>1, EnteredType
  <2>3. turns # <<>>
    BY <1>2 DEF BeginTurn, AcceptsTurn
  <2> QED
    BY <1>2, <2>2, <2>3 DEF BeginTurn, Enter
<1>3. ASSUME NEW s \in Sessions, AgentFails(s) PROVE TypeInv'
  BY <1>3 DEF AgentFails, Session
<1>4. ASSUME NEW s \in Sessions, DraftAccepted(s) PROVE TypeInv'
  <2>1. PICK draft \in Content, blocking \in BOOLEAN, nextQuestions \in SUBSET Questions :
          session' = [session EXCEPT ![s] =
            [@ EXCEPT
              !.pc = "append",
              !.seen = LatestVersion,
              !.blocking = blocking,
              !.brief = [content |-> draft,
                         previousDigest |-> {briefs[LatestVersion].content},
                         createdAt |-> Len(decisions)],
              !.entry = [NoEntry EXCEPT !.asked = nextQuestions \ AskedBefore]]]
    BY <1>4 DEF DraftAccepted
  <2>2. briefs # <<>>
    BY <1>4 DEF DraftAccepted
  <2>3. briefs[LatestVersion] \in Brief /\ LatestVersion \in Nat /\ Len(decisions) \in Nat
    BY <2>2 DEF LatestVersion
  <2>4. [content |-> draft, previousDigest |-> {briefs[LatestVersion].content},
         createdAt |-> Len(decisions)] \in Brief
    BY <2>3 DEF Brief
  <2>5. [NoEntry EXCEPT !.asked = nextQuestions \ AskedBefore] \in Turn
    BY ConstantTypes DEF Turn, NoEntry
  <2>6. session'[s] \in Session
    BY <2>1, <2>3, <2>4, <2>5 DEF Session
  <2> QED
    BY <1>4, <2>1, <2>2, <2>6 DEF DraftAccepted
<1>5. ASSUME NEW s \in Sessions, Leave(s) PROVE
        /\ session' \in [Sessions -> Session]
        /\ \A r \in Sessions : session'[r].pc # "idle" => session[r].pc # "idle"
  BY <1>5, ConstantTypes DEF Leave, Idle
<1>6. ASSUME NEW s \in Sessions, DraftRejected(s) \/ VersionTaken(s) \/ TurnTaken(s) \/ Crash(s)
      PROVE TypeInv'
  BY <1>5, <1>6 DEF DraftRejected, VersionTaken, TurnTaken, Crash
<1>7. ASSUME NEW s \in Sessions, AppendVersion(s) PROVE TypeInv'
  <2>1. session[s] \in Session
    OBVIOUS
  <2>2. CompletedEntry(s) \in Turn
    BY <2>1 DEF Session, Turn, CompletedEntry, IntakeStatus, OpenStatuses, ClosedStatuses
  <2>3. [Idle EXCEPT !.pc = "record", !.turn = session[s].turn,
                     !.entry = CompletedEntry(s)] \in Session
    BY <2>1, <2>2, ConstantTypes DEF Session, Idle
  <2>4. briefs' \in Seq(Brief) /\ briefs' # <<>>
    BY <1>7, <2>1 DEF AppendVersion, Session
  <2> QED
    BY <1>7, <2>3, <2>4 DEF AppendVersion
<1>8. ASSUME NEW s \in Sessions, RecordTurn(s) PROVE TypeInv'
  <2>1. session[s].entry \in Turn /\ briefs # <<>>
    BY <1>8 DEF RecordTurn, Session
  <2> QED
    BY <1>5, <1>8, <2>1 DEF RecordTurn
<1>9. ASSUME Operator PROVE TypeInv'
  <2>1. CASE Decide
    <3>1. PICK kind \in {"approve", "refuse"}, version \in DOMAIN briefs :
            decisions' = Append(decisions, [kind |-> kind, version |-> version])
      BY <2>1 DEF Decide
    <3>2. [kind |-> kind, version |-> version] \in Decision
      BY DEF Decision, DecisionKinds
    <3> QED
      BY <2>1, <3>1, <3>2 DEF Decide
  <2>2. CASE CheckReopen
    BY <2>2 DEF CheckReopen, LatestVersion
  <2>3. CASE SaveReopen
    <3>1. [kind |-> "reopen", version |-> reopening] \in Decision
      BY DEF Decision, DecisionKinds
    <3> QED
      BY <2>3, <3>1 DEF SaveReopen
  <2> QED
    BY <1>9, <2>1, <2>2, <2>3 DEF Operator
<1>10. CASE UNCHANGED vars
  BY <1>10 DEF vars
<1> QED
  BY <1>1, <1>2, <1>3, <1>4, <1>6, <1>7, <1>8, <1>9, <1>10 DEF Next, TurnStep

LEMMA TypeInvariant == Spec => []TypeInv
<1>1. Init => TypeInv
  BY ConstantTypes DEF Init, TypeInv, TypeOK, Started, Idle
<1> QED
  BY <1>1, TypeStep, PTL DEF Spec

\* Every variable of the interview keeps its type, and no turn runs on a brief
\* that does not exist.
THEOREM TypeCorrect == Spec => [](TypeOK /\ Started)
<1>1. TypeInv => TypeOK /\ Started
  BY DEF TypeInv
<1> QED
  BY <1>1, TypeInvariant, PTL

-----------------------------------------------------------------------------
\* The turn log.  A turn number is claimed by the reads of runTurn and taken
\* by the exclusive creation of its record, perhaps minutes later.  What makes
\* the log sound is that a session whose number is still free has read the
\* whole log: its decision to run, its questions and its version all fit the
\* records that exist.

ReopenedAt(version) ==
  \E i \in DOMAIN decisions :
    decisions[i].kind = "reopen" /\ decisions[i].version >= version

NextTurnAllowed ==
  /\ ~FailedOut
  /\ turns # <<>> /\ turns[Len(turns)].status \in ClosedStatuses
       => ReopenedAt(turns[Len(turns)].version)

EntryFits(s) ==
  /\ session[s].entry.version <= LatestVersion
  /\ (session[s].entry.version = 0) = (session[s].entry.status = "model-failure")
  /\ TurnFree(s) /\ session[s].entry.version # 0 =>
       \A n \in DOMAIN turns : turns[n].version < session[s].entry.version

SessionInv(s) ==
  /\ session[s].pc # "idle" =>
       /\ session[s].turn <= Len(turns) + 1
       /\ TurnFree(s) => NextTurnAllowed
       /\ TurnFree(s) => session[s].entry.asked \cap AskedBefore = {}
  /\ session[s].pc = "agent" => session[s].entry = NoEntry
  /\ session[s].pc = "record" => EntryFits(s)

TurnLogSafe ==
  /\ NoRepeatedQuestion
  /\ TurnVersionsGrow
  /\ FailureRunsBounded
  /\ ClosedUntilReopened

TurnLogInv == TypeInv /\ TurnLogSafe /\ \A s \in Sessions : SessionInv(s)

\* Element types of the persisted sequences.
LEMMA LogTypes ==
  ASSUME TypeInv
  PROVE  /\ \A n \in DOMAIN turns : turns[n] \in Turn /\ turns[n].version \in Nat
         /\ \A i \in DOMAIN decisions : decisions[i] \in Decision
         /\ \A i \in DOMAIN decisions : decisions[i].version \in Nat
         /\ \A v \in DOMAIN briefs : briefs[v] \in Brief
         /\ Len(turns) \in Nat /\ LatestVersion \in Nat
<1> USE DEF TypeInv, TypeOK
<1>1. \A n \in DOMAIN turns : turns[n] \in Turn
  OBVIOUS
<1>2. \A i \in DOMAIN decisions : decisions[i] \in Decision
  OBVIOUS
<1> QED
  BY <1>1, <1>2 DEF Turn, Decision, LatestVersion

\* A step that leaves the log, the versions and the decisions alone keeps the
\* invariant if it keeps the invariant of the one session it changes.
LEMMA SessionStep ==
  ASSUME TurnLogInv, TypeInv', NEW s \in Sessions,
         UNCHANGED <<briefs, turns, decisions>>,
         \A r \in Sessions \ {s} : session'[r] = session[r],
         SessionInv(s)'
  PROVE  TurnLogInv'
<1>1. TurnLogSafe'
  BY DEF TurnLogInv, TurnLogSafe, NoRepeatedQuestion, TurnVersionsGrow,
         FailureRunsBounded, ClosedUntilReopened, LatestVersion
<1>2. ASSUME NEW r \in Sessions \ {s} PROVE SessionInv(r)'
  BY <1>2 DEF TurnLogInv, SessionInv, TurnFree, NextTurnAllowed, FailedOut, ReopenedAt,
         AskedBefore, EntryFits, LatestVersion
<1> QED
  BY <1>1, <1>2 DEF TurnLogInv

\* Leaving a session preserves the invariant.
LEMMA LeaveStep ==
  ASSUME TurnLogInv, TypeInv', NEW s \in Sessions, Leave(s),
         UNCHANGED <<briefs, turns, decisions>>
  PROVE  TurnLogInv'
<1>1. session'[s] = Idle /\ \A r \in Sessions \ {s} : session'[r] = session[r]
  BY DEF Leave, TurnLogInv, TypeInv, TypeOK
<1>2. SessionInv(s)'
  BY <1>1 DEF SessionInv, Idle
<1> QED
  BY <1>1, <1>2, SessionStep

\* runTurn accepts a closed interview only on the strength of a reopen that is
\* at least as late as the version that closed it.
LEMMA AcceptedTurnAllowed ==
  ASSUME TurnLogInv, AcceptsTurn PROVE NextTurnAllowed
<1> USE DEF TurnLogInv, TypeInv, TypeOK
<1>1. ~FailedOut
  BY DEF AcceptsTurn
<1>2. ASSUME turns # <<>>, turns[Len(turns)].status \in ClosedStatuses
      PROVE  ReopenedAt(turns[Len(turns)].version)
  <2>1. LatestReopenVersion = LatestVersion
    BY <1>2 DEF AcceptsTurn
  <2>2. LatestVersion \in Nat \ {0}
    BY <1>2 DEF Started, LatestVersion
  <2>3. EverReopened
    BY <2>1, <2>2 DEF LatestReopenVersion
  <2> DEFINE c == CHOOSE j \in DOMAIN decisions : IsLatest(j, "reopen")
  <2>4. c \in DOMAIN decisions /\ IsLatest(c, "reopen")
    BY <2>3 DEF EverReopened
  <2>5. decisions[c].kind = "reopen" /\ decisions[c].version = LatestVersion
    BY <2>1, <2>3, <2>4 DEF LatestReopenVersion, IsLatest
  <2>6. Len(turns) \in DOMAIN turns
    BY <1>2
  <2>7. turns[Len(turns)].version <= LatestVersion
    BY <2>6 DEF TurnLogSafe, TurnVersionsGrow
  <2>8. turns[Len(turns)].version \in Nat
    BY <2>6, LogTypes
  <2> QED
    BY <2>2, <2>4, <2>5, <2>7, <2>8 DEF ReopenedAt
<1> QED
  BY <1>1, <1>2 DEF NextTurnAllowed

\* An operator's decision never makes the log unsound: approvals and refusals
\* are not read by it, and reopens only add to what it may rest on.
LEMMA DecisionStep ==
  ASSUME TurnLogInv, TypeInv', NEW d \in Decision,
         decisions' = Append(decisions, d), UNCHANGED <<briefs, turns, session>>
  PROVE  TurnLogInv'
<1> USE DEF TurnLogInv, TypeInv, TypeOK
<1>1. \A v \in Nat : ReopenedAt(v) => ReopenedAt(v)'
  <2> SUFFICES ASSUME NEW v \in Nat, NEW i \in DOMAIN decisions,
                      decisions[i].kind = "reopen", decisions[i].version >= v
               PROVE  ReopenedAt(v)'
    BY DEF ReopenedAt
  <2>1. i \in DOMAIN decisions' /\ decisions'[i] = decisions[i]
    OBVIOUS
  <2> QED
    BY <2>1 DEF ReopenedAt
<1>2. \A n \in DOMAIN turns : turns[n].version \in Nat
  BY LogTypes
<1>3. ClosedUntilReopened'
  BY <1>1, <1>2 DEF TurnLogSafe, ClosedUntilReopened, ReopenedAt
<1>4. TurnLogSafe'
  BY <1>3 DEF TurnLogSafe, NoRepeatedQuestion, TurnVersionsGrow, FailureRunsBounded,
              LatestVersion
<1>5. NextTurnAllowed => NextTurnAllowed'
  <2>1. turns # <<>> => Len(turns) \in DOMAIN turns
    OBVIOUS
  <2> QED
    BY <2>1, <1>1, <1>2 DEF NextTurnAllowed, FailedOut
<1>6. ASSUME NEW s \in Sessions PROVE SessionInv(s)'
  BY <1>5 DEF SessionInv, TurnFree, AskedBefore, EntryFits, LatestVersion
<1> QED
  BY <1>4, <1>6

\* A created version is later than every recorded one.
LEMMA AppendStep ==
  ASSUME TurnLogInv, TypeInv', NEW s \in Sessions, AppendVersion(s)
  PROVE  TurnLogInv'
<1> USE DEF TurnLogInv, TypeInv, TypeOK
<1> DEFINE entry == CompletedEntry(s)
<1>1. /\ session'[s] = [Idle EXCEPT !.pc = "record", !.turn = session[s].turn,
                                    !.entry = entry]
      /\ \A r \in Sessions \ {s} : session'[r] = session[r]
      /\ UNCHANGED <<turns, decisions>>
      /\ session[s].pc = "append"
  BY DEF AppendVersion
<1>2. /\ LatestVersion' = LatestVersion + 1
      /\ session[s].seen + 1 = LatestVersion'
  <2>1. session[s].brief \in Brief
    BY DEF Session
  <2> QED
    BY <2>1 DEF AppendVersion, VersionFree, LatestVersion
<1>3. TurnLogSafe'
  BY <1>1, <1>2, LogTypes DEF TurnLogSafe, NoRepeatedQuestion, TurnVersionsGrow,
     FailureRunsBounded, ClosedUntilReopened
<1>4. NextTurnAllowed' = NextTurnAllowed /\ AskedBefore' = AskedBefore
  BY <1>1 DEF NextTurnAllowed, FailedOut, ReopenedAt, AskedBefore
<1>5. ASSUME NEW r \in Sessions \ {s} PROVE SessionInv(r)'
  <2>1. session[r].entry.version \in Nat
    BY DEF Session, Turn
  <2>2. EntryFits(r) => EntryFits(r)'
    BY <1>1, <1>2, <1>5, <2>1, LogTypes DEF EntryFits, TurnFree
  <2> QED
    BY <1>1, <1>4, <1>5, <2>2 DEF SessionInv, TurnFree
<1>6. SessionInv(s)'
  <2>1. session'[s].pc = "record" /\ session'[s].turn = session[s].turn
        /\ session'[s].entry = entry
    BY <1>1 DEF Idle
  <2>2. /\ entry.status # "model-failure" /\ entry.version # 0
        /\ entry.asked = session[s].entry.asked
    BY <1>2, LogTypes DEF CompletedEntry, IntakeStatus
  <2>3. \A n \in DOMAIN turns : turns[n].version < session[s].seen + 1
    BY <1>2, LogTypes DEF TurnLogSafe, TurnVersionsGrow
  <2>4. entry.version = session[s].seen + 1 /\ entry.version <= LatestVersion'
    BY <1>2, LogTypes DEF CompletedEntry
  <2> HIDE DEF entry
  <2>5. EntryFits(s)'
    BY <1>1, <2>1, <2>2, <2>3, <2>4 DEF EntryFits
  <2> QED
    BY <1>1, <1>4, <2>1, <2>2, <2>5 DEF SessionInv, TurnFree
<1> QED
  BY <1>3, <1>5, <1>6

\* A record is created under the number the session read the log for, so the
\* log it extends is the one the session's decisions were taken on; every
\* other session in flight has lost its number.
LEMMA RecordStep ==
  ASSUME TurnLogInv, TypeInv', NEW s \in Sessions, RecordTurn(s)
  PROVE  TurnLogInv'
<1> USE DEF TurnLogInv, TypeInv, TypeOK
<1> DEFINE entry == session[s].entry
           last  == Len(turns) + 1
<1>1. /\ session'[s] = Idle
      /\ \A r \in Sessions \ {s} : session'[r] = session[r]
      /\ UNCHANGED <<briefs, decisions>>
      /\ session[s].pc = "record" /\ TurnFree(s)
  BY DEF RecordTurn, Leave
<1>2. entry \in Turn /\ session[s].turn \in Nat
  BY DEF Session
<1>3. /\ turns' = Append(turns, entry) /\ Len(turns') = last
      /\ DOMAIN turns' = DOMAIN turns \cup {last}
      /\ turns'[last] = entry
      /\ \A n \in DOMAIN turns : turns'[n] = turns[n] /\ n < last /\ n \in Nat \ {0}
  BY <1>2 DEF RecordTurn
<1>4. NextTurnAllowed /\ entry.asked \cap AskedBefore = {} /\ EntryFits(s)
  BY <1>1 DEF SessionInv
<1>5. NoRepeatedQuestion'
  BY <1>3, <1>4 DEF TurnLogSafe, NoRepeatedQuestion, AskedBefore
<1>6. TurnVersionsGrow'
  BY <1>1, <1>2, <1>3, <1>4 DEF TurnLogSafe, TurnVersionsGrow, EntryFits, LatestVersion
<1>7. FailureRunsBounded'
  <2>1. CASE Len(turns) < 2
    BY <1>3, <2>1 DEF FailureRunsBounded, MAX_CONSECUTIVE_TURN_FAILURES
  <2>2. CASE Len(turns) >= 2
    <3>1. PICK m \in DOMAIN turns : m > Len(turns) - 2 /\ turns[m].status # "model-failure"
      BY <1>4, <2>2 DEF NextTurnAllowed, FailedOut, MAX_CONSECUTIVE_TURN_FAILURES
    <3> QED
      BY <1>3, <2>2, <3>1 DEF TurnLogSafe, FailureRunsBounded, MAX_CONSECUTIVE_TURN_FAILURES
  <2> QED
    BY <2>1, <2>2, LogTypes
<1>8. ClosedUntilReopened'
  BY <1>1, <1>3, <1>4 DEF TurnLogSafe, ClosedUntilReopened, NextTurnAllowed, ReopenedAt
<1>9. ASSUME NEW r \in Sessions PROVE SessionInv(r)'
  <2>1. CASE r = s
    BY <1>1, <2>1 DEF SessionInv, Idle
  <2>2. CASE r # s
    <3>1. session'[r] = session[r] /\ session[r].turn \in Nat
      BY <1>1, <2>2 DEF Session
    <3>2. session[r].pc # "idle" => ~TurnFree(r)'
      BY <1>3, <3>1 DEF SessionInv, TurnFree
    <3> QED
      BY <1>1, <1>3, <3>1, <3>2 DEF SessionInv, EntryFits, LatestVersion
  <2> QED
    BY <2>1, <2>2
<1> QED
  BY <1>5, <1>6, <1>7, <1>8, <1>9 DEF TurnLogSafe

LEMMA TurnLogStep == TurnLogInv /\ [Next]_vars => TurnLogInv'
<1> SUFFICES ASSUME TurnLogInv, [Next]_vars PROVE TurnLogInv'
  OBVIOUS
<1>0. TypeInv'
  BY TypeStep DEF TurnLogInv
<1>00. session \in [Sessions -> Session]
  BY DEF TurnLogInv, TypeInv, TypeOK
<1>1. ASSUME NEW s \in Sessions, StartIntake(s) PROVE TurnLogInv'
  <2>1. turns = <<>> /\ turns' = <<>> /\ decisions' = decisions
    BY <1>1 DEF TurnLogInv, TypeInv, Started, StartIntake
  <2>2. LatestVersion = 0 /\ LatestVersion' = 1
    BY <1>1 DEF StartIntake, LatestVersion
  <2>3. TurnLogSafe'
    BY <2>1 DEF TurnLogSafe, NoRepeatedQuestion, TurnVersionsGrow, FailureRunsBounded,
                ClosedUntilReopened
  <2>4. /\ session'[s] = [Idle EXCEPT !.pc = "agent", !.turn = 1, !.base = 1]
        /\ \A r \in Sessions \ {s} : session'[r] = session[r]
    BY <1>00, <1>1 DEF StartIntake, Enter
  <2>5. \A r \in Sessions : session[r].pc = "idle"
    BY <1>1 DEF TurnLogInv, TypeInv, Started, StartIntake
  <2>6. ASSUME NEW r \in Sessions \ {s} PROVE SessionInv(r)'
    BY <2>4, <2>5, <2>6 DEF SessionInv
  <2>7. SessionInv(s)'
    BY <2>1, <2>4 DEF SessionInv, NextTurnAllowed, FailedOut, AskedBefore, Idle, NoEntry,
                      MAX_CONSECUTIVE_TURN_FAILURES
  <2> QED
    BY <1>0, <2>3, <2>6, <2>7 DEF TurnLogInv
<1>2. ASSUME NEW s \in Sessions, BeginTurn(s) PROVE TurnLogInv'
  <2>1. NextTurnAllowed
    BY <1>2, AcceptedTurnAllowed DEF BeginTurn
  <2>2. /\ session'[s] = [Idle EXCEPT !.pc = "agent", !.turn = Len(turns) + 1,
                                      !.base = BudgetBase]
        /\ \A r \in Sessions \ {s} : session'[r] = session[r]
        /\ UNCHANGED <<briefs, turns, decisions>>
    BY <1>00, <1>2 DEF BeginTurn, Enter
  <2>3. Len(turns) \in Nat
    BY LogTypes DEF TurnLogInv
  <2>4. SessionInv(s)'
    BY <2>1, <2>2, <2>3 DEF SessionInv, Idle, NoEntry, NextTurnAllowed, FailedOut, ReopenedAt
  <2> QED
    BY <1>0, <2>2, <2>4, SessionStep
<1>3. ASSUME NEW s \in Sessions, AgentFails(s) PROVE TurnLogInv'
  <2>1. /\ session'[s] = [session[s] EXCEPT !.pc = "record"]
        /\ \A r \in Sessions \ {s} : session'[r] = session[r]
        /\ UNCHANGED <<briefs, turns, decisions>>
        /\ session[s].pc = "agent"
    BY <1>00, <1>3 DEF AgentFails
  <2>2. /\ session'[s].pc = "record" /\ session'[s].turn = session[s].turn
        /\ session'[s].entry = session[s].entry
    BY <1>00, <2>1 DEF Session
  <2>3. session[s].entry = NoEntry /\ SessionInv(s) /\ LatestVersion \in Nat
    BY <2>1, LogTypes DEF TurnLogInv, SessionInv
  <2>4. SessionInv(s)'
    BY <2>1, <2>2, <2>3 DEF SessionInv, EntryFits, NoEntry, TurnFree, NextTurnAllowed,
       FailedOut, ReopenedAt, AskedBefore, LatestVersion
  <2> QED
    BY <1>0, <2>1, <2>4, SessionStep
<1>4. ASSUME NEW s \in Sessions, DraftAccepted(s) PROVE TurnLogInv'
  <2>1. PICK draft \in Content, blocking \in BOOLEAN, nextQuestions \in SUBSET Questions :
          session' = [session EXCEPT ![s] =
            [@ EXCEPT
              !.pc = "append",
              !.seen = LatestVersion,
              !.blocking = blocking,
              !.brief = [content |-> draft,
                         previousDigest |-> {briefs[LatestVersion].content},
                         createdAt |-> Len(decisions)],
              !.entry = [NoEntry EXCEPT !.asked = nextQuestions \ AskedBefore]]]
    BY <1>4 DEF DraftAccepted
  <2>2. /\ session'[s].pc = "append" /\ session'[s].turn = session[s].turn
        /\ session'[s].entry.asked = nextQuestions \ AskedBefore
        /\ \A r \in Sessions \ {s} : session'[r] = session[r]
    BY <1>00, <2>1 DEF Session, NoEntry
  <2>3. UNCHANGED <<briefs, turns, decisions>> /\ session[s].pc = "agent"
    BY <1>4 DEF DraftAccepted
  <2>4. SessionInv(s)'
    BY <2>2, <2>3 DEF TurnLogInv, SessionInv, TurnFree, NextTurnAllowed, FailedOut,
       ReopenedAt, AskedBefore
  <2> QED
    BY <1>0, <2>2, <2>3, <2>4, SessionStep
<1>5. ASSUME NEW s \in Sessions, DraftRejected(s) \/ VersionTaken(s) \/ TurnTaken(s) \/ Crash(s)
      PROVE TurnLogInv'
  BY <1>0, <1>5, LeaveStep DEF DraftRejected, VersionTaken, TurnTaken, Crash
<1>6. ASSUME NEW s \in Sessions, AppendVersion(s) PROVE TurnLogInv'
  BY <1>0, <1>6, AppendStep
<1>7. ASSUME NEW s \in Sessions, RecordTurn(s) PROVE TurnLogInv'
  BY <1>0, <1>7, RecordStep
<1>8. ASSUME Operator PROVE TurnLogInv'
  <2>1. CASE CheckReopen
    BY <1>0, <2>1 DEF CheckReopen, TurnLogInv, TurnLogSafe, NoRepeatedQuestion,
       TurnVersionsGrow, FailureRunsBounded, ClosedUntilReopened, SessionInv, TurnFree,
       NextTurnAllowed, FailedOut, ReopenedAt, AskedBefore, EntryFits, LatestVersion
  <2>2. CASE Decide \/ SaveReopen
    <3>1. \A kind \in DecisionKinds, version \in Nat :
            [kind |-> kind, version |-> version] \in Decision
      BY DEF Decision
    <3>2. \A version \in DOMAIN briefs : version \in Nat
      BY DEF TurnLogInv, TypeInv, TypeOK
    <3>3. reopening \in Nat
      BY DEF TurnLogInv, TypeInv, TypeOK
    <3>4. \E kind \in DecisionKinds, version \in Nat :
            decisions' = Append(decisions, [kind |-> kind, version |-> version])
      BY <2>2, <3>2, <3>3 DEF Decide, SaveReopen, DecisionKinds
    <3>5. PICK d \in Decision : decisions' = Append(decisions, d)
      BY <3>1, <3>4
    <3> QED
      BY <1>0, <2>2, <3>5, DecisionStep DEF Decide, SaveReopen
  <2> QED
    BY <1>8, <2>1, <2>2 DEF Operator
<1>9. CASE UNCHANGED vars
  BY <1>0, <1>9 DEF vars, TurnLogInv, TurnLogSafe, NoRepeatedQuestion,
       TurnVersionsGrow, FailureRunsBounded, ClosedUntilReopened, SessionInv, TurnFree,
       NextTurnAllowed, FailedOut, ReopenedAt, AskedBefore, EntryFits, LatestVersion
<1> QED
  BY <1>1, <1>2, <1>3, <1>4, <1>5, <1>6, <1>7, <1>8, <1>9 DEF Next, TurnStep

\* The turn log is sound whatever turns, decisions and crashes interleave: no
\* question is put twice, versions grow with turn numbers, failures never run
\* longer than the limit, and a closed interview continues only after a reopen.
THEOREM TurnLogCorrect == Spec => [](NoRepeatedQuestion /\ TurnVersionsGrow
                                       /\ FailureRunsBounded /\ ClosedUntilReopened)
<1>1. Init => TurnLogInv
  <2> SUFFICES ASSUME Init PROVE TurnLogInv
    OBVIOUS
  <2>1. TypeInv
    BY ConstantTypes DEF Init, TypeInv, TypeOK, Started, Idle
  <2> QED
    BY <2>1 DEF Init, TurnLogInv, TurnLogSafe, NoRepeatedQuestion, TurnVersionsGrow,
       FailureRunsBounded, ClosedUntilReopened, SessionInv, Idle
<1>2. TurnLogInv => NoRepeatedQuestion /\ TurnVersionsGrow /\ FailureRunsBounded
                      /\ ClosedUntilReopened
  BY DEF TurnLogInv, TurnLogSafe
<1> QED
  BY <1>1, <1>2, TurnLogStep, PTL DEF Spec

\* A turn that follows a closing one has a reopen behind it.
COROLLARY ClosedStaysClosed == Spec => []ClosedUntilReopened
  BY TurnLogCorrect, PTL
-----------------------------------------------------------------------------
\* The version chain.  A turn prepares version n + 1 from the version n it
\* loaded; the exclusive creation of the file makes n the last version there
\* is, so both the pinned digest and the identity contract that were computed
\* before are those of the chain it extends.

\* The contract for one brief, over the decisions made before it was created.
IdentityKept(versions, log, brief) ==
  \A i \in DOMAIN log :
    /\ i <= brief.createdAt
    /\ log[i].kind = "approve"
    /\ \A j \in DOMAIN log :
         i < j /\ j <= brief.createdAt => log[j].kind # "approve"
    => versions[log[i].version].content.active
         \subseteq brief.content.active \cup brief.content.retired

\* New versions and new decisions leave the contract of a brief alone.
LEMMA IdentityLasts ==
  ASSUME NEW versions, NEW version, NEW log \in Seq(Decision), NEW decision,
         versions \in Seq(Brief), version \in Brief, decision \in Decision,
         \A i \in DOMAIN log : log[i].version \in DOMAIN versions,
         NEW brief \in Brief, brief.createdAt <= Len(log),
         IdentityKept(versions, log, brief)
  PROVE  /\ IdentityKept(Append(versions, version), log, brief)
         /\ IdentityKept(versions, Append(log, decision), brief)
<1>1. IdentityKept(Append(versions, version), log, brief)
  <2>1. \A v \in DOMAIN versions : Append(versions, version)[v] = versions[v]
    OBVIOUS
  <2> QED
    BY <2>1 DEF IdentityKept
<1>2. IdentityKept(versions, Append(log, decision), brief)
  <2> DEFINE longer == Append(log, decision)
  <2>1. brief.createdAt \in Nat
    BY DEF Brief
  <2>2. \A i \in DOMAIN longer : i <= brief.createdAt => i \in DOMAIN log
    BY <2>1
  <2>3. \A i \in DOMAIN log : i \in DOMAIN longer /\ longer[i] = log[i]
    OBVIOUS
  <2> HIDE DEF longer
  <2>4. IdentityKept(versions, longer, brief)
    BY <2>2, <2>3 DEF IdentityKept
  <2> QED
    BY <2>4 DEF longer
<1> QED
  BY <1>1, <1>2

Prepared(s) ==
  /\ session[s].seen \in DOMAIN briefs
  /\ session[s].brief.previousDigest = {briefs[session[s].seen].content}
  /\ session[s].brief.createdAt <= Len(decisions)
  /\ IdentityKept(briefs, decisions, session[s].brief)

ChainInv ==
  /\ TypeInv
  /\ LineageIntact
  /\ \A v \in DOMAIN briefs : /\ IdentityKept(briefs, decisions, briefs[v])
                              /\ briefs[v].createdAt <= Len(decisions)
  /\ \A i \in DOMAIN decisions : decisions[i].version \in DOMAIN briefs
  /\ reopening # 0 => reopening \in DOMAIN briefs
  /\ \A s \in Sessions : session[s].pc = "append" => Prepared(s)

\* A step that changes neither versions nor decisions nor a prepared version.
LEMMA ChainUntouched ==
  ASSUME ChainInv, TypeInv', UNCHANGED <<briefs, decisions>>,
         reopening' = reopening \/ reopening' \in DOMAIN briefs,
         \A r \in Sessions : session'[r].pc = "append" => session'[r] = session[r]
  PROVE  ChainInv'
BY DEF ChainInv, LineageIntact, Prepared

LEMMA ChainAppend ==
  ASSUME ChainInv, TypeInv', NEW s \in Sessions, AppendVersion(s)
  PROVE  ChainInv'
<1> USE DEF ChainInv, TypeInv, TypeOK
<1> DEFINE brief == session[s].brief
           last  == Len(briefs) + 1
<1>1. Prepared(s) /\ brief \in Brief /\ session[s].seen = Len(briefs)
  BY DEF AppendVersion, VersionFree, LatestVersion, Session
<1>2. /\ briefs' = Append(briefs, brief)
      /\ UNCHANGED <<decisions, reopening>>
      /\ \A r \in Sessions : session'[r].pc = "append" => session'[r] = session[r]
  BY DEF AppendVersion, Idle
<1>3. /\ DOMAIN briefs' = DOMAIN briefs \cup {last}
      /\ briefs'[last] = brief
      /\ \A v \in DOMAIN briefs : briefs'[v] = briefs[v] /\ v # last
      /\ last # 1 /\ last - 1 \in DOMAIN briefs /\ last - 1 = session[s].seen
  BY <1>1, <1>2 DEF Prepared
<1>4. \A b \in Brief : /\ b.createdAt <= Len(decisions)
                       /\ IdentityKept(briefs, decisions, b)
                       => IdentityKept(briefs', decisions, b)
  <2>1. [kind |-> "approve", version |-> 0] \in Decision
    BY DEF Decision, DecisionKinds
  <2>2. PICK decision \in Decision : TRUE
    BY <2>1
  <2> SUFFICES ASSUME NEW b \in Brief, b.createdAt <= Len(decisions),
                      IdentityKept(briefs, decisions, b)
               PROVE  IdentityKept(Append(briefs, brief), decisions, b)
    BY <1>2
  <2> HIDE DEF brief
  <2> QED
    BY <1>1, <2>2, IdentityLasts
<1>5. \A v \in DOMAIN briefs' : /\ IdentityKept(briefs', decisions, briefs'[v])
                                /\ briefs'[v].createdAt <= Len(decisions)
  BY <1>1, <1>3, <1>4 DEF Prepared
<1>6. LineageIntact'
  <2>1. briefs'[last].previousDigest = {briefs'[last - 1].content}
    BY <1>1, <1>3 DEF Prepared
  <2>2. \A v \in DOMAIN briefs : v - 1 \in DOMAIN briefs \/ v = 1
    OBVIOUS
  <2>3. ASSUME NEW v \in DOMAIN briefs
        PROVE  briefs'[v].previousDigest = IF v = 1 THEN {} ELSE {briefs'[v - 1].content}
    BY <1>3, <2>2 DEF LineageIntact
  <2> QED
    BY <1>3, <2>1, <2>3 DEF LineageIntact
<1>7. ASSUME NEW r \in Sessions, session'[r].pc = "append" PROVE Prepared(r)'
  <2>1. session'[r] = session[r] /\ Prepared(r) /\ session[r].brief \in Brief
    BY <1>2, <1>7 DEF Session
  <2>2. IdentityKept(briefs', decisions, session[r].brief)
    BY <1>4, <2>1 DEF Prepared
  <2> QED
    BY <1>2, <1>3, <2>1, <2>2 DEF Prepared
<1> QED
  BY <1>2, <1>3, <1>5, <1>6, <1>7

LEMMA ChainDecision ==
  ASSUME ChainInv, TypeInv', NEW d \in Decision, d.version \in DOMAIN briefs,
         decisions' = Append(decisions, d), UNCHANGED <<briefs, session>>,
         reopening' = reopening \/ reopening' = 0
  PROVE  ChainInv'
<1> USE DEF ChainInv, TypeInv, TypeOK
<1>1. \A b \in Brief : b.createdAt <= Len(decisions) /\ IdentityKept(briefs, decisions, b)
                         => /\ IdentityKept(briefs, decisions', b)
                            /\ b.createdAt <= Len(decisions')
  <2> SUFFICES ASSUME NEW b \in Brief, b.createdAt <= Len(decisions),
                      IdentityKept(briefs, decisions, b)
               PROVE  /\ IdentityKept(briefs, decisions', b)
                      /\ b.createdAt <= Len(decisions')
    OBVIOUS
  <2>1. IdentityKept(briefs, decisions', b)
    <3>1. PICK version \in Brief : TRUE
      BY ConstantTypes
    <3> QED
      BY <3>1, IdentityLasts
  <2>2. b.createdAt \in Nat /\ Len(decisions') = Len(decisions) + 1
    BY DEF Brief
  <2> QED
    BY <2>1, <2>2
<1>2. ASSUME NEW r \in Sessions, session'[r].pc = "append" PROVE Prepared(r)'
  <2>1. Prepared(r) /\ session[r].brief \in Brief
    BY <1>2 DEF Session
  <2> QED
    BY <1>1, <2>1 DEF Prepared
<1>3. \A v \in DOMAIN briefs' : /\ IdentityKept(briefs, decisions', briefs[v])
                                /\ briefs[v].createdAt <= Len(decisions')
  BY <1>1
<1>4. \A i \in DOMAIN decisions' : decisions'[i].version \in DOMAIN briefs
  OBVIOUS
<1> QED
  BY <1>2, <1>3, <1>4 DEF LineageIntact

LEMMA ChainStep == ChainInv /\ [Next]_vars => ChainInv'
<1> SUFFICES ASSUME ChainInv, [Next]_vars PROVE ChainInv'
  OBVIOUS
<1>0. TypeInv' /\ TypeInv /\ session \in [Sessions -> Session]
  BY TypeStep DEF ChainInv, TypeInv, TypeOK
<1>1. ASSUME NEW s \in Sessions, StartIntake(s) PROVE ChainInv'
  <2>1. /\ briefs' = <<NoBrief>> /\ briefs = <<>> /\ decisions' = decisions
        /\ reopening' = reopening
        /\ \A r \in Sessions : session[r].pc = "idle"
    BY <1>1, <1>0 DEF StartIntake, TypeInv, Started
  <2>2. \A r \in Sessions : session'[r].pc # "append"
    BY <1>1, <1>0, <2>1 DEF StartIntake, Enter, Idle
  <2>3. DOMAIN decisions = {} /\ reopening = 0
    <3>1. DOMAIN briefs = {}
      BY <2>1
    <3> QED
      BY <3>1 DEF ChainInv
  <2>4. Len(decisions) \in Nat
    BY <1>0 DEF TypeInv, TypeOK
  <2>5. /\ DOMAIN briefs' = {1} /\ briefs'[1] = NoBrief
        /\ NoBrief.createdAt = 0 /\ NoBrief.previousDigest = {}
    BY <2>1 DEF NoBrief
  <2>6. IdentityKept(briefs', decisions', NoBrief)
    BY <2>1, <2>3 DEF IdentityKept
  <2> QED
    BY <1>0, <2>1, <2>2, <2>3, <2>4, <2>5, <2>6 DEF ChainInv, LineageIntact
<1>2. ASSUME NEW s \in Sessions, BeginTurn(s) \/ AgentFails(s) PROVE ChainInv'
  <2>1. UNCHANGED <<briefs, decisions, reopening>>
    BY <1>2 DEF BeginTurn, AgentFails
  <2>2. session'[s].pc # "append" /\ \A r \in Sessions \ {s} : session'[r] = session[r]
    BY <1>0, <1>2 DEF BeginTurn, AgentFails, Enter, Idle, Session
  <2> QED
    BY <1>0, <2>1, <2>2, ChainUntouched
<1>3. ASSUME NEW s \in Sessions, RecordTurn(s) \/ DraftRejected(s) \/ VersionTaken(s)
                                   \/ TurnTaken(s) \/ Crash(s)
      PROVE ChainInv'
  <2>1. UNCHANGED <<briefs, decisions, reopening>> /\ Leave(s)
    BY <1>3 DEF RecordTurn, DraftRejected, VersionTaken, TurnTaken, Crash
  <2>2. session'[s].pc # "append" /\ \A r \in Sessions \ {s} : session'[r] = session[r]
    BY <1>0, <2>1 DEF Leave, Idle
  <2> QED
    BY <1>0, <2>1, <2>2, ChainUntouched
<1>4. ASSUME NEW s \in Sessions, DraftAccepted(s) PROVE ChainInv'
  <2>1. PICK draft \in Content, blocking \in BOOLEAN, nextQuestions \in SUBSET Questions :
          /\ KeepsIdentity(draft)
          /\ session' = [session EXCEPT ![s] =
              [@ EXCEPT
                !.pc = "append",
                !.seen = LatestVersion,
                !.blocking = blocking,
                !.brief = [content |-> draft,
                           previousDigest |-> {briefs[LatestVersion].content},
                           createdAt |-> Len(decisions)],
                !.entry = [NoEntry EXCEPT !.asked = nextQuestions \ AskedBefore]]]
    BY <1>4 DEF DraftAccepted
  <2>2. /\ UNCHANGED <<briefs, decisions, reopening>> /\ session[s].pc # "idle"
        /\ \A r \in Sessions \ {s} : session'[r] = session[r]
    BY <1>0, <1>4, <2>1 DEF DraftAccepted
  <2>3. /\ session'[s].seen = LatestVersion
        /\ session'[s].brief.content = draft
        /\ session'[s].brief.previousDigest = {briefs[LatestVersion].content}
        /\ session'[s].brief.createdAt = Len(decisions)
    BY <1>0, <2>1 DEF Session
  <2>4. LatestVersion \in DOMAIN briefs /\ Len(decisions) \in Nat
    BY <1>0, <2>2 DEF LatestVersion, TypeInv, TypeOK, Started
  <2>5. IdentityKept(briefs, decisions, session'[s].brief)
    BY <2>1, <2>3, <2>4, <1>0 DEF KeepsIdentity, IsLatest, IdentityKept, TypeInv, TypeOK
  <2>6. Prepared(s)'
    BY <2>2, <2>3, <2>4, <2>5 DEF Prepared
  <2> QED
    BY <1>0, <2>2, <2>6 DEF ChainInv, LineageIntact, Prepared
<1>5. ASSUME NEW s \in Sessions, AppendVersion(s) PROVE ChainInv'
  BY <1>0, <1>5, ChainAppend
<1>6. ASSUME CheckReopen PROVE ChainInv'
  BY <1>0, <1>6, ChainUntouched DEF CheckReopen, LatestVersion, TypeInv, TypeOK
<1>7. ASSUME Decide \/ SaveReopen PROVE ChainInv'
  <2>1. UNCHANGED <<briefs, session>> /\ (reopening' = 0 \/ reopening' = reopening)
    BY <1>7 DEF Decide, SaveReopen
  <2>2. \E kind \in DecisionKinds, version \in DOMAIN briefs :
          decisions' = Append(decisions, [kind |-> kind, version |-> version])
    BY <1>7 DEF Decide, SaveReopen, DecisionKinds, ChainInv
  <2>3. PICK kind \in DecisionKinds, version \in DOMAIN briefs :
          decisions' = Append(decisions, [kind |-> kind, version |-> version])
    BY <2>2
  <2>4. version \in Nat
    BY <1>0 DEF TypeInv, TypeOK
  <2>5. [kind |-> kind, version |-> version] \in Decision
    BY <2>4 DEF Decision
  <2> QED
    BY <1>0, <2>1, <2>3, <2>5, ChainDecision
<1>8. CASE UNCHANGED vars
  BY <1>0, <1>8 DEF vars, ChainInv, LineageIntact, Prepared
<1> QED
  BY <1>1, <1>2, <1>3, <1>4, <1>5, <1>6, <1>7, <1>8 DEF Next, TurnStep, Operator

\* The brief versions form one intact digest chain, and no approved criterion
\* disappears from it silently, whatever turns and decisions interleave.
THEOREM ChainCorrect == Spec => [](LineageIntact /\ CriterionIdentity)
<1>1. Init => ChainInv
  <2> SUFFICES ASSUME Init PROVE ChainInv
    OBVIOUS
  <2>1. TypeInv
    BY ConstantTypes DEF Init, TypeInv, TypeOK, Started, Idle
  <2> QED
    BY <2>1 DEF Init, ChainInv, LineageIntact, Idle
<1>2. ChainInv => LineageIntact /\ CriterionIdentity
  BY DEF ChainInv, CriterionIdentity, IdentityKept
<1> QED
  BY <1>1, <1>2, ChainStep, PTL DEF Spec

\* What the operator approved is carried or retired by every later version.
COROLLARY CriteriaKept == Spec => []CriterionIdentity
  BY ChainCorrect, PTL
-----------------------------------------------------------------------------
\* The interview implements the ledger.  Each of the three collections is a
\* sequence that grows by one entry in the steps that publish, and no step
\* changes two of them.

\* Publishing one artifact under a fresh key is a step of the ledger.
LEMMA FreshArtifact ==
  ASSUME NEW a, Artifacts' = Artifacts \cup {a}, \A b \in Artifacts : b.key # a.key
  PROVE  Ledger!Publish
<1>1. a \notin Artifacts
  OBVIOUS
<1>2. a \in Artifacts' \ Artifacts
  BY <1>1
<1> QED
  BY <1>2 DEF Ledger!Publish

\* A sequence that grows by one entry adds one artifact to its collection.
LEMMA AppendArtifact ==
  ASSUME NEW S, NEW log \in Seq(S), NEW e \in S, NEW kind
  PROVE  LET longer == Append(log, e)
             a == [key |-> <<kind, Len(log) + 1>>, value |-> e]
         IN /\ {[key |-> <<kind, n>>, value |-> longer[n]] : n \in DOMAIN longer}
                 = {[key |-> <<kind, n>>, value |-> log[n]] : n \in DOMAIN log} \cup {a}
            /\ Len(log) + 1 \notin DOMAIN log
<1> DEFINE longer == Append(log, e)
           a == [key |-> <<kind, Len(log) + 1>>, value |-> e]
<1>1. /\ DOMAIN longer = DOMAIN log \cup {Len(log) + 1}
      /\ longer[Len(log) + 1] = e
      /\ \A n \in DOMAIN log : longer[n] = log[n]
      /\ Len(log) + 1 \notin DOMAIN log
  OBVIOUS
<1> HIDE DEF longer
<1>2. {[key |-> <<kind, n>>, value |-> longer[n]] : n \in DOMAIN longer}
        = {[key |-> <<kind, n>>, value |-> log[n]] : n \in DOMAIN log} \cup {a}
  BY <1>1
<1> QED
  BY <1>1, <1>2 DEF longer

BriefArtifacts    == {[key |-> <<"project-brief", v>>, value |-> briefs[v]] : v \in DOMAIN briefs}
TurnArtifacts     == {[key |-> <<"intake-turn", n>>, value |-> turns[n]] : n \in DOMAIN turns}
DecisionArtifacts == {[key |-> <<"project-brief-decision", i>>, value |-> decisions[i]]
                         : i \in DOMAIN decisions}

\* The names of the three kinds never clash.
LEMMA ArtifactKeys ==
  /\ Artifacts = BriefArtifacts \cup TurnArtifacts \cup DecisionArtifacts
  /\ \A a \in BriefArtifacts : \E v \in DOMAIN briefs : a.key = <<"project-brief", v>>
  /\ \A a \in TurnArtifacts : \E n \in DOMAIN turns : a.key = <<"intake-turn", n>>
  /\ \A a \in DecisionArtifacts :
       \E i \in DOMAIN decisions : a.key = <<"project-brief-decision", i>>
BY DEF Artifacts, BriefArtifacts, TurnArtifacts, DecisionArtifacts

LEMMA LedgerStep == TypeInv /\ TypeInv' /\ [Next]_vars => [Ledger!Publish]_Artifacts
<1> SUFFICES ASSUME TypeInv, TypeInv', [Next]_vars
             PROVE  Artifacts' = Artifacts \/ Ledger!Publish
  BY DEF Ledger!Publish
<1>0. briefs \in Seq(Brief) /\ turns \in Seq(Turn) /\ decisions \in Seq(Decision)
  BY DEF TypeInv, TypeOK
<1>1. ASSUME UNCHANGED <<briefs, turns, decisions>>
      PROVE  Artifacts' = Artifacts
  BY <1>1 DEF Artifacts
<1>2. ASSUME NEW b \in Brief, briefs' = Append(briefs, b), UNCHANGED <<turns, decisions>>
      PROVE  Ledger!Publish
  <2> DEFINE a == [key |-> <<"project-brief", Len(briefs) + 1>>, value |-> b]
  <2>1. BriefArtifacts' = BriefArtifacts \cup {a} /\ Len(briefs) + 1 \notin DOMAIN briefs
    BY <1>0, <1>2, AppendArtifact DEF BriefArtifacts
  <2>2. TurnArtifacts' = TurnArtifacts /\ DecisionArtifacts' = DecisionArtifacts
    BY <1>2 DEF TurnArtifacts, DecisionArtifacts
  <2>3. Artifacts' = BriefArtifacts' \cup TurnArtifacts' \cup DecisionArtifacts'
    BY DEF Artifacts, BriefArtifacts, TurnArtifacts, DecisionArtifacts
  <2>4. Artifacts' = Artifacts \cup {a}
    BY <2>1, <2>2, <2>3, ArtifactKeys
  <2>5. \A c \in Artifacts : c.key # a.key
    BY <2>1, ArtifactKeys
  <2> QED
    BY <2>4, <2>5, FreshArtifact
<1>3. ASSUME NEW t \in Turn, turns' = Append(turns, t), UNCHANGED <<briefs, decisions>>
      PROVE  Ledger!Publish
  <2> DEFINE a == [key |-> <<"intake-turn", Len(turns) + 1>>, value |-> t]
  <2>1. TurnArtifacts' = TurnArtifacts \cup {a} /\ Len(turns) + 1 \notin DOMAIN turns
    BY <1>0, <1>3, AppendArtifact DEF TurnArtifacts
  <2>2. BriefArtifacts' = BriefArtifacts /\ DecisionArtifacts' = DecisionArtifacts
    BY <1>3 DEF BriefArtifacts, DecisionArtifacts
  <2>3. Artifacts' = BriefArtifacts' \cup TurnArtifacts' \cup DecisionArtifacts'
    BY DEF Artifacts, BriefArtifacts, TurnArtifacts, DecisionArtifacts
  <2>4. Artifacts' = Artifacts \cup {a}
    BY <2>1, <2>2, <2>3, ArtifactKeys
  <2>5. \A c \in Artifacts : c.key # a.key
    BY <2>1, ArtifactKeys
  <2> QED
    BY <2>4, <2>5, FreshArtifact
<1>4. ASSUME NEW d \in Decision, decisions' = Append(decisions, d), UNCHANGED <<briefs, turns>>
      PROVE  Ledger!Publish
  <2> DEFINE a == [key |-> <<"project-brief-decision", Len(decisions) + 1>>, value |-> d]
  <2>1. /\ DecisionArtifacts' = DecisionArtifacts \cup {a}
        /\ Len(decisions) + 1 \notin DOMAIN decisions
    BY <1>0, <1>4, AppendArtifact DEF DecisionArtifacts
  <2>2. BriefArtifacts' = BriefArtifacts /\ TurnArtifacts' = TurnArtifacts
    BY <1>4 DEF BriefArtifacts, TurnArtifacts
  <2>3. Artifacts' = BriefArtifacts' \cup TurnArtifacts' \cup DecisionArtifacts'
    BY DEF Artifacts, BriefArtifacts, TurnArtifacts, DecisionArtifacts
  <2>4. Artifacts' = Artifacts \cup {a}
    BY <2>1, <2>2, <2>3, ArtifactKeys
  <2>5. \A c \in Artifacts : c.key # a.key
    BY <2>1, ArtifactKeys
  <2> QED
    BY <2>4, <2>5, FreshArtifact
<1>5. ASSUME NEW s \in Sessions, StartIntake(s) PROVE Ledger!Publish
  <2>1. NoBrief \in Brief
    BY ConstantTypes
  <2>2. briefs' = Append(briefs, NoBrief) /\ UNCHANGED <<turns, decisions>>
    BY <1>5 DEF StartIntake
  <2> QED
    BY <1>2, <2>1, <2>2
<1>6. ASSUME NEW s \in Sessions, AppendVersion(s) PROVE Ledger!Publish
  <2>1. session[s].brief \in Brief
    BY DEF TypeInv, TypeOK, Session
  <2> QED
    BY <1>2, <1>6, <2>1 DEF AppendVersion
<1>7. ASSUME NEW s \in Sessions, RecordTurn(s) PROVE Ledger!Publish
  <2>1. session[s].entry \in Turn
    BY DEF TypeInv, TypeOK, Session
  <2> QED
    BY <1>3, <1>7, <2>1 DEF RecordTurn
<1>8. ASSUME Decide \/ SaveReopen PROVE Ledger!Publish
  <2>1. \A kind \in DecisionKinds, version \in Nat :
          [kind |-> kind, version |-> version] \in Decision
    BY DEF Decision
  <2>2. (\A version \in DOMAIN briefs : version \in Nat) /\ reopening \in Nat
    BY <1>0 DEF TypeInv, TypeOK
  <2>3. \E kind \in DecisionKinds, version \in Nat :
          decisions' = Append(decisions, [kind |-> kind, version |-> version])
    BY <1>8, <2>2 DEF Decide, SaveReopen, DecisionKinds
  <2>4. UNCHANGED <<briefs, turns>>
    BY <1>8 DEF Decide, SaveReopen
  <2> QED
    BY <1>4, <2>1, <2>3, <2>4
<1>9. ASSUME NEW s \in Sessions,
             \/ BeginTurn(s) \/ AgentFails(s) \/ DraftAccepted(s) \/ DraftRejected(s)
             \/ VersionTaken(s) \/ TurnTaken(s) \/ Crash(s)
      PROVE  Artifacts' = Artifacts
  BY <1>1, <1>9 DEF BeginTurn, AgentFails, DraftAccepted, DraftRejected, VersionTaken,
     TurnTaken, Crash
<1>10. ASSUME CheckReopen \/ UNCHANGED vars PROVE Artifacts' = Artifacts
  BY <1>1, <1>10 DEF CheckReopen, vars
<1> QED
  BY <1>5, <1>6, <1>7, <1>8, <1>9, <1>10 DEF Next, TurnStep, Operator

\* Every behaviour of the interview, seen through its artifacts, is one of the
\* append-only ledger: concurrent turns publish one artifact at a time, under
\* a name no artifact has, and nothing published is ever touched again.
THEOREM LedgerImplemented == Spec => ImplementsLedger
<1>1. Init => Ledger!Init
  BY DEF Init, Ledger!Init, Artifacts
<1> QED
  BY <1>1, LedgerStep, TypeInvariant, PTL DEF Spec, ImplementsLedger, Ledger!Spec
-----------------------------------------------------------------------------
(* The budget.  A turn in flight counts from the base it began with, which *)
(* may be older than the one by the time it is recorded, but never newer:  *)
(* the base only grows.  So the versions of the turns that did not close   *)
(* the interview lie within the budget above the base, and of those that   *)
(* did at most one does, for a reopen after it would have moved the base.  *)

LastReopen(d, i) ==
  /\ d[i].kind = "reopen"
  /\ \A j \in DOMAIN d : j > i => d[j].kind # "reopen"

LEMMA OneLastReopen ==
  ASSUME NEW d, DOMAIN d \subseteq Int, NEW i \in DOMAIN d, LastReopen(d, i)
  PROVE  (CHOOSE j \in DOMAIN d : LastReopen(d, j)) = i
<1> DEFINE c == CHOOSE j \in DOMAIN d : LastReopen(d, j)
<1>1. c \in DOMAIN d /\ LastReopen(d, c)
  OBVIOUS
<1> HIDE DEF c
<1>2. ~(c > i) /\ ~(i > c) /\ c \in Int /\ i \in Int
  BY <1>1 DEF LastReopen
<1>3. c = i
  BY <1>2
<1> QED
  BY <1>3 DEF c

\* The base that decisions stand for.
BaseOf(d) ==
  IF \E i \in DOMAIN d : LastReopen(d, i)
  THEN d[CHOOSE i \in DOMAIN d : LastReopen(d, i)].version
  ELSE 1

LEMMA BudgetBaseOf == BudgetBase = BaseOf(decisions)
  BY DEF BudgetBase, LatestReopenVersion, EverReopened, IsLatest, BaseOf, LastReopen

\* A decision that is not a reopen leaves the base where it is, and a reopen
\* moves it to its version.
LEMMA BaseAfter ==
  ASSUME NEW d \in Seq(Decision), NEW x \in Decision
  PROVE  /\ x.kind # "reopen" => BaseOf(Append(d, x)) = BaseOf(d)
         /\ x.kind = "reopen" => BaseOf(Append(d, x)) = x.version
<1> DEFINE e == Append(d, x)
           n == Len(d) + 1
<1>1. /\ DOMAIN d = 1..Len(d) /\ Len(d) \in Nat
      /\ DOMAIN e = 1..n /\ e[n] = x
      /\ \A i \in 1..Len(d) : e[i] = d[i]
  OBVIOUS
<1> HIDE DEF e
<1>2. CASE x.kind = "reopen"
  <2>1. n \in DOMAIN e /\ LastReopen(e, n) /\ DOMAIN e \subseteq Int
    BY <1>1, <1>2 DEF LastReopen
  <2>2. BaseOf(e) = e[n].version
    BY <2>1, OneLastReopen DEF BaseOf
  <2> QED
    BY <1>1, <1>2, <2>2 DEF e
<1>3. CASE x.kind # "reopen"
  <2>1. \A i \in DOMAIN e : LastReopen(e, i) <=> i \in DOMAIN d /\ LastReopen(d, i)
    BY <1>1, <1>3 DEF LastReopen
  <2>2. DOMAIN d \subseteq DOMAIN e /\ DOMAIN e \subseteq Int /\ DOMAIN d \subseteq Int
    BY <1>1
  <2>3. CASE \E i \in DOMAIN d : LastReopen(d, i)
    <3>1. PICK i \in DOMAIN d : LastReopen(d, i)
      BY <2>3
    <3>2. i \in DOMAIN e /\ LastReopen(e, i) /\ e[i] = d[i]
      BY <1>1, <2>1, <2>2, <3>1
    <3>3. BaseOf(e) = e[i].version
      BY <2>2, <3>2, OneLastReopen DEF BaseOf
    <3>4. BaseOf(d) = d[i].version
      BY <2>2, <3>1, OneLastReopen DEF BaseOf
    <3> QED
      BY <1>3, <3>2, <3>3, <3>4 DEF e
  <2>4. CASE ~\E i \in DOMAIN d : LastReopen(d, i)
    <3>1. ~\E i \in DOMAIN e : LastReopen(e, i)
      BY <2>1, <2>4
    <3> QED
      BY <1>3, <2>4, <3>1 DEF BaseOf, e
  <2> QED
    BY <2>3, <2>4
<1> QED
  BY <1>2, <1>3

\* The base is the latest version that was ever reopened.
BaseSound ==
  /\ BudgetBase \in Nat \ {0}
  /\ BudgetBase <= 1 \/ BudgetBase <= LatestVersion
  /\ \A i \in DOMAIN decisions :
       decisions[i].kind = "reopen" => decisions[i].version <= BudgetBase
  /\ reopening # 0 => BudgetBase <= reopening /\ reopening <= LatestVersion

\* What is within the budget of the base: the turns, and what is in flight.
Within(t) == t.status = "awaiting-answers" => t.version < BudgetBase + MaxTurns

CountsSound ==
  /\ \A s \in Sessions :
       /\ session[s].base <= BudgetBase
       /\ Within(session[s].entry)
  /\ \A n \in DOMAIN turns : Within(turns[n])

BudgetInv == BaseSound /\ CountsSound

\* As long as nothing is decided the base stays, and whatever is decided it
\* does not fall.
LEMMA BaseKept ==
  ASSUME TypeOK, decisions' = decisions
  PROVE  BudgetBase' = BudgetBase
<1>1. BudgetBase' = BaseOf(decisions')
  BY DEF BudgetBase, LatestReopenVersion, EverReopened, IsLatest, BaseOf, LastReopen
<1> QED
  BY <1>1, BudgetBaseOf

LEMMA OperatorBudget ==
  ASSUME TypeOK, BudgetInv, Operator
  PROVE  BudgetInv'
<1>1. /\ briefs \in Seq(Brief) /\ turns \in Seq(Turn) /\ decisions \in Seq(Decision)
      /\ session \in [Sessions -> Session] /\ reopening \in Nat /\ MaxTurns \in Nat
  BY MaxTurnsAssumption DEF TypeOK
<1>2. UNCHANGED <<briefs, turns, session>>
  BY DEF Operator, Decide, CheckReopen, SaveReopen
<1>3. LatestVersion' = LatestVersion /\ LatestVersion \in Nat
  BY <1>1, <1>2 DEF LatestVersion
<1>4. BudgetBase' = BaseOf(decisions')
  BY DEF BudgetBase, LatestReopenVersion, EverReopened, IsLatest, BaseOf, LastReopen
<1>5. ASSUME NEW x \in Decision, decisions' = Append(decisions, x)
      PROVE  /\ x.kind # "reopen" => BudgetBase' = BudgetBase
             /\ x.kind = "reopen" => BudgetBase' = x.version
             /\ \A i \in DOMAIN decisions' : \/ i \in DOMAIN decisions /\ decisions'[i] = decisions[i]
                                             \/ decisions'[i] = x
  BY <1>1, <1>4, <1>5, BudgetBaseOf, BaseAfter
<1>6. BaseSound' /\ BudgetBase' >= BudgetBase
  <2>1. CASE Decide
    <3>1. PICK kind \in {"approve", "refuse"}, version \in DOMAIN briefs :
            decisions' = Append(decisions, [kind |-> kind, version |-> version])
      BY <2>1 DEF Decide
    <3> DEFINE x == [kind |-> kind, version |-> version]
    <3>2. x \in Decision /\ x.kind # "reopen"
      BY <1>1 DEF Decision, DecisionKinds
    <3>3. reopening' = reopening
      BY <2>1 DEF Decide
    <3> HIDE DEF x
    <3>4. /\ BudgetBase' = BudgetBase
          /\ \A i \in DOMAIN decisions' : \/ i \in DOMAIN decisions /\ decisions'[i] = decisions[i]
                                          \/ decisions'[i] = x
      BY <1>5, <3>1, <3>2 DEF x
    <3> QED
      BY <1>2, <1>3, <3>2, <3>3, <3>4 DEF BudgetInv, BaseSound
  <2>2. CASE CheckReopen
    <3>1. decisions' = decisions /\ reopening' = LatestVersion /\ briefs # <<>>
      BY <2>2 DEF CheckReopen
    <3>2. BudgetBase' = BudgetBase
      BY <3>1, BaseKept
    <3> QED
      BY <1>2, <1>3, <3>1, <3>2 DEF BudgetInv, BaseSound
  <2>3. CASE SaveReopen
    <3> DEFINE x == [kind |-> "reopen", version |-> reopening]
    <3>1. decisions' = Append(decisions, x) /\ reopening' = 0 /\ reopening # 0
      BY <2>3 DEF SaveReopen
    <3>2. x \in Decision /\ x.kind = "reopen" /\ x.version = reopening
      BY <1>1 DEF Decision, DecisionKinds
    <3> HIDE DEF x
    <3>3. /\ BudgetBase' = reopening
          /\ \A i \in DOMAIN decisions' : \/ i \in DOMAIN decisions /\ decisions'[i] = decisions[i]
                                          \/ decisions'[i] = x
      BY <1>5, <3>1, <3>2
    <3>4. BudgetBase \in Nat \ {0} /\ BudgetBase <= reopening /\ reopening <= LatestVersion
      BY <3>1 DEF BudgetInv, BaseSound
    <3>5. \A i \in DOMAIN decisions : decisions[i].version \in Nat
      <4>1. \A i \in DOMAIN decisions : decisions[i] \in Decision
        BY <1>1
      <4> QED
        BY <4>1 DEF Decision
    <3>6. \A i \in DOMAIN decisions' :
            decisions'[i].kind = "reopen" => decisions'[i].version <= reopening
      BY <1>1, <3>2, <3>3, <3>4, <3>5 DEF BudgetInv, BaseSound
    <3> QED
      BY <1>1, <1>2, <1>3, <3>1, <3>3, <3>4, <3>6 DEF BaseSound
  <2> QED
    BY <2>1, <2>2, <2>3 DEF Operator
<1>7. BudgetBase \in Nat /\ BudgetBase' \in Nat
  BY <1>6 DEF BudgetInv, BaseSound
<1>8. \A t \in Turn : Within(t) => Within(t)'
  BY <1>1, <1>6, <1>7 DEF Within, Turn
<1>9. CountsSound'
  <2>1. \A s \in Sessions : session[s].entry \in Turn /\ session[s].base \in Nat
    BY <1>1 DEF Session
  <2>2. \A n \in DOMAIN turns : turns[n] \in Turn
    BY <1>1
  <2>3. \A s \in Sessions : session[s].base <= BudgetBase'
    BY <1>6, <1>7, <2>1 DEF BudgetInv, CountsSound
  <2>4. \A s \in Sessions : Within(session[s].entry)'
    BY <1>2, <1>8, <2>1 DEF BudgetInv, CountsSound
  <2>5. \A n \in DOMAIN turns : Within(turns[n])'
    BY <1>2, <1>8, <2>2 DEF BudgetInv, CountsSound
  <2> QED
    BY <1>2, <2>3, <2>4, <2>5 DEF CountsSound
<1> QED
  BY <1>6, <1>9 DEF BudgetInv

\* What a turn does leaves the base alone.
LEMMA TurnBudget ==
  ASSUME TypeOK, BudgetInv, decisions' = decisions, reopening' = reopening,
         LatestVersion' \in Nat, LatestVersion' >= LatestVersion,
         \A s \in Sessions :
           /\ session'[s].base <= BudgetBase
           /\ Within(session'[s].entry),
         \A n \in DOMAIN turns' : Within(turns'[n])
  PROVE  BudgetInv'
<1>1. BudgetBase' = BudgetBase
  BY BaseKept
<1>2. LatestVersion \in Nat /\ BudgetBase \in Nat \ {0} /\ reopening \in Nat
  BY DEF TypeOK, LatestVersion, BudgetInv, BaseSound
<1>3. BaseSound'
  BY <1>1, <1>2 DEF BudgetInv, BaseSound
<1>4. CountsSound'
  BY <1>1 DEF CountsSound, Within
<1> QED
  BY <1>3, <1>4 DEF BudgetInv

LEMMA BudgetStep == TypeInv /\ BudgetInv /\ [Next]_vars => BudgetInv'
<1> SUFFICES ASSUME TypeInv, BudgetInv, [Next]_vars PROVE BudgetInv'
  OBVIOUS
<1>1. /\ briefs \in Seq(Brief) /\ turns \in Seq(Turn) /\ decisions \in Seq(Decision)
      /\ session \in [Sessions -> Session]
      /\ MaxTurns \in Nat \ {0} /\ BudgetBase \in Nat \ {0} /\ LatestVersion \in Nat
      /\ TypeOK
  BY MaxTurnsAssumption DEF TypeInv, TypeOK, BudgetInv, BaseSound, LatestVersion
<1>2. /\ \A s \in Sessions :
           /\ session[s].base <= BudgetBase
           /\ Within(session[s].entry)
      /\ \A n \in DOMAIN turns : Within(turns[n])
  BY DEF BudgetInv, CountsSound
<1>3. Idle.base = 0 /\ Idle.entry = NoEntry /\ Within(NoEntry) /\ 0 <= BudgetBase
  BY <1>1 DEF Idle, NoEntry, Within
<1> HIDE DEF Within
<1>4. ASSUME NEW s \in Sessions, Leave(s)
      PROVE  \A r \in Sessions :
               /\ session'[r].base <= BudgetBase
               /\ Within(session'[r].entry)
  BY <1>1, <1>2, <1>3, <1>4 DEF Leave
<1>5. ASSUME NEW s \in Sessions, StartIntake(s) PROVE BudgetInv'
  <2>1. LatestVersion = 0 /\ LatestVersion' = 1 /\ decisions' = decisions
        /\ reopening' = reopening /\ turns' = turns
    BY <1>5 DEF StartIntake, LatestVersion
  <2>2. session' = [session EXCEPT ![s] = [Idle EXCEPT !.pc = "agent", !.turn = 1, !.base = 1]]
    BY <1>5 DEF StartIntake, Enter
  <2>3. /\ [Idle EXCEPT !.pc = "agent", !.turn = 1, !.base = 1].entry = NoEntry
        /\ [Idle EXCEPT !.pc = "agent", !.turn = 1, !.base = 1].base = 1
    BY DEF Idle
  <2>4. \A r \in Sessions : /\ session'[r].base <= BudgetBase
                            /\ Within(session'[r].entry)
    BY <1>1, <1>2, <1>3, <2>2, <2>3
  <2> QED
    BY <1>1, <1>2, <2>1, <2>4, TurnBudget
<1>6. ASSUME NEW s \in Sessions, BeginTurn(s) PROVE BudgetInv'
  <2>1. LatestVersion' = LatestVersion /\ decisions' = decisions
        /\ reopening' = reopening /\ turns' = turns
    BY <1>6 DEF BeginTurn, LatestVersion
  <2>2. session' = [session EXCEPT ![s] =
          [Idle EXCEPT !.pc = "agent", !.turn = Len(turns) + 1, !.base = BudgetBase]]
    BY <1>6 DEF BeginTurn, Enter
  <2>3. /\ [Idle EXCEPT !.pc = "agent", !.turn = Len(turns) + 1, !.base = BudgetBase].entry = NoEntry
        /\ [Idle EXCEPT !.pc = "agent", !.turn = Len(turns) + 1, !.base = BudgetBase].base = BudgetBase
    BY DEF Idle
  <2>4. \A r \in Sessions : /\ session'[r].base <= BudgetBase
                            /\ Within(session'[r].entry)
    BY <1>1, <1>2, <1>3, <2>2, <2>3
  <2> QED
    BY <1>1, <1>2, <2>1, <2>4, TurnBudget
<1>7. ASSUME NEW s \in Sessions, DraftRejected(s) \/ VersionTaken(s) \/ TurnTaken(s) \/ Crash(s)
      PROVE BudgetInv'
  <2>1. LatestVersion' = LatestVersion /\ decisions' = decisions
        /\ reopening' = reopening /\ turns' = turns /\ Leave(s)
    BY <1>7 DEF DraftRejected, VersionTaken, TurnTaken, Crash, LatestVersion
  <2> QED
    BY <1>1, <1>2, <1>4, <2>1, TurnBudget
<1>8. ASSUME NEW s \in Sessions, AgentFails(s) PROVE BudgetInv'
  <2>1. LatestVersion' = LatestVersion /\ decisions' = decisions
        /\ reopening' = reopening /\ turns' = turns
    BY <1>8 DEF AgentFails, LatestVersion
  <2>2. session' = [session EXCEPT ![s].pc = "record"] /\ session[s].pc = "agent"
    BY <1>8 DEF AgentFails
  <2>3. \A r \in Sessions : /\ session'[r].base <= BudgetBase
                            /\ Within(session'[r].entry)
    BY <1>1, <1>2, <2>2 DEF Session
  <2> QED
    BY <1>1, <1>2, <2>1, <2>3, TurnBudget
<1>9. ASSUME NEW s \in Sessions, DraftAccepted(s) PROVE BudgetInv'
  <2>1. LatestVersion' = LatestVersion /\ decisions' = decisions
        /\ reopening' = reopening /\ turns' = turns
    BY <1>9 DEF DraftAccepted, LatestVersion
  <2>2. /\ \A r \in Sessions \ {s} : session'[r] = session[r]
        /\ session'[s].pc = "append" /\ session'[s].base = session[s].base
    BY <1>1, <1>9 DEF DraftAccepted, Session
  <2>3. session'[s].entry.status = "model-failure"
    BY <1>1, <1>9 DEF DraftAccepted, Session, NoEntry
  <2>4. Within(session'[s].entry)
    BY <2>3 DEF Within
  <2>5. \A r \in Sessions : /\ session'[r].base <= BudgetBase
                            /\ Within(session'[r].entry)
    BY <1>2, <2>2, <2>4
  <2> QED
    BY <1>1, <1>2, <2>1, <2>5, TurnBudget
<1>10. ASSUME NEW s \in Sessions, AppendVersion(s) PROVE BudgetInv'
  <2>1. decisions' = decisions /\ reopening' = reopening /\ turns' = turns
        /\ LatestVersion' = LatestVersion + 1
    <3>1. session[s].brief \in Brief
      BY <1>1 DEF Session
    <3> QED
      BY <1>1, <1>10, <3>1 DEF AppendVersion, LatestVersion
  <2>2. session' = [session EXCEPT ![s] =
          [Idle EXCEPT !.pc = "record", !.turn = session[s].turn, !.entry = CompletedEntry(s)]]
    BY <1>10 DEF AppendVersion
  <2>3. Within(CompletedEntry(s))
    <3>1. session[s].base \in Nat /\ session[s].seen \in Nat /\ session[s].base <= BudgetBase
      BY <1>1, <1>2 DEF Session
    <3> DEFINE v == session[s].seen + 1
    <3>2. CompletedEntry(s).status = "awaiting-answers" => ~(v - session[s].base >= MaxTurns)
      BY DEF CompletedEntry, IntakeStatus
    <3>3. CompletedEntry(s).version = v
      BY DEF CompletedEntry
    <3> QED
      BY <1>1, <3>1, <3>2, <3>3 DEF Within
  <2>4. \A r \in Sessions : /\ session'[r].base <= BudgetBase
                            /\ Within(session'[r].entry)
    BY <1>1, <1>2, <1>3, <2>2, <2>3 DEF Idle
  <2> QED
    BY <1>1, <1>2, <2>1, <2>4, TurnBudget
<1>11. ASSUME NEW s \in Sessions, RecordTurn(s) PROVE BudgetInv'
  <2>1. LatestVersion' = LatestVersion /\ decisions' = decisions
        /\ reopening' = reopening /\ Leave(s)
    BY <1>11 DEF RecordTurn, LatestVersion
  <2>2. turns' = Append(turns, session[s].entry) /\ Within(session[s].entry)
        /\ session[s].entry \in Turn
    BY <1>1, <1>2, <1>11 DEF RecordTurn, Session
  <2>3. \A n \in DOMAIN turns' : \/ n \in DOMAIN turns /\ turns'[n] = turns[n]
                                 \/ turns'[n] = session[s].entry
    BY <1>1, <2>2
  <2>4. \A n \in DOMAIN turns' : Within(turns'[n])
    BY <1>2, <2>2, <2>3
  <2> QED
    BY <1>1, <1>4, <2>1, <2>4, TurnBudget
<1>12. CASE Operator
  BY <1>1, <1>12, OperatorBudget
<1>13. CASE UNCHANGED vars
  <2>1. LatestVersion' = LatestVersion /\ decisions' = decisions
        /\ reopening' = reopening /\ turns' = turns /\ session' = session
    BY <1>13 DEF vars, LatestVersion
  <2> QED
    BY <1>1, <1>2, <2>1, TurnBudget
<1> QED
  BY <1>5, <1>6, <1>7, <1>8, <1>9, <1>10, <1>11, <1>12, <1>13 DEF Next, TurnStep

\* The recorded turns since the latest reopen stay within the budget, however
\* many turns were in flight when it ran out or the brief was reopened
\* (intakeStatusAfterTurn, budgetBaseVersion).
THEOREM BudgetIsKept == Spec => []BudgetKept
<1>1. Init => BudgetInv
  <2> SUFFICES ASSUME Init PROVE BudgetInv
    OBVIOUS
  <2>1. decisions = <<>> /\ turns = <<>> /\ briefs = <<>> /\ reopening = 0
        /\ session = [s \in Sessions |-> Idle]
    BY DEF Init
  <2>2. BudgetBase = 1
    BY <2>1 DEF BudgetBase, EverReopened
  <2>3. BaseSound
    BY <2>1, <2>2 DEF BaseSound
  <2>4. CountsSound
    BY <2>1, <2>2 DEF CountsSound, Within, Idle, NoEntry
  <2> QED
    BY <2>3, <2>4 DEF BudgetInv
<1>2. Spec => []BudgetInv
  BY <1>1, BudgetStep, TypeInvariant, PTL DEF Spec
<1>3. ASSUME TypeOK, BudgetInv, TurnVersionsGrow, ClosedUntilReopened
      PROVE  BudgetKept
  <2> DEFINE S == {n \in DOMAIN turns : turns[n].version > BudgetBase}
             f == [n \in S |-> IF turns[n].status = "awaiting-answers"
                               THEN turns[n].version - BudgetBase ELSE MaxTurns]
  <2>1. /\ turns \in Seq(Turn) /\ DOMAIN turns = 1..Len(turns) /\ Len(turns) \in Nat
        /\ MaxTurns \in Nat \ {0} /\ BudgetBase \in Nat \ {0}
    BY <1>3, MaxTurnsAssumption DEF TypeOK, BudgetInv, BaseSound
  <2>2. \A n \in DOMAIN turns : turns[n] \in Turn
    BY <2>1
  <2>3. \A n \in DOMAIN turns :
          turns[n].version \in Nat /\ turns[n].status \in OpenStatuses \cup ClosedStatuses
    BY <2>2 DEF Turn
  <2>4. \A i \in DOMAIN decisions : decisions[i].version \in Nat
    <3>1. \A i \in DOMAIN decisions : decisions[i] \in Decision
      BY <1>3 DEF TypeOK
    <3> QED
      BY <3>1 DEF Decision
  <2>5. ASSUME NEW n \in S, turns[n].status = "awaiting-answers"
        PROVE  f[n] \in 1..(MaxTurns - 1) /\ f[n] = turns[n].version - BudgetBase
    BY <1>3, <2>1, <2>3, <2>5 DEF BudgetInv, CountsSound, Within
  <2>6. ASSUME NEW n \in S, turns[n].status # "awaiting-answers"
        PROVE  f[n] = MaxTurns /\ n = Len(turns)
    <3>1. turns[n].status # "model-failure"
      BY <1>3, <2>1, <2>3 DEF TurnVersionsGrow
    <3>2. turns[n].status \in ClosedStatuses
      BY <2>6, <2>3, <3>1 DEF OpenStatuses
    <3>3. CASE n + 1 \in DOMAIN turns
      <4>1. PICK i \in DOMAIN decisions :
              decisions[i].kind = "reopen" /\ decisions[i].version >= turns[n].version
        BY <1>3, <3>2, <3>3 DEF ClosedUntilReopened
      <4>2. decisions[i].version <= BudgetBase /\ decisions[i].version \in Nat
        BY <1>3, <2>4, <4>1 DEF BudgetInv, BaseSound
      <4> QED
        BY <2>1, <2>3, <4>1, <4>2
    <3>4. CASE n + 1 \notin DOMAIN turns
      BY <2>1, <2>6, <3>4
    <3> QED
      BY <3>3, <3>4
  <2>7. f \in [S -> 1..MaxTurns]
    <3>1. ASSUME NEW n \in S PROVE f[n] \in 1..MaxTurns
      <4> HIDE DEF f
      <4>1. CASE turns[n].status = "awaiting-answers"
        BY <2>1, <2>5, <4>1
      <4>2. CASE turns[n].status # "awaiting-answers"
        BY <2>1, <2>6, <4>2
      <4> QED
        BY <4>1, <4>2
    <3>2. DOMAIN f = S /\ f = [n \in S |-> f[n]]
      OBVIOUS
    <3> HIDE DEF f
    <3> QED
      BY <3>1, <3>2
  <2>8. \A m, n \in S : f[m] = f[n] => m = n
    <3> SUFFICES ASSUME NEW m \in S, NEW n \in S, f[m] = f[n] PROVE m = n
      OBVIOUS
    <3>1. CASE turns[m].status = "awaiting-answers" /\ turns[n].status = "awaiting-answers"
      <4>1. turns[m].version = turns[n].version /\ turns[m].version # 0
        <5> HIDE DEF f
        <5> QED
          BY <2>1, <2>5, <2>3, <3>1
      <4>2. ~(m < n) /\ ~(n < m)
        BY <1>3, <2>1, <2>3, <4>1 DEF TurnVersionsGrow
      <4> QED
        BY <2>1, <4>2
    <3>2. CASE turns[m].status # "awaiting-answers" /\ turns[n].status # "awaiting-answers"
      BY <2>6, <3>2
    <3>3. CASE turns[m].status = "awaiting-answers" /\ turns[n].status # "awaiting-answers"
      <4> HIDE DEF f
      <4>1. f[m] \in 1..(MaxTurns - 1) /\ f[n] = MaxTurns
        BY <2>5, <2>6, <3>3
      <4> QED
        BY <2>1, <4>1
    <3>4. CASE turns[m].status # "awaiting-answers" /\ turns[n].status = "awaiting-answers"
      <4> HIDE DEF f
      <4>1. f[n] \in 1..(MaxTurns - 1) /\ f[m] = MaxTurns
        BY <2>5, <2>6, <3>4
      <4> QED
        BY <2>1, <4>1
    <3> QED
      BY <3>1, <3>2, <3>3, <3>4
  <2>9. IsFiniteSet(1..MaxTurns) /\ Cardinality(1..MaxTurns) = MaxTurns
    BY <2>1, FS_Interval
  <2> HIDE DEF f, S
  <2>10. f \in Injection(S, 1..MaxTurns)
    BY <2>7, <2>8 DEF Injection, IsInjective
  <2>11. Cardinality(S) <= MaxTurns
    BY <2>9, <2>10, FS_Injection
  <2> QED
    BY <2>11 DEF BudgetKept, S
<1>4. TypeInv => TypeOK
  BY DEF TypeInv
<1>5. Spec => [](TurnVersionsGrow /\ ClosedUntilReopened)
  BY TurnLogCorrect, PTL
<1> QED
  BY <1>2, <1>3, <1>4, <1>5, TypeInvariant, PTL
=============================================================================
