---------------------------- MODULE ConsoleProofs ----------------------------
(***************************************************************************)
(* The operations of the console and what is built on them, for any number *)
(* of operations, clients, events and restarts: what stream clients and    *)
(* the tray are told; that the page of a project shows what it watched and *)
(* recorded, however its loads overlap; and that what the console shows of *)
(* a run is recorded and supported by evidence, collected without leaving  *)
(* anything out silently.  A step of the page or of a run is one of the    *)
(* store.                                                                  *)
(***************************************************************************)
EXTENDS AgentRun, ProjectPage, FiniteSetTheorems, SequenceTheorems,
        WellFoundedInduction, TLAPS

-----------------------------------------------------------------------------
\* Only a connected client is called.
Connected == \A s \in Streams : stream[s].subscribed => stream[s].open

IInv == TypeOK /\ StreamExact /\ Connected

LEMMA AbsentTyped == Absent \in Operation /\ Forgotten \in Operation
                     /\ Absent.status = "absent" /\ Forgotten.status = "forgotten"
<1>1. <<>> \in Seq(Stages)
  OBVIOUS
<1>2. Absent \in Operation /\ Absent.status = "absent"
  BY <1>1 DEF Absent, Operation, Statuses
<1>3. Forgotten \in Operation /\ Forgotten.status = "forgotten"
  BY <1>2 DEF Forgotten, Operation, Statuses
<1> QED BY <1>2, <1>3

LEMMA NothingSettled ==
  <<>> \in Seq(Operations) /\ IsInjective(<<>>) /\ ToSet(<<>>) = {}
BY DEF IsInjective, ToSet

\* An event is appended to the operation it is about.
LEMMA EmittedIs ==
  ASSUME TypeOK, NEW o \in Operations, NEW status \in Statuses, NEW stage \in Stages
  PROVE  /\ Emitted(o, status, stage) \in Operation
         /\ Emitted(o, status, stage).status = status
         /\ Emitted(o, status, stage).events = Append(operation[o].events, stage)
<1>1. operation[o] \in Operation
  BY DEF TypeOK
<1>2. operation[o].events \in Seq(Stages) /\ Append(operation[o].events, stage) \in Seq(Stages)
  BY <1>1 DEF Operation
<1> QED BY <1>1, <1>2 DEF Emitted, Operation

\* Subscribers receive it, the others stay as they are.
LEMMA NotifiedIs ==
  ASSUME TypeOK, NEW o \in Operations, NEW stage \in Stages, NEW terminal \in BOOLEAN,
         NEW s \in Streams
  PROVE  LET new == Notified(o, stage, terminal)[s] IN
         /\ Notified(o, stage, terminal) \in [Streams -> Stream]
         /\ new.on = stream[s].on
         /\ stream[s].subscribed /\ stream[s].on = o =>
              /\ new.received = Append(stream[s].received, stage)
              /\ new.open = ~terminal /\ new.subscribed = ~terminal
         /\ ~(stream[s].subscribed /\ stream[s].on = o) => new = stream[s]
<1>1. ASSUME NEW t \in Streams
      PROVE  /\ stream[t] \in Stream
             /\ [stream[t] EXCEPT !.received = Append(@, stage), !.open = ~terminal,
                                  !.subscribed = ~terminal] \in Stream
  <2>1. stream[t] \in Stream
    BY DEF TypeOK
  <2>2. Append(stream[t].received, stage) \in Seq(Stages) /\ (~terminal) \in BOOLEAN
    BY <2>1 DEF Stream
  <2> QED BY <2>1, <2>2 DEF Stream
<1>2. Notified(o, stage, terminal) \in [Streams -> Stream]
  BY <1>1 DEF Notified
<1> QED BY <1>1, <1>2 DEF Notified, Stream

-----------------------------------------------------------------------------
\* Everything of an event that does not settle its operation.
LEMMA EventStep ==
  ASSUME IInv, NEW o \in Operations,
         NEW status \in {"queued", "running"}, NEW stage \in Stages,
         operation[o].status \notin Terminal,
         operation' = [operation EXCEPT ![o] = Emitted(o, status, stage)],
         stream' = Notified(o, stage, FALSE),
         UNCHANGED <<settled, restarts>>
  PROVE  IInv'
<1>1. operation' \in [Operations -> Operation] /\ operation'[o].status = status
      /\ operation'[o].events = Append(operation[o].events, stage)
      /\ \A p \in Operations : p # o => operation'[p] = operation[p]
  BY EmittedIs DEF IInv, TypeOK, Statuses
<1>2. stream' \in [Streams -> Stream]
  <2>1. CASE Streams = {}
    BY <2>1 DEF Notified
  <2>2. CASE Streams # {}
    BY <2>2, NotifiedIs DEF IInv
  <2> QED BY <2>1, <2>2
<1>3. {p \in Operations : operation'[p].status \in Terminal}
        = {p \in Operations : operation[p].status \in Terminal}
  BY <1>1 DEF Terminal
<1>4. TypeOK'
  BY <1>1, <1>2, <1>3 DEF IInv, TypeOK
<1>5. ASSUME NEW s \in Streams
      PROVE  /\ stream'[s].on = stream[s].on
             /\ stream[s].subscribed /\ stream[s].on = o =>
                  /\ stream'[s].received = Append(stream[s].received, stage)
                  /\ stream'[s].open /\ stream'[s].subscribed
             /\ ~(stream[s].subscribed /\ stream[s].on = o) => stream'[s] = stream[s]
  <2> DEFINE new == Notified(o, stage, FALSE)[s]
  <2>1. /\ new.on = stream[s].on
        /\ stream[s].subscribed /\ stream[s].on = o =>
             /\ new.received = Append(stream[s].received, stage)
             /\ new.open = ~FALSE /\ new.subscribed = ~FALSE
        /\ ~(stream[s].subscribed /\ stream[s].on = o) => new = stream[s]
    BY NotifiedIs, FALSE \in BOOLEAN DEF IInv
  <2> QED BY <2>1
<1>6. ASSUME NEW s \in Streams
      PROVE  /\ stream'[s].subscribed => stream'[s].open
             /\ stream'[s].open =>
                  /\ stream'[s].subscribed
                  /\ stream'[s].received = operation'[stream'[s].on].events
                  /\ operation'[stream'[s].on].status \in {"queued", "running"}
  <2>1. stream[s].on \in Operations /\ stream'[s].on = stream[s].on
    <3>1. stream[s] \in Stream
      BY DEF IInv, TypeOK
    <3> QED BY <3>1, <1>5 DEF Stream
  <2>2. CASE stream[s].subscribed /\ stream[s].on = o
    <3>1. stream[s].received = operation[o].events
      BY <2>2 DEF IInv, StreamExact, Connected
    <3>2. stream'[s].received = Append(stream[s].received, stage)
          /\ stream'[s].open /\ stream'[s].subscribed
      BY <2>2, <1>5
    <3> QED BY <1>1, <2>1, <2>2, <3>1, <3>2
  <2>3. CASE ~(stream[s].subscribed /\ stream[s].on = o)
    <3>1. stream'[s] = stream[s]
      BY <2>3, <1>5
    <3>2. stream[s].open => stream[s].on # o
      BY <2>3 DEF IInv, StreamExact
    <3> QED BY <1>1, <2>1, <3>1, <3>2 DEF IInv, StreamExact, Connected
  <2> QED BY <2>2, <2>3
<1> QED BY <1>4, <1>6 DEF IInv, StreamExact, Connected

\* The event that settles an operation ends the streams of its clients.
LEMMA SettleStep ==
  ASSUME IInv, NEW o \in Operations, Settle(o)
  PROVE  /\ IInv'
         /\ operation'[o].status \in Terminal
         /\ \A p \in Operations : p # o => operation'[p] = operation[p]
         /\ \A s \in Streams : stream[s].open /\ stream[s].on = o =>
              ~stream'[s].open /\ stream'[s].received = operation'[o].events
<1>1. PICK outcome \in Terminal :
        /\ operation' = [operation EXCEPT ![o] = Emitted(o, outcome, outcome)]
        /\ stream' = Notified(o, outcome, TRUE)
  BY DEF Settle
<1>2. /\ operation[o].status = "running" /\ settled' = Append(settled, o)
      /\ UNCHANGED restarts
  BY DEF Settle, Settled
<1>3. outcome \in Statuses /\ outcome \in Stages
  BY DEF Terminal, Statuses, Stages
<1>4. operation' \in [Operations -> Operation] /\ operation'[o].status = outcome
      /\ operation'[o].events = Append(operation[o].events, outcome)
      /\ \A p \in Operations : p # o => operation'[p] = operation[p]
  BY <1>1, <1>3, EmittedIs DEF IInv, TypeOK
<1>5. stream' \in [Streams -> Stream]
  <2>1. CASE Streams = {}
    BY <1>1, <2>1 DEF Notified
  <2>2. CASE Streams # {}
    BY <1>1, <1>3, <2>2, NotifiedIs, TRUE \in BOOLEAN DEF IInv
  <2> QED BY <2>1, <2>2
<1>6. /\ settled' \in Seq(Operations) /\ IsInjective(settled')
      /\ ToSet(settled') = ToSet(settled) \cup {o}
  <2>1. settled \in Seq(Operations) /\ IsInjective(settled) /\ o \notin ToSet(settled)
    BY <1>2 DEF IInv, TypeOK, Terminal
  <2>2. settled' \in Seq(Operations) /\ Len(settled') = Len(settled) + 1
        /\ settled'[Len(settled) + 1] = o
        /\ \A i \in 1..Len(settled) : settled'[i] = settled[i]
    BY <1>2, <2>1
  <2>3. ToSet(settled') = ToSet(settled) \cup {o}
    BY <2>1, <2>2 DEF ToSet
  <2>4. IsInjective(settled')
    BY <2>1, <2>2 DEF IsInjective, ToSet
  <2> QED BY <2>2, <2>3, <2>4
<1>7. {p \in Operations : operation'[p].status \in Terminal}
        = {p \in Operations : operation[p].status \in Terminal} \cup {o}
  BY <1>4
<1>8. TypeOK'
  BY <1>2, <1>4, <1>5, <1>6, <1>7 DEF IInv, TypeOK
<1>9. ASSUME NEW s \in Streams
      PROVE  /\ stream'[s].on = stream[s].on
             /\ stream[s].subscribed /\ stream[s].on = o =>
                  /\ stream'[s].received = Append(stream[s].received, outcome)
                  /\ ~stream'[s].open /\ ~stream'[s].subscribed
             /\ ~(stream[s].subscribed /\ stream[s].on = o) => stream'[s] = stream[s]
  <2>0. PICK terminal \in BOOLEAN : terminal = TRUE
    OBVIOUS
  <2> DEFINE new == Notified(o, outcome, terminal)[s]
  <2>1. /\ new.on = stream[s].on
        /\ stream[s].subscribed /\ stream[s].on = o =>
             /\ new.received = Append(stream[s].received, outcome)
             /\ new.open = ~terminal /\ new.subscribed = ~terminal
        /\ ~(stream[s].subscribed /\ stream[s].on = o) => new = stream[s]
    BY <1>3, NotifiedIs DEF IInv
  <2> QED BY <1>1, <2>0, <2>1
<1>10. ASSUME NEW s \in Streams
       PROVE  /\ stream'[s].subscribed => stream'[s].open
              /\ stream'[s].open =>
                   /\ stream'[s].subscribed
                   /\ stream'[s].received = operation'[stream'[s].on].events
                   /\ operation'[stream'[s].on].status \in {"queued", "running"}
  <2>1. CASE stream[s].subscribed /\ stream[s].on = o
    BY <1>9, <2>1
  <2>2. CASE ~(stream[s].subscribed /\ stream[s].on = o)
    <3>1. stream'[s] = stream[s]
      BY <1>9, <2>2
    <3>2. stream[s].on \in Operations
      BY DEF IInv, TypeOK, Stream
    <3>3. stream[s].open => stream[s].on # o
      BY <2>2 DEF IInv, StreamExact
    <3> QED BY <1>4, <3>1, <3>2, <3>3 DEF IInv, StreamExact, Connected
  <2> QED BY <2>1, <2>2
<1>11. ASSUME NEW s \in Streams, stream[s].open, stream[s].on = o
       PROVE  ~stream'[s].open /\ stream'[s].received = operation'[o].events
  <2>1. stream[s].subscribed /\ stream[s].received = operation[o].events
    BY <1>11 DEF IInv, StreamExact
  <2> QED BY <1>4, <1>9, <1>11, <2>1
<1>12. IInv'
  BY <1>8, <1>10 DEF IInv, StreamExact, Connected
<1> QED BY <1>4, <1>11, <1>12

\* Steps of one client, or of nobody.
LEMMA StreamStep ==
  ASSUME IInv, NEW s \in Streams, NEW new \in Stream,
         stream' = [stream EXCEPT ![s] = new],
         new.subscribed => new.open,
         new.open => /\ new.subscribed
                     /\ new.received = operation[new.on].events
                     /\ operation[new.on].status \in {"queued", "running"},
         UNCHANGED <<operation, settled, restarts>>
  PROVE  IInv'
<1>1. TypeOK'
  BY DEF IInv, TypeOK
<1>2. \A t \in Streams : stream'[t] = IF t = s THEN new ELSE stream[t]
  BY DEF IInv, TypeOK
<1> QED BY <1>1, <1>2 DEF IInv, StreamExact, Connected

LEMMA OpenStreamStep ==
  ASSUME IInv, NEW s \in Streams, NEW o \in Operations, OpenStream(s, o) PROVE IInv'
<1>1. operation[o] \in Operation /\ Known(o)
  BY DEF OpenStream, IInv, TypeOK
<1>2. operation[o].status \in {"queued", "running"} \/ operation[o].status \in Terminal
  BY <1>1 DEF Known, Operation, Statuses, Terminal
<1>3. operation[o].status \in {"queued", "running"} => operation[o].status \notin Terminal
  BY DEF Terminal
<1>4. CASE operation[o].status \in Terminal
  <2> DEFINE new == [on |-> o, received |-> operation[o].events, open |-> FALSE,
                     subscribed |-> FALSE]
  <2>1. new \in Stream
    BY <1>1 DEF Stream, Operation
  <2>2. stream' = [stream EXCEPT ![s] = new]
    BY <1>4 DEF OpenStream, Opened
  <2> QED BY <2>1, <2>2, StreamStep DEF OpenStream
<1>5. CASE operation[o].status \in {"queued", "running"}
  <2> DEFINE new == [on |-> o, received |-> operation[o].events, open |-> TRUE,
                     subscribed |-> TRUE]
  <2>1. new \in Stream
    BY <1>1 DEF Stream, Operation
  <2>2. stream' = [stream EXCEPT ![s] = new]
    BY <1>3, <1>5 DEF OpenStream, Opened
  <2> QED BY <1>5, <2>1, <2>2, StreamStep DEF OpenStream
<1> QED BY <1>2, <1>4, <1>5

LEMMA ClosedStream ==
  ASSUME NEW before \in Stream, NEW received \in Seq(Stages)
  PROVE  LET new == [before EXCEPT !.received = received, !.open = FALSE,
                                   !.subscribed = FALSE]
         IN  new \in Stream /\ new.open = FALSE /\ new.subscribed = FALSE
BY DEF Stream

LEMMA CloseStreamStep ==
  ASSUME IInv, NEW s \in Streams, CloseStream(s) PROVE IInv'
<1> DEFINE new == [stream[s] EXCEPT !.received = <<>>, !.open = FALSE,
                                    !.subscribed = FALSE]
<1>1. stream[s] \in Stream
  BY DEF IInv, TypeOK
<1>2. new \in Stream /\ new.open = FALSE /\ new.subscribed = FALSE
  <2>1. <<>> \in Seq(Stages)
    OBVIOUS
  <2> QED BY <1>1, <2>1, ClosedStream
<1>3. stream' = [stream EXCEPT ![s] = new]
  BY <1>1 DEF CloseStream, IInv, TypeOK
<1> HIDE DEF new
<1> QED BY <1>2, <1>3, StreamStep DEF CloseStream

\* Nobody is connected to a server that has just started.
LEMMA RestartStep == ASSUME IInv, Restart PROVE IInv'
<1>1. operation' = [o \in Operations |-> IF Known(o) THEN Forgotten ELSE operation[o]]
      /\ operation' \in [Operations -> Operation]
  BY AbsentTyped DEF Restart, IInv, TypeOK
<1>2. {o \in Operations : operation'[o].status \in Terminal} = {}
  <2> SUFFICES ASSUME NEW o \in Operations PROVE operation'[o].status \notin Terminal
    OBVIOUS
  <2>1. operation[o].status \in Statuses
    BY DEF IInv, TypeOK, Operation
  <2>2. CASE Known(o)
    BY <1>1, <2>2, AbsentTyped DEF Terminal
  <2>3. CASE ~Known(o)
    BY <1>1, <2>1, <2>3 DEF Known, Terminal
  <2> QED BY <2>2, <2>3
<1>3. settled' \in Seq(Operations) /\ IsInjective(settled') /\ ToSet(settled') = {}
  <2>1. settled' = <<>>
    BY DEF Restart
  <2> QED BY <2>1, NothingSettled
<1>4. restarts' \in Nat
  <2>1. restarts \in Nat
    BY DEF IInv, TypeOK
  <2>2. restarts' = restarts + 1
    BY DEF Restart
  <2> QED BY <2>1, <2>2
<1>5. ASSUME NEW s \in Streams
      PROVE  [stream[s] EXCEPT !.open = FALSE, !.subscribed = FALSE] \in Stream
  BY DEF IInv, TypeOK, Stream
<1>6. stream' = [s \in Streams |-> [stream[s] EXCEPT !.open = FALSE, !.subscribed = FALSE]]
  BY DEF Restart
<1>7. stream' \in [Streams -> Stream]
  BY <1>5, <1>6
<1>8. \A s \in Streams : ~stream'[s].open /\ ~stream'[s].subscribed
  BY <1>6 DEF IInv, TypeOK, Stream
<1> QED BY <1>1, <1>2, <1>3, <1>4, <1>7, <1>8 DEF IInv, TypeOK, StreamExact, Connected

LEMMA AcknowledgeStep ==
  ASSUME IInv, NEW o \in Operations, Acknowledge(o) PROVE IInv'
<1>1. operation[o] \in Operation
  BY DEF IInv, TypeOK
<1>2. [operation[o] EXCEPT !.acknowledged = TRUE] \in Operation
  BY <1>1 DEF Operation
<1>3. operation' = [operation EXCEPT ![o] = [operation[o] EXCEPT !.acknowledged = TRUE]]
  BY DEF Acknowledge
<1>4. /\ operation' \in [Operations -> Operation]
      /\ \A p \in Operations : operation'[p].status = operation[p].status
                               /\ operation'[p].events = operation[p].events
  BY <1>1, <1>2, <1>3 DEF IInv, TypeOK, Operation
<1>5. {p \in Operations : operation'[p].status \in Terminal}
        = {p \in Operations : operation[p].status \in Terminal}
  BY <1>4
<1>6. TypeOK'
  BY <1>4, <1>5 DEF Acknowledge, IInv, TypeOK
<1>7. \A s \in Streams : stream[s].on \in Operations
  BY DEF IInv, TypeOK, Stream
<1> QED BY <1>4, <1>6, <1>7 DEF Acknowledge, IInv, StreamExact, Connected

-----------------------------------------------------------------------------
LEMMA InitSound == Init => IInv
<1> SUFFICES ASSUME Init PROVE IInv
  OBVIOUS
<1>1. operation \in [Operations -> Operation]
      /\ {o \in Operations : operation[o].status \in Terminal} = {}
  BY AbsentTyped DEF Init, Terminal
<1>2. settled \in Seq(Operations) /\ IsInjective(settled) /\ ToSet(settled) = {}
  BY NothingSettled DEF Init
<1>3. stream \in [Streams -> Stream] /\ \A s \in Streams : ~stream[s].open /\ ~stream[s].subscribed
  <2>1. <<>> \in Seq(Stages)
    OBVIOUS
  <2>2. ASSUME NEW s \in Streams
        PROVE  \E o \in Operations : stream[s] =
                 [on |-> o, received |-> <<>>, open |-> FALSE, subscribed |-> FALSE]
    BY DEF Init
  <2>3. ASSUME NEW s \in Streams
        PROVE  stream[s] \in Stream /\ ~stream[s].open /\ ~stream[s].subscribed
    <3>1. PICK o \in Operations : stream[s] =
            [on |-> o, received |-> <<>>, open |-> FALSE, subscribed |-> FALSE]
      BY <2>2
    <3>2. stream[s] \in Stream
      BY <2>1, <3>1 DEF Stream
    <3>3. ~stream[s].open /\ ~stream[s].subscribed
      BY <3>1
    <3> QED BY <3>2, <3>3
  <2> QED BY <2>3 DEF Init
<1>4. restarts \in Nat
  BY DEF Init
<1> QED BY <1>1, <1>2, <1>3, <1>4 DEF IInv, TypeOK, StreamExact, Connected

LEMMA StepSound == IInv /\ [Next]_vars => IInv'
<1> SUFFICES ASSUME IInv, [Next]_vars PROVE IInv'
  OBVIOUS
<1>1. ASSUME NEW o \in Operations, Start(o) PROVE IInv'
  BY <1>1, EventStep DEF Start, Terminal, Stages
<1>2. ASSUME NEW o \in Operations, Run(o) PROVE IInv'
  BY <1>2, EventStep DEF Run, Terminal, Stages
<1>3. ASSUME NEW o \in Operations, Emit(o) PROVE IInv'
  BY <1>3, EventStep DEF Emit, Terminal, Stages
<1>4. ASSUME NEW o \in Operations, Settle(o) PROVE IInv'
  BY <1>4, SettleStep
<1>5. ASSUME NEW o \in Operations, Acknowledge(o) PROVE IInv'
  BY <1>5, AcknowledgeStep
<1>6. ASSUME NEW o \in Operations, NEW s \in Streams, OpenStream(s, o) \/ CloseStream(s)
      PROVE  IInv'
  BY <1>6, OpenStreamStep, CloseStreamStep
<1>7. ASSUME NEW s \in Streams, CloseStream(s) PROVE IInv'
  BY <1>7, CloseStreamStep
<1>8. CASE Restart
  BY <1>8, RestartStep
<1>9. CASE UNCHANGED vars
  BY <1>9 DEF vars, IInv, TypeOK, StreamExact, Connected
<1> QED BY <1>1, <1>2, <1>3, <1>4, <1>5, <1>6, <1>7, <1>8, <1>9 DEF Next

\* The inductive invariant: a client that the store calls is connected and has
\* everything so far.
THEOREM StoreSound == Spec => []IInv
<1> QED BY InitSound, StepSound, PTL DEF Spec

\* Every variable holds a value of its kind, and what is settled is settled once.
THEOREM OperationsTyped == Spec => []TypeOK
<1>1. IInv => TypeOK
  BY DEF IInv
<1> QED BY <1>1, StoreSound, PTL

\* A client that is connected has received every event of its operation, once and
\* in order, whenever it connected.
THEOREM StreamsAreExact == Spec => []StreamExact
<1>1. IInv => StreamExact
  BY DEF IInv
<1> QED BY <1>1, StoreSound, PTL

\* A stream ends with the whole history when its operation settles.
THEOREM OutcomesAreTold == Spec => OutcomeTold
<1> DEFINE Told == \A s \in Streams, o \in Operations :
       /\ stream[s].open /\ stream[s].on = o
       /\ operation[o].status # operation'[o].status
       /\ operation'[o].status \in Terminal
       => ~stream'[s].open /\ stream'[s].received = operation'[o].events
<1>1. IInv /\ [Next]_vars => Told
  <2> SUFFICES ASSUME IInv, [Next]_vars, NEW s \in Streams, NEW o \in Operations,
                      stream[s].open, stream[s].on = o,
                      operation[o].status # operation'[o].status,
                      operation'[o].status \in Terminal
               PROVE  ~stream'[s].open /\ stream'[s].received = operation'[o].events
    OBVIOUS
  <2>1. ASSUME NEW p \in Operations, Settle(p)
        PROVE  ~stream'[s].open /\ stream'[s].received = operation'[o].events
    <3>1. p = o
      BY <2>1, SettleStep
    <3> QED BY <2>1, <3>1, SettleStep
  <2>2. ASSUME NEW p \in Operations, NEW status, NEW stage, status \notin Terminal,
               operation' = [operation EXCEPT ![p] = Emitted(p, status, stage)]
        PROVE  FALSE
    <3>1. operation[p] \in Operation
      BY DEF IInv, TypeOK
    <3>2. Emitted(p, status, stage).status = status
      BY <3>1 DEF Emitted, Operation
    <3> QED BY <2>2, <3>2 DEF IInv, TypeOK
  <2>3. ASSUME NEW p \in Operations, Start(p) \/ Run(p) \/ Emit(p) PROVE FALSE
    <3>1. CASE Start(p)
      <4>1. operation' = [operation EXCEPT ![p] = Emitted(p, "queued", "queued")]
        BY <3>1 DEF Start
      <4>2. "queued" \notin Terminal
        BY DEF Terminal
      <4> QED BY <2>2, <4>1, <4>2
    <3>2. CASE Run(p)
      <4>1. operation' = [operation EXCEPT ![p] = Emitted(p, "running", "execution")]
        BY <3>2 DEF Run
      <4>2. "running" \notin Terminal
        BY DEF Terminal
      <4> QED BY <2>2, <4>1, <4>2
    <3>3. CASE Emit(p)
      BY <2>2, <3>3 DEF Emit, Terminal
    <3> QED BY <2>3, <3>1, <3>2, <3>3
  <2>4. ASSUME NEW p \in Operations, Acknowledge(p) PROVE FALSE
    BY <2>4 DEF Acknowledge, IInv, TypeOK, Operation
  <2>5. CASE Restart
    BY <2>5, AbsentTyped DEF Restart, Terminal
  <2>6. ASSUME operation' = operation PROVE FALSE
    BY <2>6
  <2> QED BY <2>1, <2>3, <2>4, <2>5, <2>6
          DEF Next, OpenStream, CloseStream, vars
<1> QED BY <1>1, StoreSound, PTL DEF Spec, OutcomeTold

-----------------------------------------------------------------------------
\* Only finitely many operations have ever been started.
EverStarted == {o \in Operations : operation[o].status # "absent"}
FiniteWork == IsFiniteSet(EverStarted)

\* What the tray lists whatever else happens.
Listed ==
  /\ Pinned \subseteq ListRecent
  /\ \A i \in DOMAIN settled : i > Len(settled) - 3 => settled[i] \in ListRecent

LEMMA FiniteStep == TypeOK /\ FiniteWork /\ [Next]_vars => FiniteWork'
<1> SUFFICES ASSUME TypeOK, FiniteWork, [Next]_vars PROVE FiniteWork'
  OBVIOUS
<1>1. ASSUME NEW o \in Operations, \A p \in Operations : p # o => operation'[p] = operation[p]
      PROVE  FiniteWork'
  <2>1. EverStarted' \subseteq EverStarted \cup {o}
    BY <1>1 DEF EverStarted
  <2>2. IsFiniteSet(EverStarted \cup {o})
    BY FS_AddElement DEF FiniteWork
  <2> QED BY <2>1, <2>2, FS_Subset DEF FiniteWork
<1>2. ASSUME NEW o \in Operations, Start(o) \/ Run(o) \/ Emit(o) \/ Settle(o) \/ Acknowledge(o)
      PROVE  FiniteWork'
  <2>1. \A p \in Operations : p # o => operation'[p] = operation[p]
    BY <1>2 DEF Start, Run, Emit, Settle, Acknowledge, TypeOK
  <2> QED BY <1>1, <2>1
<1>3. ASSUME operation' = operation PROVE FiniteWork'
  BY <1>3 DEF FiniteWork, EverStarted
<1>4. CASE Restart
  <2>1. operation' = [o \in Operations |-> IF Known(o) THEN Forgotten ELSE operation[o]]
    BY <1>4 DEF Restart
  <2>2. EverStarted' \subseteq EverStarted
    BY <2>1 DEF EverStarted, Known
  <2> QED BY <2>2, FS_Subset DEF FiniteWork
<1>5. CASE \E s \in Streams : CloseStream(s) \/ \E o \in Operations : OpenStream(s, o)
  BY <1>3, <1>5 DEF CloseStream, OpenStream
<1>6. CASE UNCHANGED vars
  BY <1>3, <1>6 DEF vars
<1> QED BY <1>2, <1>4, <1>5, <1>6 DEF Next

\* There is room for at least three.
LEMMA RoomForThree == TypeOK /\ FiniteWork => Room \in Nat /\ Room >= 3
<1> SUFFICES ASSUME TypeOK, FiniteWork PROVE Room \in Nat /\ Room >= 3
  OBVIOUS
<1>1. Active \subseteq EverStarted /\ Pinned \subseteq EverStarted
  BY DEF Active, Pinned, EverStarted
<1>2. IsFiniteSet(Active) /\ IsFiniteSet(Pinned)
  BY <1>1, FS_Subset DEF FiniteWork
<1>3. Cardinality(Active) \in Nat /\ Cardinality(Pinned) \in Nat
  BY <1>2, FS_CardinalityType
<1> DEFINE used == Cardinality(Active) + Cardinality(Pinned)
<1>4. used \in Nat /\ Limit \in Nat
  BY <1>3, LimitAssumption
<1>5. Room = IF Limit >= used + 3 THEN Limit - used ELSE 3
  BY DEF Room
<1> HIDE DEF used
<1> QED BY <1>4, <1>5

LEMMA RecentListed == TypeOK /\ FiniteWork => Listed
<1> SUFFICES ASSUME TypeOK, FiniteWork,
                    NEW i \in DOMAIN settled, i > Len(settled) - 3
             PROVE  settled[i] \in ListRecent
  BY DEF Listed, ListRecent
<1>1. settled \in Seq(Operations) /\ Len(settled) \in Nat /\ DOMAIN settled = 1..Len(settled)
  BY DEF TypeOK
<1>2. SettledAfter(i) \subseteq (i + 1)..Len(settled)
  BY <1>1 DEF SettledAfter
<1>3. i \in Int /\ i + 1 \in Int /\ Len(settled) \in Int
  BY <1>1
<1>4. /\ IsFiniteSet((i + 1)..Len(settled))
      /\ Cardinality((i + 1)..Len(settled))
           = IF i + 1 > Len(settled) THEN 0 ELSE Len(settled) - (i + 1) + 1
  BY <1>3, FS_Interval
<1>5. Cardinality((i + 1)..Len(settled)) \in 0..2
  BY <1>1, <1>3, <1>4
<1>6. /\ IsFiniteSet(SettledAfter(i))
      /\ Cardinality(SettledAfter(i)) <= Cardinality((i + 1)..Len(settled))
  BY <1>2, <1>4, FS_Subset
<1>7. Cardinality(SettledAfter(i)) < Room
  <2>1. Cardinality(SettledAfter(i)) \in Nat
    BY <1>6, FS_CardinalityType
  <2> QED BY <1>5, <1>6, <2>1, RoomForThree
<1> QED BY <1>7 DEF ListRecent

\* A settled operation keeps its outcome for as long as the server runs.
LEMMA OutcomeStays ==
  ASSUME TypeOK, [Next]_vars, NEW o \in Operations, operation[o].status \in Terminal
  PROVE  operation'[o].status = operation[o].status \/ restarts' # restarts
<1>1. ASSUME NEW p \in Operations, Start(p) \/ Run(p) \/ Emit(p) \/ Settle(p)
      PROVE  operation'[o] = operation[o]
  <2>1. p # o
    BY <1>1 DEF Start, Run, Emit, Settle, Terminal
  <2> QED BY <1>1, <2>1 DEF Start, Run, Emit, Settle, TypeOK
<1>2. ASSUME NEW p \in Operations, Acknowledge(p)
      PROVE  operation'[o].status = operation[o].status
  <2>1. operation[o] \in Operation /\ operation[p] \in Operation
    BY DEF TypeOK
  <2>2. operation' = [operation EXCEPT ![p] = [operation[p] EXCEPT !.acknowledged = TRUE]]
    BY <1>2 DEF Acknowledge
  <2> QED BY <2>1, <2>2 DEF TypeOK, Operation
<1>3. CASE Restart
  <2>1. restarts \in Nat /\ restarts' = restarts + 1
    BY <1>3 DEF Restart, TypeOK
  <2> QED BY <2>1
<1>4. CASE \E s \in Streams : CloseStream(s) \/ \E p \in Operations : OpenStream(s, p)
  BY <1>4 DEF CloseStream, OpenStream
<1>5. CASE UNCHANGED vars
  BY <1>5 DEF vars
<1> QED BY <1>1, <1>2, <1>3, <1>4, <1>5 DEF Next

LEMMA WorkIsFinite == Spec => []FiniteWork
<1>1. Init => FiniteWork
  <2> SUFFICES ASSUME Init PROVE FiniteWork
    OBVIOUS
  <2>1. EverStarted = {}
    BY AbsentTyped DEF Init, EverStarted
  <2> QED BY <2>1, FS_EmptySet DEF FiniteWork
<1> QED BY <1>1, FiniteStep, OperationsTyped, PTL DEF Spec

\* A failure stays in the tray until it is acknowledged, however many operations
\* settle after it, and the three settled last are always there (listRecent).
THEOREM FailuresStayListed == Spec => FailureStaysListed
<1>3. Spec => []Listed
  BY WorkIsFinite, RecentListed, OperationsTyped, PTL
<1> DEFINE Stays == /\ \A o \in ListRecent :
                         operation[o].status = "failed" /\ ~operation'[o].acknowledged
                           => o \in ListRecent' \/ restarts' # restarts
                    /\ \A i \in DOMAIN settled' : i > Len(settled') - 3 => settled'[i] \in ListRecent'
<1>4. TypeOK /\ Listed' /\ [Next]_vars => Stays
  <2> SUFFICES ASSUME TypeOK, Listed', [Next]_vars PROVE Stays
    OBVIOUS
  <2>1. ASSUME NEW o \in ListRecent, operation[o].status = "failed",
               ~operation'[o].acknowledged, ~(restarts' # restarts)
        PROVE  o \in ListRecent'
    <3>1. o \in Operations
      <4>1. \A i \in DOMAIN settled : settled[i] \in Operations
        BY DEF TypeOK
      <4> QED BY <4>1 DEF ListRecent, Active, Pinned
    <3>2. operation'[o].status = "failed"
      BY <2>1, <3>1, OutcomeStays DEF Terminal
    <3>3. o \in Pinned'
      BY <2>1, <3>1, <3>2 DEF Pinned
    <3> QED BY <3>3 DEF Listed
  <2>2. \A i \in DOMAIN settled' : i > Len(settled') - 3 => settled'[i] \in ListRecent'
    BY DEF Listed
  <2> QED BY <2>1, <2>2
<1> QED BY <1>3, <1>4, OperationsTyped, PTL DEF Spec, FailureStaysListed

-----------------------------------------------------------------------------
\* The page of a project: a step of it is one of the store.
LEMMA PageStepIsStoreStep ==
  [PageNext]_<<vars, records, leaves, client>> => [Next]_vars
<1> SUFFICES ASSUME [PageNext]_<<vars, records, leaves, client>> PROVE [Next]_vars
  OBVIOUS
<1>1. CASE Open \/ Leave \/ ReadChain \/ Arrive \/ Navigate \/ PollTray \/ TrayAnswered
  BY <1>1 DEF Open, Leave, Fresh, ReadChain, Arrive, Navigate, PollTray, TrayAnswered
<1>2. ASSUME NEW c \in Controls, NEW o \in Operations,
             SeeOutcome(c) \/ StageStarted(c, o) \/ StartStage(c, o)
      PROVE  [Next]_vars
  BY <1>2 DEF SeeOutcome, StageStarted, StartStage, Next
<1>3. CASE Handle \/ FormAnswered \/ Command \/ \E form \in Forms : Submit(form)
  BY <1>3 DEF Handle, FormAnswered, Command, Submit
<1>4. ASSUME NEW o \in Operations, Dismiss(o) \/ Elsewhere(o) \/ FinishOperation(o)
      PROVE  [Next]_vars
  BY <1>4 DEF Dismiss, Elsewhere, FinishOperation, Next
<1>5. ASSUME NEW s \in Streams, FollowStream(s) PROVE [Next]_vars
  BY <1>5 DEF FollowStream, Next
<1>6. CASE RestartServer
  BY <1>6 DEF RestartServer, Next
<1>7. CASE UNCHANGED <<vars, records, leaves, client>>
  BY <1>7
<1>8. ASSUME NEW c \in Controls, SeeOutcome(c) PROVE [Next]_vars
  BY <1>8 DEF SeeOutcome
<1> QED BY <1>1, <1>2, <1>3, <1>4, <1>5, <1>6, <1>7, <1>8 DEF PageNext

\* The page does to the operations only what the store itself does: whatever is
\* proved of the store holds of a server with a page open (OperationStore).
THEOREM PageIsOfTheStore == PageSpec => Spec
<1>1. PageInit => Init
  BY DEF PageInit
<1> QED BY <1>1, PageStepIsStoreStep, PTL DEF PageSpec, Spec

-----------------------------------------------------------------------------
LEMMA RemoveAtIs ==
  \A S : \A s \in Seq(S) : \A i \in DOMAIN s : \A t : t = RemoveAt(s, i) =>
    /\ t \in Seq(S)
    /\ \A k \in DOMAIN t : \E j \in DOMAIN s : t[k] = s[j]
    /\ \A j \in DOMAIN s : j # i => \E k \in DOMAIN t : t[k] = s[j]
<1> SUFFICES ASSUME NEW S, NEW s \in Seq(S), NEW i \in DOMAIN s, NEW t, t = RemoveAt(s, i)
             PROVE  /\ t \in Seq(S)
                    /\ \A k \in DOMAIN t : \E j \in DOMAIN s : t[k] = s[j]
                    /\ \A j \in DOMAIN s : j # i => \E k \in DOMAIN t : t[k] = s[j]
  OBVIOUS
<1>1. PICK n \in Nat : n = Len(s) /\ DOMAIN s = 1..n
  OBVIOUS
<1>i. i \in Int /\ i >= 1 /\ i <= n /\ \A k \in 1..n : s[k] \in S
  BY <1>1
<1>2. PICK a : a = SubSeq(s, 1, i - 1)
  OBVIOUS
<1>3. PICK b : b = SubSeq(s, i + 1, n)
  OBVIOUS
<1>a. a \in Seq(S) /\ Len(a) = i - 1 /\ \A k \in 1..(i - 1) : a[k] = s[k]
  <2>1. i - 1 \in Int /\ 1 \in Int /\ \A k \in 1..(i - 1) : s[k] \in S
    BY <1>i
  <2>2. /\ SubSeq(s, 1, i - 1) \in Seq(S)
        /\ Len(SubSeq(s, 1, i - 1)) = IF 1 <= i - 1 THEN (i - 1) - 1 + 1 ELSE 0
        /\ \A k \in 1..((i - 1) - 1 + 1) : SubSeq(s, 1, i - 1)[k] = s[1 + k - 1]
    BY <2>1, SubSeqProperties
  <2>3. \A k \in 1..(i - 1) : k \in 1..((i - 1) - 1 + 1) /\ 1 + k - 1 = k
    BY <1>i
  <2>4. a \in Seq(S) /\ \A k \in 1..(i - 1) : a[k] = s[k]
    BY <1>2, <2>2, <2>3
  <2>5. Len(a) = IF 1 <= i - 1 THEN (i - 1) - 1 + 1 ELSE 0
    BY <1>2, <2>2
  <2> QED BY <1>i, <2>4, <2>5
<1>b. b \in Seq(S) /\ Len(b) = n - i /\ \A k \in 1..(n - i) : b[k] = s[k + i]
  <2>1. i + 1 \in Int /\ n \in Int /\ \A k \in (i + 1)..n : s[k] \in S
    BY <1>i
  <2>2. /\ SubSeq(s, i + 1, n) \in Seq(S)
        /\ Len(SubSeq(s, i + 1, n)) = IF i + 1 <= n THEN n - (i + 1) + 1 ELSE 0
        /\ \A k \in 1..(n - (i + 1) + 1) : SubSeq(s, i + 1, n)[k] = s[(i + 1) + k - 1]
    BY <2>1, SubSeqProperties
  <2>3. \A k \in 1..(n - i) : k \in 1..(n - (i + 1) + 1) /\ (i + 1) + k - 1 = k + i
    BY <1>i
  <2>4. b \in Seq(S) /\ \A k \in 1..(n - i) : b[k] = s[k + i]
    BY <1>3, <2>2, <2>3
  <2>5. Len(b) = IF i + 1 <= n THEN n - (i + 1) + 1 ELSE 0
    BY <1>3, <2>2
  <2> QED BY <1>i, <2>4, <2>5
<1>c. /\ t \in Seq(S) /\ Len(t) = Len(a) + Len(b)
      /\ \A k \in 1..(Len(a) + Len(b)) : t[k] = IF k <= Len(a) THEN a[k] ELSE b[k - Len(a)]
  <2>1. t = a \o b
    BY <1>1, <1>2, <1>3 DEF RemoveAt
  <2>2. /\ a \o b \in Seq(S) /\ Len(a \o b) = Len(a) + Len(b)
        /\ \A k \in 1..(Len(a) + Len(b)) :
             (a \o b)[k] = IF k <= Len(a) THEN a[k] ELSE b[k - Len(a)]
    BY <1>a, <1>b, ConcatProperties
  <2> QED BY <2>1, <2>2
<1>4. t \in Seq(S) /\ DOMAIN t = 1..(n - 1)
  <2>1. Len(t) = n - 1
    BY <1>i, <1>a, <1>b, <1>c
  <2> QED BY <1>c, <2>1, LenProperties
<1>5. \A k \in 1..(n - 1) : t[k] = IF k < i THEN s[k] ELSE s[k + 1]
  <2> SUFFICES ASSUME NEW k \in 1..(n - 1) PROVE t[k] = IF k < i THEN s[k] ELSE s[k + 1]
    OBVIOUS
  <2>1. t[k] = IF k <= i - 1 THEN a[k] ELSE b[k - (i - 1)]
    BY <1>i, <1>a, <1>b, <1>c
  <2>2. CASE k < i
    <3>1. k \in 1..(i - 1) /\ k <= i - 1
      BY <1>i, <2>2
    <3> QED BY <1>a, <2>1, <2>2, <3>1
  <2>3. CASE ~(k < i)
    <3>1. k - (i - 1) \in 1..(n - i) /\ ~(k <= i - 1) /\ (k - (i - 1)) + i = k + 1
      BY <1>i, <2>3
    <3> QED BY <1>b, <2>1, <2>3, <3>1
  <2> QED BY <2>2, <2>3
<1>6. ASSUME NEW k \in DOMAIN t PROVE \E j \in DOMAIN s : t[k] = s[j]
  BY <1>1, <1>4, <1>5
<1>7. ASSUME NEW j \in DOMAIN s, j # i PROVE \E k \in DOMAIN t : t[k] = s[j]
  <2>1. CASE j < i
    <3>1. j \in 1..(n - 1)
      BY <1>1, <2>1
    <3> QED BY <1>4, <1>5, <2>1, <3>1
  <2>2. CASE ~(j < i)
    <3>1. j - 1 \in 1..(n - 1) /\ ~(j - 1 < i) /\ (j - 1) + 1 = j
      BY <1>1, <1>7, <2>2
    <3> QED BY <1>4, <1>5, <3>1
  <2> QED BY <2>1, <2>2
<1> QED BY <1>4, <1>6, <1>7

LEMMA AppendIs ==
  \A S : \A s \in Seq(S) : \A x \in S : \A t : t = Append(s, x) =>
    /\ t \in Seq(S)
    /\ \A k \in DOMAIN t : t[k] = x \/ \E j \in DOMAIN s : t[k] = s[j]
    /\ \A j \in DOMAIN s : \E k \in DOMAIN t : t[k] = s[j]
    /\ \E k \in DOMAIN t : t[k] = x
<1> SUFFICES ASSUME NEW S, NEW s \in Seq(S), NEW x \in S, NEW t, t = Append(s, x)
             PROVE  /\ t \in Seq(S)
                    /\ \A k \in DOMAIN t : t[k] = x \/ \E j \in DOMAIN s : t[k] = s[j]
                    /\ \A j \in DOMAIN s : \E k \in DOMAIN t : t[k] = s[j]
                    /\ \E k \in DOMAIN t : t[k] = x
  OBVIOUS
<1>1. PICK n \in Nat : n = Len(s) /\ DOMAIN s = 1..n
  BY LenProperties
<1>2. t \in Seq(S) /\ Len(t) = n + 1 /\ t[n + 1] = x /\ \A k \in 1..n : t[k] = s[k]
  BY <1>1, AppendProperties
<1>3. DOMAIN t = 1..(n + 1) /\ n + 1 \in 1..(n + 1)
      /\ \A k \in 1..n : k \in 1..(n + 1)
  BY <1>2, LenProperties
<1>4. \A k \in 1..(n + 1) : k = n + 1 \/ k \in 1..n
  OBVIOUS
<1> QED BY <1>1, <1>2, <1>3, <1>4

-----------------------------------------------------------------------------
PageTyped ==
  /\ records \in Nat /\ leaves \in [Operations -> Nat]
  /\ unread \in Nat /\ views \in Seq(Nat)
  /\ tray \in [active : SUBSET Operations, poll : SUBSET Operations, polling : BOOLEAN]
  /\ IsFiniteSet(tray.active) /\ IsFiniteSet(tray.poll)
  /\ control \in [Controls -> [asked : SUBSET Operations, follows : SUBSET Operations]]
  /\ \A c \in Controls : \A o, p \in control[c].follows : o = p
  /\ sent \in Seq(SUBSET Nat) /\ replies \in Seq(Nat)
  /\ own \in Nat

\* The page has seen and was told of no records that are not there.
NoneAhead ==
  /\ \A o \in Operations : leaves[o] <= records
  /\ \A i \in DOMAIN views : views[i] <= records
  /\ \A i \in DOMAIN replies : replies[i] <= records
  /\ own <= records

\* A page that is not mounted holds nothing.
Unmounted == ~Mounted => tray = EmptyTray /\ control = [c \in Controls |-> Idle]

\* What is owed to the page has completed.
OwedDone == \A o \in owed : o \in Operations /\ operation[o].status = "completed"

PageInv ==
  PageTyped /\ NoneAhead /\ Unmounted /\ OwedDone /\ WatchedIsShown /\ OwnRecordsShown

\* What the tray and the controls hold when the page is not mounted.
HoldsNothing ==
  /\ tray' = EmptyTray
  /\ control' = [c \in Controls |-> Idle]

LEMMA NothingHeld ==
  ASSUME HoldsNothing
  PROVE  /\ tray' \in [active : SUBSET Operations, poll : SUBSET Operations, polling : BOOLEAN]
         /\ IsFiniteSet(tray'.active) /\ IsFiniteSet(tray'.poll)
         /\ control' \in [Controls -> [asked : SUBSET Operations, follows : SUBSET Operations]]
         /\ \A c \in Controls : control'[c].follows = {}
<1>1. {} \in SUBSET Operations /\ FALSE \in BOOLEAN
  OBVIOUS
<1>2. IsFiniteSet({})
  BY FS_EmptySet
<1> QED BY <1>1, <1>2 DEF HoldsNothing, EmptyTray, Idle

\* A page that is opened or left owes nothing.
LEMMA FreshSound ==
  ASSUME NEW state \in {"loading", "closed"}, Fresh(state) PROVE PageInv'
<1>1. HoldsNothing /\ page' # "shown"
  BY DEF Fresh, HoldsNothing
<1>2. <<>> \in Seq(Nat) /\ <<>> \in Seq(SUBSET Nat) /\ DOMAIN <<>> = {}
  OBVIOUS
<1>3. /\ records' = 0 /\ leaves' = [o \in Operations |-> 0]
      /\ unread' \in Nat /\ views' = <<>> /\ sent' = <<>> /\ replies' = <<>>
      /\ owed' = {} /\ own' = 0
  BY DEF Fresh
<1>4. PageTyped'
  BY <1>1, <1>2, <1>3, NothingHeld DEF PageTyped
<1>5. NoneAhead' /\ Unmounted' /\ OwedDone' /\ WatchedIsShown' /\ OwnRecordsShown'
  BY <1>1, <1>2, <1>3 DEF NoneAhead, Unmounted, Mounted, HoldsNothing, OwedDone,
     WatchedIsShown, OwnRecordsShown
<1> QED BY <1>4, <1>5 DEF PageInv

LEMMA PageInitSound == PageInit => PageInv
<1> SUFFICES ASSUME PageInit PROVE PageInv
  OBVIOUS
<1>2. <<>> \in Seq(Nat) /\ <<>> \in Seq(SUBSET Nat) /\ DOMAIN <<>> = {}
  OBVIOUS
<1>3. /\ records = 0 /\ leaves = [o \in Operations |-> 0]
      /\ unread = 0 /\ views = <<>> /\ sent = <<>> /\ replies = <<>>
      /\ owed = {} /\ own = 0 /\ page = "closed"
      /\ tray = EmptyTray /\ control = [c \in Controls |-> Idle]
  BY DEF PageInit
<1>4. /\ {} \in SUBSET Operations /\ FALSE \in BOOLEAN
      /\ IsFiniteSet({})
  BY FS_EmptySet
<1>5. PageTyped
  BY <1>2, <1>3, <1>4 DEF PageTyped, EmptyTray, Idle
<1>6. NoneAhead /\ Unmounted /\ OwedDone /\ WatchedIsShown /\ OwnRecordsShown
  BY <1>2, <1>3 DEF NoneAhead, Unmounted, OwedDone, WatchedIsShown, OwnRecordsShown
<1> QED BY <1>5, <1>6 DEF PageInv

\* A reload shows whatever is owed.
LEMMA ReloadSound ==
  ASSUME PageInv, NEW n \in Nat, n > 0, Reload(n),
         UNCHANGED <<records, leaves, sent, owed>>,
         OwedDone', own' \in Nat, own' <= records,
         replies' \in Seq(Nat), \A i \in DOMAIN replies' : replies'[i] <= records
  PROVE  PageInv'
<1>1. HoldsNothing /\ page' # "shown" /\ unread' \in Nat /\ unread' > 0 /\ views' = views
  BY DEF Reload, HoldsNothing, PageInv, PageTyped
<1>2. PageTyped'
  BY <1>1, NothingHeld DEF PageInv, PageTyped
<1>3. NoneAhead'
  BY <1>1 DEF PageInv, NoneAhead
<1>4. Unmounted' /\ WatchedIsShown' /\ OwnRecordsShown'
  BY <1>1 DEF Unmounted, Mounted, HoldsNothing, WatchedIsShown, OwnRecordsShown, OnItsWay
<1> QED BY <1>2, <1>3, <1>4 DEF PageInv

\* The tray and the controls change on a page that stays as it is: what is still owed
\* and was held is held.
LEMMA HeldStep ==
  ASSUME PageInv, UNCHANGED <<records, leaves, page, loads, posts, own>>, OwedDone',
         tray' \in [active : SUBSET Operations, poll : SUBSET Operations, polling : BOOLEAN],
         IsFiniteSet(tray'.active), IsFiniteSet(tray'.poll),
         control' \in [Controls -> [asked : SUBSET Operations, follows : SUBSET Operations]],
         \A c \in Controls : \A o, p \in control'[c].follows : o = p,
         Mounted, owed' \subseteq owed, Held \cap owed' \subseteq Held'
  PROVE  PageInv'
<1>1. PageTyped'
  BY DEF PageInv, PageTyped, loads, posts
<1>2. NoneAhead' /\ Unmounted'
  BY DEF PageInv, NoneAhead, Unmounted, Mounted, loads, posts
<1>3. WatchedIsShown' /\ OwnRecordsShown'
  BY DEF PageInv, WatchedIsShown, OwnRecordsShown, OnItsWay, Mounted, loads
<1> QED BY <1>1, <1>2, <1>3 DEF PageInv

\* Records are added, the page stays as it is.
LEMMA RecordStep ==
  ASSUME PageInv, UNCHANGED <<leaves, page, loads, tray, control, owed, own>>, OwedDone',
         records' \in Nat, records <= records',
         sent' \in Seq(SUBSET Nat), replies' \in Seq(Nat),
         \A i \in DOMAIN replies' : replies'[i] <= records'
  PROVE  PageInv'
<1>1. PageTyped'
  BY DEF PageInv, PageTyped, loads
<1>2. NoneAhead'
  <2>1. /\ records \in Nat /\ own \in Nat /\ \A o \in Operations : leaves[o] \in Nat
        /\ \A i \in DOMAIN views : views[i] \in Nat
    BY DEF PageInv, PageTyped
  <2> QED BY <2>1 DEF PageInv, NoneAhead, loads
<1>3. Unmounted' /\ WatchedIsShown' /\ OwnRecordsShown'
  BY DEF PageInv, Unmounted, WatchedIsShown, OwnRecordsShown, OnItsWay, Mounted, Held,
     Followed, loads
<1> QED BY <1>1, <1>2, <1>3 DEF PageInv

LEMMA OwedDoneStep ==
  ASSUME TypeOK, PageInv, [PageNext]_<<vars, records, leaves, client>> PROVE OwedDone'
<1>1. ASSUME NEW o \in owed, restarts' = restarts PROVE operation'[o].status = "completed"
  <2>1. o \in Operations /\ operation[o].status = "completed" /\ "completed" \in Terminal
    BY DEF PageInv, OwedDone, Terminal
  <2> QED BY <1>1, <2>1, OutcomeStays, PageStepIsStoreStep
<1>2. CASE owed' \subseteq owed /\ restarts' = restarts
  BY <1>1, <1>2 DEF PageInv, OwedDone
<1>3. CASE Open \/ Leave \/ RestartServer
  BY <1>3 DEF Open, Leave, Fresh, RestartServer, OwedDone
<1>4. CASE ReadChain \/ Arrive \/ Navigate \/ PollTray \/ TrayAnswered
  BY <1>2, <1>4 DEF ReadChain, Arrive, Navigate, PollTray, TrayAnswered, vars
<1>5. ASSUME NEW c \in Controls, NEW o \in Operations,
             SeeOutcome(c) \/ StageStarted(c, o) \/ StartStage(c, o)
      PROVE  OwedDone'
  BY <1>2, <1>5 DEF SeeOutcome, StageStarted, StartStage, Start, vars
<1>6. CASE Handle \/ FormAnswered \/ Command \/ \E form \in Forms : Submit(form)
  BY <1>2, <1>6 DEF Handle, FormAnswered, Command, Submit, vars, client
<1>7. ASSUME NEW o \in Operations, Dismiss(o) \/ Elsewhere(o) PROVE OwedDone'
  BY <1>2, <1>7 DEF Dismiss, Elsewhere, Acknowledge, Start, Run, Emit, client
<1>8. ASSUME NEW o \in Operations, FinishOperation(o) PROVE OwedDone'
  <2>1. restarts' = restarts
        /\ \/ owed' \subseteq owed
           \/ owed' = owed \cup {o} /\ operation'[o].status = "completed"
    BY <1>8 DEF FinishOperation, Settle
  <2>2. CASE owed' \subseteq owed
    BY <1>2, <2>1, <2>2
  <2>3. CASE owed' = owed \cup {o} /\ operation'[o].status = "completed"
    BY <1>1, <2>1, <2>3 DEF PageInv, OwedDone
  <2> QED BY <2>1, <2>2, <2>3
<1>9. ASSUME NEW s \in Streams, FollowStream(s) PROVE OwedDone'
  BY <1>2, <1>9 DEF FollowStream, CloseStream, OpenStream, client
<1>10. CASE UNCHANGED <<vars, records, leaves, client>>
  BY <1>2, <1>10 DEF vars, client
<1>11. ASSUME NEW c \in Controls, SeeOutcome(c) PROVE OwedDone'
  BY <1>2, <1>11 DEF SeeOutcome, vars
<1> QED BY <1>3, <1>4, <1>5, <1>6, <1>7, <1>8, <1>9, <1>10, <1>11 DEF PageNext

\* The chain is read: with every record there is.
LEMMA ReadChainStep == ASSUME PageInv, OwedDone', ReadChain PROVE PageInv'
<1>1. /\ unread \in Nat /\ unread > 0 /\ unread' = unread - 1 /\ records \in Nat
      /\ views \in Seq(Nat) /\ views' = Append(views, records)
      /\ UNCHANGED <<vars, records, leaves, page, tray, control, posts, owed, own>>
  BY DEF ReadChain, PageInv, PageTyped
<1>2. /\ views' \in Seq(Nat)
      /\ \A k \in DOMAIN views' : views'[k] = records \/ \E j \in DOMAIN views : views'[k] = views[j]
      /\ \A j \in DOMAIN views : \E k \in DOMAIN views' : views'[k] = views[j]
      /\ \E k \in DOMAIN views' : views'[k] = records
  BY <1>1, AppendIs
<1>3. unread' \in Nat
  BY <1>1
<1>4. PageTyped'
  BY <1>1, <1>2, <1>3 DEF PageInv, PageTyped, posts
<1>5. NoneAhead' /\ Unmounted'
  BY <1>1, <1>2 DEF PageInv, NoneAhead, Unmounted, Mounted, posts
<1>6. ASSUME NEW n \in Nat, n <= records PROVE OnItsWay(n)'
  BY <1>1, <1>2, <1>6 DEF OnItsWay
<1>7. OwnRecordsShown'
  BY <1>1, <1>6 DEF PageInv, PageTyped, NoneAhead, OwnRecordsShown, OnItsWay
<1>8. WatchedIsShown'
  <2> SUFFICES ASSUME NEW o \in owed PROVE OnItsWay(leaves[o])'
    BY <1>1 DEF WatchedIsShown, OnItsWay
  <2>1. leaves[o] \in Nat /\ leaves[o] <= records
    BY DEF PageInv, OwedDone, PageTyped, NoneAhead
  <2> QED BY <1>1, <1>6, <2>1 DEF OnItsWay
<1> QED BY <1>4, <1>5, <1>7, <1>8 DEF PageInv

\* An answer is shown: what it does not have was not only on its way in this one.
LEMMA ArriveStep == ASSUME PageInv, OwedDone', Arrive PROVE PageInv'
<1>1. PICK i \in DOMAIN views :
        /\ views' = RemoveAt(views, i)
        /\ owed' = {o \in owed : leaves[o] > views[i]}
        /\ own' = IF own > views[i] THEN own ELSE 0
  BY DEF Arrive
<1>2. views \in Seq(Nat) /\ views[i] \in Nat /\ page' = "shown"
      /\ UNCHANGED <<records, leaves, unread, tray, control, posts>>
  BY DEF Arrive, PageInv, PageTyped
<1>3. /\ views' \in Seq(Nat)
      /\ \A k \in DOMAIN views' : \E j \in DOMAIN views : views'[k] = views[j]
      /\ \A j \in DOMAIN views : j # i => \E k \in DOMAIN views' : views'[k] = views[j]
  BY <1>1, <1>2, RemoveAtIs
<1>4. PageTyped'
  BY <1>1, <1>2, <1>3 DEF PageInv, PageTyped, posts
<1>5. NoneAhead' /\ Unmounted'
  <2>1. own' <= records
    BY <1>1 DEF PageInv, PageTyped, NoneAhead
  <2> QED BY <1>2, <1>3, <2>1 DEF PageInv, NoneAhead, Unmounted, Mounted, posts
<1>6. ASSUME NEW n \in Nat, OnItsWay(n), n > views[i] PROVE unread > 0 \/ \E k \in DOMAIN views' : views'[k] >= n
  <2>1. CASE unread > 0
    BY <2>1
  <2>2. CASE \E j \in DOMAIN views : views[j] >= n
    <3>1. PICK j \in DOMAIN views : views[j] >= n
      BY <2>2
    <3>2. j # i
      BY <1>2, <1>6, <3>1
    <3> QED BY <1>3, <3>1, <3>2
  <2> QED BY <1>6, <2>1, <2>2 DEF OnItsWay
<1>7. OwnRecordsShown'
  <2>1. own \in Nat /\ (own' > 0 => own' = own /\ own > views[i] /\ own > 0)
    BY <1>1 DEF PageInv, PageTyped
  <2> QED BY <1>2, <1>6, <2>1 DEF PageInv, OwnRecordsShown, OnItsWay
<1>8. WatchedIsShown'
  <2> SUFFICES ASSUME NEW o \in owed, leaves[o] > views[i]
               PROVE  \/ unread > 0 \/ \E k \in DOMAIN views' : views'[k] >= leaves[o]
                      \/ o \in Held
    BY <1>1, <1>2 DEF WatchedIsShown, OnItsWay, Mounted, Held, Followed
  <2>1. leaves[o] \in Nat
    BY DEF PageInv, OwedDone, PageTyped
  <2>2. OnItsWay(leaves[o]) \/ o \in Held
    BY DEF PageInv, WatchedIsShown
  <2> QED BY <1>6, <2>1, <2>2
<1> QED BY <1>4, <1>5, <1>7, <1>8 DEF PageInv

\* What a control is, and what becomes of the controls when one changes.
LEMMA ControlIs ==
  ASSUME PageInv, NEW c \in Controls
  PROVE  /\ control[c] \in [asked : SUBSET Operations, follows : SUBSET Operations]
         /\ \A o, p \in control[c].follows : o = p
BY DEF PageInv, PageTyped

LEMMA ControlChanged ==
  ASSUME PageInv, NEW c \in Controls,
         NEW new \in [asked : SUBSET Operations, follows : SUBSET Operations],
         \A o, p \in new.follows : o = p,
         control' = [control EXCEPT ![c] = new]
  PROVE  /\ control' \in [Controls -> [asked : SUBSET Operations, follows : SUBSET Operations]]
         /\ control'[c] = new
         /\ \A d \in Controls : d # c => control'[d] = control[d]
         /\ \A d \in Controls : \A o, p \in control'[d].follows : o = p
<1>1. /\ control' \in [Controls -> [asked : SUBSET Operations, follows : SUBSET Operations]]
      /\ control'[c] = new
      /\ \A d \in Controls : d # c => control'[d] = control[d]
  BY DEF PageInv, PageTyped
<1>2. ASSUME NEW d \in Controls PROVE \A o, p \in control'[d].follows : o = p
  <2>1. CASE d = c
    BY <1>1, <2>1
  <2>2. CASE d # c
    <3>1. control'[d] = control[d]
      BY <1>1, <2>2
    <3> QED BY <3>1, ControlIs
  <2> QED BY <2>1, <2>2
<1> QED BY <1>1, <1>2

\* An operation is started, and the control waits for the answer.
LEMMA StartStageStep ==
  ASSUME PageInv, OwedDone', NEW c \in Controls, NEW o \in Operations, StartStage(c, o)
  PROVE  PageInv'
<1>1. /\ Mounted /\ control' = [control EXCEPT ![c].asked = @ \cup {o}]
      /\ UNCHANGED <<records, leaves, page, loads, tray, posts, owed, own>>
  BY DEF StartStage
<1>c. PICK new : new = [control[c] EXCEPT !.asked = @ \cup {o}]
  OBVIOUS
<1>2. /\ new \in [asked : SUBSET Operations, follows : SUBSET Operations]
      /\ new.follows = control[c].follows
      /\ control' = [control EXCEPT ![c] = new]
  BY <1>1, <1>c, ControlIs
<1>3. /\ control' \in [Controls -> [asked : SUBSET Operations, follows : SUBSET Operations]]
      /\ control'[c] = new
      /\ \A d \in Controls : d # c => control'[d] = control[d]
      /\ \A d \in Controls : \A p, q \in control'[d].follows : p = q
  <2>1. \A p, q \in new.follows : p = q
    BY <1>2, ControlIs
  <2> QED BY <1>2, <2>1, ControlChanged
<1>4. Held' = Held
  <2>1. \A d \in Controls : control'[d].follows = control[d].follows
    BY <1>2, <1>3
  <2> QED BY <1>1, <2>1 DEF Held, Followed
<1> QED BY <1>1, <1>3, <1>4, HeldStep DEF PageInv, PageTyped

\* The control follows what it started; what it followed is not owed any more,
\* unless the tray or another control holds it.
LEMMA StageStartedStep ==
  ASSUME PageInv, OwedDone', NEW c \in Controls, NEW o \in Operations, StageStarted(c, o)
  PROVE  PageInv'
<1>1. /\ o \in control[c].asked
      /\ control' = [control EXCEPT ![c] = [asked |-> @.asked \ {o}, follows |-> {o}]]
      /\ owed' = owed \ (control[c].follows \ (tray.active \cup Followed(Controls \ {c})))
      /\ UNCHANGED <<records, leaves, page, loads, tray, posts, own>>
  BY DEF StageStarted
<1>2. Mounted
  <2>1. CASE ~Mounted
    <3>1. control[c] = Idle
      BY <2>1 DEF PageInv, Unmounted
    <3> QED BY <1>1, <3>1 DEF Idle
  <2> QED BY <2>1
<1>c. PICK new : new = [asked |-> control[c].asked \ {o}, follows |-> {o}]
  OBVIOUS
<1>n. new \in [asked : SUBSET Operations, follows : SUBSET Operations] /\ new.follows = {o}
      /\ control' = [control EXCEPT ![c] = new]
  BY <1>1, <1>c, ControlIs
<1>3. /\ control' \in [Controls -> [asked : SUBSET Operations, follows : SUBSET Operations]]
      /\ control'[c].follows = {o}
      /\ \A d \in Controls : d # c => control'[d] = control[d]
      /\ \A d \in Controls : \A p, q \in control'[d].follows : p = q
  BY <1>n, ControlChanged
<1>4. Held \cap owed' \subseteq Held'
  <2> SUFFICES ASSUME NEW p \in Held, p \in owed', p \notin tray.active
               PROVE  \E d \in Controls : p \in control'[d].follows
    BY <1>1 DEF Held, Followed
  <2>1. PICK d \in Controls : p \in control[d].follows
    BY DEF Held, Followed
  <2>2. CASE d # c
    BY <1>3, <2>1, <2>2
  <2>3. CASE d = c
    <3>1. p \in Followed(Controls \ {c})
      BY <1>1, <2>1, <2>3
    <3>2. PICK e \in Controls \ {c} : p \in control[e].follows
      BY <3>1 DEF Followed
    <3> QED BY <1>3, <3>2
  <2> QED BY <2>2, <2>3
<1> QED BY <1>1, <1>2, <1>3, <1>4, HeldStep DEF PageInv, PageTyped

\* A completion reloads the page; a failure is none of what is owed.
LEMMA SeeOutcomeStep ==
  ASSUME PageInv, OwedDone', NEW c \in Controls, SeeOutcome(c) PROVE PageInv'
<1>1. PICK o \in control[c].follows :
        \/ operation[o].status = "completed" /\ Reload(1)
        \/ /\ operation[o].status = "failed"
           /\ control' = [control EXCEPT ![c].follows = {}]
           /\ UNCHANGED <<page, loads, tray>>
  BY DEF SeeOutcome
<1>2. UNCHANGED <<records, leaves, posts, owed, own>>
  BY DEF SeeOutcome
<1>3. CASE Reload(1)
  <2>1. own \in Nat /\ own <= records /\ replies \in Seq(Nat)
        /\ \A i \in DOMAIN replies : replies[i] <= records
    BY DEF PageInv, PageTyped, NoneAhead
  <2> QED BY <1>2, <1>3, <2>1, ReloadSound DEF posts
<1>4. CASE /\ operation[o].status = "failed"
           /\ control' = [control EXCEPT ![c].follows = {}]
           /\ UNCHANGED <<page, loads, tray>>
  <2>1. Mounted
    <3>1. CASE ~Mounted
      <4>1. control[c] = Idle
        BY <3>1 DEF PageInv, Unmounted
      <4> QED BY <4>1 DEF Idle
    <3> QED BY <3>1
  <2>n. PICK new : new = [control[c] EXCEPT !.follows = {}]
    OBVIOUS
  <2>c. new \in [asked : SUBSET Operations, follows : SUBSET Operations] /\ new.follows = {}
        /\ control' = [control EXCEPT ![c] = new]
    BY <1>4, <2>n, ControlIs
  <2>2. /\ control' \in [Controls -> [asked : SUBSET Operations, follows : SUBSET Operations]]
        /\ control'[c].follows = {}
        /\ \A d \in Controls : d # c => control'[d] = control[d]
        /\ \A d \in Controls : \A p, q \in control'[d].follows : p = q
    <3>1. \A p, q \in new.follows : p = q
      BY <2>c
    <3>2. /\ control' \in [Controls -> [asked : SUBSET Operations, follows : SUBSET Operations]]
          /\ control'[c] = new
          /\ \A d \in Controls : d # c => control'[d] = control[d]
          /\ \A d \in Controls : \A p, q \in control'[d].follows : p = q
      BY <2>c, <3>1, ControlChanged
    <3> QED BY <2>c, <3>2
  <2>3. o \notin owed /\ \A p \in control[c].follows : p = o
    BY <1>4 DEF PageInv, OwedDone, PageTyped
  <2>4. Held \cap owed' \subseteq Held'
    <3> SUFFICES ASSUME NEW p \in Held, p \in owed, p \notin tray.active
                 PROVE  \E d \in Controls : p \in control'[d].follows
      BY <1>2, <1>4 DEF Held, Followed
    <3>1. PICK d \in Controls : p \in control[d].follows
      BY DEF Held, Followed
    <3> QED BY <2>2, <2>3, <3>1
  <2> QED BY <1>2, <1>4, <2>1, <2>2, <2>4, HeldStep DEF PageInv, PageTyped
<1> QED BY <1>1, <1>3, <1>4

\* The control of the next step stays, and so does what it follows.
LEMMA NavigateStep == ASSUME PageInv, OwedDone', Navigate PROVE PageInv'
<1>1. /\ Mounted
      /\ control' = [c \in Controls |-> IF c = NextStep THEN control[c] ELSE Idle]
      /\ owed' = owed \ (Followed(Controls \ {NextStep})
                             \ (tray.active \cup Followed({NextStep})))
      /\ UNCHANGED <<records, leaves, page, loads, tray, posts, own>>
  BY DEF Navigate
<1>2. {} \in SUBSET Operations
  OBVIOUS
<1>3. control' \in [Controls -> [asked : SUBSET Operations, follows : SUBSET Operations]]
  BY <1>1, <1>2 DEF PageInv, PageTyped, Idle
<1>4. \A d \in Controls : control'[d].follows = IF d = NextStep THEN control[d].follows ELSE {}
  BY <1>1 DEF Idle
<1>5. Held \cap owed' \subseteq Held'
  <2> SUFFICES ASSUME NEW p \in Held, p \in owed', p \notin tray.active
               PROVE  \E d \in Controls : p \in control'[d].follows
    BY <1>1 DEF Held, Followed
  <2>1. PICK d \in Controls : p \in control[d].follows
    BY DEF Held, Followed
  <2>2. CASE d = NextStep
    BY <1>4, <2>1, <2>2
  <2>3. CASE d # NextStep
    <3>1. p \in Followed({NextStep})
      BY <1>1, <2>1, <2>3 DEF Followed
    <3>2. p \in control[NextStep].follows
      BY <3>1 DEF Followed
    <3> QED BY <1>4, <3>2, NextStepAssumption
  <2> QED BY <2>2, <2>3
<1>6. \A d \in Controls : \A p, q \in control'[d].follows : p = q
  BY <1>4 DEF PageInv, PageTyped
<1> QED BY <1>1, <1>3, <1>5, <1>6, HeldStep DEF PageInv, PageTyped

LEMMA PollTrayStep ==
  ASSUME PageInv, TypeOK, FiniteWork, OwedDone', PollTray PROVE PageInv'
<1>1. /\ Mounted /\ tray' = [tray EXCEPT !.polling = TRUE, !.poll = ListRecent \cap Active]
      /\ UNCHANGED <<records, leaves, page, loads, control, posts, owed, own>>
  BY DEF PollTray
<1>p. PICK polled : polled = ListRecent \cap Active
  OBVIOUS
<1>2. polled \subseteq Operations /\ IsFiniteSet(polled)
  <2>1. polled \subseteq EverStarted /\ EverStarted \subseteq Operations
    BY <1>p DEF Active, EverStarted
  <2> QED BY <2>1, FS_Subset DEF FiniteWork
<1>3. tray \in [active : SUBSET Operations, poll : SUBSET Operations, polling : BOOLEAN]
      /\ IsFiniteSet(tray.active)
  BY DEF PageInv, PageTyped
<1>4. tray' = [tray EXCEPT !.polling = TRUE, !.poll = polled]
  BY <1>1, <1>p
<1>5. /\ tray' \in [active : SUBSET Operations, poll : SUBSET Operations, polling : BOOLEAN]
      /\ tray'.active = tray.active /\ tray'.poll = polled
  BY <1>2, <1>3, <1>4
<1>6. Held' = Held
  BY <1>1, <1>5 DEF Held, Followed
<1>7. /\ control' \in [Controls -> [asked : SUBSET Operations, follows : SUBSET Operations]]
      /\ \A d \in Controls : \A p, q \in control'[d].follows : p = q
  BY <1>1 DEF PageInv, PageTyped
<1>8. IsFiniteSet(tray'.active) /\ IsFiniteSet(tray'.poll)
  BY <1>2, <1>3, <1>5
<1> QED BY <1>1, <1>5, <1>6, <1>7, <1>8, HeldStep

\* Nothing that the tray held is let go without a reload.
LEMMA TrayAnsweredStep == ASSUME PageInv, OwedDone', TrayAnswered PROVE PageInv'
<1>g. PICK gone : gone = tray.active \ tray.poll
  OBVIOUS
<1>1. /\ tray.polling /\ UNCHANGED <<records, leaves, posts, owed, own>>
      /\ gone # {} => Reload(Cardinality(gone))
      /\ gone = {} => /\ tray' = [active |-> tray.poll, poll |-> {}, polling |-> FALSE]
                      /\ UNCHANGED <<page, loads, control>>
  BY <1>g DEF TrayAnswered, Gone
<1>2. /\ tray \in [active : SUBSET Operations, poll : SUBSET Operations, polling : BOOLEAN]
      /\ IsFiniteSet(tray.active) /\ IsFiniteSet(tray.poll)
  BY DEF PageInv, PageTyped
<1>3. Mounted
  <2>1. CASE ~Mounted
    <3>1. tray = EmptyTray
      BY <2>1 DEF PageInv, Unmounted
    <3> QED BY <1>1, <3>1 DEF EmptyTray
  <2> QED BY <2>1
<1>4. CASE gone # {}
  <2>1. IsFiniteSet(gone)
    BY <1>g, <1>2, FS_Subset
  <2>2. Cardinality(gone) \in Nat /\ Cardinality(gone) # 0
    BY <1>4, <2>1, FS_CardinalityType, FS_EmptySet
  <2>3. own \in Nat /\ own <= records /\ replies \in Seq(Nat)
        /\ \A i \in DOMAIN replies : replies[i] <= records
    BY DEF PageInv, PageTyped, NoneAhead
  <2>4. PICK n \in Nat : n = Cardinality(gone) /\ n > 0
    BY <2>2
  <2> QED BY <1>1, <1>4, <2>3, <2>4, ReloadSound DEF posts
<1>5. CASE gone = {}
  <2>1. /\ tray' = [active |-> tray.poll, poll |-> {}, polling |-> FALSE]
        /\ UNCHANGED <<page, loads, control>>
    BY <1>1, <1>5
  <2>2. {} \in SUBSET Operations /\ FALSE \in BOOLEAN /\ IsFiniteSet({})
    BY FS_EmptySet
  <2>3. /\ tray' \in [active : SUBSET Operations, poll : SUBSET Operations, polling : BOOLEAN]
        /\ tray'.active = tray.poll /\ tray'.poll = {}
    BY <1>2, <2>1, <2>2
  <2>4. Held \subseteq Held'
    BY <1>g, <1>5, <2>1, <2>3 DEF Held, Followed
  <2>5. /\ control' \in [Controls -> [asked : SUBSET Operations, follows : SUBSET Operations]]
        /\ \A d \in Controls : \A p, q \in control'[d].follows : p = q
    BY <2>1 DEF PageInv, PageTyped
  <2>6. IsFiniteSet(tray'.active) /\ IsFiniteSet(tray'.poll)
    BY <1>2, <2>2, <2>3
  <2> QED BY <1>1, <1>3, <2>1, <2>3, <2>4, <2>5, <2>6, HeldStep
<1> QED BY <1>4, <1>5

\* A form asks for records, one is added, or a command of another process adds some.
LEMMA SubmitStep ==
  ASSUME PageInv, OwedDone', NEW form \in Forms, Submit(form) PROVE PageInv'
<1>1. form \in SUBSET Nat
  BY DEF Forms, DecisionForm, FieldReportForm, AnswerForm, WorkOrderButton
<1>2. sent' \in Seq(SUBSET Nat)
  BY <1>1, AppendIs DEF Submit, PageInv, PageTyped
<1>3. records \in Nat /\ records <= records /\ replies \in Seq(Nat)
      /\ \A i \in DOMAIN replies : replies[i] <= records
  BY DEF PageInv, PageTyped, NoneAhead
<1>4. UNCHANGED <<records, leaves, page, loads, tray, control, replies, owed, own>>
  BY DEF Submit
<1> QED BY <1>2, <1>3, <1>4, RecordStep

LEMMA HandleStep == ASSUME PageInv, OwedDone', Handle PROVE PageInv'
<1>1. PICK i \in DOMAIN sent :
        /\ sent' = RemoveAt(sent, i)
        /\ \/ /\ \E n \in sent[i] : records' = records + n
              /\ replies' = Append(replies, records')
           \/ UNCHANGED <<records, replies>>
  BY DEF Handle
<1>2. UNCHANGED <<leaves, page, loads, tray, control, owed, own>>
  BY DEF Handle
<1>3. /\ records \in Nat /\ sent \in Seq(SUBSET Nat) /\ sent[i] \in SUBSET Nat
      /\ replies \in Seq(Nat) /\ \A k \in DOMAIN replies : replies[k] \in Nat /\ replies[k] <= records
  BY DEF PageInv, PageTyped, NoneAhead
<1>4. sent' \in Seq(SUBSET Nat)
  BY <1>1, <1>3, RemoveAtIs
<1>5. CASE /\ \E n \in sent[i] : records' = records + n
           /\ replies' = Append(replies, records')
  <2>1. records' \in Nat /\ records <= records'
    BY <1>3, <1>5
  <2>2. /\ replies' \in Seq(Nat)
        /\ \A k \in DOMAIN replies' :
             replies'[k] = records' \/ \E j \in DOMAIN replies : replies'[k] = replies[j]
    BY <1>3, <1>5, <2>1, AppendIs
  <2>3. records' <= records' /\ \A j \in DOMAIN replies : replies[j] <= records'
    BY <1>3, <2>1
  <2>4. \A k \in DOMAIN replies' : replies'[k] <= records'
    BY <2>2, <2>3
  <2> QED BY <1>2, <1>4, <2>1, <2>2, <2>4, RecordStep
<1>6. CASE UNCHANGED <<records, replies>>
  BY <1>2, <1>3, <1>4, <1>6, RecordStep
<1> QED BY <1>1, <1>5, <1>6

LEMMA CommandStep == ASSUME PageInv, OwedDone', Command PROVE PageInv'
<1>1. PICK n \in {Adds(command) : command \in DecisionCommands \cup StageCommands \cup BuildCommands} :
        records' = records + n
  BY DEF Command
<1>2. n \in Nat
  <2>1. PICK command : n = Adds(command)
    BY <1>1
  <2> QED BY <1>1, <2>1 DEF Adds, DecisionCommands, StageCommands, BuildCommands
<1>3. UNCHANGED <<leaves, page, loads, tray, control, posts, owed, own>>
  BY DEF Command, client
<1>4. /\ records \in Nat /\ sent \in Seq(SUBSET Nat)
      /\ replies \in Seq(Nat) /\ \A k \in DOMAIN replies : replies[k] \in Nat /\ replies[k] <= records
  BY DEF PageInv, PageTyped, NoneAhead
<1>5. records' \in Nat /\ records <= records'
      /\ \A k \in DOMAIN replies : replies[k] <= records'
  BY <1>1, <1>2, <1>4
<1> QED BY <1>3, <1>4, <1>5, RecordStep DEF posts

\* What happens outside the page.
LEMMA OutsideStep ==
  ASSUME PageInv, OwedDone', UNCHANGED <<records, leaves, client>> PROVE PageInv'
<1>1. /\ records \in Nat /\ records <= records /\ sent \in Seq(SUBSET Nat) /\ replies \in Seq(Nat)
      /\ \A k \in DOMAIN replies : replies[k] <= records
  BY DEF PageInv, PageTyped, NoneAhead
<1>2. UNCHANGED <<records, leaves, page, loads, tray, control, sent, replies, owed, own>>
  BY DEF client, posts
<1> QED BY <1>1, <1>2, RecordStep

LEMMA FormAnsweredStep == ASSUME PageInv, OwedDone', FormAnswered PROVE PageInv'
<1>1. PICK i \in DOMAIN replies :
        /\ replies' = RemoveAt(replies, i)
        /\ own' = IF replies[i] > own THEN replies[i] ELSE own
  BY DEF FormAnswered
<1>2. Reload(1) /\ UNCHANGED <<records, leaves, sent, owed>>
  BY DEF FormAnswered, Reloads
<1>3. /\ own \in Nat /\ own <= records /\ replies \in Seq(Nat) /\ replies[i] \in Nat
      /\ \A k \in DOMAIN replies : replies[k] <= records
  BY DEF PageInv, PageTyped, NoneAhead
<1>4. /\ replies' \in Seq(Nat)
      /\ \A k \in DOMAIN replies' : \E j \in DOMAIN replies : replies'[k] = replies[j]
  BY <1>1, <1>3, RemoveAtIs
<1>5. own' \in Nat /\ own' <= records /\ \A k \in DOMAIN replies' : replies'[k] <= records
  BY <1>1, <1>3, <1>4
<1> QED BY <1>2, <1>4, <1>5, ReloadSound

\* A completed operation leaves its record; when the page holds it or is about to read
\* the chain, it is owed.
LEMMA FinishOperationStep ==
  ASSUME PageInv, OwedDone', NEW o \in Operations, FinishOperation(o) PROVE PageInv'
<1>1. /\ operation[o].status = "running"
      /\ UNCHANGED <<page, loads, tray, control, posts, own>>
      /\ \/ /\ records' = records + 1
            /\ leaves' = [leaves EXCEPT ![o] = records']
            /\ owed' = IF o \in Held \/ unread > 0 THEN owed \cup {o} ELSE owed
         \/ UNCHANGED <<records, leaves, owed>>
  BY DEF FinishOperation, Settle
<1>2. /\ records \in Nat /\ own \in Nat /\ own <= records
      /\ \A p \in Operations : leaves[p] \in Nat /\ leaves[p] <= records
      /\ \A i \in DOMAIN views : views[i] \in Nat /\ views[i] <= records
      /\ \A i \in DOMAIN replies : replies[i] \in Nat /\ replies[i] <= records
  BY DEF PageInv, PageTyped, NoneAhead
<1>3. CASE UNCHANGED <<records, leaves, owed>>
  BY <1>1, <1>2, <1>3, OutsideStep DEF client
<1>4. CASE /\ records' = records + 1
           /\ leaves' = [leaves EXCEPT ![o] = records']
           /\ owed' = IF o \in Held \/ unread > 0 THEN owed \cup {o} ELSE owed
  <2>1. records' \in Nat /\ records <= records' /\ records' <= records'
    BY <1>2, <1>4
  <2>2. /\ leaves' \in [Operations -> Nat] /\ leaves'[o] = records'
        /\ \A p \in Operations : p # o => leaves'[p] = leaves[p]
    BY <1>4, <2>1 DEF PageInv, PageTyped
  <2>3. PageTyped'
    BY <1>1, <2>1, <2>2 DEF PageInv, PageTyped, loads, posts
  <2>4. NoneAhead'
    <3>1. \A p \in Operations : leaves'[p] <= records'
      <4> SUFFICES ASSUME NEW p \in Operations PROVE leaves'[p] <= records'
        OBVIOUS
      <4>1. CASE p = o
        BY <2>1, <2>2, <4>1
      <4>2. CASE p # o
        BY <1>2, <2>1, <2>2, <4>2
      <4> QED BY <4>1, <4>2
    <3>2. own <= records' /\ (\A i \in DOMAIN views : views[i] <= records')
          /\ (\A i \in DOMAIN replies : replies[i] <= records')
      BY <1>2, <2>1
    <3> QED BY <1>1, <3>1, <3>2 DEF NoneAhead, loads, posts
  <2>5. Unmounted' /\ OwnRecordsShown'
    BY <1>1 DEF PageInv, Unmounted, Mounted, OwnRecordsShown, OnItsWay, loads, posts
  <2>6. WatchedIsShown'
    <3>1. Held' = Held /\ Mounted' = Mounted
      BY <1>1 DEF Held, Followed, Mounted
    <3>2. o \notin owed
      BY <1>1 DEF PageInv, OwedDone
    <3>3. ASSUME NEW p \in owed PROVE OnItsWay(leaves[p])' \/ (Mounted' /\ p \in Held')
      <4>1. leaves'[p] = leaves[p]
        BY <2>2, <3>2 DEF PageInv, OwedDone
      <4> QED BY <1>1, <3>1, <4>1 DEF PageInv, WatchedIsShown, OnItsWay, loads
    <3>4. o \in Held => Mounted
      <4>1. CASE ~Mounted
        BY <4>1 DEF PageInv, Unmounted, Held, Followed, EmptyTray, Idle
      <4> QED BY <4>1
    <3>5. ASSUME o \in Held \/ unread > 0 PROVE OnItsWay(leaves[o])' \/ (Mounted' /\ o \in Held')
      BY <1>1, <3>1, <3>4, <3>5 DEF OnItsWay, loads
    <3> QED BY <1>4, <3>3, <3>5 DEF WatchedIsShown
  <2> QED BY <2>3, <2>4, <2>5, <2>6 DEF PageInv
<1> QED BY <1>1, <1>3, <1>4

\* After a restart of the server nothing is owed.
LEMMA RestartServerStep == ASSUME PageInv, OwedDone', RestartServer PROVE PageInv'
<1>1. /\ sent' = <<>> /\ replies' = <<>> /\ owed' = {} /\ own' = 0
      /\ UNCHANGED <<records, leaves>>
  BY DEF RestartServer
<1>2. <<>> \in Seq(Nat) /\ <<>> \in Seq(SUBSET Nat) /\ DOMAIN <<>> = {}
  OBVIOUS
<1>3. records \in Nat /\ 0 <= records
  BY DEF PageInv, PageTyped
<1>4. WatchedIsShown' /\ OwnRecordsShown'
  BY <1>1 DEF WatchedIsShown, OwnRecordsShown
<1>5. CASE page' = "failed" /\ unread' = 0 /\ views' = <<>> /\ HoldsNothing
  <2>1. PageTyped'
    BY <1>1, <1>2, <1>5, NothingHeld DEF PageInv, PageTyped
  <2>2. NoneAhead' /\ Unmounted'
    BY <1>1, <1>2, <1>3, <1>5 DEF PageInv, NoneAhead, Unmounted, HoldsNothing
  <2> QED BY <1>4, <2>1, <2>2 DEF PageInv
<1>6. CASE /\ tray' = [tray EXCEPT !.poll = {}, !.polling = FALSE]
           /\ control' = [c \in Controls |-> [control[c] EXCEPT !.asked = {}]]
           /\ UNCHANGED <<page, loads>>
  <2>1. {} \in SUBSET Operations /\ FALSE \in BOOLEAN /\ IsFiniteSet({})
    BY FS_EmptySet
  <2>2. tray \in [active : SUBSET Operations, poll : SUBSET Operations, polling : BOOLEAN]
        /\ IsFiniteSet(tray.active)
    BY DEF PageInv, PageTyped
  <2>3. /\ tray' \in [active : SUBSET Operations, poll : SUBSET Operations, polling : BOOLEAN]
        /\ tray'.active = tray.active /\ tray'.poll = {}
    BY <1>6, <2>1, <2>2
  <2>4. \A c \in Controls :
          /\ [control[c] EXCEPT !.asked = {}]
               \in [asked : SUBSET Operations, follows : SUBSET Operations]
          /\ [control[c] EXCEPT !.asked = {}].follows = control[c].follows
    BY <2>1, ControlIs
  <2>5. /\ control' \in [Controls -> [asked : SUBSET Operations, follows : SUBSET Operations]]
        /\ \A c \in Controls : control'[c].follows = control[c].follows
    BY <1>6, <2>4
  <2>6. \A c \in Controls : \A o, p \in control'[c].follows : o = p
    BY <2>5, ControlIs
  <2>7. PageTyped'
    BY <1>1, <1>2, <1>6, <2>1, <2>2, <2>3, <2>5, <2>6 DEF PageInv, PageTyped, loads
  <2>8. NoneAhead'
    BY <1>1, <1>2, <1>3, <1>6 DEF PageInv, NoneAhead, loads
  <2>9. Unmounted'
    <3> SUFFICES ASSUME ~Mounted PROVE tray' = EmptyTray /\ control' = [c \in Controls |-> Idle]
      BY <1>6 DEF Unmounted, Mounted
    <3>1. tray = EmptyTray /\ control = [c \in Controls |-> Idle]
      BY DEF PageInv, Unmounted
    <3>2. tray.poll = {} /\ tray.polling = FALSE
      BY <3>1 DEF EmptyTray
    <3>3. [tray EXCEPT !.poll = {}, !.polling = FALSE] = tray
      BY <2>2, <3>2
    <3>4. [Idle EXCEPT !.asked = {}] = Idle
      BY DEF Idle
    <3>5. \A c \in Controls : [control[c] EXCEPT !.asked = {}] = Idle
      BY <3>1, <3>4
    <3> QED BY <1>6, <3>1, <3>3, <3>5
  <2> QED BY <1>4, <2>7, <2>8, <2>9 DEF PageInv
<1> QED BY <1>5, <1>6 DEF RestartServer, HoldsNothing

LEMMA PageStepSound ==
  TypeOK /\ FiniteWork /\ PageInv /\ [PageNext]_<<vars, records, leaves, client>> => PageInv'
<1> SUFFICES ASSUME TypeOK, FiniteWork, PageInv, [PageNext]_<<vars, records, leaves, client>>
             PROVE  PageInv'
  OBVIOUS
<1>o. OwedDone'
  BY OwedDoneStep
<1>1. CASE Open \/ Leave
  BY <1>1, FreshSound DEF Open, Leave
<1>2. CASE ReadChain
  BY <1>2, <1>o, ReadChainStep
<1>3. CASE Arrive
  BY <1>3, <1>o, ArriveStep
<1>4. CASE Navigate
  BY <1>4, <1>o, NavigateStep
<1>5. ASSUME NEW c \in Controls, NEW o \in Operations, StartStage(c, o) PROVE PageInv'
  BY <1>5, <1>o, StartStageStep
<1>6. ASSUME NEW c \in Controls, NEW o \in Operations, StageStarted(c, o) PROVE PageInv'
  BY <1>6, <1>o, StageStartedStep
<1>7. ASSUME NEW c \in Controls, SeeOutcome(c) PROVE PageInv'
  BY <1>7, <1>o, SeeOutcomeStep
<1>8. CASE PollTray
  BY <1>8, <1>o, PollTrayStep
<1>9. CASE TrayAnswered
  BY <1>9, <1>o, TrayAnsweredStep
<1>10. ASSUME NEW form \in Forms, Submit(form) PROVE PageInv'
  BY <1>10, <1>o, SubmitStep
<1>11. CASE Handle
  BY <1>11, <1>o, HandleStep
<1>12. CASE FormAnswered
  BY <1>12, <1>o, FormAnsweredStep
<1>13. ASSUME NEW o \in Operations, Dismiss(o) \/ Elsewhere(o) PROVE PageInv'
  BY <1>13, <1>o, OutsideStep DEF Dismiss, Elsewhere
<1>14. ASSUME NEW o \in Operations, FinishOperation(o) PROVE PageInv'
  BY <1>14, <1>o, FinishOperationStep
<1>15. ASSUME NEW s \in Streams, FollowStream(s) PROVE PageInv'
  BY <1>15, <1>o, OutsideStep DEF FollowStream
<1>16. CASE Command
  BY <1>16, <1>o, CommandStep
<1>17. CASE RestartServer
  BY <1>17, <1>o, RestartServerStep
<1>18. CASE UNCHANGED <<vars, records, leaves, client>>
  BY <1>18, <1>o, OutsideStep
<1> QED BY <1>1, <1>2, <1>3, <1>4, <1>5, <1>6, <1>7, <1>8, <1>9, <1>10, <1>11, <1>12,
           <1>13, <1>14, <1>15, <1>16, <1>17, <1>18 DEF PageNext

\* The invariant of the page: what it is owed has completed, what it shows is of records
\* that are there, and a page that is not mounted holds nothing.
THEOREM PageSound == PageSpec => []PageInv
<1>1. Spec => []FiniteWork
  BY WorkIsFinite
<1>2. PageSpec => []TypeOK /\ []FiniteWork
  BY <1>1, PageIsOfTheStore, OperationsTyped, PTL
<1> QED BY <1>2, PageInitSound, PageStepSound, PTL DEF PageSpec

\* An operation that completed while the tray or a control held it, or while a load was
\* still to read the chain, gets shown, however loads overlap and whatever reloads throw
\* away (OperationsTray, StageRunControl, useResource).
THEOREM WatchedGetsShown == PageSpec => []WatchedIsShown
<1>1. PageInv => WatchedIsShown
  BY DEF PageInv
<1> QED BY <1>1, PageSound, PTL

\* A record that a form was told of has been shown or is on its way, also when the form
\* is gone by then (useResource, FoundryProjectPage).
THEOREM OwnRecordsGetShown == PageSpec => []OwnRecordsShown
<1>1. PageInv => OwnRecordsShown
  BY DEF PageInv
<1> QED BY <1>1, PageSound, PTL

-----------------------------------------------------------------------------
\* The fields of a run.
Shaped(r) ==
  /\ r = [phase |-> r.phase, agent |-> r.agent, evidence |-> r.evidence,
          todo |-> r.todo, room |-> r.room, sound |-> r.sound, over |-> r.over,
          result |-> r.result]
  /\ r.evidence = [selected |-> r.evidence.selected, items |-> r.evidence.items,
                   check |-> r.evidence.check]
  /\ r.agent \in Agents

Reading == Inspecting \cup {"documentation-auditor"}
Unsaved == {"requested", "preparing", "reading", "asking", "saving", "thrown"}

\* Where a run is, what its operation shows and what is on disk go together.
RunSound(status, r, artifact) ==
  /\ Shaped(r)
  /\ status = "absent" => r.phase = "none" /\ artifact.failure = "absent"
  /\ status = "completed" => r.phase = "saved"
  /\ status = "failed" => r.phase = "thrown"
  /\ r.phase \in Unsaved => artifact.failure = "absent"
  /\ r.phase = "saved" => artifact.failure # "absent"
  /\ r.phase = "asking" /\ r.agent \in Reading => r.evidence.items # <<>>
  /\ r.phase = "saving" => r.result.failure # "absent"
  /\ r.phase = "saving" /\ r.result.failure = "none" => Supported(Artifact(r))
  /\ artifact.failure = "none" => Supported(artifact)

RunInv ==
  /\ run = [o \in Operations |-> run[o]]
  /\ disk = [o \in Operations |-> disk[o]]
  /\ \A o \in Operations : RunSound(operation[o].status, run[o], disk[o])

-----------------------------------------------------------------------------
\* What is resolved was numbered.
LEMMA ResolvedIsGiven ==
  \A numbers, items : Resolved(numbers, items) \subseteq ToSet(items)
BY DEF Resolved, ToSet

\* An answer that passes shows only evidence that its model was given.
LEMMA PassesIsSupported ==
  ASSUME NEW agent \in Agents, NEW evidence, NEW answer, NEW allowed,
         Passes(agent, evidence, answer, allowed)
  PROVE  /\ Shown(agent, evidence, answer) \subseteq Given(agent, evidence)
         /\ agent \in {"playwright-failure-triage", "council-advocate"}
              => Shown(agent, evidence, answer) # {}
<1>1. CASE agent = "change-risk-reviewer"
  BY <1>1 DEF ShownFindings, Passes, RunChangeRiskReview, ReviewGrounded, Available, Shown, Given, Citing,
              Inspecting
<1>2. CASE agent = "documentation-auditor"
  BY <1>2 DEF ShownFindings, Passes, RunDocumentationAudit, AuditGrounded, Available, Shown, Given, Citing,
              Inspecting
<1>3. CASE agent = "repository-assistant"
  BY <1>3 DEF ShownFindings, Passes, ReviewRepositoryAnalysis, AnalysisGrounded, Available, Shown, Given,
              Citing, Inspecting
<1>4. CASE agent = "playwright-failure-triage"
  <2>1. Answered(answer) /\ TriageGrounded(evidence, answer)
    BY <1>4 DEF Passes, RunPlaywrightFailureTriage
  <2>2. Shown(agent, evidence, answer) = Cited(answer)
    BY <1>4, <2>1 DEF ShownFindings, Shown, Citing, Answered
  <2> QED BY <1>4, <2>1, <2>2 DEF TriageGrounded, Available, Given
<1>5. CASE agent \in Dossiers
  BY <1>5, ResolvedIsGiven DEF ShownFlags, Dossiers, Shown, Given, Citing, Inspecting
<1>6. CASE agent = "council-judge"
  BY <1>6, ResolvedIsGiven DEF ShownRuling, Shown, Given, Citing, Inspecting, Dossiers
<1>7. CASE agent = "council-advocate"
  <2>1. Answered(answer) /\ KeptPoints(evidence, answer) # {}
    BY <1>7 DEF Passes, RunCouncilAdvocate, Dossiers
  <2>2. Shown(agent, evidence, answer)
          = Resolved(UNION KeptPoints(evidence, answer), evidence.items)
    BY <1>7, <2>1 DEF ShownArgument, Shown, Citing, Inspecting, Answered
  <2>3. PICK i \in UNION KeptPoints(evidence, answer) : i \in DOMAIN evidence.items
    BY <2>1 DEF KeptPoints
  <2>4. evidence.items[i] \in Shown(agent, evidence, answer)
    BY <2>2, <2>3 DEF Resolved
  <2> QED BY <1>7, <2>2, <2>4, ResolvedIsGiven DEF Given
<1>8. CASE agent = "tool-builder"
  BY <1>8 DEF Shown, Citing, Inspecting, Dossiers
<1> QED BY <1>1, <1>2, <1>3, <1>4, <1>5, <1>6, <1>7, <1>8
        DEF Agents, Citing, Inspecting, Council

-----------------------------------------------------------------------------
LEMMA RunOfIs ==
  ASSUME NEW agent \in Agents, NEW phase, NEW selected, NEW items, NEW check, NEW result
  PROVE  LET r == RunOf(agent, phase,
                        [selected |-> selected, items |-> items, check |-> check], result) IN
         /\ Shaped(r) /\ r.agent = agent /\ r.phase = phase /\ r.result = result
         /\ r.evidence = [selected |-> selected, items |-> items, check |-> check]
BY DEF RunOf, Shaped

LEMMA EndedIs ==
  ASSUME NEW o \in Operations, Shaped(run[o]), NEW failure, NEW shown
  PROVE  LET r == Ended(o, failure, shown) IN
         /\ Shaped(r) /\ r.phase = "saving"
         /\ r.agent = run[o].agent /\ r.evidence = run[o].evidence
         /\ r.result = [failure |-> failure, shown |-> shown]
BY RunOfIs DEF Ended, Shaped

\* What a step of the store does to the status of operations.
LEMMA StatusStep ==
  ASSUME IInv, NEW o \in Operations
  PROVE  /\ operation \in [Operations -> Operation]
         /\ Start(o) => /\ operation[o].status = "absent"
                        /\ operation'[o].status = "queued"
         /\ Run(o) => /\ operation[o].status = "queued"
                      /\ operation'[o].status = "running"
         /\ Emit(o) => /\ operation[o].status = "running"
                       /\ operation'[o].status = "running"
         /\ Acknowledge(o) => operation'[o].status = operation[o].status
         /\ Start(o) \/ Run(o) \/ Emit(o) \/ Acknowledge(o) =>
              \A p \in Operations : p # o => operation'[p] = operation[p]
<1>1. operation \in [Operations -> Operation] /\ operation[o] \in Operation /\ TypeOK
  BY DEF IInv, TypeOK
<1>2. \A status \in Statuses, stage \in Stages : Emitted(o, status, stage).status = status
  BY <1>1, EmittedIs
<1>3. [operation[o] EXCEPT !.acknowledged = TRUE].status = operation[o].status
  BY <1>1 DEF Operation
<1> QED BY <1>1, <1>2, <1>3 DEF Start, Run, Emit, Acknowledge, Statuses, Stages

\* Operations whose status, run and artifact stay are as sound as before.
LEMMA Frame ==
  ASSUME RunInv, NEW o \in Operations, NEW r,
         run' = [run EXCEPT ![o] = r], UNCHANGED disk,
         \A p \in Operations : p # o => operation'[p].status = operation[p].status,
         RunSound(operation'[o].status, r, disk[o])
  PROVE  RunInv'
<1>1. run' = [p \in Operations |-> run'[p]] /\ run'[o] = r
      /\ \A p \in Operations : p # o => run'[p] = run[p]
  BY DEF RunInv
<1>2. disk' = [p \in Operations |-> disk'[p]]
  BY DEF RunInv
<1>3. ASSUME NEW p \in Operations PROVE RunSound(operation'[p].status, run'[p], disk'[p])
  BY <1>1 DEF RunInv
<1> QED BY <1>1, <1>2, <1>3 DEF RunInv

\* Ending a run unsuccessfully is sound, and so is a success that is supported.
LEMMA EndedSound ==
  ASSUME NEW o \in Operations, NEW status \in {"queued", "running", "forgotten"}, NEW artifact,
         artifact.failure = "absent", Shaped(run[o]),
         NEW failure, failure # "absent", NEW shown,
         failure = "none" => Supported([agent |-> run[o].agent, evidence |-> run[o].evidence,
                                        failure |-> failure, shown |-> shown])
  PROVE  RunSound(status, Ended(o, failure, shown), artifact)
<1> DEFINE r == Ended(o, failure, shown)
<1>1. /\ Shaped(r) /\ r.phase = "saving"
      /\ r.agent = run[o].agent /\ r.evidence = run[o].evidence
      /\ r.result = [failure |-> failure, shown |-> shown]
  BY EndedIs
<1>2. Artifact(r) = [agent |-> run[o].agent, evidence |-> run[o].evidence,
                     failure |-> failure, shown |-> shown]
  BY <1>1 DEF Artifact
<1> QED BY <1>1, <1>2 DEF RunSound, Unsaved

\* A run that is under way is not yet told.
LEMMA UnderWay ==
  ASSUME RunInv, IInv, NEW o \in Operations,
         run[o].phase \in {"requested", "preparing", "reading", "asking", "saving"}
  PROVE  /\ operation[o].status \in {"queued", "running", "forgotten"}
         /\ disk[o].failure = "absent" /\ Shaped(run[o])
<1>1. RunSound(operation[o].status, run[o], disk[o]) /\ operation[o] \in Operation
  BY DEF RunInv, IInv, TypeOK
<1> QED BY <1>1 DEF RunSound, Unsaved, Operation, Statuses

\* Moving on, or collecting, leaves what a run is.
LEMMA MovedIs ==
  ASSUME NEW r, Shaped(r), NEW phase
  PROVE  LET s == [r EXCEPT !.phase = phase] IN
         /\ Shaped(s) /\ s.phase = phase /\ s.agent = r.agent
         /\ s.evidence = r.evidence /\ s.result = r.result
BY DEF Shaped

LEMMA FieldIs ==
  ASSUME NEW r, Shaped(r), NEW x, NEW items
  PROVE  /\ LET s == [r EXCEPT !.todo = x]  IN Shaped(s) /\ s.phase = r.phase /\ s.agent = r.agent
         /\ LET s == [r EXCEPT !.sound = x] IN Shaped(s) /\ s.phase = r.phase /\ s.agent = r.agent
         /\ LET s == [r EXCEPT !.over = x]  IN Shaped(s) /\ s.phase = r.phase /\ s.agent = r.agent
         /\ LET s == [r EXCEPT !.room = x]  IN Shaped(s) /\ s.phase = r.phase /\ s.agent = r.agent
         /\ LET s == [r EXCEPT !.evidence = [r.evidence EXCEPT !.items = items]] IN
            Shaped(s) /\ s.phase = r.phase /\ s.agent = r.agent
<1>1. LET s == [r EXCEPT !.todo = x]  IN Shaped(s) /\ s.phase = r.phase /\ s.agent = r.agent
  BY DEF Shaped
<1>2. LET s == [r EXCEPT !.sound = x] IN Shaped(s) /\ s.phase = r.phase /\ s.agent = r.agent
  BY DEF Shaped
<1>3. LET s == [r EXCEPT !.over = x]  IN Shaped(s) /\ s.phase = r.phase /\ s.agent = r.agent
  BY DEF Shaped
<1>4. LET s == [r EXCEPT !.room = x]  IN Shaped(s) /\ s.phase = r.phase /\ s.agent = r.agent
  BY DEF Shaped
<1>5. LET s == [r EXCEPT !.evidence = [r.evidence EXCEPT !.items = items]] IN
      Shaped(s) /\ s.phase = r.phase /\ s.agent = r.agent
  <2>1. [r.evidence EXCEPT !.items = items]
          = [selected |-> r.evidence.selected, items |-> items, check |-> r.evidence.check]
    BY DEF Shaped
  <2> QED BY <2>1 DEF Shaped
<1> QED BY <1>1, <1>2, <1>3, <1>4, <1>5

LEMMA CollectedIs ==
  ASSUME NEW o \in Operations, Shaped(run[o]), NEW phase, NEW selected, NEW items, NEW check
  PROVE  LET r == Collected(o, phase, selected, items, check) IN
         Shaped(r) /\ r.phase = phase /\ r.agent = run[o].agent
BY RunOfIs DEF Collected, Shaped

LEMMA SelectedIs ==
  ASSUME NEW o \in Operations, Shaped(run[o]), NEW paths, NEW sound
  PROVE  LET r == Selected(o, paths)
             s == [r EXCEPT !.sound = sound] IN
         /\ Shaped(r) /\ r.phase = "reading" /\ r.agent = run[o].agent
         /\ Shaped(s) /\ s.phase = "reading" /\ s.agent = run[o].agent
<1> DEFINE c == Collected(o, "reading", paths, <<>>, "none")
           r == [c EXCEPT !.todo = paths]
           s == [r EXCEPT !.sound = sound]
<1>1. Shaped(c) /\ c.phase = "reading" /\ c.agent = run[o].agent
  BY CollectedIs
<1> HIDE DEF c
<1>2. Shaped(r) /\ r.phase = "reading" /\ r.agent = run[o].agent
  BY <1>1, FieldIs
<1> HIDE DEF r
<1>3. Shaped(s) /\ s.phase = "reading" /\ s.agent = run[o].agent
  BY <1>2, FieldIs
<1> QED BY <1>2, <1>3 DEF Selected, c, r

LEMMA ReadIs ==
  ASSUME NEW r, Shaped(r), NEW size
  PROVE  /\ Shaped(Unreadable(r)) /\ Unreadable(r).phase = r.phase
         /\ Shaped(TooLarge(r)) /\ TooLarge(r).phase = r.phase
         /\ Shaped(Supplied(r, size)) /\ Supplied(r, size).phase = r.phase
<1>1. Shaped(Rest(r)) /\ Rest(r).phase = r.phase
  BY FieldIs DEF Rest
<1>2. Shaped(Unreadable(r)) /\ Unreadable(r).phase = r.phase
  BY <1>1, FieldIs DEF Unreadable
<1>3. Shaped(TooLarge(r)) /\ TooLarge(r).phase = r.phase
  BY <1>1, FieldIs DEF TooLarge
<1>4. Shaped(Supplied(r, size)) /\ Supplied(r, size).phase = r.phase
  <2> DEFINE q == Rest(r)
             items == Append(q.evidence.items, Head(r.todo))
             s == [q EXCEPT !.evidence = [q.evidence EXCEPT !.items = items]]
             t == [s EXCEPT !.room = s.room - size]
  <2>1. Supplied(r, size) = t
    BY DEF Supplied
  <2>2. Shaped(s) /\ s.phase = r.phase
    <3> HIDE DEF q, items
    <3> QED BY <1>1, FieldIs DEF q
  <2> HIDE DEF s
  <2>3. Shaped(t) /\ t.phase = r.phase
    BY <2>2, FieldIs
  <2> QED BY <2>1, <2>3
<1> QED BY <1>2, <1>3, <1>4

LEMMA AskingIs ==
  ASSUME NEW o \in Operations, Shaped(run[o]), NEW items, NEW check
  PROVE  LET r == Asking(o, items, check) IN
         Shaped(r) /\ r.phase = "asking" /\ r.agent = run[o].agent
BY CollectedIs DEF Asking

-----------------------------------------------------------------------------
LEMMA RunInitSound == RunInit => RunInv
<1> SUFFICES ASSUME RunInit PROVE RunInv
  OBVIOUS
<1>1. run = [o \in Operations |-> run[o]] /\ disk = [o \in Operations |-> disk[o]]
  BY DEF RunInit
<1>2. Shaped(NoRun) /\ NoRun.phase = "none"
  BY RunOfIs DEF NoRun, Nothing, Agents
<1>3. Absence.failure = "absent"
  BY DEF Absence, Artifact, RunOf
<1>4. \A o \in Operations : run[o] = NoRun /\ disk[o] = Absence
                           /\ operation[o].status = "absent"
  BY DEF RunInit, Init, Absent
<1>5. RunSound("absent", NoRun, Absence)
  BY <1>2, <1>3 DEF RunSound, Unsaved
<1> QED BY <1>1, <1>4, <1>5 DEF RunInv

LEMMA RequestSound ==
  ASSUME RunInv, IInv, NEW o \in Operations, Request(o) PROVE RunInv'
<1>1. PICK agent \in Agents :
        run' = [run EXCEPT ![o] = RunOf(agent, "requested", Nothing, NoResult)]
  BY DEF Request
<1> DEFINE r == RunOf(agent, "requested", Nothing, NoResult)
<1>2. Shaped(r) /\ r.phase = "requested"
  BY RunOfIs DEF Nothing
<1>3. /\ operation[o].status = "absent" /\ operation'[o].status = "queued"
      /\ \A p \in Operations : p # o => operation'[p] = operation[p]
  BY StatusStep DEF Request
<1>4. disk[o].failure = "absent"
  BY <1>3 DEF RunInv, RunSound
<1>5. RunSound(operation'[o].status, r, disk[o])
  BY <1>2, <1>3, <1>4 DEF RunSound, Unsaved
<1> QED BY <1>1, <1>3, <1>5, Frame DEF Request

LEMMA BeginSound ==
  ASSUME RunInv, IInv, NEW o \in Operations, Begin(o) PROVE RunInv'
<1>1. /\ operation'[o].status = "running"
      /\ \A p \in Operations : p # o => operation'[p] = operation[p]
  BY StatusStep DEF Begin
<1>2. disk[o].failure = "absent" /\ Shaped(run[o]) /\ UNCHANGED disk
  BY UnderWay DEF Begin
<1>3. CASE \E phase \in {"thrown", "preparing"} : run' = [run EXCEPT ![o].phase = phase]
  <2>1. PICK phase \in {"thrown", "preparing"} :
          run' = [run EXCEPT ![o] = [run[o] EXCEPT !.phase = phase]]
    BY <1>3
  <2>2. RunSound("running", [run[o] EXCEPT !.phase = phase], disk[o])
    BY <1>2, MovedIs DEF RunSound, Unsaved
  <2> QED BY <1>1, <1>2, <2>1, <2>2, Frame
<1>4. CASE \E failure \in {"catalog", "input"} :
             run' = [run EXCEPT ![o] = Ended(o, failure, {})]
  <2>1. PICK failure \in {"catalog", "input"} :
          run' = [run EXCEPT ![o] = Ended(o, failure, {})]
    BY <1>4
  <2>2. RunSound("running", Ended(o, failure, {}), disk[o])
    BY <1>2, EndedSound
  <2> QED BY <1>1, <1>2, <2>1, <2>2, Frame
<1> QED BY <1>3, <1>4 DEF Begin

\* Collecting is sound.
LEMMA CollectingSound ==
  ASSUME NEW status \in {"queued", "running", "forgotten"}, NEW artifact,
         artifact.failure = "absent", NEW r, Shaped(r),
         \/ r.phase = "reading"
         \/ r.phase = "asking" /\ (r.agent \in Reading => r.evidence.items # <<>>)
  PROVE  RunSound(status, r, artifact)
BY DEF RunSound, Unsaved

\* A step of a run under way that leaves its operation alone.
LEMMA CollectFrame ==
  ASSUME RunInv, NEW o \in Operations, NEW r,
         run' = [run EXCEPT ![o] = r], UNCHANGED <<vars, pageVars, disk>>,
         RunSound(operation[o].status, r, disk[o])
  PROVE  RunInv'
BY Frame DEF vars

\* A failure is not a success to be supported.
LEMMA FailedSound ==
  ASSUME RunInv, IInv, NEW o \in Operations,
         run[o].phase \in {"requested", "preparing", "reading", "asking"},
         NEW failure \in Failures \ {"none"}, NEW shown
  PROVE  RunSound(operation[o].status, Ended(o, failure, shown), disk[o])
BY UnderWay, EndedSound DEF Failures

LEMMA CollectSound ==
  ASSUME RunInv, IInv, NEW o \in Operations, Collect(o) PROVE RunInv'
<1>0. run[o].phase \in {"preparing", "reading"}
  BY DEF Collect, Inspect, TakeInventory, Read, Assemble, CollectFailure, FetchDossier,
         TakeInput
<1>1. /\ operation[o].status \in {"queued", "running", "forgotten"}
      /\ disk[o].failure = "absent" /\ Shaped(run[o])
  BY <1>0, UnderWay
<1>2. CASE Inspect(o)
  <2>1. PICK sound, paths :
          run' = [run EXCEPT ![o] = [Selected(o, paths) EXCEPT !.sound = sound]]
    BY <1>2 DEF Inspect
  <2>2. RunSound(operation[o].status, [Selected(o, paths) EXCEPT !.sound = sound], disk[o])
    BY <1>1, SelectedIs, CollectingSound
  <2> QED BY <1>2, <2>1, <2>2, CollectFrame DEF Inspect
<1>3. CASE TakeInventory(o)
  <2>1. PICK r : /\ run' = [run EXCEPT ![o] = r]
                 /\ r = Ended(o, "execution", {}) \/ \E paths : r = Selected(o, paths)
    <3>1. CASE run' = [run EXCEPT ![o] = Ended(o, "execution", {})]
      BY <3>1
    <3>2. ASSUME NEW paths,
                 run' = [run EXCEPT ![o] = IF ToSet(paths) \cap Documents # {}
                                           THEN Selected(o, paths)
                                           ELSE Ended(o, "execution", {})]
          PROVE  \/ run' = [run EXCEPT ![o] = Ended(o, "execution", {})]
                 \/ run' = [run EXCEPT ![o] = Selected(o, paths)]
      <4>1. CASE ToSet(paths) \cap Documents # {}
        BY <3>2, <4>1
      <4>2. CASE ~(ToSet(paths) \cap Documents # {})
        BY <3>2, <4>2
      <4> QED BY <4>1, <4>2
    <3>3. CASE \E inventory \in SUBSET Paths :
                 run' = [run EXCEPT ![o] = IF ToSet(AuditPaths(inventory)) \cap Documents # {}
                                           THEN Selected(o, AuditPaths(inventory))
                                           ELSE Ended(o, "execution", {})]
      <4>1. PICK inventory \in SUBSET Paths :
              run' = [run EXCEPT ![o] = IF ToSet(AuditPaths(inventory)) \cap Documents # {}
                                        THEN Selected(o, AuditPaths(inventory))
                                        ELSE Ended(o, "execution", {})]
        BY <3>3
      <4>2. \/ run' = [run EXCEPT ![o] = Ended(o, "execution", {})]
            \/ run' = [run EXCEPT ![o] = Selected(o, AuditPaths(inventory))]
        BY <3>2, <4>1
      <4> QED BY <4>2
    <3> QED BY <1>3, <3>1, <3>3 DEF TakeInventory
  <2>2. RunSound(operation[o].status, r, disk[o])
    <3>1. CASE r = Ended(o, "execution", {})
      BY <1>0, <3>1, FailedSound DEF Failures
    <3>2. ASSUME NEW paths, r = Selected(o, paths)
          PROVE  RunSound(operation[o].status, r, disk[o])
      <4>1. Shaped(r) /\ r.phase = "reading"
        BY <1>1, <3>2, SelectedIs
      <4> QED BY <1>1, <4>1, CollectingSound
    <3> QED BY <2>1, <3>1, <3>2
  <2> QED BY <1>3, <2>1, <2>2, CollectFrame DEF TakeInventory
<1>4. CASE Read(o)
  <2>1. PICK r, size : /\ run' = [run EXCEPT ![o] = r]
                       /\ r \in {TooLarge(run[o]), Unreadable(run[o]), Supplied(run[o], size)}
    BY <1>4 DEF Read
  <2>2. RunSound(operation[o].status, r, disk[o])
    BY <1>1, <1>4, <2>1, ReadIs, CollectingSound DEF Read
  <2> QED BY <1>4, <2>1, <2>2, CollectFrame DEF Read
<1>5. CASE Assemble(o)
  <2>1. CASE \E failure \in Failures \ {"none"} : run' = [run EXCEPT ![o] = Ended(o, failure, {})]
    <3>1. PICK failure \in Failures \ {"none"} : run' = [run EXCEPT ![o] = Ended(o, failure, {})]
      BY <2>1
    <3>2. RunSound(operation[o].status, Ended(o, failure, {}), disk[o])
      BY <1>0, FailedSound
    <3> QED BY <1>5, <3>1, <3>2, CollectFrame DEF Assemble
  <2>2. CASE /\ run' = [run EXCEPT ![o] = [run[o] EXCEPT !.phase = "asking"]]
             /\ run[o].evidence.items # <<>>
    <3> DEFINE r == [run[o] EXCEPT !.phase = "asking"]
    <3>1. RunSound(operation[o].status, r, disk[o])
      <4>1. Shaped(r) /\ r.phase = "asking" /\ r.evidence = run[o].evidence
        BY <1>1, MovedIs
      <4> HIDE DEF r
      <4> QED BY <1>1, <2>2, <4>1, CollectingSound
    <3>2. run' = [run EXCEPT ![o] = r]
      BY <2>2
    <3> HIDE DEF r
    <3> QED BY <1>5, <3>1, <3>2, CollectFrame DEF Assemble
  <2>3. {"execution", "evaluation"} \subseteq Failures \ {"none"}
    BY DEF Failures
  <2>4. \/ run' = [run EXCEPT ![o] = Ended(o, "evaluation", {})]
        \/ run' = [run EXCEPT ![o] = Ended(o, "execution", {})]
        \/ /\ run' = [run EXCEPT ![o] = [run[o] EXCEPT !.phase = "asking"]]
           /\ run[o].evidence.items # <<>>
    <3>1. CASE run[o].agent = "change-risk-reviewer" /\ ~run[o].sound
      BY <1>5, <3>1 DEF Assemble
    <3>2. CASE /\ ~(run[o].agent = "change-risk-reviewer" /\ ~run[o].sound)
               /\ run[o].evidence.items # <<>>
      BY <1>5, <3>2 DEF Assemble
    <3>3. CASE /\ ~(run[o].agent = "change-risk-reviewer" /\ ~run[o].sound)
               /\ ~(run[o].evidence.items # <<>>)
      <4>1. run' = [run EXCEPT ![o] =
              Ended(o, IF run[o].agent = "repository-assistant" THEN "evaluation"
                                                                ELSE "execution", {})]
        BY <1>5, <3>3 DEF Assemble
      <4> QED BY <4>1
    <3> QED BY <3>1, <3>2, <3>3
  <2> QED BY <2>1, <2>2, <2>3, <2>4
<1>6. CASE CollectFailure(o) \/ FetchDossier(o) \/ TakeInput(o)
  <2>1. run[o].agent \notin Reading
    BY <1>6 DEF CollectFailure, FetchDossier, TakeInput, Reading, Inspecting, Dossiers, Council
  <2>2. PICK r : /\ run' = [run EXCEPT ![o] = r]
                 /\ r = Ended(o, "evaluation", {}) \/ \E items, check : r = Asking(o, items, check)
    BY <1>6 DEF CollectFailure, FetchDossier, TakeInput
  <2>3. RunSound(operation[o].status, r, disk[o])
    BY <1>0, <1>1, <2>1, <2>2, AskingIs, CollectingSound, FailedSound DEF Failures
  <2> QED BY <1>6, <2>2, <2>3, CollectFrame DEF CollectFailure, FetchDossier, TakeInput
<1> QED BY <1>2, <1>3, <1>4, <1>5, <1>6 DEF Collect

\* What an answer leads to is supported if it is a success.
LEMMA AnswerSound ==
  ASSUME RunInv, IInv, NEW o \in Operations, Answer(o) PROVE RunInv'
<1>1. /\ operation[o].status \in {"queued", "running", "forgotten"}
      /\ disk[o].failure = "absent" /\ Shaped(run[o])
  BY UnderWay DEF Answer
<1> DEFINE agent == run[o].agent
           evidence == run[o].evidence
<1>2. agent \in Agents /\ (agent \in Reading => evidence.items # <<>>)
  BY DEF Answer, RunInv, RunSound, Shaped
<1>3. PICK answer, allowed, valid :
        run' = [run EXCEPT ![o] =
                  IF ~valid THEN Ended(o, "output", {})
                  ELSE Ended(o, IF Passes(agent, evidence, answer, allowed)
                                THEN "none" ELSE "evaluation",
                             Shown(agent, evidence, answer))]
  BY DEF Answer
<1>4. CASE ~valid \/ ~Passes(agent, evidence, answer, allowed)
  <2>1. \/ run' = [run EXCEPT ![o] = Ended(o, "output", {})]
        \/ run' = [run EXCEPT ![o] = Ended(o, "evaluation", Shown(agent, evidence, answer))]
    BY <1>3, <1>4
  <2>2. PICK failure \in Failures \ {"none"} : \E shown :
          run' = [run EXCEPT ![o] = Ended(o, failure, shown)]
    <3>1. {"output", "evaluation"} \subseteq Failures \ {"none"}
      BY DEF Failures
    <3> QED BY <2>1, <3>1
  <2>3. PICK shown : run' = [run EXCEPT ![o] = Ended(o, failure, shown)]
    BY <2>2
  <2>4. RunSound(operation[o].status, Ended(o, failure, shown), disk[o])
    BY FailedSound DEF Answer
  <2> QED BY <2>3, <2>4, CollectFrame DEF Answer
<1>5. CASE valid /\ Passes(agent, evidence, answer, allowed)
  <2> DEFINE shown == Shown(agent, evidence, answer)
  <2>1. run' = [run EXCEPT ![o] = Ended(o, "none", shown)]
    BY <1>3, <1>5
  <2>2. /\ shown \subseteq Given(agent, evidence)
        /\ agent \in {"playwright-failure-triage", "council-advocate"} => shown # {}
    BY <1>2, <1>5, PassesIsSupported
  <2>3. Supported([agent |-> agent, evidence |-> evidence, failure |-> "none", shown |-> shown])
    BY <1>2, <2>2 DEF Supported, Reading
  <2>4. RunSound(operation[o].status, Ended(o, "none", shown), disk[o])
    <3> HIDE DEF shown
    <3> QED BY <1>1, <2>3, EndedSound
  <2> QED BY <2>1, <2>4, CollectFrame DEF Answer
<1> QED BY <1>4, <1>5

LEMMA SaveSound ==
  ASSUME RunInv, IInv, NEW o \in Operations, Save(o) PROVE RunInv'
<1> DEFINE r == run[o]
           artifact == Artifact(r)
<1>1. /\ operation[o].status \in {"queued", "running", "forgotten"}
      /\ disk[o].failure = "absent" /\ Shaped(r) /\ r.phase = "saving"
  BY UnderWay DEF Save
<1>2. RunSound(operation[o].status, r, disk[o])
  BY DEF RunInv
<1>3. CASE /\ disk' = [disk EXCEPT ![o] = artifact]
           /\ run' = [run EXCEPT ![o] = [r EXCEPT !.phase = "saved"]]
  <2>1. artifact.failure = r.result.failure
    BY DEF Artifact
  <2>2. RunSound(operation[o].status, [r EXCEPT !.phase = "saved"], artifact)
    <3>1. /\ artifact.failure # "absent"
          /\ artifact.failure = "none" => Supported(artifact)
      BY <1>1, <1>2, <2>1 DEF RunSound
    <3>2. Shaped([r EXCEPT !.phase = "saved"]) /\ [r EXCEPT !.phase = "saved"].phase = "saved"
      BY <1>1, MovedIs
    <3> HIDE DEF artifact
    <3> QED BY <1>1, <3>1, <3>2 DEF RunSound, Unsaved
  <2>3. /\ run' = [p \in Operations |-> run'[p]] /\ disk' = [p \in Operations |-> disk'[p]]
        /\ run'[o] = [r EXCEPT !.phase = "saved"] /\ disk'[o] = artifact
        /\ \A p \in Operations : p # o => run'[p] = run[p] /\ disk'[p] = disk[p]
    BY <1>3 DEF RunInv
  <2>4. ASSUME NEW p \in Operations PROVE RunSound(operation'[p].status, run'[p], disk'[p])
    <3> HIDE DEF artifact, r
    <3> QED BY <2>2, <2>3 DEF Save, vars, RunInv
  <2> QED BY <2>3, <2>4 DEF RunInv
<1>4. CASE UNCHANGED disk /\ run' = [run EXCEPT ![o] = [r EXCEPT !.phase = "thrown"]]
  <2>1. RunSound(operation[o].status, [r EXCEPT !.phase = "thrown"], disk[o])
    BY <1>1, MovedIs DEF RunSound, Unsaved
  <2> QED BY <1>4, <2>1, CollectFrame DEF Save
<1> QED BY <1>3, <1>4 DEF Save

\* Runs and artifacts stay, and so do the statuses that matter to them.
LEMMA StatusFrame ==
  ASSUME RunInv, UNCHANGED <<run, disk>>,
         \A p \in Operations :
           \/ operation'[p].status = operation[p].status
           \/ RunSound(operation'[p].status, run[p], disk[p])
  PROVE  RunInv'
BY DEF RunInv

LEMMA TellSound ==
  ASSUME RunInv, IInv, NEW o \in Operations, Tell(o) PROVE RunInv'
BY StatusStep, StatusFrame DEF Tell

LEMMA FinishSound ==
  ASSUME RunInv, IInv, NEW o \in Operations, Finish(o) PROVE RunInv'
<1>1. \A p \in Operations : p # o => operation'[p] = operation[p]
  BY SettleStep DEF Finish
<1>2. RunSound(operation[o].status, run[o], disk[o])
  BY DEF RunInv
<1>3. RunSound(operation'[o].status, run[o], disk[o])
  BY <1>2 DEF Finish, RunSound, Unsaved
<1> QED BY <1>1, <1>3, StatusFrame DEF Finish

LEMMA ObserveSound ==
  ASSUME RunInv, IInv, NEW o \in Operations, Observe(o) PROVE RunInv'
<1>1. CASE Acknowledge(o)
  BY <1>1, StatusStep, StatusFrame DEF Observe
<1>2. CASE Poll(o) \/ Show(o)
  BY <1>2, StatusFrame DEF Observe, Poll, Show, vars
<1> QED BY <1>1, <1>2 DEF Observe

LEMMA LoseSound == ASSUME RunInv, IInv, Lose PROVE RunInv'
<1> DEFINE gone == RunOf("tool-builder", "lost", Nothing, NoResult)
<1>1. Shaped(gone) /\ gone.phase = "lost"
  BY RunOfIs DEF Nothing, Agents
<1>2. /\ run' = [o \in Operations |-> IF Known(o) THEN gone ELSE run[o]]
      /\ operation' = [o \in Operations |-> IF Known(o) THEN Forgotten ELSE operation[o]]
      /\ disk' = disk
  BY DEF Lose, Restart
<1>3. ASSUME NEW o \in Operations PROVE RunSound(operation'[o].status, run'[o], disk'[o])
  <2>1. RunSound(operation[o].status, run[o], disk[o])
    BY DEF RunInv
  <2>2. CASE Known(o)
    <3>1. operation'[o].status = "forgotten" /\ run'[o] = gone
      BY <1>2, <2>2, AbsentTyped
    <3> HIDE DEF gone
    <3> QED BY <1>1, <1>2, <2>1, <3>1 DEF RunSound, Unsaved
  <2>3. CASE ~Known(o)
    BY <1>2, <2>1, <2>3
  <2> QED BY <2>2, <2>3
<1>4. run' = [o \in Operations |-> run'[o]] /\ disk' = [o \in Operations |-> disk'[o]]
  BY <1>2 DEF RunInv
<1> QED BY <1>3, <1>4 DEF RunInv

-----------------------------------------------------------------------------
\* A step of a run is a step of the operation store.
LEMMA RunStepIsStoreStep == [RunNext]_runVars => [Next]_vars
<1> SUFFICES ASSUME [RunNext]_runVars PROVE [Next]_vars
  OBVIOUS
<1>1. ASSUME NEW o \in Operations,
             Request(o) \/ Begin(o) \/ Tell(o) \/ Finish(o) \/ Observe(o)
      PROVE  [Next]_vars
  BY <1>1 DEF Request, Begin, Tell, Finish, Observe, Next, Poll, Show
<1>2. ASSUME NEW o \in Operations, Collect(o) \/ Answer(o) \/ Save(o) PROVE UNCHANGED vars
  BY <1>2 DEF Collect, Inspect, TakeInventory, Read, Assemble, CollectFailure, FetchDossier,
              TakeInput, Answer, Save
<1>3. CASE Lose
  BY <1>3 DEF Lose, Next
<1>4. CASE UNCHANGED runVars
  BY <1>4 DEF runVars, vars
<1> QED BY <1>1, <1>2, <1>3, <1>4 DEF RunNext

LEMMA RunStepSound == RunInv /\ IInv /\ [RunNext]_runVars => RunInv'
<1> SUFFICES ASSUME RunInv, IInv, [RunNext]_runVars PROVE RunInv'
  OBVIOUS
<1>1. ASSUME NEW o \in Operations,
             Request(o) \/ Begin(o) \/ Collect(o) \/ Answer(o)
      PROVE  RunInv'
  BY <1>1, RequestSound, BeginSound, CollectSound, AnswerSound
<1>2. ASSUME NEW o \in Operations, Save(o) \/ Tell(o) \/ Finish(o) \/ Observe(o)
      PROVE  RunInv'
  BY <1>2, SaveSound, TellSound, FinishSound, ObserveSound
<1>3. CASE Lose
  BY <1>3, LoseSound
<1>4. CASE UNCHANGED runVars
  BY <1>4 DEF runVars, vars, RunInv
<1> QED BY <1>1, <1>2, <1>3, <1>4 DEF RunNext

-----------------------------------------------------------------------------
\* A run of an agent is an operation of the console: it does to the operation
\* store nothing that the store does not do, so what holds of every operation
\* holds of runs.
THEOREM RunsAreOperations == RunSpec => Spec
<1>1. RunInit => Init
  BY DEF RunInit
<1> QED BY <1>1, RunStepIsStoreStep, PTL DEF RunSpec, Spec

LEMMA RunsSound == RunSpec => []RunInv
<1>1. RunInit => RunInv
  BY RunInitSound
<1>2. RunSpec => []IInv
  BY RunsAreOperations, StoreSound, PTL
<1> QED BY <1>1, <1>2, RunStepSound, PTL DEF RunSpec

\* The outcome that the console shows of a run is recorded, across restarts, in an
\* artifact that its evidence supports, whatever the repository, the tools, the
\* model and the save did.
THEOREM OutcomesHaveEvidence == RunSpec => []OutcomeHasEvidence
<1>1. RunInv => OutcomeHasEvidence
  <2> SUFFICES ASSUME RunInv PROVE OutcomeHasEvidence
    OBVIOUS
  <2>1. ASSUME NEW o \in Operations
        PROVE  /\ operation[o].status = "completed" => disk[o].failure # "absent"
               /\ operation[o].status = "failed" => disk[o].failure = "absent"
               /\ disk[o].failure = "none" => Supported(disk[o])
    BY DEF RunInv, RunSound, Unsaved
  <2> QED BY <2>1 DEF OutcomeHasEvidence, CompletedIsSaved, GroundedRun
<1> QED BY <1>1, RunsSound, PTL

-----------------------------------------------------------------------------
\* The context of an agent that reads a repository.

\* As many elements are selected as there are first occurrences, one for each.
LEMMA RankReached ==
  ASSUME NEW n \in Nat, NEW I \in SUBSET (1..n), NEW k \in 1..Cardinality(I)
  PROVE  \E i \in I : Cardinality({j \in I : j <= i}) = k
<1> DEFINE Upon(m) == {j \in I : j <= m}
           Enough  == {m \in Nat : m <= n /\ Cardinality(Upon(m)) >= k}
<1>0. \A j \in I : j \in Nat /\ j > 0 /\ j <= n
  OBVIOUS
<1>1. IsFiniteSet(I)
  <2>1. IsFiniteSet(1..n) /\ I \subseteq 1..n
    BY FS_Interval
  <2> QED BY <2>1, FS_Subset
<1>2. \A m \in Nat : IsFiniteSet(Upon(m)) /\ Cardinality(Upon(m)) \in Nat
  BY <1>1, FS_Subset, FS_CardinalityType
<1>3. n \in Enough
  <2>1. Upon(n) = I
    BY <1>0
  <2>2. Cardinality(I) \in Nat
    BY <1>1, FS_CardinalityType
  <2> QED BY <2>1, <2>2
<1>4. PICK m \in Enough : \A y \in Enough : ~ (<<y, m>> \in OpToRel(<, Nat))
  BY <1>3, NatLessThanWellFounded, WFMin
<1>5. \A y \in Enough : ~ (y < m)
  BY <1>4 DEF OpToRel
<1>6. m \in Nat /\ m <= n /\ Cardinality(Upon(m)) >= k
  OBVIOUS
<1>7. m # 0
  <2> SUFFICES ASSUME m = 0 PROVE FALSE
    OBVIOUS
  <2>1. \A j \in I : ~(j <= m)
    BY <1>0
  <2>2. Upon(m) = {}
    BY <2>1
  <2> QED BY <1>6, <2>2, FS_EmptySet
<1>8. m - 1 \in Nat /\ m - 1 <= n /\ m - 1 < m
  BY <1>6, <1>7
<1>9. m - 1 \notin Enough
  BY <1>5, <1>8
<1> DEFINE below == Upon(m - 1)
<1>10. IsFiniteSet(below) /\ Cardinality(below) \in Nat /\ Cardinality(below) < k
  <2>1. IsFiniteSet(below) /\ Cardinality(below) \in Nat
    BY <1>2, <1>8
  <2>2. ~(Cardinality(below) >= k)
    BY <1>8, <1>9
  <2>3. k \in Nat
    BY <1>1, FS_CardinalityType
  <2> HIDE DEF below
  <2> QED BY <2>1, <2>2, <2>3
<1>11. m \in I
  <2> SUFFICES ASSUME m \notin I PROVE FALSE
    OBVIOUS
  <2>1. Upon(m) = below
    <3>1. \A j \in I : j <= m <=> j <= m - 1
      BY <1>0, <1>6
    <3> QED BY <3>1
  <2>2. k \in Nat
    BY <1>1, FS_CardinalityType
  <2> HIDE DEF Upon, below
  <2> QED BY <1>6, <1>10, <2>1, <2>2
<1>12. Upon(m) = below \cup {m} /\ m \notin below
  <2>1. \A j \in I : j <= m <=> j <= m - 1 \/ j = m
    BY <1>0, <1>6
  <2>2. m <= m /\ ~(m <= m - 1)
    BY <1>6
  <2> QED BY <1>11, <2>1, <2>2
<1>13. Cardinality(Upon(m)) = Cardinality(below) + 1
  <2> HIDE DEF Upon, below
  <2> QED BY <1>10, <1>12, FS_AddElement
<1>14. Cardinality(Upon(m)) = k
  <2>1. k \in Nat
    BY <1>1, FS_CardinalityType
  <2> HIDE DEF Upon, below
  <2> QED BY <1>6, <1>10, <1>13, <2>1
<1> QED BY <1>11, <1>14

\* What is selected has nothing twice.
LEMMA DistinctIs ==
  \A T, S : \A s \in Seq(T) : \A t : t = Distinct(s, S) => t \in Seq(T) /\ IsInjective(t)
<1> SUFFICES ASSUME NEW T, NEW S, NEW s \in Seq(T), NEW t, t = Distinct(s, S)
             PROVE  t \in Seq(T) /\ IsInjective(t)
  OBVIOUS
<1> DEFINE firsts  == {i \in DOMAIN s : s[i] \in S /\ \A j \in 1..(i - 1) : s[j] # s[i]}
           rank(i) == Cardinality({j \in firsts : j <= i})
           at(k)   == CHOOSE i \in firsts : rank(i) = k
           c       == Cardinality(firsts)
<1>1. DOMAIN s = 1..Len(s) /\ Len(s) \in Nat /\ \A i \in DOMAIN s : s[i] \in T
  BY LenProperties, ElementOfSeq
<1>2. firsts \in SUBSET (1..Len(s)) /\ c \in Nat
  <2>1. firsts \in SUBSET (1..Len(s))
    BY <1>1
  <2>2. IsFiniteSet(1..Len(s))
    BY <1>1, FS_Interval
  <2> HIDE DEF firsts
  <2> QED BY <2>1, <2>2, FS_Subset, FS_CardinalityType
<1>3. t = [k \in 1..c |-> s[at(k)]]
  BY DEF Distinct
<1>4. \A k \in 1..c : at(k) \in firsts /\ rank(at(k)) = k
  <2> HIDE DEF firsts
  <2>1. \A k \in 1..c : \E i \in firsts : rank(i) = k
    BY <1>1, <1>2, RankReached
  <2> QED BY <2>1
<1>5. \A i, j \in firsts : s[i] = s[j] => i = j
  <2> SUFFICES ASSUME NEW i \in firsts, NEW j \in firsts, s[i] = s[j], i # j PROVE FALSE
    OBVIOUS
  <2>1. i \in 1..Len(s) /\ j \in 1..Len(s)
    BY <1>1
  <2>2. CASE i < j
    BY <1>1, <2>1, <2>2
  <2>3. CASE j < i
    BY <1>1, <2>1, <2>3
  <2> QED BY <1>1, <2>1, <2>2, <2>3
<1> HIDE DEF firsts, rank, at, c
<1>6. t \in Seq(T)
  <2>1. \A k \in 1..c : s[at(k)] \in T
    BY <1>1, <1>2, <1>4
  <2>2. \E n \in Nat : t \in [1..n -> T]
    BY <1>2, <1>3, <2>1
  <2> QED BY <2>2
<1>7. IsInjective(t)
  <2> SUFFICES ASSUME NEW k \in 1..c, NEW l \in 1..c, t[k] = t[l] PROVE k = l
    BY <1>3 DEF IsInjective
  <2>1. s[at(k)] = s[at(l)]
    BY <1>3
  <2> QED BY <1>4, <1>5, <2>1
<1> QED BY <1>6, <1>7

\* What is cut off at n.
LEMMA UptoIs ==
  \A T : \A s \in Seq(T) : \A n \in Nat : \A t : t = Upto(s, n) =>
    /\ t \in Seq(T) /\ Len(t) <= n
    /\ IsInjective(s) => IsInjective(t)
<1> SUFFICES ASSUME NEW T, NEW s \in Seq(T), NEW n \in Nat, NEW t, t = Upto(s, n)
             PROVE  /\ t \in Seq(T) /\ Len(t) <= n
                    /\ IsInjective(s) => IsInjective(t)
  OBVIOUS
<1>1. Len(s) \in Nat /\ DOMAIN s = 1..Len(s)
  BY LenProperties
<1>2. PICK m \in Nat : t = SubSeq(s, 1, m) /\ m <= n /\ m <= Len(s)
  <2> DEFINE m == IF n < Len(s) THEN n ELSE Len(s)
  <2>1. m \in Nat /\ m <= n /\ m <= Len(s)
    BY <1>1
  <2>2. t = SubSeq(s, 1, m)
    BY DEF Upto
  <2> HIDE DEF m
  <2> QED BY <2>1, <2>2
<1>3. t \in Seq(T) /\ Len(t) = m /\ DOMAIN t = 1..m /\ \A i \in 1..m : t[i] = s[i]
  <2>1. \A i \in 1..m : i \in 1..Len(s)
    BY <1>1, <1>2
  <2>2. t \in Seq(T) /\ Len(t) = m
    BY <1>1, <1>2, <2>1, SubSeqProperties
  <2>3. \A i \in 1..m : t[i] = s[1 + i - 1]
    BY <1>1, <1>2, <2>1, SubSeqProperties
  <2>4. \A i \in 1..m : 1 + i - 1 = i
    BY <1>2
  <2> QED BY <2>2, <2>3, <2>4, LenProperties
<1>4. \A i \in 1..m : i \in DOMAIN s
  BY <1>1, <1>2
<1> QED BY <1>2, <1>3, <1>4 DEF IsInjective

\* What follows the first element does not hold it again.
LEMMA TailOf ==
  \A T : \A s \in Seq(T) : s # <<>> /\ IsInjective(s) =>
    \A t : t = Tail(s) =>
      /\ t \in Seq(T) /\ IsInjective(t) /\ Len(t) + 1 = Len(s)
      /\ Head(s) \in T /\ Head(s) \notin ToSet(t)
      /\ ToSet(s) = ToSet(t) \cup {Head(s)}
<1> SUFFICES ASSUME NEW T, NEW s \in Seq(T), s # <<>>, IsInjective(s), NEW t, t = Tail(s)
             PROVE  /\ t \in Seq(T) /\ IsInjective(t) /\ Len(t) + 1 = Len(s)
                    /\ Head(s) \in T /\ Head(s) \notin ToSet(t)
                    /\ ToSet(s) = ToSet(t) \cup {Head(s)}
  OBVIOUS
<1>1. Len(s) \in Nat /\ DOMAIN s = 1..Len(s) /\ Len(s) > 0
  BY LenProperties, EmptySeq
<1>2. t \in Seq(T) /\ Len(t) = Len(s) - 1 /\ \A i \in 1..Len(t) : t[i] = s[i + 1]
  BY <1>1, HeadTailProperties
<1>3. Head(s) = s[1] /\ Head(s) \in T /\ DOMAIN t = 1..Len(t)
  BY <1>1, <1>2, HeadTailProperties, LenProperties
<1>4. \A i \in 1..Len(t) : i + 1 \in DOMAIN s /\ i + 1 # 1
  BY <1>1, <1>2
<1>5. \A i, j \in 1..Len(t) : i + 1 = j + 1 => i = j
  BY <1>1, <1>2
<1>6. IsInjective(t)
  BY <1>2, <1>3, <1>4, <1>5 DEF IsInjective
<1>7. 1 \in DOMAIN s
  BY <1>1
<1>8. \A i \in 1..Len(t) : t[i] # Head(s)
  BY <1>2, <1>3, <1>4, <1>7 DEF IsInjective
<1>9. \A i \in DOMAIN s : i = 1 \/ (i - 1 \in 1..Len(t) /\ t[i - 1] = s[i])
  <2> SUFFICES ASSUME NEW i \in DOMAIN s, i # 1
               PROVE  i - 1 \in 1..Len(t) /\ t[i - 1] = s[i]
    OBVIOUS
  <2>1. i - 1 \in 1..Len(t) /\ (i - 1) + 1 = i
    BY <1>1, <1>2
  <2> QED BY <1>2, <2>1
<1>10. ToSet(s) \subseteq ToSet(t) \cup {Head(s)}
  BY <1>3, <1>9 DEF ToSet
<1>11. ToSet(t) \subseteq ToSet(s) /\ Head(s) \in ToSet(s)
  BY <1>2, <1>3, <1>4, <1>7 DEF ToSet
<1>12. Len(t) + 1 = Len(s)
  BY <1>1, <1>2
<1>13. Head(s) \notin ToSet(t)
  BY <1>3, <1>8 DEF ToSet
<1> QED BY <1>2, <1>3, <1>6, <1>10, <1>11, <1>12, <1>13

\* One more, which was not there.
LEMMA AppendOf ==
  \A T : \A s \in Seq(T) : \A x \in T : \A t :
    IsInjective(s) /\ x \notin ToSet(s) /\ t = Append(s, x) =>
      /\ t \in Seq(T) /\ IsInjective(t) /\ Len(t) = Len(s) + 1
      /\ \A y : y \in ToSet(t) <=> y \in ToSet(s) \/ y = x
<1> TAKE T
<1> TAKE s \in Seq(T)
<1> TAKE x \in T
<1> TAKE t
<1> HAVE IsInjective(s) /\ x \notin ToSet(s) /\ t = Append(s, x)
<1>1. Len(s) \in Nat /\ DOMAIN s = 1..Len(s)
  BY LenProperties
<1>2. /\ t \in Seq(T) /\ Len(t) = Len(s) + 1
      /\ \A i \in 1..Len(s) : t[i] = s[i]
      /\ t[Len(s) + 1] = x
  BY AppendProperties
<1>3. DOMAIN t = DOMAIN s \cup {Len(s) + 1} /\ Len(s) + 1 \notin DOMAIN s
  <2>1. DOMAIN t = 1..(Len(s) + 1)
    BY <1>2, LenProperties
  <2> QED BY <1>1, <2>1
<1>4. \A i \in DOMAIN s : s[i] # x
  BY DEF ToSet
<1>5. IsInjective(t)
  BY <1>1, <1>2, <1>3, <1>4 DEF IsInjective
<1>6. ToSet(t) = ToSet(s) \cup {x}
  BY <1>1, <1>2, <1>3 DEF ToSet
<1>7. \A y : y \in ToSet(t) <=> y \in ToSet(s) \/ y = x
  BY <1>6
<1> QED BY <1>2, <1>5, <1>7

\* An inspection and an audit read no path twice, and an audit not too many.
LEMMA CandidatesAre ==
  \A observed : \A changed \in Seq(Paths) : \A t : t = Candidates(observed, changed) =>
    t \in Seq(Paths) /\ IsInjective(t)
<1> SUFFICES ASSUME NEW observed, NEW changed \in Seq(Paths), NEW t,
                    t = Candidates(observed, changed)
             PROVE  t \in Seq(Paths) /\ IsInjective(t)
  OBVIOUS
<1>1. PICK found : found = Distinct(Orientation, observed)
  OBVIOUS
<1>2. found \in Seq(Paths)
  BY <1>1, DistinctIs, BudgetsAssumption
<1>3. PICK first : first = Distinct(found, {Instructions})
  OBVIOUS
<1>4. first \in Seq(Paths)
  BY <1>2, <1>3, DistinctIs
<1>5. PICK all : all = first \o changed \o found
  OBVIOUS
<1>6. all \in Seq(Paths)
  <2>1. first \o changed \in Seq(Paths)
    BY <1>4, ConcatProperties
  <2> QED BY <1>2, <1>5, <2>1, ConcatProperties
<1>7. t = Distinct(all, ToSet(all))
  BY <1>1, <1>3, <1>5 DEF Candidates, Unique
<1> QED BY <1>6, <1>7, DistinctIs

LEMMA AuditPathsAre ==
  \A inventory : \A t : t = AuditPaths(inventory) =>
    t \in Seq(Paths) /\ IsInjective(t) /\ Len(t) <= MaximumFiles
<1> SUFFICES ASSUME NEW inventory, NEW t, t = AuditPaths(inventory)
             PROVE  t \in Seq(Paths) /\ IsInjective(t) /\ Len(t) <= MaximumFiles
  OBVIOUS
<1>1. PICK documents, manifests, source :
        /\ documents = Among(inventory \cap Documents)
        /\ manifests = Among(inventory \cap Manifests)
        /\ source = Among(inventory \ (Documents \cup Manifests))
  OBVIOUS
<1>2. documents \in Seq(Paths) /\ manifests \in Seq(Paths) /\ source \in Seq(Paths)
  BY <1>1, DistinctIs, BudgetsAssumption DEF Among
<1>3. PICK some, few :
        some = Upto(documents, DocumentBudget) /\ few = Upto(manifests, ManifestBudget)
  OBVIOUS
<1>4. some \in Seq(Paths) /\ few \in Seq(Paths)
  BY <1>2, <1>3, UptoIs, BudgetsAssumption
<1>5. PICK all : all = some \o few \o source \o documents
  OBVIOUS
<1>6. all \in Seq(Paths)
  <2>1. some \o few \in Seq(Paths)
    BY <1>4, ConcatProperties
  <2>2. some \o few \o source \in Seq(Paths)
    BY <1>2, <2>1, ConcatProperties
  <2> QED BY <1>2, <1>5, <2>2, ConcatProperties
<1>7. PICK kept : kept = Distinct(all, ToSet(all))
  OBVIOUS
<1>8. kept \in Seq(Paths) /\ IsInjective(kept)
  BY <1>6, <1>7, DistinctIs
<1>9. t = Upto(kept, MaximumFiles)
  BY <1>1, <1>3, <1>5, <1>7 DEF AuditPaths, Unique
<1> QED BY <1>8, <1>9, UptoIs, BudgetsAssumption

\* The context that is read stays within its budgets, nothing is in it or to be read
\* twice, and of a change nothing is passed over as long as all could be read.
ContextSound(r) ==
  r.agent \in Reading =>
    /\ r.room \in Nat
    /\ r.todo \in Seq(Paths) /\ IsInjective(r.todo)
    /\ r.evidence.items \in Seq(Paths) /\ IsInjective(r.evidence.items)
    /\ ToSet(r.todo) \cap ToSet(r.evidence.items) = {}
    /\ r.agent = "documentation-auditor"
         => Len(r.evidence.items) + Len(r.todo) <= MaximumFiles
    /\ r.agent = "change-risk-reviewer" /\ r.phase = "reading" /\ r.sound
         => ToSet(r.evidence.selected)
              \subseteq ToSet(r.evidence.items) \cup r.over \cup ToSet(r.todo)
    /\ r.agent = "change-risk-reviewer" /\ r.phase = "asking"
         => ToSet(r.evidence.selected) \subseteq ToSet(r.evidence.items) \cup r.over

ContextInv == \A o \in Operations : ContextSound(run[o])

LEMMA NothingListed ==
  /\ <<>> \in Seq(Paths) /\ IsInjective(<<>>) /\ Len(<<>>) = 0 /\ ToSet(<<>>) = {}
  /\ ContextBytes \in Nat /\ MaximumFiles \in Nat
<1>1. <<>> \in Seq(Paths) /\ Len(<<>>) = 0 /\ DOMAIN <<>> = {}
  BY EmptySeq
<1> QED BY <1>1, BudgetsAssumption DEF IsInjective, ToSet

\* A run that has collected nothing, or that is over.
LEMMA FreshContext ==
  ASSUME NEW agent \in Agents, NEW phase, phase \notin {"reading", "asking"}, NEW result
  PROVE  ContextSound(RunOf(agent, phase, Nothing, result))
<1> DEFINE r == RunOf(agent, phase, Nothing, result)
<1>1. /\ r.todo = <<>> /\ r.room = ContextBytes /\ r.phase = phase
      /\ r.evidence.items = <<>>
  BY DEF RunOf, Nothing
<1> HIDE DEF r
<1>2. Len(r.evidence.items) + Len(r.todo) <= MaximumFiles
  <2>1. Len(r.evidence.items) = 0 /\ Len(r.todo) = 0 /\ MaximumFiles \in Nat
    BY <1>1, NothingListed
  <2> QED BY <2>1
<1>3. ContextSound(r)
  BY <1>1, <1>2, NothingListed DEF ContextSound
<1> QED BY <1>3 DEF r

LEMMA EndedContext ==
  ASSUME NEW o \in Operations, ContextSound(run[o]), NEW failure, NEW shown
  PROVE  ContextSound(Ended(o, failure, shown))
<1> DEFINE r == Ended(o, failure, shown)
<1>1. /\ r.todo = <<>> /\ r.room = ContextBytes /\ r.phase = "saving"
      /\ r.evidence = run[o].evidence /\ r.agent = run[o].agent
  BY DEF Ended, RunOf
<1> HIDE DEF r
<1> SUFFICES ASSUME r.agent \in Reading PROVE ContextSound(r)
  BY DEF ContextSound, r
<1> DEFINE items == r.evidence.items
<1>2. items \in Seq(Paths) /\ IsInjective(items)
  BY <1>1 DEF ContextSound
<1>3. r.agent = "documentation-auditor" => Len(items) + Len(r.todo) <= MaximumFiles
  <2> SUFFICES ASSUME r.agent = "documentation-auditor"
               PROVE  Len(items) + Len(r.todo) <= MaximumFiles
    OBVIOUS
  <2>1. PICK n, k : n = Len(items) /\ k = Len(run[o].todo)
    OBVIOUS
  <2>2. n + k <= MaximumFiles /\ n \in Nat /\ k \in Nat
    BY <1>1, <2>1, LenProperties DEF ContextSound
  <2>3. Len(r.todo) = 0 /\ MaximumFiles \in Nat
    BY <1>1, NothingListed
  <2>4. Len(items) = n
    BY <1>1, <2>1
  <2> HIDE DEF items
  <2>5. n + 0 <= MaximumFiles
    BY <2>2, <2>3
  <2> QED BY <2>3, <2>4, <2>5
<1> QED BY <1>1, <1>2, <1>3, NothingListed DEF ContextSound

\* Moving on.
LEMMA MovedContext ==
  ASSUME NEW r, Shaped(r), ContextSound(r), NEW phase,
         \/ phase \notin {"reading", "asking"}
         \/ /\ r.phase = "reading" /\ phase = "asking" /\ r.todo = <<>>
            /\ ~(r.agent = "change-risk-reviewer" /\ ~r.sound)
  PROVE  ContextSound([r EXCEPT !.phase = phase])
<1> DEFINE s == [r EXCEPT !.phase = phase]
<1>1. /\ s.todo = r.todo /\ s.room = r.room /\ s.evidence = r.evidence
      /\ s.agent = r.agent /\ s.over = r.over /\ s.phase = phase
  BY DEF Shaped
<1> HIDE DEF s
<1>2. ASSUME r.agent = "change-risk-reviewer", phase = "asking"
      PROVE  ToSet(r.evidence.selected) \subseteq ToSet(r.evidence.items) \cup r.over
  <2>1. r.phase = "reading" /\ r.sound /\ r.todo = <<>> /\ ToSet(r.todo) = {}
    BY <1>2, NothingListed
  <2>2. r.agent \in Reading
    BY <1>2 DEF Reading, Inspecting
  <2> QED BY <1>2, <2>1, <2>2 DEF ContextSound
<1>3. phase # "reading"
  OBVIOUS
<1>4. ContextSound(s)
  BY <1>1, <1>2, <1>3 DEF ContextSound
<1> QED BY <1>4 DEF s

\* What is selected is to be read.
LEMMA SelectedContext ==
  ASSUME NEW o \in Operations, NEW paths \in Seq(Paths), IsInjective(paths), NEW sound,
         run[o].agent = "documentation-auditor" => Len(paths) <= MaximumFiles
  PROVE  /\ ContextSound(Selected(o, paths))
         /\ ContextSound([Selected(o, paths) EXCEPT !.sound = sound])
<1> SUFFICES ASSUME NEW r, r.agent = run[o].agent, r.todo = paths, r.room = ContextBytes,
                    r.phase = "reading", r.evidence.items = <<>>,
                    r.evidence.selected = paths
             PROVE  ContextSound(r)
  <2> DEFINE r == Selected(o, paths)
             s == [r EXCEPT !.sound = sound]
  <2>1. /\ r.agent = run[o].agent /\ r.todo = paths /\ r.room = ContextBytes
        /\ r.phase = "reading" /\ r.evidence.items = <<>> /\ r.evidence.selected = paths
    BY DEF Selected, Collected, RunOf
  <2>2. /\ s.agent = run[o].agent /\ s.todo = paths /\ s.room = ContextBytes
        /\ s.phase = "reading" /\ s.evidence.items = <<>> /\ s.evidence.selected = paths
    BY DEF Selected, Collected, RunOf
  <2> HIDE DEF r, s
  <2>3. ContextSound(r) /\ ContextSound(s)
    BY <2>1, <2>2
  <2> QED BY <2>3 DEF r, s
<1>1. r.agent = "documentation-auditor"
        => Len(r.evidence.items) + Len(r.todo) <= MaximumFiles
  <2> SUFFICES ASSUME r.agent = "documentation-auditor"
               PROVE  Len(r.evidence.items) + Len(r.todo) <= MaximumFiles
    OBVIOUS
  <2>1. PICK n \in Nat : n = Len(paths) /\ n <= MaximumFiles
    BY LenProperties
  <2>2. Len(r.evidence.items) = 0 /\ Len(r.todo) = n
    BY <2>1, NothingListed
  <2> QED BY <2>1, <2>2, NothingListed
<1> QED BY <1>1, NothingListed DEF ContextSound

\* What reading the next path does to the fields of a run.
LEMMA RestFields ==
  ASSUME NEW r, Shaped(r)
  PROVE  LET s == Rest(r) IN
         /\ Shaped(s) /\ s.todo = Tail(r.todo) /\ s.room = r.room /\ s.evidence = r.evidence
         /\ s.agent = r.agent /\ s.phase = r.phase /\ s.sound = r.sound /\ s.over = r.over
<1> DEFINE s == Rest(r)
<1>1. Shaped(s)
  BY FieldIs DEF Rest
<1>2. /\ s.todo = Tail(r.todo) /\ s.room = r.room /\ s.evidence = r.evidence
      /\ s.agent = r.agent /\ s.phase = r.phase /\ s.sound = r.sound /\ s.over = r.over
  BY DEF Rest, Shaped
<1> QED BY <1>1, <1>2

LEMMA UnreadableFields ==
  ASSUME NEW r, Shaped(r)
  PROVE  LET s == Unreadable(r) IN
         /\ s.todo = Tail(r.todo) /\ s.room = r.room /\ s.evidence = r.evidence
         /\ s.agent = r.agent /\ s.phase = r.phase /\ s.over = r.over
         /\ s.sound = FALSE
<1> DEFINE q == Rest(r)
<1>1. /\ Shaped(q) /\ q.todo = Tail(r.todo) /\ q.room = r.room /\ q.evidence = r.evidence
      /\ q.agent = r.agent /\ q.phase = r.phase /\ q.over = r.over
  BY RestFields
<1>2. Unreadable(r) = [q EXCEPT !.sound = FALSE]
  BY DEF Unreadable
<1> HIDE DEF q
<1>3. LET s == [q EXCEPT !.sound = FALSE] IN
      /\ s.todo = q.todo /\ s.room = q.room /\ s.evidence = q.evidence
      /\ s.agent = q.agent /\ s.phase = q.phase /\ s.over = q.over
      /\ s.sound = FALSE
  BY <1>1 DEF Shaped
<1> QED BY <1>1, <1>2, <1>3

LEMMA TooLargeFields ==
  ASSUME NEW r, Shaped(r)
  PROVE  LET s == TooLarge(r) IN
         /\ s.todo = Tail(r.todo) /\ s.room = r.room /\ s.evidence = r.evidence
         /\ s.agent = r.agent /\ s.phase = r.phase /\ s.sound = r.sound
         /\ s.over = r.over \cup {Head(r.todo)}
<1> DEFINE q == Rest(r)
           more == q.over \cup {Head(r.todo)}
<1>1. /\ Shaped(q) /\ q.todo = Tail(r.todo) /\ q.room = r.room /\ q.evidence = r.evidence
      /\ q.agent = r.agent /\ q.phase = r.phase /\ q.sound = r.sound /\ q.over = r.over
  BY RestFields
<1>2. TooLarge(r) = [q EXCEPT !.over = more]
  BY DEF TooLarge
<1>3. more = r.over \cup {Head(r.todo)}
  BY <1>1
<1> HIDE DEF q, more
<1>4. LET s == [q EXCEPT !.over = more] IN
      /\ s.todo = q.todo /\ s.room = q.room /\ s.evidence = q.evidence
      /\ s.agent = q.agent /\ s.phase = q.phase /\ s.sound = q.sound
      /\ s.over = more
  BY <1>1 DEF Shaped
<1> QED BY <1>1, <1>2, <1>3, <1>4

LEMMA SuppliedFields ==
  ASSUME NEW r, Shaped(r), NEW size
  PROVE  LET s == Supplied(r, size) IN
         /\ s.todo = Tail(r.todo) /\ s.room = r.room - size
         /\ s.evidence.items = Append(r.evidence.items, Head(r.todo))
         /\ s.evidence.selected = r.evidence.selected
         /\ s.agent = r.agent /\ s.phase = r.phase /\ s.sound = r.sound
         /\ s.over = r.over
<1> DEFINE q == Rest(r)
           items == Append(r.evidence.items, Head(r.todo))
           e == [q.evidence EXCEPT !.items = items]
           s == [q EXCEPT !.evidence = e]
           t == [s EXCEPT !.room = s.room - size]
<1>1. /\ Shaped(q) /\ q.todo = Tail(r.todo) /\ q.room = r.room /\ q.evidence = r.evidence
      /\ q.agent = r.agent /\ q.phase = r.phase /\ q.sound = r.sound /\ q.over = r.over
  BY RestFields
<1>2. Supplied(r, size) = t
  <2> HIDE DEF q
  <2> QED BY <1>1 DEF Supplied, q
<1> HIDE DEF q, items
<1>3. e.items = items /\ e.selected = q.evidence.selected
  BY <1>1 DEF Shaped
<1>4. Shaped(s)
  BY <1>1, FieldIs
<1> HIDE DEF e
<1>5. /\ s.todo = q.todo /\ s.room = q.room /\ s.evidence = e
      /\ s.agent = q.agent /\ s.phase = q.phase /\ s.sound = q.sound /\ s.over = q.over
  BY <1>1 DEF Shaped
<1> HIDE DEF s
<1>6. /\ t.todo = s.todo /\ t.room = s.room - size /\ t.evidence = s.evidence
      /\ t.agent = s.agent /\ t.phase = s.phase /\ t.sound = s.sound /\ t.over = s.over
  BY <1>4 DEF Shaped
<1> HIDE DEF t
<1>7. LET u == Supplied(r, size) IN
      /\ u.todo = Tail(r.todo) /\ u.room = r.room - size
      /\ u.evidence.items = items
      /\ u.evidence.selected = r.evidence.selected
      /\ u.agent = r.agent /\ u.phase = r.phase /\ u.sound = r.sound
      /\ u.over = r.over
  BY <1>1, <1>2, <1>3, <1>5, <1>6
<1> QED BY <1>7 DEF items

\* The next path is read, passed over, or does not fit.
LEMMA ReadContext ==
  ASSUME NEW r, Shaped(r), ContextSound(r), r.phase = "reading", r.todo # <<>>,
         NEW size
  PROVE  /\ ContextSound(Unreadable(r))
         /\ ContextSound(TooLarge(r))
         /\ size \in Nat /\ size <= r.room => ContextSound(Supplied(r, size))
<1>1. CASE r.agent \notin Reading
  BY <1>1, UnreadableFields, TooLargeFields, SuppliedFields DEF ContextSound
<1>2. CASE r.agent \in Reading
  <2>1. PICK todo, items : todo = r.todo /\ items = r.evidence.items
    OBVIOUS
  <2>2. PICK tail, head : tail = Tail(todo) /\ head = Head(todo)
    OBVIOUS
  <2>3. /\ todo \in Seq(Paths) /\ items \in Seq(Paths) /\ todo # <<>>
        /\ IsInjective(todo) /\ IsInjective(items)
        /\ ToSet(todo) \cap ToSet(items) = {} /\ r.room \in Nat
    BY <1>2, <2>1 DEF ContextSound
  <2>4. /\ tail \in Seq(Paths) /\ IsInjective(tail) /\ Len(tail) + 1 = Len(todo)
        /\ head \in Paths /\ head \notin ToSet(tail)
        /\ ToSet(todo) = ToSet(tail) \cup {head}
    BY <2>2, <2>3, TailOf
  <2>5. PICK more : more = Append(items, head)
    OBVIOUS
  <2>6. /\ more \in Seq(Paths) /\ IsInjective(more) /\ Len(more) = Len(items) + 1
        /\ \A y : y \in ToSet(more) <=> y \in ToSet(items) \/ y = head
    <3>1. head \notin ToSet(items)
      BY <2>3, <2>4
    <3>2. head \in Paths
      BY <2>4
    <3>3. items \in Seq(Paths) /\ IsInjective(items)
      BY <2>3
    <3> QED BY <2>5, <3>1, <3>2, <3>3, AppendOf
  <2>7. ToSet(tail) \cap ToSet(items) = {} /\ ToSet(tail) \cap ToSet(more) = {}
    BY <2>3, <2>4, <2>6
  <2>8. r.agent = "documentation-auditor" =>
          /\ Len(items) + Len(tail) <= MaximumFiles
          /\ Len(more) + Len(tail) <= MaximumFiles
    <3> SUFFICES ASSUME r.agent = "documentation-auditor"
                 PROVE  /\ Len(items) + Len(tail) <= MaximumFiles
                        /\ Len(more) + Len(tail) <= MaximumFiles
      OBVIOUS
    <3>1. PICK n \in Nat, k \in Nat : n = Len(items) /\ k = Len(tail)
      BY <2>3, <2>4, LenProperties
    <3>2. n + (k + 1) <= MaximumFiles /\ MaximumFiles \in Nat
      BY <1>2, <2>1, <2>4, <3>1, NothingListed DEF ContextSound
    <3>3. n + k <= MaximumFiles /\ (n + 1) + k <= MaximumFiles
      BY <3>2
    <3> QED BY <2>6, <3>1, <3>3
  <2>9. r.agent = "change-risk-reviewer" /\ r.sound =>
          ToSet(r.evidence.selected)
            \subseteq ToSet(items) \cup r.over \cup ToSet(todo)
    BY <1>2, <2>1 DEF ContextSound
  <2>10. ContextSound(Unreadable(r))
    <3>1. PICK s : s = Unreadable(r)
      OBVIOUS
    <3>2. /\ s.todo = tail /\ s.room = r.room /\ s.evidence.items = items
          /\ s.agent = r.agent /\ s.phase = "reading" /\ s.sound = FALSE
      BY <2>1, <2>2, <3>1, UnreadableFields
    <3>3. ContextSound(s)
      BY <2>3, <2>4, <2>7, <2>8, <3>2 DEF ContextSound
    <3> QED BY <3>1, <3>3
  <2>11. ContextSound(TooLarge(r))
    <3>1. PICK s : s = TooLarge(r)
      OBVIOUS
    <3>2. /\ s.todo = tail /\ s.room = r.room /\ s.evidence.items = items
          /\ s.agent = r.agent /\ s.phase = "reading" /\ s.sound = r.sound
          /\ s.evidence.selected = r.evidence.selected /\ s.over = r.over \cup {head}
      BY <2>1, <2>2, <3>1, TooLargeFields
    <3>3. s.agent = "change-risk-reviewer" /\ s.sound =>
            ToSet(s.evidence.selected) \subseteq ToSet(items) \cup s.over \cup ToSet(tail)
      BY <2>4, <2>9, <3>2
    <3>4. ContextSound(s)
      BY <2>3, <2>4, <2>7, <2>8, <3>2, <3>3 DEF ContextSound
    <3> QED BY <3>1, <3>4
  <2>12. ASSUME size \in Nat, size <= r.room PROVE ContextSound(Supplied(r, size))
    <3>1. PICK s : s = Supplied(r, size)
      OBVIOUS
    <3>2. /\ s.todo = tail /\ s.room = r.room - size /\ s.evidence.items = more
          /\ s.agent = r.agent /\ s.phase = "reading" /\ s.sound = r.sound
          /\ s.evidence.selected = r.evidence.selected /\ s.over = r.over
      <4>1. /\ s.todo = Tail(r.todo) /\ s.room = r.room - size
            /\ s.evidence.items = Append(r.evidence.items, Head(r.todo))
            /\ s.agent = r.agent /\ s.phase = r.phase /\ s.sound = r.sound
            /\ s.evidence.selected = r.evidence.selected /\ s.over = r.over
        BY <3>1, SuppliedFields
      <4>2. s.evidence.items = more
        BY <2>1, <2>2, <2>5, <4>1
      <4>3. s.todo = tail
        BY <2>1, <2>2, <4>1
      <4> QED BY <4>1, <4>2, <4>3
    <3>3. s.room \in Nat
      BY <2>3, <2>12, <3>2
    <3>4. s.agent = "change-risk-reviewer" /\ s.sound =>
            ToSet(s.evidence.selected) \subseteq ToSet(more) \cup s.over \cup ToSet(tail)
      BY <2>4, <2>6, <2>9, <3>2
    <3>5. ContextSound(s)
      BY <2>4, <2>6, <2>7, <2>8, <3>2, <3>3, <3>4 DEF ContextSound
    <3> QED BY <3>1, <3>5
  <2> QED BY <2>10, <2>11, <2>12
<1> QED BY <1>1, <1>2

-----------------------------------------------------------------------------
\* One run changes.
LEMMA ContextFrame ==
  ASSUME RunInv, ContextInv, NEW o \in Operations, NEW r,
         run' = [run EXCEPT ![o] = r], ContextSound(r)
  PROVE  ContextInv'
<1>1. run'[o] = r /\ \A p \in Operations : p # o => run'[p] = run[p]
  BY DEF RunInv
<1> QED BY <1>1 DEF ContextInv

LEMMA RunContext ==
  ASSUME RunInv, ContextInv, NEW o \in Operations
  PROVE  Shaped(run[o]) /\ ContextSound(run[o])
BY DEF RunInv, RunSound, ContextInv

\* A run that ends, or moves on without reading.
LEMMA EndedFrame ==
  ASSUME RunInv, ContextInv, NEW o \in Operations, NEW failure, NEW shown,
         run' = [run EXCEPT ![o] = Ended(o, failure, shown)]
  PROVE  ContextInv'
BY RunContext, EndedContext, ContextFrame

LEMMA MovedFrame ==
  ASSUME RunInv, ContextInv, NEW o \in Operations, NEW phase, phase \notin {"reading", "asking"},
         run' = [run EXCEPT ![o].phase = phase]
  PROVE  ContextInv'
<1>1. run' = [run EXCEPT ![o] = [run[o] EXCEPT !.phase = phase]]
  OBVIOUS
<1>2. ContextSound([run[o] EXCEPT !.phase = phase])
  BY RunContext, MovedContext
<1> QED BY <1>1, <1>2, ContextFrame

LEMMA InspectContext ==
  ASSUME RunInv, ContextInv, NEW o \in Operations, Inspect(o) PROVE ContextInv'
<1>1. PICK sound : \E observed, changed :
        /\ changed \in UNION {[1..n -> Paths] : n \in 0..MaxChanged}
        /\ run' = [run EXCEPT ![o] =
             [Selected(o, Candidates(observed, changed)) EXCEPT !.sound = sound]]
  BY DEF Inspect
<1>2. PICK observed, changed :
        /\ changed \in UNION {[1..n -> Paths] : n \in 0..MaxChanged}
        /\ run' = [run EXCEPT ![o] =
             [Selected(o, Candidates(observed, changed)) EXCEPT !.sound = sound]]
  BY <1>1
<1>3. changed \in Seq(Paths)
  <2>1. PICK n \in 0..MaxChanged : changed \in [1..n -> Paths]
    BY <1>2
  <2>2. n \in Nat
    OBVIOUS
  <2> QED BY <2>1, <2>2
<1>4. PICK paths : paths = Candidates(observed, changed)
  OBVIOUS
<1>5. paths \in Seq(Paths) /\ IsInjective(paths)
  BY <1>3, <1>4, CandidatesAre
<1>6. run[o].agent # "documentation-auditor"
  BY DEF Inspect, Inspecting
<1>7. ContextSound([Selected(o, paths) EXCEPT !.sound = sound])
  BY <1>5, <1>6, SelectedContext
<1> QED BY <1>2, <1>4, <1>7, ContextFrame

LEMMA InventoryContext ==
  ASSUME RunInv, ContextInv, NEW o \in Operations, TakeInventory(o) PROVE ContextInv'
<1>1. CASE run' = [run EXCEPT ![o] = Ended(o, "execution", {})]
  BY <1>1, EndedFrame
<1>2. ASSUME NEW inventory \in SUBSET Paths, NEW paths, paths = AuditPaths(inventory),
             run' = [run EXCEPT ![o] = IF ToSet(paths) \cap Documents # {}
                                       THEN Selected(o, paths)
                                       ELSE Ended(o, "execution", {})]
      PROVE  ContextInv'
  <2>1. CASE ToSet(paths) \cap Documents # {}
    <3>1. paths \in Seq(Paths) /\ IsInjective(paths) /\ Len(paths) <= MaximumFiles
      BY <1>2, AuditPathsAre
    <3>2. ContextSound(Selected(o, paths))
      BY <3>1, SelectedContext
    <3>3. run' = [run EXCEPT ![o] = Selected(o, paths)]
      BY <1>2, <2>1
    <3> QED BY <3>2, <3>3, ContextFrame
  <2>2. CASE ~(ToSet(paths) \cap Documents # {})
    BY <1>1, <1>2, <2>2
  <2> QED BY <2>1, <2>2
<1>3. CASE \E inventory \in SUBSET Paths :
             LET paths == AuditPaths(inventory) IN
             run' = [run EXCEPT ![o] = IF ToSet(paths) \cap Documents # {}
                                       THEN Selected(o, paths)
                                       ELSE Ended(o, "execution", {})]
  BY <1>2, <1>3
<1> QED BY <1>1, <1>3 DEF TakeInventory

LEMMA ReadingContext ==
  ASSUME RunInv, ContextInv, NEW o \in Operations, Read(o) PROVE ContextInv'
<1> DEFINE r == run[o]
<1>1. Shaped(r) /\ ContextSound(r) /\ r.phase = "reading" /\ r.todo # <<>>
  BY RunContext DEF Read
<1>2. CASE run' = [run EXCEPT ![o] = TooLarge(r)]
  BY <1>1, <1>2, ReadContext, ContextFrame
<1>3. CASE run' = [run EXCEPT ![o] = Unreadable(r)]
  BY <1>1, <1>3, ReadContext, ContextFrame
<1>4. ASSUME NEW size \in Sizes,
             run' = [run EXCEPT ![o] = IF size > r.room THEN TooLarge(r)
                                                        ELSE Supplied(r, size)]
      PROVE  ContextInv'
  <2>1. CASE size > r.room
    BY <1>2, <1>4, <2>1
  <2>2. CASE ~(size > r.room)
    <3>1. size \in Nat
      BY BudgetsAssumption
    <3>2. CASE r.agent \in Reading
      <4>1. size <= r.room
        <5>1. r.room \in Nat
          BY <1>1, <3>2 DEF ContextSound
        <5> HIDE DEF r
        <5> QED BY <2>2, <3>1, <5>1
      <4>2. ContextSound(Supplied(r, size))
        BY <1>1, <3>1, <4>1, ReadContext
      <4> QED BY <1>4, <2>2, <4>2, ContextFrame
    <3>3. CASE r.agent \notin Reading
      <4>1. ContextSound(Supplied(r, size))
        BY <1>1, <3>3, SuppliedFields DEF ContextSound
      <4> QED BY <1>4, <2>2, <4>1, ContextFrame
    <3> QED BY <3>2, <3>3
  <2> QED BY <2>1, <2>2
<1> QED BY <1>2, <1>3, <1>4 DEF Read

LEMMA AssembleContext ==
  ASSUME RunInv, ContextInv, NEW o \in Operations, Assemble(o) PROVE ContextInv'
<1>1. CASE \E failure : run' = [run EXCEPT ![o] = Ended(o, failure, {})]
  BY <1>1, EndedFrame
<1>2. CASE /\ run' = [run EXCEPT ![o] = [run[o] EXCEPT !.phase = "asking"]]
           /\ ~(run[o].agent = "change-risk-reviewer" /\ ~run[o].sound)
  <2>1. ContextSound([run[o] EXCEPT !.phase = "asking"])
    BY <1>2, RunContext, MovedContext DEF Assemble
  <2> QED BY <1>2, <2>1, ContextFrame
<1>3. CASE run[o].agent = "change-risk-reviewer" /\ ~run[o].sound
  <2>1. run' = [run EXCEPT ![o] = Ended(o, "evaluation", {})]
    BY <1>3 DEF Assemble
  <2> QED BY <1>1, <2>1
<1>4. CASE /\ ~(run[o].agent = "change-risk-reviewer" /\ ~run[o].sound)
           /\ run[o].evidence.items # <<>>
  <2>1. run' = [run EXCEPT ![o] = [run[o] EXCEPT !.phase = "asking"]]
    BY <1>4 DEF Assemble
  <2> QED BY <1>2, <1>4, <2>1
<1>5. CASE /\ ~(run[o].agent = "change-risk-reviewer" /\ ~run[o].sound)
           /\ ~(run[o].evidence.items # <<>>)
  <2>1. run' = [run EXCEPT ![o] =
          Ended(o, IF run[o].agent = "repository-assistant" THEN "evaluation"
                                                            ELSE "execution", {})]
    BY <1>5 DEF Assemble
  <2> QED BY <1>1, <2>1
<1> QED BY <1>3, <1>4, <1>5

\* The agents that do not select paths collect no such context.
LEMMA OtherContext ==
  ASSUME RunInv, ContextInv, NEW o \in Operations,
         CollectFailure(o) \/ FetchDossier(o) \/ TakeInput(o)
  PROVE  ContextInv'
<1>1. run[o].agent \notin Reading
  BY DEF CollectFailure, FetchDossier, TakeInput, Reading, Inspecting, Dossiers, Council
<1>2. PICK r : /\ run' = [run EXCEPT ![o] = r]
               /\ r = Ended(o, "evaluation", {}) \/ \E items, check : r = Asking(o, items, check)
  BY DEF CollectFailure, FetchDossier, TakeInput
<1>3. r.agent = run[o].agent
  BY <1>2 DEF Ended, Asking, Collected, RunOf
<1>4. ContextSound(r)
  BY <1>1, <1>3 DEF ContextSound
<1> QED BY <1>2, <1>4, ContextFrame

LEMMA ContextStep ==
  RunInv /\ ContextInv /\ [RunNext]_runVars => ContextInv'
<1> SUFFICES ASSUME RunInv, ContextInv, [RunNext]_runVars PROVE ContextInv'
  OBVIOUS
<1>1. ASSUME NEW o \in Operations, Request(o) PROVE ContextInv'
  <2>1. PICK agent \in Agents :
          run' = [run EXCEPT ![o] = RunOf(agent, "requested", Nothing, NoResult)]
    BY <1>1 DEF Request
  <2> QED BY <2>1, FreshContext, ContextFrame
<1>2. ASSUME NEW o \in Operations, Begin(o) PROVE ContextInv'
  BY <1>2, MovedFrame, EndedFrame DEF Begin
<1>3. ASSUME NEW o \in Operations, Collect(o) PROVE ContextInv'
  BY <1>3, InspectContext, InventoryContext, ReadingContext, AssembleContext, OtherContext
     DEF Collect
<1>4. ASSUME NEW o \in Operations, Answer(o) PROVE ContextInv'
  <2>1. PICK failure, shown : run' = [run EXCEPT ![o] = Ended(o, failure, shown)]
    BY <1>4 DEF Answer
  <2> QED BY <2>1, EndedFrame
<1>5. ASSUME NEW o \in Operations, Save(o) PROVE ContextInv'
  BY <1>5, MovedFrame DEF Save
<1>6. ASSUME NEW o \in Operations, Tell(o) \/ Finish(o) \/ Observe(o) PROVE ContextInv'
  BY <1>6 DEF Tell, Finish, Observe, ContextInv
<1>7. CASE Lose
  <2>1. \A o \in Operations : \/ run'[o] = RunOf("tool-builder", "lost", Nothing, NoResult)
                              \/ run'[o] = run[o]
    BY <1>7 DEF Lose
  <2>2. ContextSound(RunOf("tool-builder", "lost", Nothing, NoResult))
    BY FreshContext DEF Agents
  <2> QED BY <2>1, <2>2 DEF ContextInv
<1>8. CASE UNCHANGED runVars
  BY <1>8 DEF runVars, ContextInv
<1> QED BY <1>1, <1>2, <1>3, <1>4, <1>5, <1>6, <1>7, <1>8 DEF RunNext

\* Whatever is in the repository and whatever becomes of reading it, the context of a
\* run stays within its budgets and has no file twice, and a review is asked for only
\* when every file selected for it was read or did not fit (loadRepositoryContext,
\* runChangeRiskReview, runDocumentationAudit).
THEOREM ContextsAreComplete == RunSpec => []ContextComplete
<1>1. RunInit => ContextInv
  <2> SUFFICES ASSUME RunInit PROVE ContextInv
    OBVIOUS
  <2>1. \A o \in Operations : run[o] = NoRun
    BY DEF RunInit
  <2>2. ContextSound(NoRun)
    BY FreshContext DEF NoRun, Agents
  <2> QED BY <2>1, <2>2 DEF ContextInv
<1>2. RunSpec => []RunInv
  BY RunsSound
<1>3. RunSpec => []ContextInv
  BY <1>1, <1>2, ContextStep, PTL DEF RunSpec
<1>4. ContextInv => ContextComplete
  <2> SUFFICES ASSUME ContextInv, NEW o \in Operations,
                      run[o].agent \in Inspecting \cup {"documentation-auditor"}
               PROVE  LET r == run[o] IN
                      /\ r.room >= 0
                      /\ IsInjective(r.evidence.items)
                      /\ r.agent = "documentation-auditor"
                           => Len(r.evidence.items) <= MaximumFiles
                      /\ r.agent = "change-risk-reviewer" /\ r.phase = "asking"
                           => ToSet(r.evidence.selected)
                                \subseteq ToSet(r.evidence.items) \cup r.over
    BY DEF ContextComplete
  <2> DEFINE r == run[o]
  <2>1. ContextSound(r) /\ r.agent \in Reading
    BY DEF ContextInv, Reading
  <2>2. PICK n \in Nat, k \in Nat : n = Len(r.evidence.items) /\ k = Len(r.todo)
    BY <2>1, LenProperties DEF ContextSound
  <2>3. r.agent = "documentation-auditor" => n <= MaximumFiles
    <3>1. r.agent = "documentation-auditor" => n + k <= MaximumFiles
      BY <2>1, <2>2 DEF ContextSound
    <3>2. MaximumFiles \in Nat
      BY NothingListed
    <3> QED BY <3>1, <3>2
  <2>4. r.room >= 0
    <3>1. r.room \in Nat
      BY <2>1 DEF ContextSound
    <3> HIDE DEF r
    <3> QED BY <3>1
  <2> QED BY <2>1, <2>2, <2>3, <2>4 DEF ContextSound
<1> QED BY <1>3, <1>4, PTL

=============================================================================
