---------------------------- MODULE OperationStore ----------------------------
(***************************************************************************)
(* The operations of the web console.  A request starts an operation that  *)
(* runs in the background of the server process and reports its progress   *)
(* as events; clients follow it on an event stream or see it in the tray.  *)
(* Everything is in the memory of the server: a restart forgets it.  The   *)
(* server is one event loop, so a handler is one step.  A subscriber       *)
(* writes to a socket: it does not throw.  Pages that poll an operation    *)
(* are in ConsolePage.                                                     *)
(*                                                                         *)
(*   absent --Start--> queued --Run--> running --> completed | failed      *)
(*   any of them --Restart--> forgotten                                    *)
(***************************************************************************)
EXTENDS Naturals, SequencesExt, FiniteSets

CONSTANTS
  Operations,   \* operations that may be started
  Streams,      \* clients of the event stream
  Limit,        \* how many operations the tray asks for
  MaxEvents,    \* bound: progress events of an operation
  MaxRestarts   \* bound: restarts of the server

ASSUME LimitAssumption == Limit \in Nat

VARIABLES
  operation,  \* operation[o]: its snapshot in the store
  settled,    \* the operations that are settled, in the order of completedAt
  stream,     \* stream[s]: the connection of a stream client
  restarts

vars == <<operation, settled, stream, restarts>>

-----------------------------------------------------------------------------
Stages   == {"queued", "execution", "workflow", "completed", "failed"}
Statuses == {"absent", "queued", "running", "completed", "failed", "forgotten"}
Terminal == {"completed", "failed"}

Operation == [status : Statuses, events : Seq(Stages), acknowledged : BOOLEAN]
Absent    == [status |-> "absent", events |-> <<>>, acknowledged |-> FALSE]
Forgotten == [Absent EXCEPT !.status = "forgotten"]

\* The store knows the operation.
Known(o) == operation[o].status \notin {"absent", "forgotten"}

\* on: the operation followed.  subscribed: the store calls it for every event.
Stream == [on : Operations, received : Seq(Stages), open : BOOLEAN,
           subscribed : BOOLEAN]

Emitted(o, status, stage) ==
  [operation[o] EXCEPT !.status = status, !.events = Append(@, stage)]

\* Mutation of Notified, in no specification: the last event is not delivered.
NotifiedQuietly(o, stage, terminal) ==
  [s \in Streams |->
     IF stream[s].subscribed /\ stream[s].on = o
     THEN [stream[s] EXCEPT
             !.received = IF terminal THEN @ ELSE Append(@, stage),
             !.open = ~terminal, !.subscribed = ~terminal]
     ELSE stream[s]]

\* The subscribers of o get the event; a terminal one ends their streams and
\* drops the subscriptions.
Notified(o, stage, terminal) ==
  [s \in Streams |->
     IF stream[s].subscribed /\ stream[s].on = o
     THEN [stream[s] EXCEPT !.received = Append(@, stage),
                            !.open = ~terminal, !.subscribed = ~terminal]
     ELSE stream[s]]

-----------------------------------------------------------------------------
Init ==
  /\ operation = [o \in Operations |-> Absent]
  /\ settled = <<>>
  /\ stream \in [Streams -> {[on |-> o, received |-> <<>>, open |-> FALSE,
                              subscribed |-> FALSE] : o \in Operations}]
  /\ restarts = 0

Start(o) ==
  /\ operation[o].status = "absent"
  /\ operation' = [operation EXCEPT ![o] = Emitted(o, "queued", "queued")]
  /\ stream' = Notified(o, "queued", FALSE)
  /\ UNCHANGED <<settled, restarts>>

\* The microtask of the operation begins to execute it.
Run(o) ==
  /\ operation[o].status = "queued"
  /\ operation' = [operation EXCEPT ![o] = Emitted(o, "running", "execution")]
  /\ stream' = Notified(o, "execution", FALSE)
  /\ UNCHANGED <<settled, restarts>>

\* The execution reports progress.
Emit(o) ==
  /\ operation[o].status = "running"
  /\ Len(operation[o].events) < MaxEvents
  /\ operation' = [operation EXCEPT ![o] = Emitted(o, "running", "workflow")]
  /\ stream' = Notified(o, "workflow", FALSE)
  /\ UNCHANGED <<settled, restarts>>

\* The settled operations when o settles now.
Settled(o) == Append(settled, o)

\* The execution ends, well or with an error.
Settle(o) ==
  /\ operation[o].status = "running"
  /\ \E outcome \in Terminal :
       /\ operation' = [operation EXCEPT ![o] = Emitted(o, outcome, outcome)]
       /\ stream' = Notified(o, outcome, TRUE)
  /\ settled' = Settled(o)
  /\ UNCHANGED restarts

Acknowledge(o) ==
  /\ operation[o].status = "failed"
  /\ operation' = [operation EXCEPT ![o].acknowledged = TRUE]
  /\ UNCHANGED <<settled, stream, restarts>>

\* Mutation of Opened, in no specification: what was emitted before is not sent.
OpenedLate(o) ==
  [on |-> o, received |-> <<>>, open |-> operation[o].status \notin Terminal,
   subscribed |-> operation[o].status \notin Terminal]

\* A stream starts with the events so far, and ends there if o is settled.
Opened(o) ==
  [on |-> o, received |-> operation[o].events,
   open |-> operation[o].status \notin Terminal,
   subscribed |-> operation[o].status \notin Terminal]

OpenStream(s, o) ==
  /\ ~stream[s].open
  /\ Known(o)
  /\ stream' = [stream EXCEPT ![s] = Opened(o)]
  /\ UNCHANGED <<operation, settled, restarts>>

\* The client goes away, and what it received with it.
CloseStream(s) ==
  /\ stream[s].open
  /\ stream' = [stream EXCEPT ![s] = [@ EXCEPT !.received = <<>>, !.open = FALSE,
                                               !.subscribed = FALSE]]
  /\ UNCHANGED <<operation, settled, restarts>>

\* The server forgets its operations; ids are never used again.
Restart ==
  /\ restarts < MaxRestarts
  /\ restarts' = restarts + 1
  /\ operation' = [o \in Operations |-> IF Known(o) THEN Forgotten ELSE operation[o]]
  /\ settled' = <<>>
  /\ stream' = [s \in Streams |-> [stream[s] EXCEPT !.open = FALSE,
                                                    !.subscribed = FALSE]]

Next ==
  \/ \E o \in Operations :
       \/ Start(o) \/ Run(o) \/ Emit(o) \/ Settle(o) \/ Acknowledge(o)
       \/ \E s \in Streams : OpenStream(s, o)
  \/ \E s \in Streams : CloseStream(s)
  \/ Restart

Spec == Init /\ [][Next]_vars

-----------------------------------------------------------------------------
\* The tray: every operation under way, every failure that nobody acknowledged,
\* then those settled last, as many as there is room for and at least three.
Active == {o \in Operations : operation[o].status \in {"queued", "running"}}

\* Mutation of Pinned, in no specification: failures scroll away.
PinnedNone == {}

Pinned == {o \in Operations :
             operation[o].status = "failed" /\ ~operation[o].acknowledged}

\* How many of the other settled operations the tray lists.
Room ==
  LET used == Cardinality(Active) + Cardinality(Pinned) IN
  IF Limit >= used + 3 THEN Limit - used ELSE 3

\* The operations that settled after the i-th and are not pinned.
SettledAfter(i) == {j \in DOMAIN settled : j > i /\ settled[j] \notin Pinned}

ListRecent ==
  Active \cup Pinned
    \cup {settled[i] : i \in {n \in DOMAIN settled : Cardinality(SettledAfter(n)) < Room}}

-----------------------------------------------------------------------------
\* Every variable holds a value of its kind, and exactly the settled operations
\* are listed as settled, once each.
TypeOK ==
  /\ operation \in [Operations -> Operation]
  /\ settled \in Seq(Operations) /\ IsInjective(settled)
  /\ ToSet(settled) = {o \in Operations : operation[o].status \in Terminal}
  /\ stream \in [Streams -> Stream]
  /\ restarts \in Nat

\* A client that is connected has received every event of its operation, once
\* and in order, whenever it connected, and it is connected only while there is
\* more to come.
StreamExact ==
  \A s \in Streams : stream[s].open =>
    /\ stream[s].subscribed
    /\ stream[s].received = operation[stream[s].on].events
    /\ operation[stream[s].on].status \in {"queued", "running"}

\* No client is left without the outcome: the server ends a stream only when its
\* operation settles, and then the client has received the whole history.
OutcomeTold ==
  [][\A s \in Streams, o \in Operations :
       /\ stream[s].open /\ stream[s].on = o
       /\ operation[o].status # operation'[o].status
       /\ operation'[o].status \in Terminal
       => ~stream'[s].open /\ stream'[s].received = operation'[o].events]_vars

\* A failure does not scroll away: once the tray lists it, it lists it until it
\* is acknowledged or the server restarts, however many operations settle after
\* it; and the three settled last are always listed.
FailureStaysListed ==
  [][/\ \A o \in ListRecent :
          operation[o].status = "failed" /\ ~operation'[o].acknowledged
            => o \in ListRecent' \/ restarts' # restarts
     /\ \A i \in DOMAIN settled' : i > Len(settled') - 3 => settled'[i] \in ListRecent']_vars

=============================================================================
