----------------------------- MODULE ProjectPage -----------------------------
(***************************************************************************)
(* The page of a Foundry project over the operation store: what it shows   *)
(* of the project's records, the tray that watches the operations, the     *)
(* controls that start stages and follow them, and the forms.  Records are *)
(* only ever added, by operations, by forms and by commands of other       *)
(* processes, so a view of the project is how many of them it has, counted *)
(* from when the page was opened.                                          *)
(*                                                                         *)
(*   page: closed --Open--> loading --Arrive--> shown --reload--> loading  *)
(*         a restart of the server makes it failed if a load is under way  *)
(*                                                                         *)
(* While the page loads nothing of it is mounted: a reload drops what the  *)
(* tray and the controls hold, loads overlap, and none is ever cancelled.  *)
(* A request fails only when the server restarts.  Every operation is one  *)
(* of this project, and leaves its record with its last step.              *)
(***************************************************************************)
EXTENDS OperationStore

CONSTANTS
  Controls,     \* the controls that start stages
  NextStep,     \* the one of them that is on every page of the project
  MaxOpen,      \* bound: operations that were started while a page is open
  MaxLoads,     \* bound: loads under way
  MaxPosts,     \* bound: requests of forms under way
  MaxRecords    \* bound: records that forms and other processes add to an open page

ASSUME NextStepAssumption == NextStep \in Controls

VARIABLES
  records,  \* how many records were added since the page was opened
  leaves,   \* leaves[o]: the number of the record that o left since then, or 0
  page,     \* "closed", "loading", "shown" or "failed"
  unread,   \* how many loads under way the server has not handled
  views,    \* those it has, by how many records their answers have
  tray,     \* the operations the tray saw under way, and its poll under way
  control,  \* control[c]: what c has asked to start, and the one it follows
  sent,     \* requests of forms that the server has not handled
  replies,  \* those it has, by how many records there were then
  owed,     \* history: completed operations the page was watching and has not shown
  own       \* history: the last record confirmed to a form and not shown, or 0

loads  == <<unread, views>>
posts  == <<sent, replies>>
client == <<page, loads, tray, control, posts, owed, own>>

-----------------------------------------------------------------------------
\* How many records the server may add for a form.
DecisionForm    == {1}
FieldReportForm == {1}
AnswerForm      == {1}
WorkOrderButton == {0, 1}

Forms == {DecisionForm, FieldReportForm, AnswerForm, WorkOrderButton}

\* Commands of the command line, by how many records each adds.
DecisionCommands == {"brief-decide", "plan-decide", "capability-decide",
                     "tests-decide", "submission-decide", "record-completion"}
StageCommands == {"intake-turn", "architect-plan", "capability-plan", "design-tests"}
BuildCommands == {"work-order", "materialize-tests", "builder-workspace", "submit-slice"}

Adds(command) ==
  CASE command = "intake-turn" -> 2
    [] command \in {"materialize-tests", "builder-workspace"} -> 0
    [] OTHER -> 1

\* How many records no operation left.
Others == records - Cardinality({o \in Operations : leaves[o] # 0})

Mounted == page = "shown"

EmptyTray == [active |-> {}, poll |-> {}, polling |-> FALSE]
Idle == [asked |-> {}, follows |-> {}]

Followed(controls) == UNION {control[c].follows : c \in controls}

\* The operations the mounted page will ask about again.
Held == tray.active \cup Followed(Controls)

\* n loads begin: the page unmounts.
Reload(n) ==
  /\ unread + Len(views) + n <= MaxLoads
  /\ unread' = unread + n
  /\ page' = "loading"
  /\ tray' = EmptyTray
  /\ control' = [c \in Controls |-> Idle]
  /\ UNCHANGED views

\* Some load will show record number n.
OnItsWay(n) == unread > 0 \/ \E i \in DOMAIN views : views[i] >= n

-----------------------------------------------------------------------------
\* There is no page, or it begins to load.
Fresh(state) ==
  /\ page' = state
  /\ unread' = (IF state = "loading" THEN 1 ELSE 0) /\ views' = <<>>
  /\ tray' = EmptyTray
  /\ control' = [c \in Controls |-> Idle]
  /\ sent' = <<>> /\ replies' = <<>>
  /\ records' = 0 /\ leaves' = [o \in Operations |-> 0]
  /\ owed' = {} /\ own' = 0
  /\ UNCHANGED vars

PageInit ==
  /\ Init
  /\ records = 0
  /\ leaves = [o \in Operations |-> 0]
  /\ page = "closed"
  /\ unread = 0 /\ views = <<>>
  /\ tray = EmptyTray
  /\ control = [c \in Controls |-> Idle]
  /\ sent = <<>> /\ replies = <<>>
  /\ owed = {} /\ own = 0

\* How many operations were started.
Started == Cardinality({o \in Operations : operation[o].status # "absent"})

\* The operator opens the page.  As a bound, nothing is streamed by then and
\* no operation has told of its progress.
Open ==
  /\ page = "closed" /\ Started <= MaxOpen
  /\ \A s \in Streams : stream[s].received = <<>>
  /\ \A o \in Operations : "workflow" \notin ToSet(operation[o].events)
  /\ Fresh("loading")

\* The operator leaves the page, or is about to refresh it.
Leave ==
  /\ page # "closed"
  /\ Fresh("closed")

\* The server reads the chain for a load.
ReadChain ==
  /\ unread > 0
  /\ unread' = unread - 1 /\ views' = Append(views, records)
  /\ UNCHANGED <<vars, records, leaves, page, tray, control, posts, owed, own>>

\* An answer arrives, not necessarily the last one: its view is shown.
Arrive ==
  /\ \E i \in DOMAIN views :
       /\ views' = RemoveAt(views, i)
       /\ owed' = {o \in owed : leaves[o] > views[i]}
       /\ own' = IF own > views[i] THEN own ELSE 0
  /\ page' = "shown"
  /\ UNCHANGED <<vars, records, leaves, unread, tray, control, posts>>

-----------------------------------------------------------------------------
\* A control asks the server to start a stage.
StartStage(c, o) ==
  /\ Mounted /\ Started < MaxOpen
  /\ Start(o)
  /\ control' = [control EXCEPT ![c].asked = @ \cup {o}]
  /\ UNCHANGED <<records, leaves, page, loads, tray, posts, owed, own>>

\* Its answer arrives: the control follows the operation, and no other.
StageStarted(c, o) ==
  /\ o \in control[c].asked
  /\ control' = [control EXCEPT ![c] = [asked |-> @.asked \ {o}, follows |-> {o}]]
  /\ owed' = owed \ (control[c].follows \ (tray.active \cup Followed(Controls \ {c})))
  /\ UNCHANGED <<vars, records, leaves, page, loads, tray, posts, own>>

\* A control that follows an operation sees its outcome.
SeeOutcome(c) ==
  /\ \E o \in control[c].follows :
       \/ /\ operation[o].status = "completed"
          /\ Reload(1)
       \/ /\ operation[o].status = "failed"
          /\ control' = [control EXCEPT ![c].follows = {}]
          /\ UNCHANGED <<page, loads, tray>>
  /\ UNCHANGED <<vars, records, leaves, posts, owed, own>>

\* The operator goes to another page of the project.
Navigate ==
  /\ Mounted
  /\ \E c \in Controls \ {NextStep} : control[c] # Idle
  /\ control' = [c \in Controls |-> IF c = NextStep THEN control[c] ELSE Idle]
  /\ owed' = owed \ (Followed(Controls \ {NextStep})
                             \ (tray.active \cup Followed({NextStep})))
  /\ UNCHANGED <<vars, records, leaves, page, loads, tray, posts, own>>

-----------------------------------------------------------------------------
\* The tray asks the server for the operations.
PollTray ==
  /\ Mounted /\ ~tray.polling
  /\ tray' = [tray EXCEPT !.polling = TRUE, !.poll = ListRecent \cap Active]
  /\ UNCHANGED <<vars, records, leaves, page, loads, control, posts, owed, own>>

\* Mutation of Gone, in no specification: looked at when nothing is under way.
GoneWhenIdle(before, now) == IF now = {} THEN before ELSE {}

\* The operations that are not under way any more.
Gone(before, now) == before \ now

\* The answer arrives: the page is reloaded for every operation that is gone.
TrayAnswered ==
  /\ tray.polling
  /\ LET gone == Gone(tray.active, tray.poll) IN
     IF gone # {}
     THEN Reload(Cardinality(gone))
     ELSE /\ tray' = [active |-> tray.poll, poll |-> {}, polling |-> FALSE]
          /\ UNCHANGED <<page, loads, control>>
  /\ UNCHANGED <<vars, records, leaves, posts, owed, own>>

\* The operator dismisses a failure.
Dismiss(o) ==
  /\ Mounted /\ ~operation[o].acknowledged
  /\ Acknowledge(o)
  /\ UNCHANGED <<records, leaves, client>>

-----------------------------------------------------------------------------
\* The operator submits a form.  A form whose request is under way is disabled,
\* but a reload makes a new one.
Submit(form) ==
  /\ Mounted /\ Len(sent) + Len(replies) < MaxPosts
  /\ sent' = Append(sent, form)
  /\ UNCHANGED <<vars, records, leaves, page, loads, tray, control, replies, owed, own>>

\* The server handles a request and adds what it asks for, or refuses it, say for
\* want of the operator token, which the form then shows.
Handle ==
  /\ \E i \in DOMAIN sent :
       /\ sent' = RemoveAt(sent, i)
       /\ \/ /\ \E n \in sent[i] :
                  /\ Others + n <= MaxRecords
                  /\ records' = records + n
             /\ replies' = Append(replies, records')
          \/ UNCHANGED <<records, replies>>
  /\ UNCHANGED <<vars, leaves, page, loads, tray, control, owed, own>>

\* Mutation of Reloads, in no specification: a form that is gone does nothing.
ReloadsMounted == Mounted

\* A form whose request is done reloads the page, also when it is gone by now.
Reloads == TRUE

\* The answer to a form arrives.
FormAnswered ==
  /\ \E i \in DOMAIN replies :
       /\ replies' = RemoveAt(replies, i)
       /\ own' = IF replies[i] > own THEN replies[i] ELSE own
  /\ IF Reloads THEN Reload(1) ELSE UNCHANGED <<page, loads, tray, control>>
  /\ UNCHANGED <<vars, records, leaves, sent, owed>>

-----------------------------------------------------------------------------
\* An operation is started elsewhere, or goes on.  Progress changes nothing on the
\* page: as a bound there is none while it is open.
Elsewhere(o) ==
  /\ \/ (page = "closed" \/ Started < MaxOpen) /\ Start(o)
     \/ Run(o)
     \/ page = "closed" /\ Emit(o)
  /\ UNCHANGED <<records, leaves, client>>

\* An operation settles; a completed one left a record.  The page is not to miss
\* it if it asks about the operation again or is about to read the chain.
FinishOperation(o) ==
  /\ Settle(o)
  /\ IF page # "closed" /\ operation'[o].status = "completed"
     THEN /\ records' = records + 1
          /\ leaves' = [leaves EXCEPT ![o] = records']
          /\ owed' = IF o \in Held \/ unread > 0
                        THEN owed \cup {o} ELSE owed
     ELSE UNCHANGED <<records, leaves, owed>>
  /\ UNCHANGED <<page, loads, tray, control, posts, own>>

\* A client of the event stream comes or goes; as a bound, while no page is open.
FollowStream(s) ==
  /\ page = "closed"
  /\ CloseStream(s) \/ \E o \in Operations : OpenStream(s, o)
  /\ UNCHANGED <<records, leaves, client>>

\* A command of another process adds its records.
Command ==
  /\ page # "closed"
  /\ \E n \in {Adds(command) : command \in DecisionCommands \cup StageCommands \cup BuildCommands} :
       /\ Others + n <= MaxRecords
       /\ records' = records + n
  /\ UNCHANGED <<vars, leaves, client>>

\* The server restarts: what is under way fails.  A page that was loading says so
\* and stays that way; the tray asks again.
RestartServer ==
  /\ Restart
  /\ IF unread > 0 \/ views # <<>>
     THEN /\ page' = "failed" /\ unread' = 0 /\ views' = <<>>
          /\ tray' = EmptyTray
          /\ control' = [c \in Controls |-> Idle]
     ELSE /\ tray' = [tray EXCEPT !.poll = {}, !.polling = FALSE]
          /\ control' = [c \in Controls |-> [control[c] EXCEPT !.asked = {}]]
          /\ UNCHANGED <<page, loads>>
  /\ sent' = <<>> /\ replies' = <<>>
  /\ owed' = {} /\ own' = 0
  /\ UNCHANGED <<records, leaves>>

PageNext ==
  \/ Open \/ Leave \/ ReadChain \/ Arrive \/ Navigate
  \/ \E c \in Controls :
       SeeOutcome(c) \/ \E o \in Operations : StartStage(c, o) \/ StageStarted(c, o)
  \/ PollTray \/ TrayAnswered
  \/ \E form \in Forms : Submit(form)
  \/ Handle \/ FormAnswered
  \/ \E o \in Operations : Dismiss(o) \/ Elsewhere(o) \/ FinishOperation(o)
  \/ \E s \in Streams : FollowStream(s)
  \/ Command \/ RestartServer

PageSpec == PageInit /\ [][PageNext]_<<vars, records, leaves, client>>

-----------------------------------------------------------------------------
\* What the page was watching it shows: an operation that completes while the
\* tray or a control waits for it, or while a load is still to read the chain,
\* gets shown, whatever reloads throw away on the page and in whatever order
\* their answers arrive.
WatchedIsShown ==
  \A o \in owed : OnItsWay(leaves[o]) \/ (Mounted /\ o \in Held)

\* What the page recorded it shows: when a form is told that its request is done,
\* the page has shown the record or a load under way will, also when the form is
\* gone by then.
OwnRecordsShown == own > 0 => OnItsWay(own)

===============================================================================
