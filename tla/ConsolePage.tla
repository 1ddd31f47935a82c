------------------------------ MODULE ConsolePage ------------------------------
(***************************************************************************)
(* The page of an operation in the web console: it polls the snapshot of   *)
(* the operation store until it shows an outcome.  Between the page and    *)
(* the server requests overlap and answers arrive in any order.            *)
(***************************************************************************)
EXTENDS OperationStore

CONSTANTS MaxInFlight  \* bound: polls of a page that are under way

VARIABLES
  console,  \* console[o]: the status the page of o shows
  answers   \* answers[o]: polls under way, as the statuses they will deliver

pageVars == <<console, answers>>

ConsoleInit ==
  /\ console = [o \in Operations |-> "absent"]
  /\ answers = [o \in Operations |-> <<>>]

\* Mutation of Polls, in no specification: only the first answer is waited for.
PollsOnce(o) == console[o] = "absent"

\* The page of o polls until it shows a terminal status.
Polls(o) == console[o] \notin Terminal

\* A poll reaches the server, which answers with the snapshot; the page keeps
\* what it shows when the server no longer knows the operation.
Poll(o) ==
  /\ Polls(o) /\ Len(answers[o]) < MaxInFlight
  /\ Known(o)
  /\ answers' = [answers EXCEPT ![o] = Append(@, operation[o].status)]
  /\ UNCHANGED <<vars, console>>

\* An answer arrives, not necessarily the oldest, and the page shows it.
Show(o) ==
  /\ \E i \in DOMAIN answers[o] :
       /\ console' = [console EXCEPT ![o] = answers[o][i]]
       /\ answers' = [answers EXCEPT ![o] = RemoveAt(@, i)]
  /\ UNCHANGED vars

\* The timer of the page keeps polling and answers arrive, in whatever order.
\* Nothing is assumed of the execution: that it ends is up to the model provider.
Fairness == \A o \in Operations : WF_<<vars, pageVars>>(Poll(o)) /\ WF_<<vars, pageVars>>(Show(o))

-----------------------------------------------------------------------------
\* The page ends up showing the outcome, although answers overtake each other
\* and a late one may take a page that showed the outcome back to "running".
OutcomeShown ==
  \A o \in Operations :
    <>[](operation[o].status \in Terminal => console[o] = operation[o].status)

===============================================================================
