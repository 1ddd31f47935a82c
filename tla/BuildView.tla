------------------------------- MODULE BuildView -------------------------------
(***************************************************************************)
(* What the three sides of a build read from its records: the status that  *)
(* the pages show of every slice and the step their banner offers, the     *)
(* slice a new order would be for, and the orders that the builder's       *)
(* channel lists as open.  Each is derived by code of its own, in another  *)
(* process than the services that accept or refuse the next step.          *)
(***************************************************************************)
EXTENDS GovernedBuild

-----------------------------------------------------------------------------
OrdersFor(s)     == {o \in DOMAIN orders : orders[o].slice = s}
SubmissionsOf(s) == {u \in DOMAIN submissions : SliceOf(u) = s}
DecisionsOn(s)   == {d \in DOMAIN decisions : SliceOf(decisions[d].submission) = s}

\* n is the newest of these.
IsNewest(n, S) == n \in S /\ \A m \in S : m <= n

\* The status of slice s when nobody has decided on it.
Undecided(s) ==
  IF \E u \in SubmissionsOf(s) : IsNewest(u, SubmissionsOf(s)) /\ submissions[u].passed
  THEN "submitted-passed"
  ELSE IF SubmissionsOf(s) # {} THEN "submitted-failed"
  ELSE IF OrdersFor(s) # {} THEN "ordered"
  ELSE "not-started"

\* Mutation of SliceStatus, in no specification: the latest decision counts.
SliceStatusLatest(s) ==
  IF s \in carried THEN "carried"
  ELSE IF DecisionsOn(s) = {} THEN Undecided(s)
  ELSE IF \E d \in DecisionsOn(s) : /\ IsNewest(d, DecisionsOn(s))
                                    /\ decisions[d].kind = "approve"
  THEN "approved" ELSE "rejected"

\* The status shown for slice s: approved once is approved for good, and a
\* decision counts until the slice is approved, however often it is submitted.
SliceStatus(s) ==
  IF s \in carried THEN "carried"
  ELSE IF \E d \in DecisionsOn(s) : decisions[d].kind = "approve" THEN "approved"
  ELSE IF DecisionsOn(s) # {} THEN "rejected"
  ELSE Undecided(s)

\* The slices that may be next; an order that names none is for the first one.
NextSlices == {s \in Slices \ Satisfied : DependsOn[s] \subseteq Satisfied}

\* The orders the builder is offered: the newest of every slice that has no
\* approval, as long as the suite is approved.
OpenOrders ==
  {o \in DOMAIN orders :
     /\ suiteApproved
     /\ orders[o].slice \notin ApprovedAt(Len(decisions))
     /\ IsNewest(o, OrdersFor(orders[o].slice))}

\* The banner: what to do, and the slices of which it names the first.
NextBuildStep ==
  LET Showing(statuses) == {s \in Slices : SliceStatus(s) \in statuses}
      submitted         == Showing({"submitted-passed", "submitted-failed"})
      ordered           == Showing({"ordered"})
      Step(kind, slices) == [kind |-> kind, slices |-> slices] IN
  IF submitted # {} THEN Step("decide", submitted)
  ELSE IF ordered # {} THEN Step("wait", ordered)
  ELSE IF Showing({"approved", "carried"}) # Slices THEN Step("issue", NextSlices)
  ELSE IF completions = <<>> THEN Step("complete", {})
  ELSE Step("done", {})

-----------------------------------------------------------------------------
\* While the suite is approved the build can always go on where the banner says,
\* by the hands of whom it says: a decision it asks for is on a submission that
\* nobody has decided on, the builder it waits for is offered an order for that
\* slice, an order can be issued, a completion passes the gate, and when the
\* generation is closed the builder is offered nothing more.
BuildBannerLeadsOn ==
  suiteApproved =>
    LET step == NextBuildStep IN
    /\ step.kind = "decide" =>
         \A s \in step.slices : \E u \in SubmissionsOf(s) :
           \A d \in DOMAIN decisions : decisions[d].submission # u
    /\ step.kind = "wait" =>
         \A s \in step.slices : \E o \in OpenOrders : orders[o].slice = s
    /\ step.kind = "issue" => step.slices # {} /\ \A s \in step.slices : Ready(s)
    /\ step.kind = "complete" => Complete
    /\ step.kind = "done" => OpenOrders = {}

=============================================================================
