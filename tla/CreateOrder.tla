---- MODULE CreateOrder ----
(***************************************************************************)
(* The request path: httpapi.Handler.CreateOrder around                     *)
(* usecase.Interactor.Execute (internal/usecase/create_order.go).  One       *)
(* action per call that Execute makes to the database, to a service or to    *)
(* the log, so that other requests, recovery workers and crashes interleave  *)
(* with it exactly where they can.                                           *)
(***************************************************************************)
EXTENDS ServiceState

\* A request body as the handler and the validation see it.
Requests ==
  [wellFormed : BOOLEAN, tier : {"", "free", "premium", "other"},
   customer : {"", "customer"}, items : {"empty", "invalid", "valid"}, idDrawn : BOOLEAN]

normalizedCustomerTier(tier) == tier \in {"", "free", "premium"}

\* Everything that ends a request before it touches the database, in order.
RequestErrors(q) ==
  IF ~q.wellFormed THEN {"ErrInvalidBody"}
  ELSE IF ~normalizedCustomerTier(q.tier) THEN {"ErrInvalidCustomerTier"}
  ELSE IF ~q.idDrawn THEN {"ErrUnclassified"}
  ELSE NewOrderErrors(q.customer, q.items)

\* Bug: whatever is not an approval is a decline.
BranchOrDecline(result) ==
  IF result.err # NoError
  THEN IF PaymentOutcomeMayHaveCommitted(result.err) THEN "ambiguous" ELSE "rejected"
  ELSE IF result.status = "approved" THEN "approved" ELSE "declined"

\* The branch of Execute's switch a result of Charge selects.
Branch(result) ==
  IF result.err # NoError
  THEN IF PaymentOutcomeMayHaveCommitted(result.err) THEN "ambiguous" ELSE "rejected"
  ELSE IF result.status \in {"declined", "approved"} THEN result.status
  ELSE "invalid"

\* The transition of each branch: whether the aggregate allows it, the order
\* it produces, and what is returned when it refuses.
Allowed(order, branch) ==
  CASE branch \in {"ambiguous", "invalid"} -> order.status = "pending"
    [] branch \in {"rejected", "declined", "approved"} -> PaymentOpen(order)
    [] branch = "unfulfilled" -> order.status = "paid"
    [] branch = "fulfilled" -> FulfillmentOpen(order)

Transition(order, branch, ref) ==
  CASE branch \in {"ambiguous", "invalid"} -> MarkPaymentUnknown(order)
    [] branch \in {"rejected", "declined"} -> MarkFailed(order)
    [] branch = "approved" -> MarkPaid(order, ref)
    [] branch = "unfulfilled" -> MarkFulfillmentPending(order)
    [] branch = "fulfilled" -> Complete(order)

\* Bug: an order whose reservation failed is returned without an error.
StoredErrorsWithoutFulfillment(branch) ==
  CASE branch \in {"ambiguous", "invalid"} -> {"ErrPaymentUncertain"}
    [] branch = "rejected" -> {"ErrPaymentRejected"}
    [] OTHER -> {}

\* The error returned with an order once its transition is stored, ...
StoredErrors(branch) ==
  CASE branch \in {"ambiguous", "invalid"} -> {"ErrPaymentUncertain"}
    [] branch = "rejected" -> {"ErrPaymentRejected"}
    [] branch = "unfulfilled" -> {"ErrFulfillmentPending"}
    [] OTHER -> {}

\* Bug: a paid order that could not be stored is an ordinary failure.
SaveErrorsWithoutApproved(branch) ==
  CASE branch \in {"ambiguous", "invalid"} -> {"ErrPaymentUncertain"}
    [] branch = "rejected" -> {"ErrPaymentRejected"}
    [] branch \in {"declined", "approved"} -> {"ErrUnclassified"}
    [] branch \in {"unfulfilled", "fulfilled"} -> {"ErrFulfillmentPending"}

\* ... when storing it failed, ...
SaveErrors(branch) ==
  CASE branch \in {"ambiguous", "invalid", "approved"} -> {"ErrPaymentUncertain"}
    [] branch = "rejected" -> {"ErrPaymentRejected"}
    [] branch = "declined" -> {"ErrUnclassified"}
    [] branch \in {"unfulfilled", "fulfilled"} -> {"ErrFulfillmentPending"}

\* ... and when another worker had advanced the row.
ConflictErrors(branch) ==
  {"ErrConcurrentStateChange"} \cup
  IF branch \in {"unfulfilled", "fulfilled"}
  THEN {"ErrFulfillmentPending"} ELSE {"ErrPaymentUncertain"}

ReqBecomes(o, r) == req' = [req EXCEPT ![o] = r]

\* Execute returns and the handler answers; status "absent" is a nil order.
Respond(o, status, errs) ==
  /\ ReqBecomes(o, DoneReq)
  /\ resp' = [resp EXCEPT ![o] = [given |-> TRUE, status |-> status, errs |-> errs]]

Goto(o, pc) == ReqBecomes(o, [req[o] EXCEPT !.pc = pc]) /\ UNCHANGED resp

\* The tail of a branch of Execute: the transition on a clone of the order,
\* then saveTransition, unless the aggregate refuses.
BeginTransition(o, branch, ref) ==
  IF Allowed(req[o].order, branch)
  THEN /\ ReqBecomes(o, [req[o] EXCEPT !.pc = "saving", !.branch = branch,
                                      !.next = Transition(req[o].order, branch, ref)])
       /\ UNCHANGED resp
  ELSE IF branch \in {"unfulfilled", "fulfilled"}
       THEN Respond(o, req[o].order.status, {"ErrOrderNotPaid"})
       ELSE Respond(o, "absent", {"ErrOrderNotPending"})
----
\* A request that does not get past its validation.
RejectRequest(o, q) ==
  /\ req[o].pc = "idle"
  /\ RequestErrors(q) # {}
  /\ Respond(o, "absent", RequestErrors(q))
  /\ UNCHANGED <<orders, late, external, old, emitted, rec, crashes>>

\* A request that does, served by process p.
AcceptRequest(o, p, q) ==
  /\ req[o].pc = "idle"
  /\ RequestErrors(q) = {}
  /\ ReqBecomes(o, [IdleReq EXCEPT !.pc = "save", !.proc = p, !.order = NewOrder])
  /\ UNCHANGED <<orders, late, external, old, emitted, resp, rec, crashes>>

SavePending(o) ==
  /\ req[o].pc = "save"
  /\ Matches(orders, ReqStatement(o))
  /\ Executes(ReqStatement(o))
  /\ Goto(o, "created")
  /\ UNCHANGED <<external, old, emitted, rec, crashes>>

\* Bug: the error of the insert is ignored and the order charged.
SavePendingErrorIgnored(o) ==
  /\ req[o].pc = "save"
  /\ GivesUpOn(ReqStatement(o))
  /\ Goto(o, "created")
  /\ UNCHANGED <<external, old, emitted, rec, crashes>>

\* The caller is told that no order was created, though the row may
\* exist or be inserted yet.
SavePendingFails(o) ==
  /\ req[o].pc = "save"
  /\ GivesUpOn(ReqStatement(o))
  /\ Respond(o, "absent", {"ErrUnclassified"})
  /\ UNCHANGED <<external, old, emitted, rec, crashes>>

EmitCreated(o) ==
  /\ req[o].pc = "created"
  /\ emitDomainEvents(o, req[o].order)
  /\ ReqBecomes(o, [req[o] EXCEPT !.pc = "charge", !.order = PullEvents(@)])
  /\ UNCHANGED <<orders, late, external, old, resp, rec, crashes>>

SubmitCharge(o) ==
  /\ req[o].pc = "charge"
  /\ chargeSent' = [chargeSent EXCEPT ![o] = TRUE]
  /\ Goto(o, "charging")
  /\ UNCHANGED <<orders, late, charge, reserved, reserveSent, old, emitted, rec, crashes>>

ChargeReturns(o) ==
  /\ req[o].pc = "charging"
  /\ \E answer \in ChargeAnswers(o) :
       LET result == Charge(answer)
       IN  BeginTransition(o, Branch(result), result.ref)
  /\ UNCHANGED <<orders, late, external, old, emitted, rec, crashes>>

SaveTransition(o) ==
  /\ req[o].pc = "saving"
  /\ Matches(orders, ReqStatement(o))
  /\ Executes(ReqStatement(o))
  /\ Goto(o, "emit")
  /\ UNCHANGED <<external, old, emitted, rec, crashes>>

SaveTransitionConflict(o) ==
  /\ req[o].pc = "saving"
  /\ ~Matches(orders, ReqStatement(o))
  /\ Goto(o, "reload")
  /\ UNCHANGED <<orders, late, external, old, emitted, rec, crashes>>

\* Bugs: the events are logged although the write failed; the caller is told
\* the status that could not be stored.
SaveTransitionFailsAndEmits(o) ==
  /\ req[o].pc = "saving"
  /\ GivesUpOn(ReqStatement(o))
  /\ emitDomainEvents(o, req[o].next)
  /\ Respond(o, req[o].order.status, SaveErrors(req[o].branch))
  /\ UNCHANGED <<external, old, rec, crashes>>
SaveTransitionFailsReportsNext(o) ==
  /\ req[o].pc = "saving"
  /\ GivesUpOn(ReqStatement(o))
  /\ Respond(o, req[o].next.status, SaveErrors(req[o].branch))
  /\ UNCHANGED <<external, old, emitted, rec, crashes>>

SaveTransitionFails(o) ==
  /\ req[o].pc = "saving"
  /\ GivesUpOn(ReqStatement(o))
  /\ Respond(o, req[o].order.status, SaveErrors(req[o].branch))
  /\ UNCHANGED <<external, old, emitted, rec, crashes>>

\* After a conflict the caller gets the row that won ...
Reload(o) ==
  /\ req[o].pc = "reload"
  /\ Respond(o, FindByID(orders, o).status, ConflictErrors(req[o].branch))
  /\ UNCHANGED <<orders, late, external, old, emitted, rec, crashes>>

\* ... or, when it cannot be read, the state before the lost transition.
ReloadFails(o) ==
  /\ req[o].pc = "reload"
  /\ Respond(o, req[o].order.status, ConflictErrors(req[o].branch))
  /\ UNCHANGED <<orders, late, external, old, emitted, rec, crashes>>

\* A stored transition is logged; a paid order goes on to fulfillment ...
EmitPaid(o) ==
  /\ req[o].pc = "emit"
  /\ req[o].branch = "approved"
  /\ emitDomainEvents(o, req[o].next)
  /\ ReqBecomes(o, [req[o] EXCEPT !.pc = "reserve", !.branch = "none",
                                  !.order = PullEvents(req[o].next), !.next = NoOrder])
  /\ UNCHANGED <<orders, late, external, old, resp, rec, crashes>>

\* ... and any other is what Execute returns.
EmitAndReturn(o) ==
  /\ req[o].pc = "emit"
  /\ req[o].branch # "approved"
  /\ emitDomainEvents(o, req[o].next)
  /\ Respond(o, req[o].next.status, StoredErrors(req[o].branch))
  /\ UNCHANGED <<orders, late, external, old, rec, crashes>>

SubmitReservation(o) ==
  /\ req[o].pc = "reserve"
  /\ SendReservation(o)
  /\ Goto(o, "reserving")
  /\ UNCHANGED <<orders, late, charge, chargeSent, reserved, old, emitted, rec, crashes>>

ReserveReturns(o) ==
  /\ req[o].pc = "reserving"
  /\ \E code \in ReserveAnswers(o) :
       BeginTransition(o, IF ReserveSucceeds(code) THEN "fulfilled" ELSE "unfulfilled", NoRef)
  /\ UNCHANGED <<orders, late, external, old, emitted, rec, crashes>>

\* One step of Execute and of the handler around it.
RequestStep(o) ==
  \/ \E q \in Requests : RejectRequest(o, q)
  \/ \E p \in Procs, q \in Requests : AcceptRequest(o, p, q)
  \/ SavePending(o) \/ SavePendingFails(o) \/ EmitCreated(o)
  \/ SubmitCharge(o) \/ ChargeReturns(o)
  \/ SaveTransition(o) \/ SaveTransitionConflict(o) \/ SaveTransitionFails(o)
  \/ Reload(o) \/ ReloadFails(o)
  \/ EmitPaid(o) \/ EmitAndReturn(o)
  \/ SubmitReservation(o) \/ ReserveReturns(o)
====
