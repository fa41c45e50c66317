---- MODULE Order ----
(***************************************************************************)
(* The Order aggregate of internal/domain/order.go.  An order is the record *)
(* of the parts its lifecycle depends on: the status, the provider's        *)
(* payment reference and the events recorded and not yet drained.  The      *)
(* immutable parts (customer, items, creation time) are left out; whether   *)
(* the customer and the items are acceptable is part of a request.          *)
(***************************************************************************)
EXTENDS Sequences

Statuses == {"pending", "paid", "failed", "payment_unknown",
             "fulfillment_pending", "completed"}

EventNames == {"order.created", "order.paid", "order.failed",
               "order.payment_unknown", "order.fulfillment_pending",
               "order.completed"}

\* The empty payment reference, and the one the provider gives a charge.
NoRef == ""
ChargeRef == "ref"
Refs == {NoRef, ChargeRef}

OrderType == [status : Statuses, ref : Refs, events : Seq(EventNames)]

record(order, event) == [order EXCEPT !.events = Append(@, event)]

\* The errors NewOrder returns, in the order of its checks.
NewOrderErrors(customer, items) ==
  CASE customer = "" -> {"ErrEmptyCustomer"}
    [] customer # "" /\ items = "empty" -> {"ErrEmptyOrder"}
    [] customer # "" /\ items = "invalid" -> {"ErrInvalidOrderItem"}
    [] OTHER -> {}

NewOrder ==
  record([status |-> "pending", ref |-> NoRef, events |-> << >>],
         "order.created")

\* The guards of the transitions, and what an accepted transition does.
PaymentOpen(order) == order.status \in {"pending", "payment_unknown"}
FulfillmentOpen(order) == order.status \in {"paid", "fulfillment_pending"}

MarkPaid(order, ref) ==
  record([order EXCEPT !.status = "paid", !.ref = ref], "order.paid")

MarkFailed(order) ==
  record([order EXCEPT !.status = "failed"], "order.failed")

MarkPaymentUnknown(order) ==
  record([order EXCEPT !.status = "payment_unknown"], "order.payment_unknown")

MarkFulfillmentPending(order) ==
  record([order EXCEPT !.status = "fulfillment_pending"],
         "order.fulfillment_pending")

Complete(order) ==
  record([order EXCEPT !.status = "completed"], "order.completed")

\* What is left of an order whose events were drained.
PullEvents(order) == [order EXCEPT !.events = << >>]
====
