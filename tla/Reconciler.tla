---- MODULE Reconciler ----
(***************************************************************************)
(* The recovery worker, internal/usecase/reconciler.go.  Run calls RunOnce   *)
(* for ever; RunOnce scans one page and takes its orders one at a time       *)
(* through reconcileOrder and fulfill.  One action per call to the database, *)
(* to a service or to the log.                                               *)
(***************************************************************************)
EXTENDS ServiceState

RecBecomes(p, w) == rec' = [rec EXCEPT ![p] = w]

RecGoto(p, pc) == RecBecomes(p, [rec[p] EXCEPT !.pc = pc])

\* reconcileOrder returns, with an error or not, and RunOnce goes on.
LeaveOrder(p) ==
  RecBecomes(p, [rec[p] EXCEPT !.pc = "next", !.cur = 0, !.order = NoOrder,
                               !.expected = "pending"])

\* Bug: the expected status is taken after the transition.
RecTransitionExpectsNew(p, order) ==
  RecBecomes(p, [rec[p] EXCEPT !.pc = "saving", !.order = order,
                               !.expected = order.status])

\* A transition of the order at hand, to be stored if the row still has the
\* status the worker holds.
RecTransition(p, order) ==
  RecBecomes(p, [rec[p] EXCEPT !.pc = "saving", !.order = order,
                               !.expected = rec[p].order.status])

\* Bug: an order whose payment is unknown is taken for a paid one.
RecoveryStepTrustsUnknown(status) ==
  CASE status = "pending" -> "lookup"
    [] status \in {"payment_unknown", "paid", "fulfillment_pending"} -> "reserve"
    [] OTHER -> "next"

\* Where reconcileOrder goes by the status it read.
RecoveryStep(status) ==
  CASE status \in {"pending", "payment_unknown"} -> "lookup"
    [] status \in {"paid", "fulfillment_pending"} -> "reserve"
    [] OTHER -> "next"
----
\* RunOnce starts: the cutoff admits the orders that are old enough now.
RunOnce(p) ==
  /\ rec[p].pc = "idle"
  /\ RecBecomes(p, [rec[p] EXCEPT !.pc = "list", !.cutoff = old])
  /\ UNCHANGED <<orders, late, external, old, emitted, req, resp, crashes>>

\* Bug: the cursor does not wrap.
ListPageWithoutWrap(p) ==
  /\ rec[p].pc = "list"
  /\ RecBecomes(p, [rec[p] EXCEPT !.pc = "next", !.cutoff = {},
       !.ids = ListRecoverableIDs(orders, rec[p].afterID, rec[p].cutoff, BatchSize)])
  /\ UNCHANGED <<orders, late, external, old, emitted, req, resp, crashes>>

\* An empty page beyond the first ID wraps the cursor and is asked for again.
ListPage(p) ==
  /\ rec[p].pc = "list"
  /\ LET page == ListRecoverableIDs(orders, rec[p].afterID, rec[p].cutoff, BatchSize)
     IN  RecBecomes(p, IF page = {} /\ rec[p].afterID # 0
                       THEN [rec[p] EXCEPT !.pc = "relist", !.afterID = 0]
                       ELSE [rec[p] EXCEPT !.pc = "next", !.ids = page, !.cutoff = {}])
  /\ UNCHANGED <<orders, late, external, old, emitted, req, resp, crashes>>

ListFirstPage(p) ==
  /\ rec[p].pc = "relist"
  /\ RecBecomes(p, [rec[p] EXCEPT !.pc = "next", !.cutoff = {},
                                  !.ids = ListRecoverableIDs(orders, 0, rec[p].cutoff, BatchSize)])
  /\ UNCHANGED <<orders, late, external, old, emitted, req, resp, crashes>>

\* The batch fails; the cursor stays where it is.
ListFails(p) ==
  /\ rec[p].pc \in {"list", "relist"}
  /\ RecBecomes(p, [rec[p] EXCEPT !.pc = "idle", !.cutoff = {}])
  /\ UNCHANGED <<orders, late, external, old, emitted, req, resp, crashes>>

\* Bug: the cursor does not advance.
NextOrderKeepsCursor(p, o) ==
  /\ rec[p].pc = "next"
  /\ o \in rec[p].ids
  /\ \A other \in rec[p].ids : o <= other
  /\ RecBecomes(p, [rec[p] EXCEPT !.pc = "find", !.cur = o, !.ids = @ \ {o}])
  /\ UNCHANGED <<orders, late, external, old, emitted, req, resp, crashes>>

NextOrder(p, o) ==
  /\ rec[p].pc = "next"
  /\ o \in rec[p].ids
  /\ \A other \in rec[p].ids : o <= other
  /\ RecBecomes(p, [rec[p] EXCEPT !.pc = "find", !.afterID = o, !.cur = o,
                                  !.ids = @ \ {o}])
  /\ UNCHANGED <<orders, late, external, old, emitted, req, resp, crashes>>

EndBatch(p) ==
  /\ rec[p].pc = "next"
  /\ rec[p].ids = {}
  /\ RecGoto(p, "idle")
  /\ UNCHANGED <<orders, late, external, old, emitted, req, resp, crashes>>

FindOrder(p) ==
  /\ rec[p].pc = "find"
  /\ LET order == FindByID(orders, rec[p].cur)
     IN  IF RecoveryStep(order.status) = "next"
         THEN LeaveOrder(p)
         ELSE RecBecomes(p, [rec[p] EXCEPT !.pc = RecoveryStep(order.status), !.order = order])
  /\ UNCHANGED <<orders, late, external, old, emitted, req, resp, crashes>>

FindFails(p) ==
  /\ rec[p].pc = "find"
  /\ LeaveOrder(p)
  /\ UNCHANGED <<orders, late, external, old, emitted, req, resp, crashes>>

\* The results of a lookup that settle a payment.
Settles(lookup) ==
  /\ lookup.found
  /\ \/ lookup.result.status = "approved" /\ lookup.result.ref # NoRef
     \/ lookup.result.status = "declined"

Settled(order, result) ==
  IF result.status = "approved" THEN MarkPaid(order, result.ref) ELSE MarkFailed(order)

LookupSettles(p) ==
  /\ rec[p].pc = "lookup"
  /\ PaymentOpen(rec[p].order)
  /\ \E answer \in LookupAnswers(rec[p].cur) :
       /\ Settles(LookupCharge(answer))
       /\ RecTransition(p, Settled(rec[p].order, LookupCharge(answer).result))
  /\ UNCHANGED <<orders, late, external, old, emitted, req, resp, crashes>>

\* Not visible, not answered, not readable, without a reference, or refused by
\* the aggregate: the order is left for a later batch.
LookupLeavesOpen(p) ==
  /\ rec[p].pc = "lookup"
  /\ \E answer \in LookupAnswers(rec[p].cur) :
       PaymentOpen(rec[p].order) => ~Settles(LookupCharge(answer))
  /\ LeaveOrder(p)
  /\ UNCHANGED <<orders, late, external, old, emitted, req, resp, crashes>>

RecoverySaves(p) ==
  /\ rec[p].pc = "saving"
  /\ Matches(orders, RecStatement(p))
  /\ Executes(RecStatement(p))
  /\ RecGoto(p, "emit")
  /\ UNCHANGED <<external, old, emitted, req, resp, crashes>>

\* Bug: the events are logged although another worker advanced the row.
RecoveryLosesRaceAndEmits(p) ==
  /\ rec[p].pc = "saving"
  /\ ~Matches(orders, RecStatement(p))
  /\ emitDomainEvents(rec[p].cur, rec[p].order)
  /\ LeaveOrder(p)
  /\ UNCHANGED <<orders, late, external, old, req, resp, crashes>>

RecoveryLosesRace(p) ==
  /\ rec[p].pc = "saving"
  /\ ~Matches(orders, RecStatement(p))
  /\ LeaveOrder(p)
  /\ UNCHANGED <<orders, late, external, old, emitted, req, resp, crashes>>

RecoverySaveFails(p) ==
  /\ rec[p].pc = "saving"
  /\ GivesUpOn(RecStatement(p))
  /\ LeaveOrder(p)
  /\ UNCHANGED <<external, old, emitted, req, resp, crashes>>

\* A stored transition is logged; a paid order goes on to fulfill.
RecoveryEmits(p) ==
  /\ rec[p].pc = "emit"
  /\ emitDomainEvents(rec[p].cur, rec[p].order)
  /\ IF rec[p].order.status = "paid"
     THEN RecBecomes(p, [rec[p] EXCEPT !.pc = "reserve", !.order = PullEvents(@),
                                       !.expected = "pending"])
     ELSE LeaveOrder(p)
  /\ UNCHANGED <<orders, late, external, old, req, resp, crashes>>

RecoveryReserves(p) ==
  /\ rec[p].pc = "reserve"
  /\ SendReservation(rec[p].cur)
  /\ RecGoto(p, "reserving")
  /\ UNCHANGED <<orders, late, charge, chargeSent, reserved, old, emitted, req, resp, crashes>>

ReservationHeld(p) ==
  /\ rec[p].pc = "reserving"
  /\ \E code \in ReserveAnswers(rec[p].cur) : ReserveSucceeds(code)
  /\ IF FulfillmentOpen(rec[p].order)
     THEN RecTransition(p, Complete(rec[p].order))
     ELSE LeaveOrder(p)
  /\ UNCHANGED <<orders, late, external, old, emitted, req, resp, crashes>>

\* A paid order becomes fulfillment_pending; one that is already stays so.
ReservationFails(p) ==
  /\ rec[p].pc = "reserving"
  /\ \E code \in ReserveAnswers(rec[p].cur) : ~ReserveSucceeds(code)
  /\ IF rec[p].order.status = "paid"
     THEN RecTransition(p, MarkFulfillmentPending(rec[p].order))
     ELSE LeaveOrder(p)
  /\ UNCHANGED <<orders, late, external, old, emitted, req, resp, crashes>>

\* One step of the recovery worker of process p.
RecoverStep(p) ==
  \/ RunOnce(p) \/ ListPage(p) \/ ListFirstPage(p) \/ ListFails(p)
  \/ (\E o \in Orders : NextOrder(p, o)) \/ EndBatch(p)
  \/ FindOrder(p) \/ FindFails(p)
  \/ LookupSettles(p) \/ LookupLeavesOpen(p)
  \/ RecoverySaves(p) \/ RecoveryLosesRace(p) \/ RecoverySaveFails(p)
  \/ RecoveryEmits(p)
  \/ RecoveryReserves(p) \/ ReservationHeld(p) \/ ReservationFails(p)
====
