---- MODULE TransitionProofs ----
(***************************************************************************)
(* What a request, a worker and an abandoned statement carry from one call   *)
(* to the next, and from it the refinement: every step of the service is a   *)
(* step of OrderLifecycle or leaves it alone.                                *)
(*                                                                           *)
(* ServiceInv says that a row on its way is true and not behind the table.    *)
(* It does not say how far the row is from the status it replaces, nor what   *)
(* events the order holds.  TransitionInv does: a statement makes exactly one *)
(* move of the lifecycle, and an order between its transition and its log     *)
(* entry holds exactly the event of the transition.                           *)
(***************************************************************************)
EXTENDS OrderServiceProofs

\* The moves the transitions of the aggregate make, and Save makes of an ID.
Moves ==
  {<<"absent", "pending">>, <<"pending", "payment_unknown">>, <<"pending", "paid">>,
   <<"pending", "failed">>, <<"payment_unknown", "paid">>, <<"payment_unknown", "failed">>,
   <<"paid", "fulfillment_pending">>, <<"paid", "completed">>,
   <<"fulfillment_pending", "completed">>}

\* A row that was never paid has no reference.
RefInv(row) == row.status \notin PaidStatuses => row.ref = NULL

\* A statement replaces the status it expects by one the aggregate allows after it.
LawfulStatement(stmt) ==
  /\ <<stmt.expected, stmt.row.status>> \in Moves
  /\ RefInv(stmt.row)

\* What a transition leaves in an order: the one event that announces it.
AnnouncesItself(order) ==
  \E event \in EventNames : order.events = <<event>> /\ Announces(event) = order.status

\* What the request of o holds between two of its calls: an order with no events
\* while it reserves, one lawful move with its event from the transition to the log.
RequestCarries(o) ==
  LET r == req[o]
  IN  /\ r.pc \in {"reserve", "reserving"} => r.order.events = << >>
      /\ r.pc = "saving" => LawfulStatement(ReqStatement(o))
      /\ r.pc \in {"saving", "emit"} =>
           /\ AnnouncesItself(r.next)
           /\ r.branch = "declined" => r.next.status = "failed"
           /\ r.branch = "fulfilled" => r.next.status = "completed"

\* The same of the worker of p, whose order comes from the table and not from a client.
WorkerCarries(p) ==
  LET w == rec[p]
  IN  /\ w.pc \in {"lookup", "reserve", "reserving"} => w.order.events = << >>
      /\ w.pc = "lookup" => w.order.ref = NoRef
      /\ w.pc = "saving" => LawfulStatement(RecStatement(p))
      /\ w.pc \in {"saving", "emit"} => AnnouncesItself(w.order)

\* The table, the abandoned statements, the requests and the workers together.
TransitionInv ==
  /\ \A o \in Orders : RefInv(orders[o])
  /\ \A stmt \in late : LawfulStatement(stmt)
  /\ \A o \in Orders : RequestCarries(o)
  /\ \A p \in Procs : WorkerCarries(p)
----
\* A move is a strict step forward: the status it leaves cannot be reached again.
LEMMA MovesForward ==
  \A s, t : <<s, t>> \in Moves =>
    /\ s \in Statuses \cup {"absent"} /\ t \in Statuses
    /\ t \in FromThere(s)
    /\ s \notin FromThere(t)
BY DEF Moves, FromThere, Statuses

\* A transition of an order whose events were drained leaves the one event that
\* announces it; only MarkPaid touches the reference.
LEMMA TransitionEffect ==
  ASSUME NEW order \in OrderType, order.events = << >>, NEW ref \in Refs
  PROVE  /\ /\ MarkPaid(order, ref).status = "paid"
            /\ MarkPaid(order, ref).ref = ref
            /\ AnnouncesItself(MarkPaid(order, ref))
         /\ /\ MarkFailed(order).status = "failed"
            /\ MarkFailed(order).ref = order.ref
            /\ AnnouncesItself(MarkFailed(order))
         /\ /\ MarkPaymentUnknown(order).status = "payment_unknown"
            /\ MarkPaymentUnknown(order).ref = order.ref
            /\ AnnouncesItself(MarkPaymentUnknown(order))
         /\ /\ MarkFulfillmentPending(order).status = "fulfillment_pending"
            /\ MarkFulfillmentPending(order).ref = order.ref
            /\ AnnouncesItself(MarkFulfillmentPending(order))
         /\ /\ Complete(order).status = "completed"
            /\ Complete(order).ref = order.ref
            /\ AnnouncesItself(Complete(order))
<1>1. ASSUME NEW x \in OrderType, x.events = << >>, NEW event \in EventNames
      PROVE  /\ record(x, event).events = <<event>>
             /\ record(x, event).status = x.status
             /\ record(x, event).ref = x.ref
  <2>1. Append(x.events, event) = <<event>>
    BY <1>1
  <2> QED
    BY <2>1 DEF record, OrderType
<1>2. ASSUME NEW status \in Statuses, NEW event \in EventNames, Announces(event) = status
      PROVE  LET x == record([order EXCEPT !.status = status], event)
             IN  x.status = status /\ x.ref = order.ref /\ AnnouncesItself(x)
  <2> DEFINE x == [order EXCEPT !.status = status]
  <2>1. x \in OrderType /\ x.events = << >> /\ x.status = status /\ x.ref = order.ref
    BY DEF OrderType
  <2> HIDE DEF x
  <2>2. /\ record(x, event).events = <<event>>
        /\ record(x, event).status = status /\ record(x, event).ref = order.ref
    BY <1>1, <2>1
  <2>3. AnnouncesItself(record(x, event))
    BY <1>2, <2>2 DEF AnnouncesItself
  <2> QED
    BY <2>2, <2>3 DEF x
<1>3. /\ MarkPaid(order, ref).status = "paid" /\ MarkPaid(order, ref).ref = ref
      /\ AnnouncesItself(MarkPaid(order, ref))
  <2> DEFINE x == [order EXCEPT !.status = "paid", !.ref = ref]
  <2>1. x \in OrderType /\ x.events = << >> /\ x.status = "paid" /\ x.ref = ref
    BY DEF OrderType, Statuses
  <2>2. MarkPaid(order, ref) = record(x, "order.paid") /\ "order.paid" \in EventNames
    BY DEF MarkPaid, EventNames
  <2> HIDE DEF x
  <2>3. /\ MarkPaid(order, ref).events = <<"order.paid">>
        /\ MarkPaid(order, ref).status = "paid" /\ MarkPaid(order, ref).ref = ref
    BY <1>1, <2>1, <2>2
  <2> QED
    BY <2>2, <2>3 DEF AnnouncesItself, Announces
<1>4. /\ Announces("order.failed") = "failed"
      /\ Announces("order.payment_unknown") = "payment_unknown"
      /\ Announces("order.fulfillment_pending") = "fulfillment_pending"
      /\ Announces("order.completed") = "completed"
  BY DEF Announces
<1>5. /\ {"order.failed", "order.payment_unknown", "order.fulfillment_pending",
          "order.completed"} \subseteq EventNames
      /\ {"failed", "payment_unknown", "fulfillment_pending", "completed"} \subseteq Statuses
  BY DEF EventNames, Statuses
<1> QED
  BY <1>2, <1>3, <1>4, <1>5
  DEF MarkFailed, MarkPaymentUnknown, MarkFulfillmentPending, Complete

\* An answer to a charge selects one of the five branches that follow a charge.
LEMMA ChargeBranches ==
  ASSUME NEW answer
  PROVE  Branch(Charge(answer)) \in {"ambiguous", "rejected", "declined", "approved", "invalid"}
BY DEF Branch

\* The tail of a branch of Execute: the aggregate never refuses, and the
\* statement it prepares is lawful.
LEMMA BeginTransitionCarries ==
  ASSUME TypeOK, ServiceInv, TransitionInv, NEW o \in Orders, NEW branch, NEW ref \in Refs,
         \/ /\ req[o].pc = "charging"
            /\ branch \in {"ambiguous", "rejected", "declined", "approved", "invalid"}
         \/ /\ req[o].pc = "reserving"
            /\ branch \in {"unfulfilled", "fulfilled"},
         BeginTransition(o, branch, ref)
  PROVE  /\ req'[o].pc = "saving" /\ resp' = resp
         /\ RequestCarries(o)'
         /\ \A x \in Orders \ {o} : req'[x] = req[x]
<1> DEFINE order == req[o].order
           next == Transition(order, branch, ref)
<1>1. order \in OrderType /\ RequestInv(o) /\ RequestCarries(o)
  BY DEF TypeOK, ReqType, ServiceInv, RequestsInv, TransitionInv
<1>2. /\ order.events = << >>
      /\ req[o].pc = "charging" => order.status = "pending" /\ order.ref = NoRef
      /\ req[o].pc = "reserving" => order.status = "paid"
  BY <1>1 DEF RequestInv, RequestCarries, NoOrder
<1>3. Allowed(order, branch)
  BY <1>2 DEF Allowed, PaymentOpen, FulfillmentOpen
<1>4. /\ <<order.status, next.status>> \in Moves
      /\ next.status \notin PaidStatuses => next.ref = NoRef
      /\ AnnouncesItself(next)
      /\ branch = "declined" => next.status = "failed"
      /\ branch = "fulfilled" => next.status = "completed"
  <2>1. CASE branch \in {"ambiguous", "invalid"}
    <3>1. next = MarkPaymentUnknown(order)
      BY <2>1 DEF Transition
    <3> QED
      BY <1>1, <1>2, <2>1, <3>1, TransitionEffect DEF Moves
  <2>2. CASE branch \in {"rejected", "declined"}
    <3>1. next = MarkFailed(order)
      BY <2>2 DEF Transition
    <3> QED
      BY <1>1, <1>2, <2>2, <3>1, TransitionEffect DEF Moves
  <2>3. CASE branch = "approved"
    <3>1. next = MarkPaid(order, ref)
      BY <2>3 DEF Transition
    <3> QED
      BY <1>1, <1>2, <2>3, <3>1, TransitionEffect, FromThereFacts DEF Moves
  <2>4. CASE branch = "unfulfilled"
    <3>1. next = MarkFulfillmentPending(order)
      BY <2>4 DEF Transition
    <3> QED
      BY <1>1, <1>2, <2>4, <3>1, TransitionEffect, FromThereFacts DEF Moves
  <2>5. CASE branch = "fulfilled"
    <3>1. next = Complete(order)
      BY <2>5 DEF Transition
    <3> QED
      BY <1>1, <1>2, <2>5, <3>1, TransitionEffect, FromThereFacts DEF Moves
  <2> QED
    BY <2>1, <2>2, <2>3, <2>4, <2>5
<1>5. /\ req'[o] = [req[o] EXCEPT !.pc = "saving", !.branch = branch, !.next = next]
      /\ \A x \in Orders \ {o} : req'[x] = req[x]
      /\ resp' = resp
  BY <1>3 DEF BeginTransition, ReqBecomes, TypeOK
<1>6. /\ req'[o].pc = "saving" /\ req'[o].branch = branch /\ req'[o].next = next
      /\ req'[o].order = order
  BY <1>5 DEF TypeOK, ReqType
<1> HIDE DEF order, next
<1>7. ReqStatement(o)' = [id |-> o, expected |-> order.status, row |-> Row(next)]
  BY <1>6 DEF ReqStatement, SaveIfStatus, Row, nullableString
<1>8. LawfulStatement(ReqStatement(o))'
  <2> DEFINE stmt == [id |-> o, expected |-> order.status, row |-> Row(next)]
  <2>1. stmt.expected = order.status /\ stmt.row = Row(next) /\ Row(next).status = next.status
        /\ (next.ref = NoRef => Row(next).ref = NULL)
    BY DEF Row, nullableString
  <2> HIDE DEF stmt
  <2>2. LawfulStatement(stmt)
    BY <1>4, <2>1 DEF LawfulStatement, RefInv
  <2> QED
    BY <1>7, <2>2 DEF LawfulStatement, RefInv, stmt
<1>9. RequestCarries(o)'
  BY <1>4, <1>6, <1>8 DEF RequestCarries, AnnouncesItself
<1> QED
  BY <1>5, <1>6, <1>9

\* The statement a request is about to execute is a lawful one.
LEMMA RequestStatementLawful ==
  ASSUME TypeOK, ServiceInv, TransitionInv, NEW o \in Orders, req[o].pc \in {"save", "saving"}
  PROVE  LawfulStatement(ReqStatement(o))
<1>1. RequestInv(o) /\ RequestCarries(o)
  BY DEF ServiceInv, RequestsInv, TransitionInv
<1>2. CASE req[o].pc = "save"
  <2>1. ReqStatement(o) = [id |-> o, expected |-> "absent", row |-> Row(NewOrder)]
    BY <1>1, <1>2 DEF RequestInv, ReqStatement, Save
  <2>2. Row(NewOrder).status = "pending" /\ Row(NewOrder).ref = NULL
    BY DEF Row, NewOrder, record, nullableString
  <2> QED
    BY <2>1, <2>2 DEF LawfulStatement, RefInv, Moves
<1>3. CASE req[o].pc = "saving"
  BY <1>1, <1>3 DEF RequestCarries
<1> QED
  BY <1>2, <1>3

\* What an actor carries depends on its own state only.
LEMMA CarriesFrame ==
  /\ \A o \in Orders : req'[o] = req[o] /\ RequestCarries(o) => RequestCarries(o)'
  /\ \A p \in Procs : rec'[p] = rec[p] /\ WorkerCarries(p) => WorkerCarries(p)'
<1>1. ASSUME NEW o \in Orders, req'[o] = req[o], RequestCarries(o) PROVE RequestCarries(o)'
  <2>1. ReqStatement(o)' = ReqStatement(o)
    BY <1>1 DEF ReqStatement, Save, SaveIfStatus, Row, nullableString
  <2>2. LawfulStatement(ReqStatement(o)) => LawfulStatement(ReqStatement(o))'
    BY <2>1 DEF LawfulStatement, RefInv
  <2> QED
    BY <1>1, <2>2 DEF RequestCarries, AnnouncesItself
<1>2. ASSUME NEW p \in Procs, rec'[p] = rec[p], WorkerCarries(p) PROVE WorkerCarries(p)'
  <2>1. RecStatement(p)' = RecStatement(p)
    BY <1>2 DEF RecStatement, SaveIfStatus, Row, nullableString
  <2>2. LawfulStatement(RecStatement(p)) => LawfulStatement(RecStatement(p))'
    BY <2>1 DEF LawfulStatement, RefInv
  <2> QED
    BY <1>2, <2>2 DEF WorkerCarries, AnnouncesItself
<1> QED
  BY <1>1, <1>2

\* Executing a lawful statement, and giving up on one, keep the table and the
\* abandoned statements lawful.
LEMMA LawfulTable ==
  ASSUME TypeOK, TransitionInv
  PROVE  /\ orders' = orders => \A o \in Orders : RefInv(orders[o])'
         /\ late' \subseteq late => \A stmt \in late' : LawfulStatement(stmt)
         /\ \A stmt \in StatementType : LawfulStatement(stmt) /\ orders' = Apply(orders, stmt) =>
              \A o \in Orders : RefInv(orders[o])'
         /\ \A stmts : (\A stmt \in stmts : LawfulStatement(stmt)) /\ Abandons(stmts) =>
              \A stmt \in late' : LawfulStatement(stmt)
<1>1. orders' = orders => \A o \in Orders : RefInv(orders[o])'
  BY DEF TransitionInv, RefInv
<1>2. late' \subseteq late => \A stmt \in late' : LawfulStatement(stmt)
  BY DEF TransitionInv
<1>3. ASSUME NEW stmt \in StatementType, LawfulStatement(stmt), orders' = Apply(orders, stmt)
      PROVE  \A o \in Orders : RefInv(orders[o])'
  <2>1. stmt.id \in Orders
    BY DEF StatementType
  <2> QED
    BY <1>3, <2>1 DEF Apply, LawfulStatement, RefInv, TransitionInv, TypeOK
<1>4. ASSUME NEW stmts, \A stmt \in stmts : LawfulStatement(stmt), Abandons(stmts)
      PROVE  \A stmt \in late' : LawfulStatement(stmt)
  BY <1>4 DEF Abandons, TransitionInv
<1> QED
  BY <1>1, <1>2, <1>3, <1>4

\* Respond ends the request and touches no other.
LEMMA Responded ==
  ASSUME TypeOK, NEW o \in Orders, NEW status, NEW errs, Respond(o, status, errs)
  PROVE  /\ req'[o].pc = "done" /\ RequestCarries(o)'
         /\ \A x \in Orders \ {o} : req'[x] = req[x]
         /\ resp'[o] = [given |-> TRUE, status |-> status, errs |-> errs]
         /\ \A x \in Orders \ {o} : resp'[x] = resp[x]
<1>1. /\ req'[o].pc = "done"
      /\ \A x \in Orders \ {o} : req'[x] = req[x]
  BY DEF Respond, ReqBecomes, DoneReq, IdleReq, TypeOK
<1>2. /\ resp'[o] = [given |-> TRUE, status |-> status, errs |-> errs]
      /\ \A x \in Orders \ {o} : resp'[x] = resp[x]
  BY DEF Respond, TypeOK
<1>3. RequestCarries(o)'
  BY <1>1 DEF RequestCarries
<1> QED
  BY <1>1, <1>2, <1>3

\* Goto moves the request and changes nothing else of it.
LEMMA Went ==
  ASSUME TypeOK, NEW o \in Orders, NEW pc, Goto(o, pc)
  PROVE  /\ req'[o].pc = pc /\ req'[o].proc = req[o].proc /\ req'[o].order = req[o].order
         /\ req'[o].branch = req[o].branch /\ req'[o].next = req[o].next
         /\ \A x \in Orders \ {o} : req'[x] = req[x]
         /\ resp' = resp
<1>1. /\ req'[o] = [req[o] EXCEPT !.pc = pc]
      /\ \A x \in Orders \ {o} : req'[x] = req[x]
      /\ resp' = resp
  BY DEF Goto, ReqBecomes, TypeOK
<1> QED
  BY <1>1 DEF TypeOK, ReqType

\* Every step of Execute keeps TransitionInv.
LEMMA RequestCarriesStep ==
  ASSUME TypeOK, ServiceInv, TransitionInv, NEW o \in Orders, RequestStep(o)
  PROVE  TransitionInv'
<1>1. RequestInv(o) /\ RequestCarries(o) /\ req[o] \in ReqType
  BY DEF ServiceInv, RequestsInv, TransitionInv, TypeOK
<1>2. ASSUME RequestCarries(o)', \A x \in Orders \ {o} : req'[x] = req[x], rec' = rec,
             \A x \in Orders : RefInv(orders[x])', \A stmt \in late' : LawfulStatement(stmt)
      PROVE  TransitionInv'
  <2>1. \A x \in Orders : RequestCarries(x)'
    BY <1>2, CarriesFrame DEF TransitionInv
  <2>2. \A p \in Procs : WorkerCarries(p)'
    BY <1>2, CarriesFrame DEF TransitionInv
  <2>3. \A stmt \in late' : LawfulStatement(stmt)'
    BY <1>2 DEF LawfulStatement, RefInv
  <2> QED
    BY <1>2, <2>1, <2>2, <2>3 DEF TransitionInv
<1>3. ASSUME RequestCarries(o)', \A x \in Orders \ {o} : req'[x] = req[x],
             UNCHANGED <<orders, late, rec>>
      PROVE  TransitionInv'
  BY <1>2, <1>3, LawfulTable
<1>4. ASSUME NEW q \in Requests, RejectRequest(o, q) PROVE TransitionInv'
  BY <1>3, <1>4, Responded DEF RejectRequest
<1>5. ASSUME NEW p \in Procs, NEW q \in Requests, AcceptRequest(o, p, q) PROVE TransitionInv'
  <2>1. req'[o] = [IdleReq EXCEPT !.pc = "save", !.proc = p, !.order = NewOrder]
        /\ \A x \in Orders \ {o} : req'[x] = req[x]
    BY <1>5 DEF AcceptRequest, ReqBecomes, TypeOK
  <2>2. req'[o].pc = "save"
    BY <2>1 DEF IdleReq
  <2>3. RequestCarries(o)'
    BY <2>2 DEF RequestCarries
  <2> QED
    BY <1>3, <1>5, <2>1, <2>3 DEF AcceptRequest
<1>6. ASSUME NEW stmt, stmt = ReqStatement(o), req[o].pc \in {"save", "saving"}
      PROVE  LawfulStatement(stmt) /\ stmt \in StatementType
  BY <1>6, RequestStatementLawful, StatementTypes
<1>7. CASE SavePending(o)
  <2>1. req'[o].pc = "created" /\ \A x \in Orders \ {o} : req'[x] = req[x]
    BY <1>7, Went DEF SavePending
  <2>2. RequestCarries(o)'
    BY <2>1 DEF RequestCarries
  <2>3. \A x \in Orders : RefInv(orders[x])'
    BY <1>6, <1>7, LawfulTable DEF SavePending, Executes
  <2> QED
    BY <1>2, <1>7, <2>1, <2>2, <2>3, LawfulTable DEF SavePending, Executes
<1>8. CASE SavePendingFails(o)
  BY <1>2, <1>6, <1>8, Responded, LawfulTable DEF SavePendingFails, GivesUpOn
<1>9. CASE EmitCreated(o)
  <2>1. /\ req'[o] = [req[o] EXCEPT !.pc = "charge", !.order = PullEvents(@)]
        /\ \A x \in Orders \ {o} : req'[x] = req[x]
    BY <1>9 DEF EmitCreated, ReqBecomes, TypeOK
  <2>2. req'[o].pc = "charge"
    BY <1>1, <2>1 DEF ReqType
  <2>3. RequestCarries(o)'
    BY <2>2 DEF RequestCarries
  <2> QED
    BY <1>3, <1>9, <2>1, <2>3 DEF EmitCreated
<1>10. CASE SubmitCharge(o)
  <2>1. req'[o].pc = "charging" /\ \A x \in Orders \ {o} : req'[x] = req[x]
    BY <1>10, Went DEF SubmitCharge
  <2>2. RequestCarries(o)'
    BY <2>1 DEF RequestCarries
  <2> QED
    BY <1>3, <1>10, <2>1, <2>2 DEF SubmitCharge
<1>11. CASE ChargeReturns(o)
  <2>1. PICK answer \in ChargeAnswers(o) :
          BeginTransition(o, Branch(Charge(answer)), Charge(answer).ref)
    BY <1>11 DEF ChargeReturns
  <2>2. Charge(answer).ref \in Refs
    BY AnswerTypes
  <2>3. RequestCarries(o)' /\ \A x \in Orders \ {o} : req'[x] = req[x]
    BY <1>11, <2>1, <2>2, ChargeBranches, BeginTransitionCarries DEF ChargeReturns
  <2> QED
    BY <1>3, <1>11, <2>3 DEF ChargeReturns
<1>12. CASE SaveTransition(o)
  <2>1. /\ req'[o].pc = "emit" /\ req'[o].next = req[o].next /\ req'[o].branch = req[o].branch
        /\ \A x \in Orders \ {o} : req'[x] = req[x]
    BY <1>12, Went DEF SaveTransition
  <2>2. RequestCarries(o)'
    BY <1>1, <1>12, <2>1 DEF RequestCarries, AnnouncesItself, SaveTransition
  <2>3. \A x \in Orders : RefInv(orders[x])'
    BY <1>6, <1>12, LawfulTable DEF SaveTransition, Executes
  <2> QED
    BY <1>2, <1>12, <2>1, <2>2, <2>3, LawfulTable DEF SaveTransition, Executes
<1>13. CASE SaveTransitionConflict(o)
  <2>1. req'[o].pc = "reload" /\ \A x \in Orders \ {o} : req'[x] = req[x]
    BY <1>13, Went DEF SaveTransitionConflict
  <2>2. RequestCarries(o)'
    BY <2>1 DEF RequestCarries
  <2> QED
    BY <1>3, <1>13, <2>1, <2>2 DEF SaveTransitionConflict
<1>14. CASE SaveTransitionFails(o)
  BY <1>2, <1>6, <1>14, Responded, LawfulTable DEF SaveTransitionFails, GivesUpOn
<1>15. CASE Reload(o) \/ ReloadFails(o)
  BY <1>3, <1>15, Responded DEF Reload, ReloadFails
<1>16. CASE EmitPaid(o)
  <2>1. /\ req'[o] = [req[o] EXCEPT !.pc = "reserve", !.branch = "none",
                                    !.order = PullEvents(req[o].next), !.next = NoOrder]
        /\ \A x \in Orders \ {o} : req'[x] = req[x]
    BY <1>16 DEF EmitPaid, ReqBecomes, TypeOK
  <2>2. req'[o].pc = "reserve" /\ req'[o].order = PullEvents(req[o].next)
    BY <1>1, <2>1 DEF ReqType
  <2>3. PullEvents(req[o].next).events = << >>
    BY <1>1 DEF PullEvents, ReqType, OrderType
  <2>4. RequestCarries(o)'
    BY <2>2, <2>3 DEF RequestCarries
  <2> QED
    BY <1>3, <1>16, <2>1, <2>4 DEF EmitPaid
<1>17. CASE EmitAndReturn(o)
  BY <1>3, <1>17, Responded DEF EmitAndReturn
<1>18. CASE SubmitReservation(o)
  <2>1. /\ req'[o].pc = "reserving" /\ req'[o].order = req[o].order
        /\ \A x \in Orders \ {o} : req'[x] = req[x]
    BY <1>18, Went DEF SubmitReservation
  <2>2. RequestCarries(o)'
    BY <1>1, <1>18, <2>1 DEF RequestCarries, SubmitReservation
  <2> QED
    BY <1>3, <1>18, <2>1, <2>2 DEF SubmitReservation
<1>19. CASE ReserveReturns(o)
  <2>1. PICK code \in ReserveAnswers(o) :
          BeginTransition(o, IF ReserveSucceeds(code) THEN "fulfilled" ELSE "unfulfilled", NoRef)
    BY <1>19 DEF ReserveReturns
  <2>2. NoRef \in Refs
    BY DEF Refs
  <2>3. RequestCarries(o)' /\ \A x \in Orders \ {o} : req'[x] = req[x]
    BY <1>19, <2>1, <2>2, BeginTransitionCarries DEF ReserveReturns
  <2> QED
    BY <1>3, <1>19, <2>3 DEF ReserveReturns
<1> QED
  BY <1>4, <1>5, <1>7, <1>8, <1>9, <1>10, <1>11, <1>12, <1>13, <1>14, <1>15, <1>16, <1>17,
     <1>18, <1>19
  DEF RequestStep

\* A step of a request leaves the others and their charges alone.
LEMMA RequestTouches ==
  ASSUME TypeOK, NEW o \in Orders, RequestStep(o), NEW x \in Orders \ {o}
  PROVE  req'[x] = req[x] /\ resp'[x] = resp[x] /\ chargeSent'[x] = chargeSent[x]
<1>1. ASSUME NEW r, ReqBecomes(o, r) PROVE req'[x] = req[x]
  BY <1>1 DEF ReqBecomes, TypeOK
<1>2. ASSUME NEW status, NEW errs, Respond(o, status, errs)
      PROVE  req'[x] = req[x] /\ resp'[x] = resp[x]
  BY <1>2, Responded
<1>3. ASSUME NEW pc, Goto(o, pc) PROVE req'[x] = req[x] /\ resp'[x] = resp[x]
  BY <1>3, Went
<1>4. ASSUME NEW branch, NEW ref, BeginTransition(o, branch, ref)
      PROVE  req'[x] = req[x] /\ resp'[x] = resp[x]
  BY <1>1, <1>2, <1>4 DEF BeginTransition
<1>5. req'[x] = req[x] /\ resp'[x] = resp[x]
  BY <1>1, <1>2, <1>3, <1>4
  DEF RequestStep, RejectRequest, AcceptRequest, SavePending, SavePendingFails, EmitCreated,
      SubmitCharge, ChargeReturns, SaveTransition, SaveTransitionConflict,
      SaveTransitionFails, Reload, ReloadFails, EmitPaid, EmitAndReturn, SubmitReservation,
      ReserveReturns
<1>6. chargeSent'[x] = chargeSent[x]
  BY DEF RequestStep, RejectRequest, AcceptRequest, SavePending, SavePendingFails, EmitCreated,
         SubmitCharge, ChargeReturns, SaveTransition, SaveTransitionConflict,
         SaveTransitionFails, Reload, ReloadFails, EmitPaid, EmitAndReturn, SubmitReservation,
         ReserveReturns, external, TypeOK
<1> QED
  BY <1>5, <1>6

\* A transition a worker makes of the order at hand prepares a lawful statement.
LEMMA RecTransitionCarries ==
  ASSUME TypeOK, NEW p \in Procs, NEW order \in OrderType, RecTransition(p, order),
         <<rec[p].order.status, order.status>> \in Moves,
         order.status \notin PaidStatuses => order.ref = NoRef,
         AnnouncesItself(order)
  PROVE  /\ rec'[p].pc = "saving" /\ WorkerCarries(p)'
         /\ \A x \in Procs \ {p} : rec'[x] = rec[x]
<1>1. /\ rec'[p] = [rec[p] EXCEPT !.pc = "saving", !.order = order,
                                  !.expected = rec[p].order.status]
      /\ \A x \in Procs \ {p} : rec'[x] = rec[x]
  BY DEF RecTransition, RecBecomes, TypeOK
<1>2. /\ rec'[p].pc = "saving" /\ rec'[p].cur = rec[p].cur /\ rec'[p].order = order
      /\ rec'[p].expected = rec[p].order.status
  BY <1>1 DEF TypeOK, RecType
<1> DEFINE stmt == [id |-> rec[p].cur, expected |-> rec[p].order.status, row |-> Row(order)]
<1>3. /\ stmt.expected = rec[p].order.status /\ stmt.row = Row(order)
      /\ Row(order).status = order.status
      /\ order.ref = NoRef => Row(order).ref = NULL
  BY DEF Row, nullableString
<1>4. RecStatement(p)' = stmt
  BY <1>2 DEF RecStatement, SaveIfStatus, Row, nullableString
<1> HIDE DEF stmt
<1>5. LawfulStatement(stmt)
  BY <1>3 DEF LawfulStatement, RefInv
<1>6. LawfulStatement(RecStatement(p))'
  BY <1>4, <1>5 DEF LawfulStatement, RefInv, stmt
<1>7. WorkerCarries(p)'
  BY <1>2, <1>6 DEF WorkerCarries, AnnouncesItself
<1> QED
  BY <1>1, <1>2, <1>7

\* The order a worker reads has no events, and no reference unless it is paid.
LEMMA FindCarries ==
  ASSUME TypeOK, TransitionInv, NEW o \in Orders
  PROVE  LET order == FindByID(orders, o)
         IN  /\ order.status = orders[o].status
             /\ order.events = << >>
             /\ order.status \notin PaidStatuses => order.ref = NoRef
BY DEF FindByID, TransitionInv, RefInv

\* Every step of the recovery worker keeps TransitionInv.
LEMMA RecoverCarriesStep ==
  ASSUME TypeOK, ServiceInv, TransitionInv, NEW p \in Procs, RecoverStep(p)
  PROVE  TransitionInv'
<1> DEFINE w == rec[p]
<1>1. /\ WorkerInv(p) /\ WorkerCarries(p)
      /\ w \in RecType /\ w.order \in OrderType
  BY DEF ServiceInv, WorkersInv, TransitionInv, TypeOK, RecType
<1>2. ASSUME WorkerCarries(p)', \A x \in Procs \ {p} : rec'[x] = rec[x], req' = req,
             \A x \in Orders : RefInv(orders[x])', \A stmt \in late' : LawfulStatement(stmt)
      PROVE  TransitionInv'
  <2>1. \A x \in Orders : RequestCarries(x)'
    BY <1>2, CarriesFrame DEF TransitionInv
  <2>2. \A x \in Procs : WorkerCarries(x)'
    BY <1>2, CarriesFrame DEF TransitionInv
  <2>3. \A stmt \in late' : LawfulStatement(stmt)'
    BY <1>2 DEF LawfulStatement, RefInv
  <2> QED
    BY <1>2, <2>1, <2>2, <2>3 DEF TransitionInv
<1>3. ASSUME WorkerCarries(p)', \A x \in Procs \ {p} : rec'[x] = rec[x],
             UNCHANGED <<orders, late, req>>
      PROVE  TransitionInv'
  BY <1>2, <1>3, LawfulTable
<1>4. ASSUME rec'[p].pc \in {"idle", "list", "relist", "next", "find"},
             \A x \in Procs \ {p} : rec'[x] = rec[x], UNCHANGED <<orders, late, req>>
      PROVE  TransitionInv'
  <2>1. WorkerCarries(p)'
    BY <1>4 DEF WorkerCarries
  <2> QED
    BY <1>3, <1>4, <2>1
<1>5. CASE RunOnce(p) \/ ListPage(p) \/ ListFirstPage(p) \/ ListFails(p) \/ EndBatch(p)
  <2>1. UNCHANGED <<orders, late, req>>
    BY <1>5 DEF RunOnce, ListPage, ListFirstPage, ListFails, EndBatch
  <2> QED
    BY <1>4, <1>5, <2>1, PagingStep
<1>6. ASSUME NEW o \in Orders, NextOrder(p, o) PROVE TransitionInv'
  <2>1. /\ rec'[p] = [rec[p] EXCEPT !.pc = "find", !.afterID = o, !.cur = o, !.ids = @ \ {o}]
        /\ \A x \in Procs \ {p} : rec'[x] = rec[x]
    BY <1>6 DEF NextOrder, RecBecomes, TypeOK
  <2>2. rec'[p].pc = "find"
    BY <1>1, <2>1 DEF RecType
  <2> QED
    BY <1>4, <1>6, <2>1, <2>2 DEF NextOrder
<1>7. CASE FindFails(p) \/ LookupLeavesOpen(p) \/ RecoveryLosesRace(p)
  BY <1>4, <1>7, LeaveOrderInv DEF FindFails, LookupLeavesOpen, RecoveryLosesRace
<1>8. CASE FindOrder(p)
  <2> DEFINE order == FindByID(orders, w.cur)
             step == RecoveryStep(order.status)
  <2>1. CASE step = "next"
    BY <1>4, <1>8, <2>1, LeaveOrderInv DEF FindOrder
  <2>2. CASE step # "next"
    <3>1. w.cur \in Orders
      BY <1>1, <1>8 DEF FindOrder, WorkerInv
    <3>2. /\ rec'[p] = [rec[p] EXCEPT !.pc = step, !.order = order]
          /\ \A x \in Procs \ {p} : rec'[x] = rec[x]
      BY <1>8, <2>2 DEF FindOrder, RecBecomes, TypeOK
    <3>3. rec'[p].pc = step /\ rec'[p].order = order
      BY <1>1, <3>2 DEF RecType
    <3>4. /\ step \in {"lookup", "reserve"}
          /\ step = "lookup" => order.status \notin PaidStatuses
      BY <2>2, FromThereFacts DEF RecoveryStep
    <3>5. order.events = << >> /\ (order.status \notin PaidStatuses => order.ref = NoRef)
      BY <3>1, FindCarries
    <3> HIDE DEF order, step
    <3>6. WorkerCarries(p)'
      BY <3>3, <3>4, <3>5 DEF WorkerCarries
    <3> QED
      BY <1>3, <1>8, <3>2, <3>6 DEF FindOrder
  <2> QED
    BY <2>1, <2>2
<1>9. CASE LookupSettles(p)
  <2>1. /\ w.cur \in Orders /\ PaymentOpen(w.order)
        /\ w.order.events = << >> /\ w.order.ref = NoRef
    BY <1>1, <1>9 DEF LookupSettles, WorkerInv, WorkerCarries
  <2>2. PICK answer \in LookupAnswers(w.cur) :
          /\ Settles(LookupCharge(answer))
          /\ RecTransition(p, Settled(w.order, LookupCharge(answer).result))
    BY <1>9 DEF LookupSettles
  <2> DEFINE result == LookupCharge(answer).result
             next == Settled(w.order, result)
  <2>3. \/ result.status = "approved" /\ result.ref = ChargeRef
        \/ result.status = "declined"
    BY <2>1, <2>2, LookupFacts
  <2> HIDE DEF result
  <2>4. /\ next \in OrderType /\ AnnouncesItself(next)
        /\ <<w.order.status, next.status>> \in Moves
        /\ next.status \notin PaidStatuses => next.ref = NoRef
    <3>1. ChargeRef \in Refs /\ NoRef \in Refs
      BY DEF Refs
    <3>2. CASE result.status = "approved" /\ result.ref = ChargeRef
      <4>1. next = MarkPaid(w.order, ChargeRef)
        BY <3>2 DEF Settled
      <4> QED
        BY <1>1, <2>1, <3>1, <4>1, TransitionTypes, TransitionEffect, FromThereFacts
        DEF PaymentOpen, Moves
    <3>3. CASE result.status = "declined"
      <4>1. next = MarkFailed(w.order)
        BY <3>3 DEF Settled
      <4> QED
        BY <1>1, <2>1, <3>1, <4>1, TransitionTypes, TransitionEffect DEF PaymentOpen, Moves
    <3> QED
      BY <2>3, <3>2, <3>3
  <2>5. RecTransition(p, next)
    BY <2>2 DEF result
  <2> HIDE DEF next
  <2>6. WorkerCarries(p)' /\ \A x \in Procs \ {p} : rec'[x] = rec[x]
    BY <2>4, <2>5, RecTransitionCarries
  <2> QED
    BY <1>3, <1>9, <2>6 DEF LookupSettles
<1>10. CASE RecoverySaves(p)
  <2>1. RecStatement(p) \in StatementType /\ LawfulStatement(RecStatement(p))
    BY <1>1, <1>10, StatementTypes DEF WorkerInv, WorkerCarries, RecoverySaves
  <2>2. /\ rec'[p] = [rec[p] EXCEPT !.pc = "emit"]
        /\ \A x \in Procs \ {p} : rec'[x] = rec[x]
    BY <1>10 DEF RecoverySaves, RecGoto, RecBecomes, TypeOK
  <2>3. rec'[p].pc = "emit" /\ rec'[p].order = w.order
    BY <1>1, <2>2 DEF RecType
  <2>4. WorkerCarries(p)'
    BY <1>1, <1>10, <2>3 DEF WorkerCarries, AnnouncesItself, RecoverySaves
  <2>5. (\A x \in Orders : RefInv(orders[x])') /\ \A stmt \in late' : LawfulStatement(stmt)
    BY <1>10, <2>1, LawfulTable DEF RecoverySaves, Executes
  <2> QED
    BY <1>2, <1>10, <2>2, <2>4, <2>5 DEF RecoverySaves
<1>11. CASE RecoverySaveFails(p)
  <2>1. LawfulStatement(RecStatement(p))
    BY <1>1, <1>11 DEF WorkerCarries, RecoverySaveFails
  <2>2. (\A x \in Orders : RefInv(orders[x])') /\ \A stmt \in late' : LawfulStatement(stmt)
    BY <1>11, <2>1, LawfulTable DEF RecoverySaveFails, GivesUpOn
  <2>3. rec'[p].pc = "next" /\ \A x \in Procs \ {p} : rec'[x] = rec[x]
    BY <1>11, LeaveOrderInv DEF RecoverySaveFails
  <2>4. WorkerCarries(p)'
    BY <2>3 DEF WorkerCarries
  <2> QED
    BY <1>2, <1>11, <2>2, <2>3, <2>4 DEF RecoverySaveFails
<1>12. CASE RecoveryEmits(p)
  <2>1. CASE w.order.status # "paid"
    BY <1>4, <1>12, <2>1, LeaveOrderInv DEF RecoveryEmits
  <2>2. CASE w.order.status = "paid"
    <3>1. /\ rec'[p] = [rec[p] EXCEPT !.pc = "reserve", !.order = PullEvents(@),
                                      !.expected = "pending"]
          /\ \A x \in Procs \ {p} : rec'[x] = rec[x]
      BY <1>12, <2>2 DEF RecoveryEmits, RecBecomes, TypeOK
    <3>2. rec'[p].pc = "reserve" /\ rec'[p].order = PullEvents(w.order)
      BY <1>1, <3>1 DEF RecType
    <3>3. PullEvents(w.order).events = << >>
      BY <1>1 DEF PullEvents, OrderType
    <3>4. WorkerCarries(p)'
      BY <3>2, <3>3 DEF WorkerCarries
    <3> QED
      BY <1>3, <1>12, <3>1, <3>4 DEF RecoveryEmits
  <2> QED
    BY <2>1, <2>2
<1>13. CASE RecoveryReserves(p)
  <2>1. /\ rec'[p] = [rec[p] EXCEPT !.pc = "reserving"]
        /\ \A x \in Procs \ {p} : rec'[x] = rec[x]
    BY <1>13 DEF RecoveryReserves, RecGoto, RecBecomes, TypeOK
  <2>2. rec'[p].pc = "reserving" /\ rec'[p].order = w.order
    BY <1>1, <2>1 DEF RecType
  <2>3. WorkerCarries(p)'
    BY <1>1, <1>13, <2>2 DEF WorkerCarries, RecoveryReserves
  <2> QED
    BY <1>3, <1>13, <2>1, <2>3 DEF RecoveryReserves
<1>14. CASE ReservationHeld(p) \/ ReservationFails(p)
  <2>1. FulfillmentOpen(w.order) /\ w.order.events = << >>
    BY <1>1, <1>14 DEF ReservationHeld, ReservationFails, WorkerInv, WorkerCarries
  <2>2. NoRef \in Refs
    BY DEF Refs
  <2>3. CASE ReservationHeld(p)
    <3> DEFINE next == Complete(w.order)
    <3>1. RecTransition(p, next) /\ next \in OrderType
      BY <1>1, <2>1, <2>3, TransitionTypes DEF ReservationHeld
    <3>2. AnnouncesItself(next) /\ next.status = "completed"
      BY <1>1, <2>1, <2>2, TransitionEffect
    <3> HIDE DEF next
    <3>3. WorkerCarries(p)' /\ \A x \in Procs \ {p} : rec'[x] = rec[x]
      BY <2>1, <3>1, <3>2, RecTransitionCarries, FromThereFacts DEF FulfillmentOpen, Moves
    <3> QED
      BY <1>3, <2>3, <3>3 DEF ReservationHeld
  <2>4. CASE ReservationFails(p) /\ w.order.status = "paid"
    <3> DEFINE next == MarkFulfillmentPending(w.order)
    <3>1. RecTransition(p, next) /\ next \in OrderType
      BY <1>1, <2>4, TransitionTypes DEF ReservationFails
    <3>2. AnnouncesItself(next) /\ next.status = "fulfillment_pending"
      BY <1>1, <2>1, <2>2, TransitionEffect
    <3> HIDE DEF next
    <3>3. WorkerCarries(p)' /\ \A x \in Procs \ {p} : rec'[x] = rec[x]
      BY <2>4, <3>1, <3>2, RecTransitionCarries, FromThereFacts DEF Moves
    <3> QED
      BY <1>3, <2>4, <3>3 DEF ReservationFails
  <2>5. CASE ReservationFails(p) /\ w.order.status # "paid"
    BY <1>4, <2>5, LeaveOrderInv DEF ReservationFails
  <2> QED
    BY <1>14, <2>3, <2>4, <2>5
<1> QED
  BY <1>5, <1>6, <1>7, <1>8, <1>9, <1>10, <1>11, <1>12, <1>13, <1>14 DEF RecoverStep

\* So does every step of the services, the clock, the database and a crash.
LEMMA EnvironmentCarriesStep ==
  ASSUME TypeOK, ServiceInv, TransitionInv,
         \/ \E o \in Orders : ProviderDecides(o) \/ InventoryReserves(o) \/ OrderAges(o)
         \/ \E p \in Procs : Crash(p)
         \/ \E stmt \in late : LateStatement(stmt)
         \/ UNCHANGED vars
  PROVE  TransitionInv'
<1>1. ASSUME \A x \in Orders : req'[x] = req[x] \/ req'[x].pc = "done",
             \A x \in Procs : rec'[x] = rec[x] \/ rec'[x].pc = "idle",
             \A x \in Orders : RefInv(orders[x])', \A stmt \in late' : LawfulStatement(stmt)
      PROVE  TransitionInv'
  <2>1. ASSUME NEW x \in Orders PROVE RequestCarries(x)'
    <3>1. CASE req'[x] = req[x]
      BY <3>1, CarriesFrame DEF TransitionInv
    <3>2. CASE req'[x].pc = "done"
      BY <3>2 DEF RequestCarries
    <3> QED
      BY <1>1, <3>1, <3>2
  <2>2. ASSUME NEW x \in Procs PROVE WorkerCarries(x)'
    <3>1. CASE rec'[x] = rec[x]
      BY <3>1, CarriesFrame DEF TransitionInv
    <3>2. CASE rec'[x].pc = "idle"
      BY <3>2 DEF WorkerCarries
    <3> QED
      BY <1>1, <3>1, <3>2
  <2>3. \A stmt \in late' : LawfulStatement(stmt)'
    BY <1>1 DEF LawfulStatement, RefInv
  <2> QED
    BY <1>1, <2>1, <2>2, <2>3 DEF TransitionInv
<1>2. ASSUME UNCHANGED <<orders, late, req, rec>> PROVE TransitionInv'
  BY <1>1, <1>2, LawfulTable
<1>3. ASSUME NEW o \in Orders, ProviderDecides(o) \/ InventoryReserves(o) \/ OrderAges(o)
      PROVE  TransitionInv'
  BY <1>2, <1>3 DEF ProviderDecides, InventoryReserves, OrderAges
<1>4. ASSUME NEW p \in Procs, Crash(p) PROVE TransitionInv'
  <2>1. \A stmt \in OpenStatements(p) : LawfulStatement(stmt)
    <3>1. \A o \in Orders : req[o].pc \in {"save", "saving"} => LawfulStatement(ReqStatement(o))
      BY RequestStatementLawful
    <3>2. rec[p].pc = "saving" => LawfulStatement(RecStatement(p))
      BY DEF TransitionInv, WorkerCarries
    <3> QED
      BY <3>1, <3>2 DEF OpenStatements
  <2>2. (\A x \in Orders : RefInv(orders[x])') /\ \A stmt \in late' : LawfulStatement(stmt)
    BY <1>4, <2>1, LawfulTable DEF Crash
  <2>3. \A x \in Orders : req'[x] = req[x] \/ req'[x].pc = "done"
    BY <1>4 DEF Crash, DoneReq, IdleReq
  <2>4. \A x \in Procs : rec'[x] = rec[x] \/ rec'[x].pc = "idle"
    BY <1>4 DEF Crash, IdleRec, TypeOK
  <2> QED
    BY <1>1, <2>2, <2>3, <2>4
<1>5. ASSUME NEW stmt \in late, LateStatement(stmt) PROVE TransitionInv'
  <2>1. stmt \in StatementType /\ LawfulStatement(stmt)
    BY DEF TypeOK, TransitionInv
  <2>2. (\A x \in Orders : RefInv(orders[x])') /\ \A s \in late' : LawfulStatement(s)
    BY <1>5, <2>1, LawfulTable DEF LateStatement
  <2> QED
    BY <1>1, <1>5, <2>2 DEF LateStatement
<1>6. CASE UNCHANGED vars
  BY <1>2, <1>6 DEF vars
<1> QED
  BY <1>3, <1>4, <1>5, <1>6

\* TransitionInv holds initially.
LEMMA InitCarries == Init => TransitionInv
BY DEF Init, TransitionInv, RefInv, NoRow, RequestCarries, WorkerCarries, IdleReq, IdleRec

\* Every step keeps TransitionInv, given the service's invariant.
LEMMA StepCarries ==
  ASSUME TypeOK, ServiceInv, TransitionInv, [Next]_vars
  PROVE  TransitionInv'
BY RequestCarriesStep, RecoverCarriesStep, EnvironmentCarriesStep DEF Next

\* Between two calls every request, worker and abandoned statement carries
\* exactly one move of the lifecycle and exactly the event that announces it:
\* saveTransition and the reconciler never store two transitions at once and
\* never hold an event of an earlier one.
THEOREM TransitionInvariant ==
  ASSUME ProviderContract
  PROVE  Spec => [](TypeOK /\ ServiceInv /\ TransitionInv)
<1> DEFINE Inv == TypeOK /\ ServiceInv
<1>1. Spec => []Inv
  BY ServiceInvariant
<1>2. Inv /\ TransitionInv /\ [Next]_vars => TransitionInv'
  BY StepCarries
<1> QED
  BY <1>1, <1>2, InitCarries, PTL DEF Spec

----
\* A statement the database executes, whoever sent it and however late, is one
\* step of the lifecycle, or none when its expected status is gone.
LEMMA ApplyRefines ==
  ASSUME StrictDecoding, TypeOK, ServiceInv, TransitionInv, NEW stmt \in StatementType,
         GoodStatement(stmt), LawfulStatement(stmt),
         orders' = Apply(orders, stmt), UNCHANGED <<charge, reserved>>
  PROVE  [Lifecycle!LNext]_(Lifecycle!lvars)
<1> DEFINE o == stmt.id
           status == [x \in Orders |-> orders[x].status]
           hasRef == [x \in Orders |-> orders[x].ref # NULL]
<1>1. CASE ~Matches(orders, stmt)
  <2>1. orders' = orders
    BY <1>1 DEF Apply
  <2> QED
    BY <2>1 DEF Lifecycle!lvars
<1>2. CASE Matches(orders, stmt)
  <2>1. o \in Orders /\ orders' = [orders EXCEPT ![o] = stmt.row] /\ orders[o].status = stmt.expected
    BY <1>2 DEF Apply, Matches, StatementType
  <2>2. status' = [status EXCEPT ![o] = stmt.row.status]
    BY <2>1 DEF TypeOK
  <2>3. hasRef' = [hasRef EXCEPT ![o] = (stmt.row.ref # NULL)]
    BY <2>1 DEF TypeOK
  <2>4. status[o] = stmt.expected /\ hasRef[o] = (orders[o].ref # NULL)
    BY <2>1
  <2>5. /\ Justified(o, orders[o]) /\ RefInv(orders[o]) /\ Justified(o, stmt.row) /\ RefInv(stmt.row)
        /\ <<stmt.expected, stmt.row.status>> \in Moves
    BY <2>1 DEF ServiceInv, RowsInv, TransitionInv, GoodStatement, LawfulStatement
  <2>6. /\ stmt.row.status \in PaidStatuses => stmt.row.ref # NULL
        /\ orders[o].status \in PaidStatuses => orders[o].ref # NULL
    BY <2>5 DEF Justified, NULL, ChargeRef
  <2>7. stmt.row.status # "paid" => hasRef' = hasRef
    <3>1. ASSUME stmt.row.status # "paid"
          PROVE  (stmt.row.ref # NULL) = (orders[o].ref # NULL)
      BY <2>1, <2>5, <2>6, <3>1, FromThereFacts DEF Moves, RefInv
    <3>2. \A x \in Orders : hasRef[x] = (orders[x].ref # NULL)
      OBVIOUS
    <3> QED
      BY <2>1, <2>3, <2>4, <3>1
  <2>8. stmt.row.status = "paid" => hasRef' = [hasRef EXCEPT ![o] = TRUE]
    <3>1. ASSUME stmt.row.status = "paid" PROVE (stmt.row.ref # NULL) = TRUE
      BY <2>6, <3>1, FromThereFacts
    <3> QED
      BY <2>3, <3>1
  <2>9. Lifecycle!LNext
    <3>1. \/ Lifecycle!Create(o) \/ Lifecycle!Doubt(o) \/ Lifecycle!Pay(o) \/ Lifecycle!Fail(o)
          \/ Lifecycle!Delay(o) \/ Lifecycle!Finish(o)
      <4> HIDE DEF o
      <4>1. CASE stmt.row.status = "pending"
        BY <2>2, <2>4, <2>5, <2>7, <4>1 DEF Moves, Lifecycle!Create
      <4>2. CASE stmt.row.status = "payment_unknown"
        BY <2>2, <2>4, <2>5, <2>7, <4>2 DEF Moves, Lifecycle!Doubt
      <4>3. CASE stmt.row.status = "paid"
        BY <2>2, <2>4, <2>5, <2>8, <4>3, FromThereFacts DEF Moves, Lifecycle!Pay, Justified
      <4>4. CASE stmt.row.status = "failed"
        BY <2>2, <2>4, <2>5, <2>7, <4>4 DEF Moves, Lifecycle!Fail, Justified, NotCharged
      <4>5. CASE stmt.row.status = "fulfillment_pending"
        BY <2>2, <2>4, <2>5, <2>7, <4>5 DEF Moves, Lifecycle!Delay
      <4>6. CASE stmt.row.status = "completed"
        BY <2>2, <2>4, <2>5, <2>7, <4>6 DEF Moves, Lifecycle!Finish, Justified
      <4> QED
        BY <2>5, <4>1, <4>2, <4>3, <4>4, <4>5, <4>6 DEF Moves
    <3> QED
      BY <2>1, <3>1 DEF Lifecycle!LNext
  <2> QED
    BY <2>9
<1> QED
  BY <1>1, <1>2

\* What a step does to the table and to the services: nothing, or it executes one
\* good and lawful statement, or the provider or the inventory decides.
LEMMA TableStep ==
  ASSUME TypeOK, ServiceInv, TransitionInv, [Next]_vars
  PROVE  \/ UNCHANGED <<orders, charge, reserved>>
         \/ \E stmt \in StatementType :
              /\ GoodStatement(stmt) /\ LawfulStatement(stmt)
              /\ orders' = Apply(orders, stmt) /\ UNCHANGED <<charge, reserved>>
         \/ \E o \in Orders : ProviderDecides(o) \/ InventoryReserves(o)
<1> DEFINE Executed == \E stmt \in StatementType :
                         /\ GoodStatement(stmt) /\ LawfulStatement(stmt)
                         /\ orders' = Apply(orders, stmt) /\ UNCHANGED <<charge, reserved>>
<1> USE DEF external
<1>1. ASSUME NEW o \in Orders, SavePending(o) \/ SaveTransition(o) PROVE Executed
  <2>1. /\ req[o].pc \in {"save", "saving"} /\ orders' = Apply(orders, ReqStatement(o))
        /\ UNCHANGED <<charge, reserved>>
    BY <1>1 DEF SavePending, SaveTransition, Executes
  <2> QED
    BY <2>1, RequestStatementGood, RequestStatementLawful
<1>2. ASSUME NEW o \in Orders, RequestStep(o), ~(SavePending(o) \/ SaveTransition(o))
      PROVE  UNCHANGED <<orders, charge, reserved>>
  BY <1>2
  DEF RequestStep, RejectRequest, AcceptRequest, SavePendingFails, EmitCreated, SubmitCharge,
      ChargeReturns, SaveTransitionConflict, SaveTransitionFails, Reload, ReloadFails,
      EmitPaid, EmitAndReturn, SubmitReservation, ReserveReturns, GivesUpOn
<1>3. ASSUME NEW p \in Procs, RecoverySaves(p) PROVE Executed
  <2>1. /\ rec[p].pc = "saving" /\ orders' = Apply(orders, RecStatement(p))
        /\ UNCHANGED <<charge, reserved>>
    BY <1>3 DEF RecoverySaves, Executes
  <2>2. WorkerInv(p) /\ WorkerCarries(p)
    BY DEF ServiceInv, WorkersInv, TransitionInv
  <2>3. /\ RecStatement(p) \in StatementType
        /\ GoodStatement(RecStatement(p)) /\ LawfulStatement(RecStatement(p))
    BY <2>1, <2>2, StatementTypes DEF WorkerInv, WorkerCarries
  <2> QED
    BY <2>1, <2>3
<1>4. ASSUME NEW p \in Procs, RecoverStep(p), ~RecoverySaves(p)
      PROVE  UNCHANGED <<orders, charge, reserved>>
  BY <1>4
  DEF RecoverStep, RunOnce, ListPage, ListFirstPage, ListFails, NextOrder, EndBatch, FindOrder,
      FindFails, LookupSettles, LookupLeavesOpen, RecoveryLosesRace, RecoverySaveFails,
      RecoveryEmits, RecoveryReserves, ReservationHeld, ReservationFails, GivesUpOn
<1>5. ASSUME NEW stmt \in late, LateStatement(stmt) PROVE Executed
  <2>1. stmt \in StatementType /\ GoodStatement(stmt) /\ LawfulStatement(stmt)
    BY DEF TypeOK, ServiceInv, LateInv, TransitionInv
  <2>2. orders' = Apply(orders, stmt) /\ UNCHANGED <<charge, reserved>>
    BY <1>5 DEF LateStatement
  <2> QED
    BY <2>1, <2>2
<1>6. ASSUME \/ \E o \in Orders : OrderAges(o)
             \/ \E p \in Procs : Crash(p)
             \/ UNCHANGED vars
      PROVE  UNCHANGED <<orders, charge, reserved>>
  BY <1>6 DEF OrderAges, Crash, vars
<1>7. ASSUME NEW o \in Orders, RequestStep(o)
      PROVE  Executed \/ UNCHANGED <<orders, charge, reserved>>
  BY <1>1, <1>2, <1>7
<1>8. ASSUME NEW p \in Procs, RecoverStep(p)
      PROVE  Executed \/ UNCHANGED <<orders, charge, reserved>>
  BY <1>3, <1>4, <1>8
<1> QED
  BY <1>5, <1>6, <1>7, <1>8 DEF Next

\* Every step moves the table and the services forward.
LEMMA StepForward ==
  ASSUME TypeOK, ServiceInv, TransitionInv, [Next]_vars
  PROVE  Forward
<1>1. \A o \in Orders : orders[o].status \in FromThere(orders[o].status)
  BY FromThereFacts DEF TypeOK, RowType
<1>2. CASE UNCHANGED <<orders, charge, reserved>>
  BY <1>2, StandStill
<1>3. ASSUME NEW stmt \in StatementType, GoodStatement(stmt), orders' = Apply(orders, stmt),
             UNCHANGED <<charge, reserved>>
      PROVE  Forward
  BY <1>3, ApplyGood DEF ServiceInv
<1>4. ASSUME NEW o \in Orders, ProviderDecides(o) PROVE Forward
  BY <1>1, <1>4 DEF ProviderDecides, Forward, TypeOK
<1>5. ASSUME NEW o \in Orders, InventoryReserves(o) PROVE Forward
  BY <1>1, <1>5 DEF InventoryReserves, Forward, TypeOK
<1> QED
  BY <1>2, <1>3, <1>4, <1>5, TableStep

\* Every step of the service is a step of the lifecycle or leaves it alone.
LEMMA StepRefines ==
  ASSUME StrictDecoding, TypeOK, ServiceInv, TransitionInv, [Next]_vars
  PROVE  [Lifecycle!LNext]_(Lifecycle!lvars)
<1>1. CASE UNCHANGED <<orders, charge, reserved>>
  BY <1>1 DEF Lifecycle!lvars
<1>2. ASSUME NEW stmt \in StatementType, GoodStatement(stmt), LawfulStatement(stmt),
             orders' = Apply(orders, stmt), UNCHANGED <<charge, reserved>>
      PROVE  [Lifecycle!LNext]_(Lifecycle!lvars)
  BY <1>2, ApplyRefines
<1>3. ASSUME NEW o \in Orders, ProviderDecides(o) PROVE [Lifecycle!LNext]_(Lifecycle!lvars)
  <2>1. PICK decision \in Decisions \ {"none"} : charge' = [charge EXCEPT ![o] = decision]
    BY <1>3 DEF ProviderDecides
  <2>2. charge[o] = "none" /\ UNCHANGED <<orders, reserved>>
    BY <1>3 DEF ProviderDecides
  <2>3. orders[o].status \in {"pending", "payment_unknown"}
    <3>1. orders[o].status \in Statuses
      BY <1>3, FromThereFacts DEF ProviderDecides, ServiceInv, ServicesInv, Reached
    <3>2. Justified(o, orders[o])
      BY DEF ServiceInv, RowsInv
    <3> QED
      BY <2>2, <3>1, <3>2, FromThereFacts DEF Justified, NotCharged, Statuses
  <2>4. Lifecycle!Decide(o, decision)
    BY <2>1, <2>2, <2>3 DEF Lifecycle!Decide
  <2> QED
    BY <2>1, <2>4 DEF Lifecycle!LNext, Decisions
<1>4. ASSUME NEW o \in Orders, InventoryReserves(o) PROVE [Lifecycle!LNext]_(Lifecycle!lvars)
  <2>1. ~reserved[o] /\ reserved' = [reserved EXCEPT ![o] = TRUE] /\ UNCHANGED <<orders, charge>>
    BY <1>4 DEF InventoryReserves
  <2>2. orders[o].status \in PaidStatuses
    BY <1>4 DEF InventoryReserves, ServiceInv, ServicesInv, Reached, PaidStatuses
  <2>3. Lifecycle!Reserve(o)
    BY <2>1, <2>2, FromThereFacts DEF Lifecycle!Reserve, Lifecycle!Paid
  <2> QED
    BY <2>3 DEF Lifecycle!LNext
<1> QED
  BY <1>1, <1>2, <1>3, <1>4, TableStep

\* The service implements OrderLifecycle: whatever requests, workers, late
\* statements and crashes do to the table, a reader sees one order go through
\* one lifecycle, never back, never past a guard of the aggregate, and decided,
\* reserved and referenced at the right time.
THEOREM ServiceRefinesLifecycle ==
  ASSUME ProviderContract, StrictDecoding
  PROVE  Spec => ImplementsLifecycle
<1> DEFINE Inv == TypeOK /\ ServiceInv /\ TransitionInv
<1>1. Init => Lifecycle!LInit
  <2> SUFFICES ASSUME Init PROVE Lifecycle!LInit
    OBVIOUS
  <2>1. [o \in Orders |-> orders[o].status] = [o \in Orders |-> "absent"]
    BY DEF Init, NoRow
  <2>2. [o \in Orders |-> orders[o].ref # NULL] = [o \in Orders |-> FALSE]
    BY DEF Init, NoRow
  <2> QED
    BY <2>1, <2>2 DEF Init, Lifecycle!LInit
<1>2. Spec => []Inv
  BY TransitionInvariant
<1>3. Inv /\ [Next]_vars => [Lifecycle!LNext]_(Lifecycle!lvars)
  BY StepRefines
<1> QED
  BY <1>1, <1>2, <1>3, PTL DEF Spec, ImplementsLifecycle, Lifecycle!LSpec
====
