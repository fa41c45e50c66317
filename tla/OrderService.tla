---- MODULE OrderService ----
(***************************************************************************)
(* The order service: requests and recovery workers over one database, with  *)
(* the Payment Service, the Inventory Service, the clock and crashes around  *)
(* them.                                                                     *)
(***************************************************************************)
EXTENDS CreateOrder, Reconciler

\* The Payment Service decides about a charge it received, once per
\* idempotency key (external).  Nothing says when: the caller may have timed
\* out, or the request be lost and never decided.
ProviderDecides(o) ==
  /\ chargeSent[o]
  /\ charge[o] = "none"
  /\ \E decision \in Decisions \ {"none"} : charge' = [charge EXCEPT ![o] = decision]
  /\ UNCHANGED <<orders, late, chargeSent, reserved, reserveSent, old, emitted, req, resp, rec, crashes>>

\* The Inventory Service reserves the stock of an order, once per key
\* (external), be the caller still there or not.
InventoryReserves(o) ==
  /\ reserveSent[o]
  /\ ~reserved[o]
  /\ reserved' = [reserved EXCEPT ![o] = TRUE]
  /\ UNCHANGED <<orders, late, charge, chargeSent, reserveSent, old, emitted, req, resp, rec, crashes>>

\* MinAge passes for a row.  No deadline bounds a request's database calls, so
\* it may pass while the request is in flight.
OrderAges(o) ==
  /\ orders[o] # NoRow
  /\ o \notin old
  /\ old' = old \cup {o}
  /\ UNCHANGED <<orders, late, external, emitted, req, resp, rec, crashes>>

\* The database gets to a statement its caller gave up on.
LateStatement(stmt) ==
  /\ stmt \in late
  /\ orders' = Apply(orders, stmt)
  /\ late' = late \ {stmt}
  /\ UNCHANGED <<external, old, emitted, req, resp, rec, crashes>>

\* The statements process p has sent, or is about to send, to the database.
OpenStatements(p) ==
  {ReqStatement(o) : o \in {o \in Orders : req[o].proc = p /\ req[o].pc \in {"save", "saving"}}}
    \cup (IF rec[p].pc = "saving" THEN {RecStatement(p)} ELSE {})

\* A process dies and is started again: its requests are lost, and with them
\* the answers; its worker starts with an empty cursor.  What it had sent to
\* the database may still be executed.
Crash(p) ==
  /\ crashes < MaxCrashes
  /\ crashes' = crashes + 1
  /\ Abandons(OpenStatements(p))
  /\ req' = [o \in Orders |-> IF req[o].proc = p THEN DoneReq ELSE req[o]]
  /\ rec' = [rec EXCEPT ![p] = IdleRec]
  /\ UNCHANGED <<orders, external, old, emitted, resp>>

Next ==
  \/ \E o \in Orders :
       RequestStep(o) \/ ProviderDecides(o) \/ InventoryReserves(o) \/ OrderAges(o)
  \/ \E p \in Procs : RecoverStep(p) \/ Crash(p)
  \/ \E stmt \in late : LateStatement(stmt)

Spec == Init /\ [][Next]_vars
----
\* Fairness.  Run never stops, every call a worker makes returns, and time
\* passes; nothing is assumed of requests, of the provider's decisions, of
\* abandoned statements or of crashes.
WorkersRun == \A p \in Procs : WF_vars(RecoverStep(p))
TimePasses == \A o \in Orders : WF_vars(OrderAges(o))

\* A query or a call that is made again and again succeeds sooner or later: the
\* page is listed; an order is read, its charge looked up, its stock reserved
\* and its row written.  The second query of RunOnce needs no such promise: by
\* then the cursor is reset.
PagesListed == \A p \in Procs : SF_vars(ListPage(p))

CallsAnswered(o) ==
  /\ WF_vars(InventoryReserves(o))
  /\ \A p \in Procs : /\ SF_vars(rec[p].cur = o /\ FindOrder(p))
                      /\ SF_vars(rec[p].cur = o /\ LookupSettles(p))
                      /\ SF_vars(rec[p].cur = o /\ ReservationHeld(p))
                      /\ SF_vars(rec[p].cur = o /\ RecoverySaves(p))

FairSpec ==
  /\ Spec
  /\ WorkersRun /\ TimePasses /\ PagesListed
  /\ \A o \in Orders : CallsAnswered(o)
----
\* The statuses a row may have once it had status s.  A row may get to most of
\* them without s, too: to be there is to be at s or beyond, not to have had s.
FromThere(s) ==
  CASE s = "absent" -> Statuses \cup {"absent"}
    [] s = "pending" -> Statuses
    [] s = "payment_unknown" -> Statuses \ {"pending"}
    [] s = "paid" -> {"paid", "fulfillment_pending", "completed"}
    [] s = "fulfillment_pending" -> {"fulfillment_pending", "completed"}
    [] OTHER -> {s}

PaidStatuses == FromThere("paid")

\* The provider's decisions that leave the customer uncharged for good.
NotCharged == {"declined", "rejected"}

\* The status whose entry an event announces.
Announces(event) ==
  CASE event = "order.created" -> "pending"
    [] event = "order.paid" -> "paid"
    [] event = "order.failed" -> "failed"
    [] event = "order.payment_unknown" -> "payment_unknown"
    [] event = "order.fulfillment_pending" -> "fulfillment_pending"
    [] event = "order.completed" -> "completed"

\* The provider's side of the classification in OutcomeMayHaveCommitted: a code
\* it may send although it charged, or may still charge, is an ambiguous one.
ProviderContract == \A code \in UndecidedCodes : OutcomeMayHaveCommitted(code)

\* An order is stored as failed only when the provider has decided not to
\* charge it, so no charge is or becomes hidden behind a failed order, not even
\* one that is decided after Execute's call timed out.
FailedMeansNotCharged ==
  \A o \in Orders :
    orders[o].status = "failed" => charge[o] \in NotCharged

\* A row that says paid, fulfillment_pending or completed has an approved
\* charge behind it and still carries the provider's reference, however many
\* workers rewrote the row since.
PaidMeansCharged ==
  \A o \in Orders :
    orders[o].status \in PaidStatuses => charge[o] = "approved" /\ orders[o].ref = ChargeRef

\* "Establish a durable pending record before causing the external payment side
\* effect": once a charge request left the service its order has a row that
\* recovery can find by the idempotency key, whatever crashed since.
ChargeLeavesTrace == \A o \in Orders : chargeSent[o] => orders[o].status # "absent"

\* Stock is asked for only when the order is durably paid ("Persist the charge
\* result before starting fulfillment"), by a request and by recovery alike.
ReservationMeansPaid == \A o \in Orders : reserveSent[o] => orders[o].status \in PaidStatuses

\* A completed order has its stock: neither a worker that gave up on its
\* reservation nor one that lost a race completes it without.
CompletedMeansReserved == \A o \in Orders : orders[o].status = "completed" => reserved[o]

\* "After persistence succeeds": no business event is logged ahead of the table.
\* By then the row is at the status the event announces or beyond; of completed
\* and failed, which nothing is beyond, it is there and stays.
EventsFollowCommits ==
  \A o \in Orders : \A i \in DOMAIN emitted[o] :
    orders[o].status \in FromThere(Announces(emitted[o][i]))

\* However many workers take an order through a transition, with writes that
\* fail and are retried, the event of the transition is logged at most once.
EventsLoggedOnce ==
  \A o \in Orders : \A i, j \in DOMAIN emitted[o] :
    emitted[o][i] = emitted[o][j] => i = j

\* The caller is never told a status the table has not got to: the row is at the
\* reported status or beyond, so that completed and failed, which nothing is
\* beyond, are in the table and stay there.
ReportedStatusWasStored ==
  \A o \in Orders : resp[o].given => orders[o].status \in FromThere(resp[o].status)

\* What the caller and the metrics take for a success (201, and the label
\* success of orders_created_total) is a completed order with its stock held.
SuccessMeansCompleted ==
  \A o \in Orders :
    StatusCode(resp[o]) = 201 \/ CountedAs(resp[o]) = "success" =>
      orders[o].status = "completed" /\ reserved[o]

\* "Inventory reservation or final persistence must be retried": an order that
\* is answered with ErrFulfillmentPending still has something to retry.
PendingMeansUnfinished ==
  \A o \in Orders : "ErrFulfillmentPending" \in resp[o].errs => resp[o].status # "completed"

\* "Callers must not present this as a decline": an answer that reads as a
\* failure (400, 402, 500, 502) goes only to a caller who was not charged and
\* whose order can no longer be charged.
FailureMeansNotCharged ==
  \A o \in Orders :
    StatusCode(resp[o]) \in {400, 402, 500, 502} =>
      (chargeSent[o] => charge[o] \in NotCharged)

\* The client, the metrics, the log and the trace tell one story of a request:
\* 201, the counter's success and the logged success are the same requests, the
\* spans marked as failed are those answered with neither 201 nor 402, and a
\* result without an error always has the order that all of them read.
ObserversAgree ==
  \A o \in Orders :
    LET r == resp[o]
    IN  ReachesUsecase(r) =>
          /\ StatusCode(r) = 201 <=> LoggedAs(r) = "success"
          /\ CountedAs(r) = "success" <=> LoggedAs(r) = "success"
          /\ SpanFailed(r) <=> StatusCode(r) \notin {201, 402}
          /\ r.errs = {} => r.status # "absent"

\* "An authoritative count": when the gauge of pending orders reads zero, every
\* order that was stored or charged is settled, and truthfully so; an order that
\* was never charged, which recovery cannot settle, keeps it above zero.
GaugeAtZeroIsSettled ==
  (\E failed \in BOOLEAN : LET gauge == PendingGauge(orders, failed)
                           IN  ~gauge.nan /\ gauge.count = 0) =>
    \A o \in Orders :
      orders[o].status # "absent" \/ chargeSent[o] =>
        \/ orders[o].status = "completed" /\ charge[o] = "approved" /\ reserved[o]
        \/ orders[o].status = "failed" /\ charge[o] \in NotCharged

\* The inductive invariant behind the properties above.  A row, stored or on its
\* way, is justified by what the services decided; and the table is never behind
\* what an actor has seen or stored of it.  A paid row has its reference only
\* if the adapter checks that an approval carries one.
Justified(o, row) ==
  /\ row.status = "failed" => charge[o] \in NotCharged
  /\ row.status \in PaidStatuses =>
       charge[o] = "approved" /\ (StrictDecoding => row.ref = ChargeRef)
  /\ row.status = "completed" => reserved[o]

GoodStatement(stmt) ==
  /\ Justified(stmt.id, stmt.row)
  /\ stmt.row.status \in FromThere(stmt.expected) \ {"absent"}

Reached(o, status) == orders[o].status \in FromThere(status)

RowsInv == \A o \in Orders : Justified(o, orders[o])

LateInv == \A stmt \in late : GoodStatement(stmt)

ServicesInv ==
  \A o \in Orders :
    /\ chargeSent[o] => Reached(o, "pending")
    /\ charge[o] # "none" => chargeSent[o]
    /\ reserveSent[o] => Reached(o, "paid")
    /\ reserved[o] => reserveSent[o]

RequestInv(o) ==
  LET r == req[o]
  IN  /\ r.pc \in {"idle", "save", "created", "charge"} => ~chargeSent[o]
      /\ r.pc \in {"save", "created"} => r.order = NewOrder
      /\ r.pc \in {"charge", "charging"} => r.order = NoOrder
      /\ r.pc \in {"created", "charge", "charging", "saving", "reload", "emit"} =>
           Reached(o, r.order.status)
      /\ r.pc \in {"reserve", "reserving"} =>
           /\ r.order.status = "paid" /\ Reached(o, "paid")
           /\ StrictDecoding => r.order.ref = ChargeRef
      /\ r.pc = "saving" => GoodStatement(ReqStatement(o))
      /\ r.pc \in {"saving", "reload", "emit"} =>
           /\ r.branch # "none"
           /\ r.branch \in {"rejected", "declined"} => charge[o] \in NotCharged
      /\ r.pc = "emit" => Reached(o, r.next.status) /\ Justified(o, Row(r.next))
      /\ r.pc \in {"saving", "emit"} /\ r.branch = "approved" => r.next.status = "paid"

RequestsInv == \A o \in Orders : RequestInv(o)

WorkerInv(p) ==
  LET w == rec[p]
  IN  /\ w.pc \in {"find", "lookup", "saving", "emit", "reserve", "reserving"} => w.cur \in Orders
      /\ w.pc = "lookup" => PaymentOpen(w.order)
      /\ w.pc = "saving" => GoodStatement(RecStatement(p))
      /\ w.pc \in {"emit", "reserve", "reserving"} =>
           Reached(w.cur, w.order.status) /\ Justified(w.cur, Row(w.order))
      /\ w.pc \in {"reserve", "reserving"} => FulfillmentOpen(w.order)

WorkersInv == \A p \in Procs : WorkerInv(p)

\* The four actors' parts and the table's, together: what Execute, reconcileOrder
\* and a statement the database still holds may rely on between two calls.
ServiceInv == RowsInv /\ LateInv /\ ServicesInv /\ RequestsInv /\ WorkersInv

\* The service implements the lifecycle it promises.
Lifecycle == INSTANCE OrderLifecycle WITH
  status <- [o \in Orders |-> orders[o].status],
  hasRef <- [o \in Orders |-> orders[o].ref # NULL]

\* Every step of the service, by a request, a worker, the database or a crash,
\* is a step of OrderLifecycle or leaves it alone: no row regresses, skips a
\* guard or loses its reference.
ImplementsLifecycle == Lifecycle!LSpec

\* A charge the provider decided on is followed up: an approved one by a
\* completed order, a declined one by a failed order, whatever happened to the
\* request that made it.
ChargeSettles(o) ==
  /\ charge[o] = "approved" ~> orders[o].status = "completed"
  /\ charge[o] = "declined" ~> orders[o].status = "failed"

DecidedChargeSettles == \A o \in Orders : ChargeSettles(o)

\* "An unresolved old order cannot starve newer orders": every order that is
\* old enough and not settled is taken up by every worker again and again.
NoStarvation ==
  \A p \in Procs, o \in Orders :
    (o \in old /\ orders[o].status \in RecoverableStatuses)
      ~> (rec[p].cur = o \/ orders[o].status \notin RecoverableStatuses)

\* The orders a batch of p is for: old enough when it began and not settled.
Recoverable(p) == {o \in rec[p].cutoff : orders[o].status \in RecoverableStatuses}

\* A batch leaves out an order beyond the cursor only if it is full of orders
\* before it, and it is empty only if there is nothing to recover, wherever the
\* cursor stood when it began.
BatchMissesNone(p) ==
  rec[p].pc \in {"list", "relist"} /\ rec'[p].pc = "next" =>
    LET page == rec'[p].ids
    IN  /\ \A o \in Recoverable(p) \ page :
             \/ o <= rec[p].afterID
             \/ Cardinality(page) = BatchSize /\ \A id \in page : id < o
        /\ page = {} => Recoverable(p) = {}

\* The cursor goes back to the start only from behind the last order.
WrapsAtTheEnd(p) ==
  rec[p].pc = "list" /\ rec'[p].pc = "relist" =>
    \A o \in Recoverable(p) : o <= rec[p].afterID

\* "The cursor wraps after the last ID": the batches of a worker sweep the table
\* without a gap.  No step of RunOnce skips an order that it was to recover, and
\* the cursor never passes an order of the page before it is taken up.
SweepMissesNothing ==
  [][\A p \in Procs :
       /\ BatchMissesNone(p)
       /\ WrapsAtTheEnd(p)
       /\ \A id \in rec'[p].ids : rec'[p].afterID < id]_vars
====
