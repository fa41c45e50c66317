---- MODULE EventProofs ----
(***************************************************************************)
(* The business events: logged only once the row is at the status they         *)
(* announce or beyond, and once for every transition, whoever makes it.       *)
(*                                                                           *)
(* The argument: an event is logged by the actor whose statement the database *)
(* executed.  A lawful statement that is executed enters a status the row      *)
(* never had, so nobody logged it or is about to; whoever executed it is the   *)
(* only one to tell, and forgets the event when it is told.                    *)
(***************************************************************************)
EXTENDS TransitionProofs

\* The entry of an order into a status has been logged.
Logged(o, s) == \E i \in DOMAIN emitted[o] : Announces(emitted[o][i]) = s

\* A request, or a worker, has stored a transition into s and not logged it yet.
RequestTells(o, s) ==
  \/ req[o].pc = "created" /\ s = "pending"
  \/ req[o].pc = "emit" /\ s = req[o].next.status

WorkerTells(p, o, s) == rec[p].pc = "emit" /\ rec[p].cur = o /\ rec[p].order.status = s

\* Nobody is about to log what is logged, and no two are about to log the same.
TellersInv ==
  \A o \in Orders, s \in Statuses :
    /\ RequestTells(o, s) => ~Logged(o, s) /\ \A p \in Procs : ~WorkerTells(p, o, s)
    /\ \A p \in Procs : WorkerTells(p, o, s) =>
         ~Logged(o, s) /\ \A q \in Procs : WorkerTells(q, o, s) => q = p

\* The two properties of the log and the strengthening that makes them inductive.
EventInv == EventsFollowCommits /\ EventsLoggedOnce /\ TellersInv
----
\* An event announces one status, and a status has one event.
LEMMA AnnouncesFacts ==
  \A event \in EventNames :
    /\ Announces(event) \in Statuses
    /\ \A other \in EventNames : Announces(event) = Announces(other) => event = other
BY DEF EventNames, Announces, Statuses

\* The row is at what is logged, or about to be, or beyond.
LEMMA ToldIsReached ==
  ASSUME TypeOK, ServiceInv, EventsFollowCommits, NEW o \in Orders, NEW s \in Statuses
  PROVE  /\ Logged(o, s) => Reached(o, s)
         /\ RequestTells(o, s) => Reached(o, s)
         /\ \A p \in Procs : WorkerTells(p, o, s) => Reached(o, s)
<1>1. Logged(o, s) => Reached(o, s)
  BY DEF Logged, EventsFollowCommits, Reached
<1>2. RequestTells(o, s) => Reached(o, s)
  <2>1. RequestInv(o) /\ NewOrder.status = "pending"
    BY DEF ServiceInv, RequestsInv, NewOrder, record
  <2> QED
    BY <2>1 DEF RequestTells, RequestInv
<1>3. ASSUME NEW p \in Procs, WorkerTells(p, o, s) PROVE Reached(o, s)
  BY <1>3 DEF WorkerTells, ServiceInv, WorkersInv, WorkerInv
<1> QED
  BY <1>1, <1>2, <1>3

\* A forward step that logs nothing leaves the log true.
LEMMA LogKept ==
  ASSUME TypeOK, Forward, EventInv, emitted' = emitted
  PROVE  /\ EventsFollowCommits' /\ EventsLoggedOnce'
         /\ \A o \in Orders, s \in Statuses : Logged(o, s)' <=> Logged(o, s)
<1>1. EventsFollowCommits'
  <2> SUFFICES ASSUME NEW o \in Orders, NEW i \in DOMAIN emitted[o]
               PROVE  orders'[o].status \in FromThere(Announces(emitted[o][i]))
    BY DEF EventsFollowCommits
  <2>1. emitted[o][i] \in EventNames
    BY DEF TypeOK
  <2>2. Reached(o, Announces(emitted[o][i])) /\ Announces(emitted[o][i]) \in Statuses
    BY <2>1, AnnouncesFacts DEF EventInv, EventsFollowCommits, Reached
  <2> QED
    BY <2>2, FromThereFacts DEF Forward, Reached
<1>2. EventsLoggedOnce'
  BY DEF EventInv, EventsLoggedOnce
<1>3. \A o \in Orders, s \in Statuses : Logged(o, s)' <=> Logged(o, s)
  BY DEF Logged
<1> QED
  BY <1>1, <1>2, <1>3

\* If nobody else has something to tell after it, it keeps the invariant.
LEMMA EventFrame ==
  ASSUME TypeOK, Forward, EventInv, emitted' = emitted,
         \A o \in Orders, s \in Statuses : RequestTells(o, s)' => RequestTells(o, s),
         \A p \in Procs, o \in Orders, s \in Statuses :
           WorkerTells(p, o, s)' => WorkerTells(p, o, s)
  PROVE  EventInv'
<1>1. TellersInv'
  BY LogKept DEF EventInv, TellersInv
<1> QED
  BY <1>1, LogKept DEF EventInv

\* A lawful statement that matches enters a status nobody logged or is about to.
LEMMA FreshStatus ==
  ASSUME TypeOK, ServiceInv, EventInv, NEW stmt \in StatementType, LawfulStatement(stmt),
         Matches(orders, stmt)
  PROVE  /\ stmt.id \in Orders /\ stmt.row.status \in Statuses
         /\ ~Logged(stmt.id, stmt.row.status)
         /\ ~RequestTells(stmt.id, stmt.row.status)
         /\ \A p \in Procs : ~WorkerTells(p, stmt.id, stmt.row.status)
<1>1. stmt.id \in Orders
  BY DEF StatementType
<1>2. stmt.row.status \in Statuses /\ stmt.expected \notin FromThere(stmt.row.status)
  BY MovesForward DEF LawfulStatement
<1>3. ~Reached(stmt.id, stmt.row.status)
  BY <1>2 DEF Matches, Reached
<1> QED
  BY <1>1, <1>2, <1>3, ToldIsReached DEF EventInv

\* Executing such a statement makes its caller the only one to tell.
LEMMA StoreStep ==
  ASSUME TypeOK, ServiceInv, EventInv, Forward, emitted' = emitted,
         NEW stmt \in StatementType, LawfulStatement(stmt), Matches(orders, stmt),
         \/ /\ \A o \in Orders, s \in Statuses : RequestTells(o, s)' =>
                 RequestTells(o, s) \/ (o = stmt.id /\ s = stmt.row.status)
            /\ \A p \in Procs, o \in Orders, s \in Statuses :
                 WorkerTells(p, o, s)' => WorkerTells(p, o, s)
         \/ /\ \A o \in Orders, s \in Statuses : RequestTells(o, s)' => RequestTells(o, s)
            /\ \E q \in Procs : \A p \in Procs, o \in Orders, s \in Statuses :
                 WorkerTells(p, o, s)' =>
                   WorkerTells(p, o, s) \/ (p = q /\ o = stmt.id /\ s = stmt.row.status)
  PROVE  EventInv'
<1>1. TellersInv'
  BY LogKept, FreshStatus DEF EventInv, TellersInv
<1> QED
  BY <1>1, LogKept DEF EventInv

\* Logging the event of a status that was stored and not logged, by the only one
\* who was about to, keeps the invariant.
LEMMA LogStep ==
  ASSUME TypeOK, EventInv, orders' = orders, NEW o \in Orders, NEW event \in EventNames,
         Reached(o, Announces(event)), ~Logged(o, Announces(event)),
         emitted' = [emitted EXCEPT ![o] = @ \o <<event>>],
         \A x \in Orders, s \in Statuses : RequestTells(x, s)' =>
           RequestTells(x, s) /\ ~(x = o /\ s = Announces(event)),
         \A p \in Procs, x \in Orders, s \in Statuses : WorkerTells(p, x, s)' =>
           WorkerTells(p, x, s) /\ ~(x = o /\ s = Announces(event))
  PROVE  EventInv'
<1> DEFINE log == emitted[o]
           longer == log \o <<event>>
<1>1. log \in Seq(EventNames) /\ \A x \in Orders : x # o => emitted'[x] = emitted[x]
  BY DEF TypeOK
<1>2. emitted'[o] = longer
  BY DEF TypeOK
<1>3. /\ DOMAIN longer = 1..(Len(log) + 1)
      /\ DOMAIN log = 1..Len(log) /\ Len(log) \in Nat
      /\ \A i \in DOMAIN log : longer[i] = log[i]
      /\ longer[Len(log) + 1] = event
  BY <1>1
<1> HIDE DEF log, longer
<1>4. \A i \in DOMAIN longer : \/ i \in DOMAIN log /\ longer[i] = log[i]
                               \/ i = Len(log) + 1 /\ longer[i] = event
  BY <1>3
<1>5. EventsFollowCommits'
  <2> SUFFICES ASSUME NEW x \in Orders, NEW i \in DOMAIN emitted'[x]
               PROVE  orders[x].status \in FromThere(Announces(emitted'[x][i]))
    BY DEF EventsFollowCommits
  <2>1. CASE x # o
    BY <1>1, <2>1 DEF EventInv, EventsFollowCommits
  <2>2. CASE x = o
    BY <1>2, <1>4, <2>2 DEF EventInv, EventsFollowCommits, Reached, log
  <2> QED
    BY <2>1, <2>2
<1>6. EventsLoggedOnce'
  <2> SUFFICES ASSUME NEW x \in Orders, NEW i \in DOMAIN emitted'[x], NEW j \in DOMAIN emitted'[x],
                      emitted'[x][i] = emitted'[x][j]
               PROVE  i = j
    BY DEF EventsLoggedOnce
  <2>1. CASE x # o
    BY <1>1, <2>1 DEF EventInv, EventsLoggedOnce
  <2>2. CASE x = o
    <3>1. \A k \in DOMAIN log : log[k] # event
      BY DEF Logged, log
    <3>2. \A k, l \in DOMAIN log : log[k] = log[l] => k = l
      BY DEF EventInv, EventsLoggedOnce, log
    <3> QED
      BY <1>2, <1>4, <2>2, <3>1, <3>2
  <2> QED
    BY <2>1, <2>2
<1>7. \A x \in Orders, s \in Statuses :
        Logged(x, s)' => Logged(x, s) \/ (x = o /\ s = Announces(event))
  <2> SUFFICES ASSUME NEW x \in Orders, NEW s \in Statuses, NEW i \in DOMAIN emitted'[x],
                      Announces(emitted'[x][i]) = s
               PROVE  Logged(x, s) \/ (x = o /\ s = Announces(event))
    BY DEF Logged
  <2>1. CASE x # o
    BY <1>1, <2>1 DEF Logged
  <2>2. CASE x = o
    BY <1>2, <1>4, <2>2 DEF Logged, log
  <2> QED
    BY <2>1, <2>2
<1>8. TellersInv'
  BY <1>7 DEF EventInv, TellersInv
<1> QED
  BY <1>5, <1>6, <1>8 DEF EventInv

\* Who tells what, after a step of one request.
LEMMA RequestTellers ==
  ASSUME NEW o \in Orders, \A x \in Orders \ {o} : req'[x] = req[x]
  PROVE  /\ \A x \in Orders \ {o}, s \in Statuses : RequestTells(x, s)' <=> RequestTells(x, s)
         /\ req'[o].pc \notin {"created", "emit"} =>
              \A s \in Statuses : ~RequestTells(o, s)'
BY DEF RequestTells

\* Who tells what, after a step of one worker.
LEMMA WorkerTellers ==
  ASSUME NEW p \in Procs, \A x \in Procs \ {p} : rec'[x] = rec[x]
  PROVE  /\ \A x \in Procs \ {p}, o \in Orders, s \in Statuses :
              WorkerTells(x, o, s)' <=> WorkerTells(x, o, s)
         /\ rec'[p].pc # "emit" =>
              \A o \in Orders, s \in Statuses : ~WorkerTells(p, o, s)'
BY DEF WorkerTells

\* A step of a request that stores and logs nothing leaves it with nothing new
\* to tell.
LEMMA SilentRequest ==
  ASSUME TypeOK, ServiceInv, TransitionInv, NEW o \in Orders, RequestStep(o),
         ~(SavePending(o) \/ SaveTransition(o)),
         ~(EmitCreated(o) \/ EmitPaid(o) \/ EmitAndReturn(o))
  PROVE  req'[o].pc \notin {"created", "emit"} /\ UNCHANGED <<emitted, rec>>
<1>1. UNCHANGED <<emitted, rec>>
  BY DEF RequestStep, RejectRequest, AcceptRequest, SavePendingFails, SubmitCharge,
         ChargeReturns, SaveTransitionConflict, SaveTransitionFails, Reload, ReloadFails,
         SubmitReservation, ReserveReturns
<1>2. ASSUME NEW q \in Requests, RejectRequest(o, q) PROVE req'[o].pc = "done"
  BY <1>2, Responded DEF RejectRequest
<1>3. ASSUME NEW p \in Procs, NEW q \in Requests, AcceptRequest(o, p, q)
      PROVE  req'[o].pc = "save"
  BY <1>3 DEF AcceptRequest, ReqBecomes, IdleReq, TypeOK
<1>4. ASSUME SavePendingFails(o) \/ SaveTransitionFails(o) \/ Reload(o) \/ ReloadFails(o)
      PROVE  req'[o].pc = "done"
  BY <1>4, Responded DEF SavePendingFails, SaveTransitionFails, Reload, ReloadFails
<1>5. ASSUME SubmitCharge(o) \/ SaveTransitionConflict(o) \/ SubmitReservation(o)
      PROVE  req'[o].pc \in {"charging", "reload", "reserving"}
  BY <1>5, Went DEF SubmitCharge, SaveTransitionConflict, SubmitReservation
<1>6. ASSUME ChargeReturns(o) PROVE req'[o].pc = "saving"
  <2>1. PICK answer \in ChargeAnswers(o) :
          BeginTransition(o, Branch(Charge(answer)), Charge(answer).ref)
    BY <1>6 DEF ChargeReturns
  <2>2. Charge(answer).ref \in Refs
    BY AnswerTypes
  <2> QED
    BY <1>6, <2>1, <2>2, ChargeBranches, BeginTransitionCarries DEF ChargeReturns
<1>7. ASSUME ReserveReturns(o) PROVE req'[o].pc = "saving"
  <2>1. PICK code \in ReserveAnswers(o) :
          BeginTransition(o, IF ReserveSucceeds(code) THEN "fulfilled" ELSE "unfulfilled", NoRef)
    BY <1>7 DEF ReserveReturns
  <2>2. NoRef \in Refs
    BY DEF Refs
  <2> QED
    BY <1>7, <2>1, <2>2, BeginTransitionCarries DEF ReserveReturns
<1> QED
  BY <1>1, <1>2, <1>3, <1>4, <1>5, <1>6, <1>7 DEF RequestStep

\* Every step of Execute keeps the invariant of the events.
LEMMA RequestEventStep ==
  ASSUME TypeOK, ServiceInv, TransitionInv, EventInv, Forward, NEW o \in Orders, RequestStep(o)
  PROVE  EventInv'
<1>1. RequestInv(o) /\ RequestCarries(o) /\ req[o] \in ReqType /\ req[o].next.status \in Statuses
  BY OrderFields DEF ServiceInv, RequestsInv, TransitionInv, TypeOK, ReqType
<1>2. \A x \in Orders \ {o} : req'[x] = req[x]
  BY RequestTouches
<1>3. ASSUME rec' = rec
      PROVE  \A p \in Procs, x \in Orders, s \in Statuses :
               WorkerTells(p, x, s)' <=> WorkerTells(p, x, s)
  BY <1>3 DEF WorkerTells
<1>4. CASE SavePending(o)
  <2> DEFINE stmt == ReqStatement(o)
  <2>1. /\ stmt \in StatementType /\ LawfulStatement(stmt) /\ Matches(orders, stmt)
        /\ stmt.id = o /\ stmt.row.status = "pending"
    BY <1>4, RequestStatementGood, RequestStatementLawful DEF SavePending
  <2>2. req'[o].pc = "created" /\ UNCHANGED <<emitted, rec>>
    BY <1>4, Went DEF SavePending
  <2>3. \A s \in Statuses : RequestTells(o, s)' => s = "pending"
    BY <2>2 DEF RequestTells
  <2> HIDE DEF stmt
  <2>4. \A x \in Orders, s \in Statuses : RequestTells(x, s)' =>
          RequestTells(x, s) \/ (x = stmt.id /\ s = stmt.row.status)
    BY <1>2, <2>1, <2>3, RequestTellers
  <2> QED
    BY <1>3, <2>1, <2>2, <2>4, StoreStep
<1>5. CASE SaveTransition(o)
  <2> DEFINE stmt == ReqStatement(o)
  <2>1. /\ stmt \in StatementType /\ LawfulStatement(stmt) /\ Matches(orders, stmt)
        /\ stmt.id = o /\ stmt.row = Row(req[o].next)
    BY <1>5, RequestStatementGood, RequestStatementLawful DEF SaveTransition
  <2>2. stmt.row.status = req[o].next.status
    BY <2>1 DEF Row
  <2>3. req'[o].pc = "emit" /\ req'[o].next = req[o].next /\ UNCHANGED <<emitted, rec>>
    BY <1>5, Went DEF SaveTransition
  <2>4. \A s \in Statuses : RequestTells(o, s)' => s = req[o].next.status
    BY <2>3 DEF RequestTells
  <2> HIDE DEF stmt
  <2>5. \A x \in Orders, s \in Statuses : RequestTells(x, s)' =>
          RequestTells(x, s) \/ (x = stmt.id /\ s = stmt.row.status)
    BY <1>2, <2>1, <2>2, <2>4, RequestTellers
  <2> QED
    BY <1>3, <2>1, <2>3, <2>5, StoreStep
<1>6. ASSUME NEW event \in EventNames, RequestTells(o, Announces(event)),
             emitted' = [emitted EXCEPT ![o] = @ \o <<event>>],
             req'[o].pc \notin {"created", "emit"}, UNCHANGED <<orders, rec>>
      PROVE  EventInv'
  <2>1. Announces(event) \in Statuses
    BY AnnouncesFacts
  <2>2. Reached(o, Announces(event))
    BY <1>6, <2>1, ToldIsReached DEF EventInv
  <2>3. ~Logged(o, Announces(event)) /\ \A p \in Procs : ~WorkerTells(p, o, Announces(event))
    BY <1>6, <2>1 DEF EventInv, TellersInv
  <2>4. \A x \in Orders, s \in Statuses : RequestTells(x, s)' =>
          RequestTells(x, s) /\ ~(x = o /\ s = Announces(event))
    BY <1>2, <1>6, RequestTellers
  <2>5. \A p \in Procs, x \in Orders, s \in Statuses : WorkerTells(p, x, s)' =>
          WorkerTells(p, x, s) /\ ~(x = o /\ s = Announces(event))
    BY <1>3, <1>6, <2>3
  <2> QED
    BY <1>6, <2>2, <2>3, <2>4, <2>5, LogStep
<1>7. CASE EmitCreated(o)
  <2>1. req[o].order.events = <<"order.created">>
    <3>1. req[o].order = NewOrder
      BY <1>1, <1>7 DEF EmitCreated, RequestInv
    <3>2. Append(<< >>, "order.created") = <<"order.created">>
      OBVIOUS
    <3> QED
      BY <3>1, <3>2 DEF NewOrder, record
  <2>2. emitted' = [emitted EXCEPT ![o] = @ \o <<"order.created">>]
    BY <1>7, <2>1 DEF EmitCreated, emitDomainEvents
  <2>3. "order.created" \in EventNames /\ RequestTells(o, Announces("order.created"))
    BY <1>7 DEF EventNames, Announces, RequestTells, EmitCreated
  <2>4. req'[o] = [req[o] EXCEPT !.pc = "charge", !.order = PullEvents(@)]
    BY <1>7 DEF EmitCreated, ReqBecomes, TypeOK
  <2>5. req'[o].pc = "charge"
    BY <1>1, <2>4 DEF ReqType
  <2> QED
    BY <1>6, <1>7, <2>2, <2>3, <2>5 DEF EmitCreated
<1>8. CASE EmitPaid(o) \/ EmitAndReturn(o)
  <2>1. req[o].pc = "emit" /\ emitDomainEvents(o, req[o].next) /\ UNCHANGED <<orders, rec>>
    BY <1>8 DEF EmitPaid, EmitAndReturn
  <2>2. PICK event \in EventNames :
          req[o].next.events = <<event>> /\ Announces(event) = req[o].next.status
    BY <1>1, <2>1 DEF RequestCarries, AnnouncesItself
  <2>3. emitted' = [emitted EXCEPT ![o] = @ \o <<event>>] /\ RequestTells(o, Announces(event))
    BY <2>1, <2>2 DEF emitDomainEvents, RequestTells
  <2>4. req'[o].pc \in {"reserve", "done"}
    <3>1. CASE EmitPaid(o)
      <4>1. req'[o] = [req[o] EXCEPT !.pc = "reserve", !.branch = "none",
                                     !.order = PullEvents(req[o].next), !.next = NoOrder]
        BY <3>1 DEF EmitPaid, ReqBecomes, TypeOK
      <4> QED
        BY <1>1, <4>1 DEF ReqType
    <3>2. CASE EmitAndReturn(o)
      BY <3>2, Responded DEF EmitAndReturn
    <3> QED
      BY <1>8, <3>1, <3>2
  <2> QED
    BY <1>6, <2>1, <2>3, <2>4
<1>9. CASE /\ ~(SavePending(o) \/ SaveTransition(o))
           /\ ~(EmitCreated(o) \/ EmitPaid(o) \/ EmitAndReturn(o))
  <2>1. req'[o].pc \notin {"created", "emit"} /\ UNCHANGED <<emitted, rec>>
    BY <1>9, SilentRequest
  <2>2. \A x \in Orders, s \in Statuses : RequestTells(x, s)' => RequestTells(x, s)
    BY <1>2, <2>1, RequestTellers
  <2> QED
    BY <1>3, <2>1, <2>2, EventFrame
<1> QED
  BY <1>4, <1>5, <1>7, <1>8, <1>9

\* A step of a worker that stores and logs nothing leaves it with nothing to tell.
LEMMA SilentWorker ==
  ASSUME TypeOK, NEW p \in Procs, RecoverStep(p), ~RecoverySaves(p), ~RecoveryEmits(p)
  PROVE  rec'[p].pc # "emit"
<1>1. rec[p] \in RecType
  BY DEF TypeOK
<1>2. CASE RunOnce(p) \/ ListPage(p) \/ ListFirstPage(p) \/ ListFails(p) \/ EndBatch(p)
  BY <1>2, PagingStep
<1>3. ASSUME NEW o \in Orders, NextOrder(p, o) PROVE rec'[p].pc # "emit"
  <2>1. rec'[p] = [rec[p] EXCEPT !.pc = "find", !.afterID = o, !.cur = o, !.ids = @ \ {o}]
    BY <1>3 DEF NextOrder, RecBecomes, TypeOK
  <2> QED
    BY <1>1, <2>1 DEF RecType
<1>4. ASSUME LeaveOrder(p) PROVE rec'[p].pc # "emit"
  BY <1>4, LeaveOrderInv
<1>5. ASSUME NEW order, RecTransition(p, order) PROVE rec'[p].pc # "emit"
  <2>1. rec'[p] = [rec[p] EXCEPT !.pc = "saving", !.order = order,
                                 !.expected = rec[p].order.status]
    BY <1>5 DEF RecTransition, RecBecomes, TypeOK
  <2> QED
    BY <1>1, <2>1 DEF RecType
<1>6. CASE FindOrder(p)
  <2> DEFINE order == FindByID(orders, rec[p].cur)
             step == RecoveryStep(order.status)
  <2>1. CASE step = "next"
    BY <1>4, <1>6, <2>1 DEF FindOrder
  <2>2. CASE step # "next"
    <3>1. rec'[p] = [rec[p] EXCEPT !.pc = step, !.order = order]
      BY <1>6, <2>2 DEF FindOrder, RecBecomes, TypeOK
    <3>2. step # "emit"
      BY DEF RecoveryStep
    <3> HIDE DEF step, order
    <3> QED
      BY <1>1, <3>1, <3>2 DEF RecType
  <2> QED
    BY <2>1, <2>2
<1>7. CASE \/ FindFails(p) \/ LookupLeavesOpen(p) \/ RecoveryLosesRace(p) \/ RecoverySaveFails(p)
           \/ LookupSettles(p) \/ ReservationHeld(p) \/ ReservationFails(p)
  BY <1>4, <1>5, <1>7
  DEF FindFails, LookupLeavesOpen, RecoveryLosesRace, RecoverySaveFails, LookupSettles,
      ReservationHeld, ReservationFails
<1>8. CASE RecoveryReserves(p)
  <2>1. rec'[p] = [rec[p] EXCEPT !.pc = "reserving"]
    BY <1>8 DEF RecoveryReserves, RecGoto, RecBecomes, TypeOK
  <2> QED
    BY <1>1, <2>1 DEF RecType
<1> QED
  BY <1>2, <1>3, <1>6, <1>7, <1>8 DEF RecoverStep

\* Every step of the recovery worker keeps the invariant of the events.
LEMMA RecoverEventStep ==
  ASSUME TypeOK, ServiceInv, TransitionInv, EventInv, Forward, NEW p \in Procs, RecoverStep(p)
  PROVE  EventInv'
<1> DEFINE w == rec[p]
<1>1. /\ WorkerInv(p) /\ WorkerCarries(p) /\ w \in RecType
      /\ w.order.status \in Statuses
  BY OrderFields DEF ServiceInv, WorkersInv, TransitionInv, TypeOK, RecType
<1>2. /\ req' = req
      /\ \A x \in Procs \ {p} : rec'[x] = rec[x]
  BY RecoverTouches
<1>3. \A x \in Orders, s \in Statuses : RequestTells(x, s)' <=> RequestTells(x, s)
  BY <1>2 DEF RequestTells
<1>4. CASE RecoverySaves(p)
  <2> DEFINE stmt == RecStatement(p)
  <2>1. /\ stmt \in StatementType /\ LawfulStatement(stmt) /\ Matches(orders, stmt)
    BY <1>1, <1>4, StatementTypes DEF WorkerInv, WorkerCarries, RecoverySaves
  <2>2. stmt.id = w.cur /\ stmt.row.status = w.order.status
    BY DEF RecStatement, SaveIfStatus, Row
  <2>3. rec'[p] = [rec[p] EXCEPT !.pc = "emit"] /\ emitted' = emitted
    BY <1>4 DEF RecoverySaves, RecGoto, RecBecomes, TypeOK
  <2>4. rec'[p].cur = w.cur /\ rec'[p].order = w.order
    BY <1>1, <2>3 DEF RecType
  <2>5. \A o \in Orders, s \in Statuses :
          WorkerTells(p, o, s)' => o = stmt.id /\ s = stmt.row.status
    BY <2>2, <2>4 DEF WorkerTells
  <2> HIDE DEF stmt
  <2>6. \A x \in Procs, o \in Orders, s \in Statuses :
          WorkerTells(x, o, s)' =>
            WorkerTells(x, o, s) \/ (x = p /\ o = stmt.id /\ s = stmt.row.status)
    BY <1>2, <2>5, WorkerTellers
  <2> QED
    BY <1>3, <2>1, <2>3, <2>6, StoreStep
<1>5. CASE RecoveryEmits(p)
  <2>1. w.pc = "emit" /\ emitDomainEvents(w.cur, w.order) /\ orders' = orders /\ w.cur \in Orders
    BY <1>1, <1>5 DEF RecoveryEmits, WorkerInv
  <2>2. PICK event \in EventNames :
          w.order.events = <<event>> /\ Announces(event) = w.order.status
    BY <1>1, <2>1 DEF WorkerCarries, AnnouncesItself
  <2>3. /\ emitted' = [emitted EXCEPT ![w.cur] = @ \o <<event>>]
        /\ WorkerTells(p, w.cur, Announces(event)) /\ Announces(event) \in Statuses
    BY <1>1, <2>1, <2>2 DEF emitDomainEvents, WorkerTells
  <2>4. rec'[p].pc # "emit"
    <3>1. CASE w.order.status # "paid"
      BY <1>5, <3>1, LeaveOrderInv DEF RecoveryEmits
    <3>2. CASE w.order.status = "paid"
      <4>1. rec'[p] = [rec[p] EXCEPT !.pc = "reserve", !.order = PullEvents(@),
                                     !.expected = "pending"]
        BY <1>5, <3>2 DEF RecoveryEmits, RecBecomes, TypeOK
      <4> QED
        BY <1>1, <4>1 DEF RecType
    <3> QED
      BY <3>1, <3>2
  <2>5. Reached(w.cur, Announces(event))
    BY <2>1, <2>3, ToldIsReached DEF EventInv
  <2>6. /\ ~Logged(w.cur, Announces(event)) /\ ~RequestTells(w.cur, Announces(event))
        /\ \A x \in Procs : WorkerTells(x, w.cur, Announces(event)) => x = p
    BY <2>1, <2>3 DEF EventInv, TellersInv
  <2>7. \A x \in Procs, o \in Orders, s \in Statuses : WorkerTells(x, o, s)' =>
          WorkerTells(x, o, s) /\ ~(o = w.cur /\ s = Announces(event))
    BY <1>2, <2>4, <2>6, WorkerTellers
  <2>8. \A x \in Orders, s \in Statuses : RequestTells(x, s)' =>
          RequestTells(x, s) /\ ~(x = w.cur /\ s = Announces(event))
    BY <1>3, <2>6
  <2> QED
    BY <2>1, <2>3, <2>5, <2>6, <2>7, <2>8, LogStep
<1>6. CASE ~RecoverySaves(p) /\ ~RecoveryEmits(p)
  <2>1. rec'[p].pc # "emit" /\ emitted' = emitted
    BY <1>6, SilentWorker, RecoverTouches
  <2>2. \A x \in Procs, o \in Orders, s \in Statuses :
          WorkerTells(x, o, s)' => WorkerTells(x, o, s)
    BY <1>2, <2>1, WorkerTellers
  <2> QED
    BY <1>3, <2>1, <2>2, EventFrame
<1> QED
  BY <1>4, <1>5, <1>6

\* Every step of the service keeps the invariant of the events.
LEMMA StepEvents ==
  ASSUME TypeOK, ServiceInv, TransitionInv, EventInv, [Next]_vars
  PROVE  EventInv'
<1>1. Forward
  BY StepForward
<1>2. ASSUME emitted' = emitted,
             \A x \in Orders : req'[x] = req[x] \/ req'[x].pc = "done",
             \A x \in Procs : rec'[x] = rec[x] \/ rec'[x].pc = "idle"
      PROVE  EventInv'
  <2>1. \A o \in Orders, s \in Statuses : RequestTells(o, s)' => RequestTells(o, s)
    BY <1>2 DEF RequestTells
  <2>2. \A p \in Procs, o \in Orders, s \in Statuses :
          WorkerTells(p, o, s)' => WorkerTells(p, o, s)
    BY <1>2 DEF WorkerTells
  <2> QED
    BY <1>1, <1>2, <2>1, <2>2, EventFrame
<1>3. ASSUME \/ \E o \in Orders : ProviderDecides(o) \/ InventoryReserves(o) \/ OrderAges(o)
             \/ \E stmt \in late : LateStatement(stmt)
             \/ UNCHANGED vars
      PROVE  UNCHANGED <<emitted, req, rec>>
  BY <1>3 DEF ProviderDecides, InventoryReserves, OrderAges, LateStatement, vars
<1>4. ASSUME NEW p \in Procs, Crash(p)
      PROVE  /\ emitted' = emitted
             /\ \A x \in Orders : req'[x] = req[x] \/ req'[x].pc = "done"
             /\ \A x \in Procs : rec'[x] = rec[x] \/ rec'[x].pc = "idle"
  BY <1>4 DEF Crash, DoneReq, IdleReq, IdleRec, TypeOK
<1> QED
  BY <1>1, <1>2, <1>3, <1>4, RequestEventStep, RecoverEventStep DEF Next

\* Nothing is logged or about to be initially.
LEMMA InitEvents == Init => EventInv
<1> SUFFICES ASSUME Init PROVE EventInv
  OBVIOUS
<1>1. \A o \in Orders : DOMAIN emitted[o] = {}
  BY DEF Init
<1>2. EventsFollowCommits /\ EventsLoggedOnce
  BY <1>1 DEF EventsFollowCommits, EventsLoggedOnce
<1>3. TellersInv
  BY DEF Init, TellersInv, RequestTells, WorkerTells, IdleReq, IdleRec
<1> QED
  BY <1>2, <1>3 DEF EventInv

----
\* emitDomainEvents is called "after persistence succeeds": for every number of
\* workers, crashes, abandoned and late statements, an event is logged only once
\* the row is at the status it announces or beyond, and at most once, by Execute
\* or by one of the recovery workers.
THEOREM EventsAreTrue ==
  ASSUME ProviderContract
  PROVE  Spec => [](EventsFollowCommits /\ EventsLoggedOnce)
<1> DEFINE Inv == TypeOK /\ ServiceInv /\ TransitionInv
<1>1. Spec => []Inv
  BY TransitionInvariant
<1>2. Inv /\ EventInv /\ [Next]_vars => EventInv'
  BY StepEvents
<1>3. EventInv => EventsFollowCommits /\ EventsLoggedOnce
  BY DEF EventInv
<1> QED
  BY <1>1, <1>2, <1>3, InitEvents, PTL DEF Spec
====
