---- MODULE OrderServiceProofs ----
(***************************************************************************)
(* Proofs that the order service keeps its promises for every set of orders  *)
(* and processes, every page size and every number of crashes and abandoned  *)
(* statements.  First that every step keeps the types; then that every step  *)
(* moves the table forward and keeps ServiceInv, actor by actor; then the    *)
(* theorems, which follow from the invariant.                                *)
(***************************************************************************)
EXTENDS OrderService, TLAPS

\* The transitions of the aggregate, PullEvents included, produce orders.
LEMMA TransitionTypes ==
  /\ NewOrder \in OrderType
  /\ NoOrder \in OrderType
  /\ \A order \in OrderType :
       /\ MarkFailed(order) \in OrderType
       /\ MarkPaymentUnknown(order) \in OrderType
       /\ MarkFulfillmentPending(order) \in OrderType
       /\ Complete(order) \in OrderType
       /\ PullEvents(order) \in OrderType
       /\ \A ref \in Refs : MarkPaid(order, ref) \in OrderType
<1>1. \A order \in OrderType, event \in EventNames : record(order, event) \in OrderType
  BY DEF record, OrderType
<1>2. NoOrder \in OrderType
  BY DEF NoOrder, OrderType, Statuses, Refs
<1>3. NewOrder \in OrderType
  BY <1>1, <1>2 DEF NewOrder, NoOrder, EventNames
<1>4. ASSUME NEW order \in OrderType, NEW status \in Statuses, NEW ref \in Refs
      PROVE  /\ [order EXCEPT !.status = status] \in OrderType
             /\ [order EXCEPT !.status = status, !.ref = ref] \in OrderType
             /\ [order EXCEPT !.events = << >>] \in OrderType
  <2>1. [order EXCEPT !.status = status] \in OrderType
    BY DEF OrderType
  <2>2. [order EXCEPT !.status = status, !.ref = ref] \in OrderType
    BY DEF OrderType
  <2>3. [order EXCEPT !.events = << >>] \in OrderType
    <3>1. << >> \in Seq(EventNames)
      OBVIOUS
    <3>2. \A events \in Seq(EventNames) : [order EXCEPT !.events = events] \in OrderType
      BY DEF OrderType
    <3> QED
      BY <3>1, <3>2
  <2> QED
    BY <2>1, <2>2, <2>3
<1> QED
  BY <1>1, <1>2, <1>3, <1>4
  DEF MarkFailed, MarkPaymentUnknown, MarkFulfillmentPending, Complete, PullEvents,
      MarkPaid, Statuses, EventNames, Refs, NoRef

\* An order is written as a row, and a row is read as an order.
LEMMA RowTypes ==
  \A order \in OrderType : Row(order) \in RowType
BY DEF Row, RowType, OrderType, Refs, nullableString, NULL, NoRef, ChargeRef

\* Executing a statement leaves a table.
LEMMA ApplyType ==
  ASSUME NEW table \in [Orders -> RowType], NEW stmt \in StatementType
  PROVE  Apply(table, stmt) \in [Orders -> RowType]
BY DEF Apply, StatementType

\* Every answer of the provider becomes a branch of Execute and a reference.
LEMMA AnswerTypes ==
  ASSUME NEW o \in Orders, TypeOK, NEW answer \in ChargeAnswers(o) \cup LookupAnswers(o)
  PROVE  /\ Charge(answer).ref \in Refs
         /\ Branch(Charge(answer)) \in Branches \ {"none"}
<1>1. decodeChargeResponse(answer.body).ref \in Refs
  BY DEF decodeChargeResponse, RawResult, Failed, Refs
<1>2. Charge(answer).ref \in Refs
  BY <1>1 DEF Charge, Failed, Refs
<1>3. Branch(Charge(answer)) \in Branches \ {"none"}
  BY DEF Branch, Branches
<1> QED
  BY <1>2, <1>3

\* The fields of an order have their types.
LEMMA OrderFields ==
  \A order \in OrderType :
    order.status \in Statuses /\ order.ref \in Refs /\ order.events \in Seq(EventNames)
BY DEF OrderType

\* What a request or a worker hands to the database is a statement.
LEMMA StatementTypes ==
  ASSUME TypeOK
  PROVE  /\ \A o \in Orders : ReqStatement(o) \in StatementType
         /\ \A p \in Procs : rec[p].cur \in Orders => RecStatement(p) \in StatementType
<1>1. ASSUME NEW o \in Orders PROVE ReqStatement(o) \in StatementType
  <2>1. req[o].order \in OrderType /\ req[o].next \in OrderType
    BY DEF TypeOK, ReqType
  <2> QED
    BY <2>1, RowTypes, OrderFields DEF ReqStatement, Save, SaveIfStatus, StatementType
<1>2. ASSUME NEW p \in Procs, rec[p].cur \in Orders PROVE RecStatement(p) \in StatementType
  <2>1. rec[p].order \in OrderType /\ rec[p].expected \in Statuses
    BY DEF TypeOK, RecType
  <2> QED
    BY <1>2, <2>1, RowTypes DEF RecStatement, SaveIfStatus, StatementType
<1> QED
  BY <1>1, <1>2

\* Respond keeps the types of req and resp.
LEMMA RespondType ==
  ASSUME TypeOK, NEW o \in Orders, NEW status \in Statuses \cup {"absent"},
         NEW errs \in SUBSET Errors, Respond(o, status, errs)
  PROVE  req' \in [Orders -> ReqType] /\ resp' \in [Orders -> ResponseType]
<1>1. DoneReq \in ReqType
  BY TransitionTypes DEF DoneReq, IdleReq, ReqType, Branches
<1>2. [given |-> TRUE, status |-> status, errs |-> errs] \in ResponseType
  BY DEF ResponseType
<1> QED
  BY <1>1, <1>2 DEF Respond, ReqBecomes, TypeOK

\* Goto keeps the types of req and resp.
LEMMA GotoType ==
  ASSUME TypeOK, NEW o \in Orders,
         NEW pc \in {"created", "charging", "reload", "emit", "reserving"}, Goto(o, pc)
  PROVE  req' \in [Orders -> ReqType] /\ resp' \in [Orders -> ResponseType]
BY DEF Goto, ReqBecomes, TypeOK, ReqType

\* emitDomainEvents keeps the type of the log.
LEMMA EmitType ==
  ASSUME TypeOK, NEW o \in Orders, NEW order \in OrderType, emitDomainEvents(o, order)
  PROVE  emitted' \in [Orders -> Seq(EventNames)]
<1>1. emitted[o] \o order.events \in Seq(EventNames)
  BY OrderFields DEF TypeOK
<1> QED
  BY <1>1 DEF emitDomainEvents, TypeOK

\* BeginTransition keeps the types of req and resp.
LEMMA BeginTransitionType ==
  ASSUME TypeOK, NEW o \in Orders, NEW branch \in Branches \ {"none"}, NEW ref \in Refs,
         BeginTransition(o, branch, ref)
  PROVE  req' \in [Orders -> ReqType] /\ resp' \in [Orders -> ResponseType]
<1>1. req[o].order \in OrderType
  BY DEF TypeOK, ReqType
<1>2. Transition(req[o].order, branch, ref) \in OrderType
  BY <1>1, TransitionTypes DEF Transition, Branches
<1>3. CASE Allowed(req[o].order, branch)
  <2> DEFINE next == Transition(req[o].order, branch, ref)
             r == [req[o] EXCEPT !.pc = "saving", !.branch = branch, !.next = next]
  <2>1. \A n \in OrderType :
          [req[o] EXCEPT !.pc = "saving", !.branch = branch, !.next = n] \in ReqType
    BY DEF TypeOK, ReqType
  <2>2. r \in ReqType
    BY <1>2, <2>1
  <2>3. req' = [req EXCEPT ![o] = r] /\ resp' = resp
    BY <1>3 DEF BeginTransition, ReqBecomes
  <2> QED
    BY <2>2, <2>3 DEF TypeOK
<1>4. CASE ~Allowed(req[o].order, branch)
  <2>1. {"ErrOrderNotPaid"} \in SUBSET Errors /\ {"ErrOrderNotPending"} \in SUBSET Errors
    BY DEF Errors
  <2>2. req[o].order.status \in Statuses
    BY <1>1, OrderFields
  <2>3. \/ Respond(o, req[o].order.status, {"ErrOrderNotPaid"})
        \/ Respond(o, "absent", {"ErrOrderNotPending"})
    BY <1>4 DEF BeginTransition
  <2> QED
    BY <2>1, <2>2, <2>3, RespondType
<1> QED
  BY <1>3, <1>4

\* The error sets of Execute are sets of errors.
LEMMA ErrorTypes ==
  /\ \A q \in Requests : RequestErrors(q) \in SUBSET Errors
  /\ \A branch : /\ StoredErrors(branch) \in SUBSET Errors
                  /\ ConflictErrors(branch) \in SUBSET Errors
  /\ \A branch \in Branches \ {"none"} : SaveErrors(branch) \in SUBSET Errors
  /\ {"ErrUnclassified"} \in SUBSET Errors
BY DEF RequestErrors, NewOrderErrors, StoredErrors, ConflictErrors, SaveErrors, Errors,
       ValidationErrors, Branches

\* Every step of Execute keeps TypeOK.
LEMMA RequestTypeStep ==
  ASSUME TypeOK, RequestsInv, NEW o \in Orders, RequestStep(o)
  PROVE  TypeOK'
<1>1. req[o] \in ReqType /\ req[o].order \in OrderType /\ req[o].next \in OrderType
  BY DEF TypeOK, ReqType
<1>2. ReqStatement(o) \in StatementType
  BY StatementTypes
<1>3. ASSUME NEW q \in Requests, RejectRequest(o, q) PROVE TypeOK'
  BY <1>3, ErrorTypes, RespondType DEF RejectRequest, TypeOK, external
<1>4. ASSUME NEW p \in Procs, NEW q \in Requests, AcceptRequest(o, p, q) PROVE TypeOK'
  <2>1. [IdleReq EXCEPT !.pc = "save", !.proc = p, !.order = NewOrder] \in ReqType
    BY TransitionTypes DEF IdleReq, ReqType, Branches
  <2> QED
    BY <1>4, <2>1 DEF AcceptRequest, ReqBecomes, TypeOK, external
<1>5. CASE SavePending(o)
  BY <1>2, <1>5, ApplyType, GotoType DEF SavePending, Executes, TypeOK, external
<1>6. CASE SavePendingFails(o)
  BY <1>2, <1>6, ErrorTypes, RespondType
  DEF SavePendingFails, GivesUpOn, Abandons, TypeOK, external
<1>7. CASE EmitCreated(o)
  <2>1. [req[o] EXCEPT !.pc = "charge", !.order = PullEvents(@)] \in ReqType
    BY <1>1, TransitionTypes DEF ReqType
  <2> QED
    BY <1>1, <1>7, <2>1, EmitType DEF EmitCreated, ReqBecomes, TypeOK, external
<1>8. CASE SubmitCharge(o)
  BY <1>8, GotoType DEF SubmitCharge, TypeOK
<1>9. CASE ChargeReturns(o)
  BY <1>9, AnswerTypes, BeginTransitionType DEF ChargeReturns, TypeOK, external
<1>10. CASE SaveTransition(o)
  BY <1>2, <1>10, ApplyType, GotoType DEF SaveTransition, Executes, TypeOK, external
<1>11. CASE SaveTransitionConflict(o)
  BY <1>11, GotoType DEF SaveTransitionConflict, TypeOK, external
<1>12. CASE SaveTransitionFails(o)
  <2>1. req[o].branch \in Branches \ {"none"}
    BY <1>1, <1>12 DEF SaveTransitionFails, RequestsInv, RequestInv, ReqType
  <2> QED
    BY <1>1, <1>2, <1>12, <2>1, ErrorTypes, OrderFields, RespondType
    DEF SaveTransitionFails, GivesUpOn, Abandons, TypeOK, external
<1>13. CASE Reload(o)
  <2>1. FindByID(orders, o).status \in Statuses \cup {"absent"}
    BY DEF FindByID, TypeOK, RowType
  <2> QED
    BY <1>13, <2>1, ErrorTypes, RespondType DEF Reload, TypeOK, external
<1>14. CASE ReloadFails(o)
  BY <1>1, <1>14, ErrorTypes, OrderFields, RespondType DEF ReloadFails, TypeOK, external
<1>15. CASE EmitPaid(o)
  <2>1. [req[o] EXCEPT !.pc = "reserve", !.branch = "none",
                       !.order = PullEvents(req[o].next), !.next = NoOrder] \in ReqType
    BY <1>1, TransitionTypes DEF ReqType, Branches
  <2> QED
    BY <1>1, <1>15, <2>1, EmitType DEF EmitPaid, ReqBecomes, TypeOK, external
<1>16. CASE EmitAndReturn(o)
  BY <1>1, <1>16, EmitType, ErrorTypes, OrderFields, RespondType
  DEF EmitAndReturn, TypeOK, external
<1>17. CASE SubmitReservation(o)
  BY <1>17, GotoType DEF SubmitReservation, SendReservation, TypeOK
<1>18. CASE ReserveReturns(o)
  <2>1. "fulfilled" \in Branches \ {"none"} /\ "unfulfilled" \in Branches \ {"none"}
        /\ NoRef \in Refs
    BY DEF Branches, Refs
  <2> QED
    BY <1>18, <2>1, BeginTransitionType DEF ReserveReturns, TypeOK, external
<1> QED
  BY <1>3, <1>4, <1>5, <1>6, <1>7, <1>8, <1>9, <1>10, <1>11, <1>12, <1>13, <1>14, <1>15,
     <1>16, <1>17, <1>18
  DEF RequestStep

\* LeaveOrder keeps the type of the workers.
LEMMA LeaveOrderType ==
  ASSUME TypeOK, NEW p \in Procs, LeaveOrder(p)
  PROVE  rec' \in [Procs -> RecType]
<1>1. [rec[p] EXCEPT !.pc = "next", !.cur = 0, !.order = NoOrder, !.expected = "pending"]
        \in RecType
  BY TransitionTypes DEF TypeOK, RecType, Statuses
<1> QED
  BY <1>1 DEF LeaveOrder, RecBecomes, TypeOK

\* RecTransition keeps the type of the workers.
LEMMA RecTransitionType ==
  ASSUME TypeOK, NEW p \in Procs, NEW order \in OrderType, RecTransition(p, order)
  PROVE  rec' \in [Procs -> RecType]
<1>1. rec[p].order.status \in Statuses
  BY OrderFields DEF TypeOK, RecType
<1>2. \A status \in Statuses :
        [rec[p] EXCEPT !.pc = "saving", !.order = order, !.expected = status] \in RecType
  BY DEF TypeOK, RecType
<1> QED
  BY <1>1, <1>2 DEF RecTransition, RecBecomes, TypeOK

\* ListRecoverableIDs returns IDs the cutoff admits.
LEMMA PageType ==
  ASSUME NEW table, NEW after, NEW cutoff \in SUBSET Orders, NEW limit
  PROVE  ListRecoverableIDs(table, after, cutoff, limit) \in SUBSET Orders
BY DEF ListRecoverableIDs

\* Every step of the recovery worker keeps TypeOK.
LEMMA RecoverTypeStep ==
  ASSUME TypeOK, WorkersInv, NEW p \in Procs, RecoverStep(p)
  PROVE  TypeOK'
<1> DEFINE w == rec[p]
<1>1. w \in RecType /\ w.order \in OrderType /\ w.cutoff \in SUBSET Orders
  BY DEF TypeOK, RecType
<1>2. CASE RunOnce(p)
  <2>1. [rec[p] EXCEPT !.pc = "list", !.cutoff = old] \in RecType
    BY <1>1 DEF RecType, TypeOK
  <2> QED
    BY <1>2, <2>1 DEF RunOnce, RecBecomes, TypeOK, external
<1>3. CASE ListPage(p)
  <2> DEFINE page == ListRecoverableIDs(orders, w.afterID, w.cutoff, BatchSize)
  <2>1. page \in SUBSET Orders
    BY <1>1, PageType
  <2> HIDE DEF page
  <2>2. /\ [rec[p] EXCEPT !.pc = "relist", !.afterID = 0] \in RecType
        /\ [rec[p] EXCEPT !.pc = "next", !.ids = page, !.cutoff = {}] \in RecType
    BY <1>1, <2>1 DEF RecType
  <2>3. RecBecomes(p, IF page = {} /\ rec[p].afterID # 0
                      THEN [rec[p] EXCEPT !.pc = "relist", !.afterID = 0]
                      ELSE [rec[p] EXCEPT !.pc = "next", !.ids = page, !.cutoff = {}])
    BY <1>3 DEF ListPage, page
  <2> QED
    BY <1>3, <2>2, <2>3 DEF ListPage, RecBecomes, TypeOK, external
<1>4. CASE ListFirstPage(p)
  <2>1. \A ids \in SUBSET Orders :
          [rec[p] EXCEPT !.pc = "next", !.cutoff = {}, !.ids = ids] \in RecType
    BY <1>1 DEF RecType
  <2> QED
    BY <1>1, <1>4, <2>1, PageType DEF ListFirstPage, RecBecomes, TypeOK, external
<1>5. CASE ListFails(p)
  <2>1. [rec[p] EXCEPT !.pc = "idle", !.cutoff = {}] \in RecType
    BY <1>1 DEF RecType
  <2> QED
    BY <1>5, <2>1 DEF ListFails, RecBecomes, TypeOK, external
<1>6. ASSUME NEW o \in Orders, NextOrder(p, o) PROVE TypeOK'
  <2>1. [rec[p] EXCEPT !.pc = "find", !.afterID = o, !.cur = o, !.ids = @ \ {o}] \in RecType
    BY <1>1 DEF RecType
  <2> QED
    BY <1>6, <2>1 DEF NextOrder, RecBecomes, TypeOK, external
<1>7. CASE EndBatch(p)
  <2>1. [rec[p] EXCEPT !.pc = "idle"] \in RecType
    BY <1>1 DEF RecType
  <2> QED
    BY <1>7, <2>1 DEF EndBatch, RecGoto, RecBecomes, TypeOK, external
<1>8. CASE FindOrder(p)
  <2> DEFINE order == FindByID(orders, w.cur)
  <2>1. CASE RecoveryStep(order.status) = "next"
    BY <1>8, <2>1, LeaveOrderType DEF FindOrder, TypeOK, external
  <2>2. CASE RecoveryStep(order.status) # "next"
    <3>1. w.cur \in Orders
      BY <1>8 DEF FindOrder, WorkersInv, WorkerInv
    <3>2. order.status \in Statuses /\ RecoveryStep(order.status) \in {"lookup", "reserve"}
      BY <2>2 DEF RecoveryStep, Statuses
    <3>3. order \in OrderType
      <4>1. order.ref \in Refs /\ << >> \in Seq(EventNames)
        BY <3>1 DEF FindByID, TypeOK, RowType, Refs
      <4> QED
        BY <3>2, <4>1 DEF FindByID, OrderType
    <3>4. \A pc \in {"lookup", "reserve"}, x \in OrderType :
            [rec[p] EXCEPT !.pc = pc, !.order = x] \in RecType
      BY <1>1 DEF RecType
    <3>5. [rec[p] EXCEPT !.pc = RecoveryStep(order.status), !.order = order] \in RecType
      BY <3>2, <3>3, <3>4
    <3>6. RecBecomes(p, [rec[p] EXCEPT !.pc = RecoveryStep(order.status), !.order = order])
      BY <1>8, <2>2 DEF FindOrder
    <3> QED
      BY <1>8, <3>5, <3>6 DEF FindOrder, RecBecomes, TypeOK, external
  <2> QED
    BY <2>1, <2>2
<1>9. CASE FindFails(p)
  BY <1>9, LeaveOrderType DEF FindFails, TypeOK, external
<1>10. CASE LookupSettles(p)
  <2>1. w.cur \in Orders
    BY <1>10 DEF LookupSettles, WorkersInv, WorkerInv
  <2>2. PICK answer \in LookupAnswers(w.cur) :
          RecTransition(p, Settled(w.order, LookupCharge(answer).result))
    BY <1>10 DEF LookupSettles
  <2>3. LookupCharge(answer).result.ref \in Refs
    BY <2>1, AnswerTypes DEF LookupCharge, Failed, Refs
  <2>4. Settled(w.order, LookupCharge(answer).result) \in OrderType
    BY <1>1, <2>3, TransitionTypes DEF Settled
  <2> QED
    BY <1>10, <2>2, <2>4, RecTransitionType DEF LookupSettles, TypeOK, external
<1>11. CASE LookupLeavesOpen(p)
  BY <1>11, LeaveOrderType DEF LookupLeavesOpen, TypeOK, external
<1>12. CASE RecoverySaves(p)
  <2>1. RecStatement(p) \in StatementType
    BY <1>12, StatementTypes DEF RecoverySaves, WorkersInv, WorkerInv
  <2>2. [rec[p] EXCEPT !.pc = "emit"] \in RecType
    BY <1>1 DEF RecType
  <2> QED
    BY <1>12, <2>1, <2>2, ApplyType
    DEF RecoverySaves, RecGoto, RecBecomes, Executes, TypeOK, external
<1>13. CASE RecoveryLosesRace(p)
  BY <1>13, LeaveOrderType DEF RecoveryLosesRace, TypeOK, external
<1>14. CASE RecoverySaveFails(p)
  <2>1. RecStatement(p) \in StatementType
    BY <1>14, StatementTypes DEF RecoverySaveFails, WorkersInv, WorkerInv
  <2> QED
    BY <1>14, <2>1, LeaveOrderType
    DEF RecoverySaveFails, GivesUpOn, Abandons, TypeOK, external
<1>15. CASE RecoveryEmits(p)
  <2>1. emitted' \in [Orders -> Seq(EventNames)]
    BY <1>1, <1>15, EmitType DEF RecoveryEmits, WorkersInv, WorkerInv
  <2>2. [rec[p] EXCEPT !.pc = "reserve", !.order = PullEvents(@), !.expected = "pending"]
          \in RecType
    BY <1>1, TransitionTypes DEF RecType, Statuses
  <2>3. rec' \in [Procs -> RecType]
    BY <1>15, <2>2, LeaveOrderType DEF RecoveryEmits, RecBecomes, TypeOK
  <2> QED
    BY <1>15, <2>1, <2>3 DEF RecoveryEmits, TypeOK, external
<1>16. CASE RecoveryReserves(p)
  <2>1. [rec[p] EXCEPT !.pc = "reserving"] \in RecType
    BY <1>1 DEF RecType
  <2> QED
    BY <1>16, <2>1 DEF RecoveryReserves, SendReservation, RecGoto, RecBecomes, TypeOK
<1>17. CASE ReservationHeld(p)
  <2>1. rec' \in [Procs -> RecType]
    BY <1>1, <1>17, TransitionTypes, RecTransitionType, LeaveOrderType DEF ReservationHeld
  <2> QED
    BY <1>17, <2>1 DEF ReservationHeld, TypeOK, external
<1>18. CASE ReservationFails(p)
  <2>1. rec' \in [Procs -> RecType]
    BY <1>1, <1>18, TransitionTypes, RecTransitionType, LeaveOrderType DEF ReservationFails
  <2> QED
    BY <1>18, <2>1 DEF ReservationFails, TypeOK, external
<1> QED
  BY <1>2, <1>3, <1>4, <1>5, <1>6, <1>7, <1>8, <1>9, <1>10, <1>11, <1>12, <1>13, <1>14,
     <1>15, <1>16, <1>17, <1>18
  DEF RecoverStep

\* Every step of the services, the clock, the database and a crash keeps TypeOK.
LEMMA EnvironmentTypeStep ==
  ASSUME TypeOK, WorkersInv,
         \/ \E o \in Orders : ProviderDecides(o) \/ InventoryReserves(o) \/ OrderAges(o)
         \/ \E p \in Procs : Crash(p)
         \/ \E stmt \in late : LateStatement(stmt)
  PROVE  TypeOK'
<1>1. ASSUME NEW o \in Orders, ProviderDecides(o) PROVE TypeOK'
  BY <1>1 DEF ProviderDecides, TypeOK, Decisions
<1>2. ASSUME NEW o \in Orders, InventoryReserves(o) PROVE TypeOK'
  BY <1>2 DEF InventoryReserves, TypeOK
<1>3. ASSUME NEW o \in Orders, OrderAges(o) PROVE TypeOK'
  BY <1>3 DEF OrderAges, TypeOK, external
<1>4. ASSUME NEW p \in Procs, Crash(p) PROVE TypeOK'
  <2>1. OpenStatements(p) \subseteq StatementType
    BY StatementTypes DEF OpenStatements, WorkersInv, WorkerInv
  <2>2. DoneReq \in ReqType /\ IdleRec \in RecType
    BY TransitionTypes DEF DoneReq, IdleReq, ReqType, Branches, IdleRec, RecType, Statuses
  <2>3. crashes' \in 0..MaxCrashes
    BY <1>4, MaxCrashesAssumption DEF Crash, TypeOK
  <2> QED
    BY <1>4, <2>1, <2>2, <2>3 DEF Crash, Abandons, TypeOK, external
<1>5. ASSUME NEW stmt \in late, LateStatement(stmt) PROVE TypeOK'
  <2>1. stmt \in StatementType
    BY DEF TypeOK
  <2> QED
    BY <1>5, <2>1, ApplyType DEF LateStatement, TypeOK, external
<1> QED
  BY <1>1, <1>2, <1>3, <1>4, <1>5

----
\* What every step guarantees to an actor it does not touch.
Forward ==
  \A o \in Orders :
    /\ orders'[o].status \in FromThere(orders[o].status)
    /\ charge'[o] = charge[o] \/ charge[o] = "none"
    /\ reserved[o] => reserved'[o]

\* FromThere is reflexive and transitive, and its values are statuses.
LEMMA FromThereFacts ==
  /\ PaidStatuses = {"paid", "fulfillment_pending", "completed"}
  /\ FromThere("pending") = Statuses
  /\ \A s \in Statuses \cup {"absent"} :
       /\ s \in FromThere(s)
       /\ FromThere(s) \subseteq Statuses \cup {"absent"}
       /\ \A t \in FromThere(s) : FromThere(t) \subseteq FromThere(s)
BY DEF FromThere, PaidStatuses, Statuses

\* A row that reached a status has reached it after a forward step.
LEMMA ReachedForward ==
  ASSUME TypeOK, Forward, NEW o \in Orders, NEW s \in Statuses, Reached(o, s)
  PROVE  Reached(o, s)'
BY FromThereFacts DEF Forward, Reached

\* A row the services justify stays justified.
LEMMA JustifiedForward ==
  ASSUME TypeOK, Forward, NEW o \in Orders, NEW row, Justified(o, row)
  PROVE  Justified(o, row)'
BY DEF Forward, Justified, NotCharged, TypeOK

\* A good statement stays good while nobody touches its owner.
LEMMA StatementForward ==
  ASSUME TypeOK, Forward
  PROVE  /\ \A stmt \in StatementType : GoodStatement(stmt) => GoodStatement(stmt)'
         /\ \A o \in Orders :
              req'[o] = req[o] /\ GoodStatement(ReqStatement(o)) => GoodStatement(ReqStatement(o))'
         /\ \A p \in Procs :
              rec'[p] = rec[p] /\ rec[p].cur \in Orders /\ GoodStatement(RecStatement(p))
                => GoodStatement(RecStatement(p))'
<1>1. ASSUME NEW stmt \in StatementType, GoodStatement(stmt) PROVE GoodStatement(stmt)'
  BY <1>1, JustifiedForward DEF GoodStatement, StatementType
<1>2. ASSUME NEW o \in Orders, req'[o] = req[o], GoodStatement(ReqStatement(o))
      PROVE  GoodStatement(ReqStatement(o))'
  <2>1. ReqStatement(o)' = ReqStatement(o)
    BY <1>2 DEF ReqStatement, Save, SaveIfStatus, Row, nullableString
  <2>2. ReqStatement(o) \in StatementType
    BY StatementTypes
  <2> QED
    BY <1>1, <1>2, <2>1, <2>2 DEF GoodStatement, Justified
<1>3. ASSUME NEW p \in Procs, rec'[p] = rec[p], rec[p].cur \in Orders, GoodStatement(RecStatement(p))
      PROVE  GoodStatement(RecStatement(p))'
  <2>1. RecStatement(p)' = RecStatement(p)
    BY <1>3 DEF RecStatement, SaveIfStatus, Row, nullableString
  <2>2. RecStatement(p) \in StatementType
    BY <1>3, StatementTypes
  <2> QED
    BY <1>1, <1>3, <2>1, <2>2 DEF GoodStatement, Justified
<1> QED
  BY <1>1, <1>2, <1>3

\* A forward step keeps the invariant of everything it does not touch.
LEMMA Frame ==
  ASSUME TypeOK, ServiceInv, Forward
  PROVE  /\ \A o \in Orders : orders'[o] = orders[o] => Justified(o, orders[o])'
         /\ \A stmt \in late : GoodStatement(stmt)'
         /\ \A o \in Orders : 
              req'[o] = req[o] /\ chargeSent'[o] = chargeSent[o] => RequestInv(o)'
         /\ \A p \in Procs : rec'[p] = rec[p] => WorkerInv(p)'
<1>1. ASSUME NEW o \in Orders, orders'[o] = orders[o] PROVE Justified(o, orders[o])'
  BY <1>1, JustifiedForward DEF ServiceInv, RowsInv, Justified
<1>2. ASSUME NEW stmt \in late PROVE GoodStatement(stmt)'
  BY StatementForward DEF ServiceInv, LateInv, TypeOK
<1>3. ASSUME NEW o \in Orders, req'[o] = req[o], chargeSent'[o] = chargeSent[o]
      PROVE  RequestInv(o)'
  <2>1. req[o].order.status \in Statuses /\ req[o].next.status \in Statuses
    BY OrderFields DEF TypeOK, ReqType
  <2>2. \A status \in Statuses : Reached(o, status) => orders'[o].status \in FromThere(status)
    BY ReachedForward DEF Reached
  <2>3. RequestInv(o)
    BY DEF ServiceInv, RequestsInv
  <2>4. Reached(o, req[o].order.status) => Reached(o, req[o].order.status)'
    BY <1>3, <2>1, <2>2 DEF Reached
  <2>5. Reached(o, req[o].next.status) => Reached(o, req[o].next.status)'
    BY <1>3, <2>1, <2>2 DEF Reached
  <2>6. Reached(o, "paid") => Reached(o, "paid")'
    BY <2>2 DEF Reached, Statuses
  <2>7. Justified(o, Row(req[o].next)) => Justified(o, Row(req[o].next))'
    BY <1>3, JustifiedForward DEF Justified, Row, nullableString
  <2>8. GoodStatement(ReqStatement(o)) => GoodStatement(ReqStatement(o))'
    BY <1>3, StatementForward
  <2>9. charge[o] \in NotCharged => charge'[o] \in NotCharged
    BY DEF Forward, NotCharged
  <2> QED
    BY <1>3, <2>3, <2>4, <2>5, <2>6, <2>7, <2>8, <2>9 DEF RequestInv
<1>4. ASSUME NEW p \in Procs, rec'[p] = rec[p] PROVE WorkerInv(p)'
  <2>1. WorkerInv(p)
    BY DEF ServiceInv, WorkersInv
  <2>2. rec[p].order.status \in Statuses
    BY OrderFields DEF TypeOK, RecType
  <2>3. rec[p].cur \in Orders /\ GoodStatement(RecStatement(p)) => GoodStatement(RecStatement(p))'
    BY <1>4, StatementForward
  <2>4. rec[p].cur \in Orders /\ Reached(rec[p].cur, rec[p].order.status)
          => Reached(rec[p].cur, rec[p].order.status)'
    BY <1>4, <2>2, ReachedForward DEF Reached
  <2>5. rec[p].cur \in Orders /\ Justified(rec[p].cur, Row(rec[p].order))
          => Justified(rec[p].cur, Row(rec[p].order))'
    <3>1. Row(rec[p].order)' = Row(rec[p].order)
      BY <1>4 DEF Row, nullableString
    <3> QED
      BY <1>4, <3>1 DEF Justified, Forward, TypeOK, NotCharged
  <2> QED
    BY <1>4, <2>1, <2>3, <2>4, <2>5 DEF WorkerInv, PaymentOpen, FulfillmentOpen
<1> QED
  BY <1>1, <1>2, <1>3, <1>4

\* Executing a good statement, whoever sent it and however late, moves the
\* table forward and leaves every row justified.
LEMMA ApplyGood ==
  ASSUME TypeOK, RowsInv, NEW stmt \in StatementType, GoodStatement(stmt),
         orders' = Apply(orders, stmt), charge' = charge, reserved' = reserved
  PROVE  RowsInv' /\ Forward
<1>1. \A o \in Orders : orders[o].status \in Statuses \cup {"absent"}
  BY DEF TypeOK, RowType
<1>2. CASE Matches(orders, stmt)
  <2>1. orders' = [orders EXCEPT ![stmt.id] = stmt.row] /\ stmt.id \in Orders
    BY <1>2 DEF Apply, StatementType
  <2> QED
    BY <1>1, <1>2, <2>1, FromThereFacts
    DEF RowsInv, Justified, GoodStatement, Forward, Matches, TypeOK
<1>3. CASE ~Matches(orders, stmt)
  BY <1>1, <1>3, FromThereFacts DEF Apply, RowsInv, Justified, Forward
<1> QED
  BY <1>2, <1>3

\* A step that touches neither the table nor the decisions is a forward one.
LEMMA StandStill ==
  ASSUME TypeOK, ServiceInv, UNCHANGED <<orders, charge, reserved>>
  PROVE  Forward /\ RowsInv'
<1>1. \A o \in Orders : orders[o].status \in Statuses \cup {"absent"}
  BY DEF TypeOK, RowType
<1> QED
  BY <1>1, FromThereFacts DEF Forward, ServiceInv, RowsInv, Justified

\* A forward step that sends nothing keeps the part of the invariant on the
\* services.
LEMMA ServicesForward ==
  ASSUME TypeOK, ServicesInv, Forward, UNCHANGED external
  PROVE  ServicesInv'
BY ReachedForward DEF ServicesInv, external, Statuses, Reached

\* A forward step of one request keeps the invariant if it keeps its own part.
LEMMA RequestFrame ==
  ASSUME TypeOK, ServiceInv, Forward, NEW o \in Orders,
         \A x \in Orders \ {o} : req'[x] = req[x] /\ chargeSent'[x] = chargeSent[x],
         rec' = rec, RowsInv', LateInv', ServicesInv', RequestInv(o)'
  PROVE  ServiceInv'
<1>1. RequestsInv'
  BY Frame DEF RequestsInv
<1>2. WorkersInv'
  BY Frame DEF WorkersInv
<1> QED
  BY <1>1, <1>2 DEF ServiceInv

\* The same for a step of a request that touches no shared state.
LEMMA QuietRequest ==
  ASSUME TypeOK, ServiceInv, NEW o \in Orders,
         \A x \in Orders \ {o} : req'[x] = req[x],
         UNCHANGED <<orders, late, external, rec>>, RequestInv(o)'
  PROVE  ServiceInv'
<1>1. Forward /\ RowsInv'
  BY StandStill DEF external
<1>2. ServicesInv'
  BY <1>1, ServicesForward DEF ServiceInv
<1>3. LateInv'
  BY <1>1, Frame DEF LateInv
<1> QED
  BY <1>1, <1>2, <1>3, RequestFrame DEF external

\* A forward step of one worker keeps the invariant if it keeps its own part.
LEMMA WorkerFrame ==
  ASSUME TypeOK, ServiceInv, Forward, NEW p \in Procs,
         \A x \in Procs \ {p} : rec'[x] = rec[x],
         req' = req, chargeSent' = chargeSent,
         RowsInv', LateInv', ServicesInv', WorkerInv(p)'
  PROVE  ServiceInv'
<1>1. RequestsInv'
  BY Frame DEF RequestsInv
<1>2. WorkersInv'
  BY Frame DEF WorkersInv
<1> QED
  BY <1>1, <1>2 DEF ServiceInv

\* The same for a step of a worker that touches no shared state.
LEMMA QuietWorker ==
  ASSUME TypeOK, ServiceInv, NEW p \in Procs,
         \A x \in Procs \ {p} : rec'[x] = rec[x],
         UNCHANGED <<orders, late, external, req>>, WorkerInv(p)'
  PROVE  ServiceInv'
<1>1. Forward /\ RowsInv'
  BY StandStill DEF external
<1>2. ServicesInv'
  BY <1>1, ServicesForward DEF ServiceInv
<1>3. LateInv'
  BY <1>1, Frame DEF LateInv
<1> QED
  BY <1>1, <1>2, <1>3, WorkerFrame DEF external

\* The classification of an answer to a charge: approved means charged, rejected
\* and declined mean not charged, now and for ever.
LEMMA ChargeFacts ==
  ASSUME TypeOK, ProviderContract, NEW o \in Orders,
         NEW answer \in ChargeAnswers(o)
  PROVE  LET result == Charge(answer)
             branch == Branch(result)
         IN  /\ branch = "approved" => charge[o] = "approved" /\ (StrictDecoding => result.ref = ChargeRef)
             /\ branch \in {"rejected", "declined"} => charge[o] \in NotCharged
<1> USE DEF Answer, TransportFailure, Charge, decodeChargeResponse, RawResult, Failed, Branch,
            NoError, Unclassified, PaymentOutcomeMayHaveCommitted, OutcomeMayHaveCommitted,
            NotCharged
<1>1. CASE answer \in OpenAnswers
  BY <1>1, CodesAssumption DEF OpenAnswers, ProviderContract
<1>2. CASE charge[o] = "approved"
  BY <1>1, <1>2 DEF ChargeAnswers
<1>3. CASE charge[o] \in {"declined", "rejected"}
  BY <1>3, CodesAssumption, <1>1 DEF ChargeAnswers
<1>4. CASE charge[o] = "none" 
  BY <1>1, <1>4 DEF ChargeAnswers
<1> QED
  BY <1>1, <1>2, <1>3, <1>4 DEF TypeOK, Decisions

\* What settles a lookup is what the provider decided.
LEMMA LookupFacts ==
  ASSUME TypeOK, NEW o \in Orders, NEW answer \in LookupAnswers(o),
         Settles(LookupCharge(answer))
  PROVE  LET result == LookupCharge(answer).result
         IN  \/ result.status = "approved" /\ charge[o] = "approved" /\ result.ref = ChargeRef
             \/ result.status = "declined" /\ charge[o] \in NotCharged
<1> USE DEF Answer, TransportFailure, Charge, decodeChargeResponse, RawResult, Failed,
            LookupCharge, Settles, NoError, Unclassified, NotCharged, ChargeRef, NoRef
<1>1. answer \notin OpenAnswers
  BY CodesAssumption DEF OpenAnswers
<1>2. answer # Answer(404, "garbled")
  OBVIOUS
<1> QED
  BY <1>1, <1>2 DEF LookupAnswers, TypeOK, Decisions

\* A request that was answered has nothing left to keep.
LEMMA RespondInv ==
  ASSUME TypeOK, NEW o \in Orders, NEW status, NEW errs, Respond(o, status, errs)
  PROVE  RequestInv(o)' /\ \A x \in Orders \ {o} : req'[x] = req[x]
BY DEF Respond, ReqBecomes, RequestInv, DoneReq, IdleReq, TypeOK

\* The tail of a branch of Execute prepares a good statement, given what the
\* services' answer says of the order.
LEMMA BeginTransitionInv ==
  ASSUME TypeOK, ServiceInv, NEW o \in Orders,
         NEW branch \in Branches \ {"none"}, NEW ref \in Refs,
         req[o].pc \in {"charging", "reserving"},
         BeginTransition(o, branch, ref), UNCHANGED <<orders, late, external, rec>>,
         branch = "approved" => charge[o] = "approved" /\ (StrictDecoding => ref = ChargeRef),
         branch \in {"rejected", "declined"} => charge[o] \in NotCharged,
         branch = "fulfilled" => reserved[o]
  PROVE  ServiceInv'
<1> DEFINE order == req[o].order
           next == Transition(order, branch, ref)
<1>1. order \in OrderType /\ order.status \in Statuses
  BY OrderFields DEF TypeOK, ReqType
<1>2. RequestInv(o) /\ Justified(o, orders[o])
  BY DEF ServiceInv, RequestsInv, RowsInv
<1>3. CASE ~Allowed(order, branch)
  BY <1>3, RespondInv, QuietRequest DEF BeginTransition
<1>4. CASE Allowed(order, branch)
  <2>1. /\ req'[o] = [req[o] EXCEPT !.pc = "saving", !.branch = branch, !.next = next]
        /\ \A x \in Orders \ {o} : req'[x] = req[x]
    BY <1>4 DEF BeginTransition, ReqBecomes, TypeOK
  <2>2. /\ req'[o].pc = "saving" /\ req'[o].branch = branch /\ req'[o].next = next
        /\ req'[o].order = order
    BY <2>1 DEF TypeOK, ReqType
  <2>3. Reached(o, order.status) /\ (order.status = "paid" => (StrictDecoding => order.ref = ChargeRef))
    BY <1>2 DEF RequestInv, NoOrder
  <2>4. order.status \in PaidStatuses => charge[o] = "approved"
    <3>1. order.status \in PaidStatuses => orders[o].status \in PaidStatuses
      BY <1>1, <2>3, FromThereFacts DEF Reached, PaidStatuses, Statuses
    <3> QED
      BY <1>2, <3>1 DEF Justified
  <2>5. /\ next.status \in FromThere(order.status) \ {"absent"}
        /\ branch = "approved" => next.status = "paid"
        /\ Justified(o, Row(next))
    <3>1. CASE branch \in {"ambiguous", "invalid"}
      <4>1. next.status = "payment_unknown" /\ order.status = "pending"
        BY <1>1, <1>4, <3>1 DEF Transition, Allowed, MarkPaymentUnknown, record, OrderType
      <4> QED
        BY <3>1, <4>1, FromThereFacts DEF Statuses, Justified, Row
    <3>2. CASE branch \in {"rejected", "declined"}
      <4>1. next.status = "failed" /\ order.status \in {"pending", "payment_unknown"}
        BY <1>1, <1>4, <3>2 DEF Transition, Allowed, PaymentOpen, MarkFailed, record, OrderType
      <4> QED
        BY <3>2, <4>1, FromThereFacts DEF FromThere, Statuses, Justified, Row
    <3>3. CASE branch = "approved"
      <4>1. next.status = "paid" /\ next.ref = ref /\ order.status \in {"pending", "payment_unknown"}
        BY <1>1, <1>4, <3>3 DEF Transition, Allowed, PaymentOpen, MarkPaid, record, OrderType
      <4> QED
        BY <3>3, <4>1, FromThereFacts
        DEF FromThere, Statuses, Justified, Row, nullableString, ChargeRef, NoRef
    <3>4. CASE branch = "unfulfilled"
      <4>1. next.status = "fulfillment_pending" /\ next.ref = order.ref /\ order.status = "paid"
        BY <1>1, <1>4, <3>4
        DEF Transition, Allowed, MarkFulfillmentPending, record, OrderType
      <4> QED
        BY <2>3, <2>4, <3>4, <4>1, FromThereFacts
        DEF FromThere, Statuses, Justified, Row, nullableString, ChargeRef, NoRef
    <3>5. CASE branch = "fulfilled"
      <4>1. next.status = "completed" /\ next.ref = order.ref
            /\ order.status \in {"paid", "fulfillment_pending"}
        BY <1>1, <1>4, <3>5 DEF Transition, Allowed, FulfillmentOpen, Complete, record, OrderType
      <4>2. order.status = "paid"
        BY <1>2, <4>1 DEF RequestInv, NoOrder
      <4> QED
        BY <2>3, <2>4, <3>5, <4>1, <4>2, FromThereFacts
        DEF FromThere, Statuses, Justified, Row, nullableString, ChargeRef, NoRef
    <3> QED
      BY <3>1, <3>2, <3>3, <3>4, <3>5 DEF Branches
  <2> HIDE DEF next, order
  <2>6. ReqStatement(o)' = [id |-> o, expected |-> order.status, row |-> Row(next)]
    BY <2>2 DEF ReqStatement, SaveIfStatus, Row, nullableString
  <2>7. GoodStatement(ReqStatement(o))'
    <3> DEFINE stmt == [id |-> o, expected |-> order.status, row |-> Row(next)]
    <3>1. stmt.id = o /\ stmt.expected = order.status /\ stmt.row = Row(next)
      OBVIOUS
    <3>2. Row(next).status = next.status
      BY DEF Row
    <3> HIDE DEF stmt
    <3>3. Justified(stmt.id, stmt.row) /\ stmt.row.status \in FromThere(stmt.expected) \ {"absent"}
      BY <2>5, <3>1, <3>2
    <3> QED
      BY <2>6, <3>3 DEF GoodStatement, Justified, external, stmt
  <2>8. RequestInv(o)'
    BY <2>2, <2>3, <2>5, <2>7 DEF RequestInv, Reached, external, Branches
  <2> QED
    BY <2>1, <2>8, QuietRequest
<1> QED
  BY <1>3, <1>4

\* The statement a request is about to execute is a good one.
LEMMA RequestStatementGood ==
  ASSUME TypeOK, ServiceInv, NEW o \in Orders, req[o].pc \in {"save", "saving"}
  PROVE  /\ ReqStatement(o) \in StatementType
         /\ GoodStatement(ReqStatement(o))
         /\ ReqStatement(o).id = o
         /\ req[o].pc = "save" => ReqStatement(o).row.status = "pending"
         /\ req[o].pc = "saving" => ReqStatement(o).row = Row(req[o].next)
<1>1. ReqStatement(o) \in StatementType
  BY StatementTypes
<1>2. RequestInv(o)
  BY DEF ServiceInv, RequestsInv
<1>3. CASE req[o].pc = "save"
  <2>1. ReqStatement(o) = [id |-> o, expected |-> "absent", row |-> Row(NewOrder)]
    BY <1>2, <1>3 DEF RequestInv, ReqStatement, Save
  <2>2. Row(NewOrder).status = "pending"
    BY DEF Row, NewOrder, record
  <2> QED
    BY <1>1, <1>3, <2>1, <2>2, FromThereFacts
    DEF GoodStatement, Justified, FromThere, Statuses
<1>4. CASE req[o].pc = "saving"
  BY <1>1, <1>2, <1>4 DEF RequestInv, ReqStatement, SaveIfStatus
<1> QED
  BY <1>3, <1>4

\* A statement its caller gives up on is as good as one it executes.
LEMMA AbandonInv ==
  ASSUME TypeOK, ServiceInv, NEW stmts, \A stmt \in stmts : stmt \in StatementType /\ GoodStatement(stmt),
         Abandons(stmts), UNCHANGED <<orders, charge, reserved>>
  PROVE  LateInv'
<1>1. Forward
  BY StandStill
<1>2. \A stmt \in late \cup stmts : GoodStatement(stmt)'
  BY <1>1, StatementForward DEF ServiceInv, LateInv, TypeOK
<1> QED
  BY <1>2 DEF Abandons, LateInv

\* Every step of Execute keeps the inductive invariant.
LEMMA RequestInvStep ==
  ASSUME TypeOK, ServiceInv, ProviderContract, NEW o \in Orders, RequestStep(o)
  PROVE  ServiceInv'
<1>1. RequestInv(o) /\ Justified(o, orders[o])
  BY DEF ServiceInv, RequestsInv, RowsInv
<1>2. req[o] \in ReqType /\ req[o].order \in OrderType /\ req[o].next \in OrderType
      /\ req[o].order.status \in Statuses /\ req[o].next.status \in Statuses
  BY OrderFields DEF TypeOK, ReqType
<1>3. ASSUME NEW q \in Requests, RejectRequest(o, q) PROVE ServiceInv'
  BY <1>3, RespondInv, QuietRequest DEF RejectRequest
<1>4. ASSUME NEW p \in Procs, NEW q \in Requests, AcceptRequest(o, p, q) PROVE ServiceInv'
  <2>1. req'[o] = [IdleReq EXCEPT !.pc = "save", !.proc = p, !.order = NewOrder]
        /\ \A x \in Orders \ {o} : req'[x] = req[x]
    BY <1>4 DEF AcceptRequest, ReqBecomes, TypeOK
  <2>2. req'[o].pc = "save" /\ req'[o].order = NewOrder
    BY <2>1 DEF IdleReq
  <2>3. RequestInv(o)'
    BY <1>1, <1>4, <2>2 DEF RequestInv, AcceptRequest, external
  <2> QED
    BY <1>4, <2>1, <2>3, QuietRequest DEF AcceptRequest
<1>5. CASE SavePending(o)
  <2> DEFINE stmt == ReqStatement(o)
  <2>1. stmt \in StatementType /\ GoodStatement(stmt) /\ stmt.id = o /\ stmt.row.status = "pending"
    BY <1>5, RequestStatementGood DEF SavePending
  <2>2. RowsInv' /\ Forward
    BY <1>5, <2>1, ApplyGood DEF SavePending, Executes, ServiceInv, external
  <2>3. orders'[o].status = "pending"
    BY <1>5, <2>1 DEF SavePending, Executes, Apply, TypeOK
  <2>4. /\ req'[o] = [req[o] EXCEPT !.pc = "created"]
        /\ \A x \in Orders \ {o} : req'[x] = req[x]
    BY <1>5 DEF SavePending, Goto, ReqBecomes, TypeOK
  <2>5. req'[o].pc = "created" /\ req'[o].order = NewOrder
    BY <1>1, <1>2, <1>5, <2>4 DEF ReqType, RequestInv, SavePending
  <2>6. Reached(o, NewOrder.status)' /\ req'[o].order.status = "pending"
    BY <2>3, <2>5, FromThereFacts DEF Reached, NewOrder, record, Statuses
  <2>7. RequestInv(o)'
    BY <1>1, <1>5, <2>3, <2>5, <2>6, FromThereFacts
    DEF RequestInv, SavePending, Reached, external, Statuses
  <2>8. LateInv' /\ ServicesInv'
    BY <1>5, <2>2, Frame, ServicesForward DEF SavePending, Executes, LateInv, ServiceInv
  <2> QED
    BY <1>5, <2>2, <2>4, <2>7, <2>8, RequestFrame DEF SavePending, external
<1>6. CASE SavePendingFails(o)
  <2>1. UNCHANGED <<orders, external, rec>> /\ Abandons({ReqStatement(o)})
    BY <1>6 DEF SavePendingFails, GivesUpOn
  <2>2. LateInv'
    BY <1>6, <2>1, RequestStatementGood, AbandonInv DEF SavePendingFails, external
  <2>3. Forward /\ RowsInv' /\ ServicesInv'
    BY <2>1, StandStill, ServicesForward DEF external, ServiceInv
  <2>4. RequestInv(o)' /\ \A x \in Orders \ {o} : req'[x] = req[x]
    BY <1>6, RespondInv DEF SavePendingFails
  <2> QED
    BY <2>1, <2>2, <2>3, <2>4, RequestFrame DEF external
<1>7. CASE EmitCreated(o)
  <2>1. /\ req'[o] = [req[o] EXCEPT !.pc = "charge", !.order = PullEvents(@)]
        /\ \A x \in Orders \ {o} : req'[x] = req[x]
    BY <1>7 DEF EmitCreated, ReqBecomes, TypeOK
  <2>2. req[o].order = NewOrder
    BY <1>1, <1>7 DEF RequestInv, EmitCreated
  <2>3. PullEvents(NewOrder) = NoOrder /\ NewOrder.status = NoOrder.status
    <3>1. \A events : [[status |-> "pending", ref |-> NoRef, events |-> << >>]
                         EXCEPT !.events = events]
                      = [status |-> "pending", ref |-> NoRef, events |-> events]
      OBVIOUS
    <3>2. \A events : [[status |-> "pending", ref |-> NoRef, events |-> events]
                         EXCEPT !.events = << >>] = NoOrder
      BY DEF NoOrder
    <3>3. \E events : NewOrder = [status |-> "pending", ref |-> NoRef, events |-> events]
      BY <3>1 DEF NewOrder, record
    <3> QED
      BY <3>2, <3>3 DEF PullEvents, NoOrder
  <2>4. req'[o].pc = "charge" /\ req'[o].order = NoOrder
    BY <1>2, <2>1, <2>2, <2>3 DEF ReqType
  <2>5. RequestInv(o)'
    BY <1>1, <1>7, <2>2, <2>3, <2>4 DEF RequestInv, EmitCreated, Reached, external
  <2> QED
    BY <1>7, <2>1, <2>5, QuietRequest DEF EmitCreated
<1>8. CASE SubmitCharge(o)
  <2>1. /\ req'[o] = [req[o] EXCEPT !.pc = "charging"]
        /\ \A x \in Orders \ {o} : req'[x] = req[x] /\ chargeSent'[x] = chargeSent[x]
        /\ chargeSent'[o]
    BY <1>8 DEF SubmitCharge, Goto, ReqBecomes, TypeOK
  <2>2. req'[o].pc = "charging" /\ req'[o].order = NoOrder /\ Reached(o, NoOrder.status)
    BY <1>1, <1>2, <1>8, <2>1 DEF ReqType, RequestInv, SubmitCharge
  <2>3. Forward /\ RowsInv'
    BY <1>8, StandStill DEF SubmitCharge
  <2>4. LateInv'
    BY <1>8, <2>3, Frame DEF LateInv, SubmitCharge
  <2>5. ServicesInv'
    BY <1>8, <2>1, <2>2 DEF ServiceInv, ServicesInv, SubmitCharge, Reached, NoOrder, TypeOK
  <2>6. RequestInv(o)'
    BY <1>8, <2>2 DEF RequestInv, SubmitCharge, Reached
  <2> QED
    BY <1>8, <2>1, <2>3, <2>4, <2>5, <2>6, RequestFrame DEF SubmitCharge
<1>9. CASE ChargeReturns(o)
  <2>1. PICK answer \in ChargeAnswers(o) :
          BeginTransition(o, Branch(Charge(answer)), Charge(answer).ref)
    BY <1>9 DEF ChargeReturns
  <2>2. /\ Charge(answer).ref \in Refs
        /\ Branch(Charge(answer)) \in Branches \ {"none"}
    BY AnswerTypes
  <2>3. Branch(Charge(answer)) # "fulfilled"
    BY DEF Branch
  <2> QED
    BY <1>9, <2>1, <2>2, <2>3, ChargeFacts, BeginTransitionInv DEF ChargeReturns
<1>10. CASE SaveTransition(o)
  <2> DEFINE stmt == ReqStatement(o)
  <2>1. stmt \in StatementType /\ GoodStatement(stmt) /\ stmt.id = o /\ stmt.row = Row(req[o].next)
    BY <1>10, RequestStatementGood DEF SaveTransition
  <2>2. RowsInv' /\ Forward
    BY <1>10, <2>1, ApplyGood DEF SaveTransition, Executes, ServiceInv, external
  <2>3. orders'[o] = Row(req[o].next)
    BY <1>10, <2>1 DEF SaveTransition, Executes, Apply, TypeOK
  <2>4. /\ req'[o] = [req[o] EXCEPT !.pc = "emit"]
        /\ \A x \in Orders \ {o} : req'[x] = req[x]
    BY <1>10 DEF SaveTransition, Goto, ReqBecomes, TypeOK
  <2>5. req'[o].pc = "emit" /\ req'[o].order = req[o].order /\ req'[o].next = req[o].next
        /\ req'[o].branch = req[o].branch
    BY <1>2, <2>4 DEF ReqType
  <2>6. Reached(o, req[o].order.status)
    BY <1>1, <1>10 DEF RequestInv, SaveTransition
  <2>7. Reached(o, req[o].order.status)'
    BY <1>2, <2>2, <2>5, <2>6, ReachedForward DEF Reached
  <2>8. Reached(o, req[o].next.status)'
    BY <1>2, <2>3, <2>5, FromThereFacts DEF Reached, Row
  <2>9. Justified(o, Row(req[o].next))'
    <3>1. Row(req[o].next)' = Row(req[o].next)
      BY <2>5 DEF Row, nullableString
    <3>2. Justified(o, Row(req[o].next))
      BY <2>1 DEF GoodStatement
    <3> QED
      BY <1>10, <3>1, <3>2 DEF Justified, SaveTransition, external
  <2>10. RequestInv(o)'
    BY <1>1, <1>10, <2>5, <2>7, <2>8, <2>9 DEF RequestInv, SaveTransition, external
  <2>11. LateInv' /\ ServicesInv'
    BY <1>10, <2>2, Frame, ServicesForward DEF SaveTransition, Executes, LateInv, ServiceInv
  <2> QED
    BY <1>10, <2>2, <2>4, <2>10, <2>11, RequestFrame DEF SaveTransition, external
<1>11. CASE SaveTransitionConflict(o)
  <2>1. /\ req'[o] = [req[o] EXCEPT !.pc = "reload"]
        /\ \A x \in Orders \ {o} : req'[x] = req[x]
    BY <1>11 DEF SaveTransitionConflict, Goto, ReqBecomes, TypeOK
  <2>2. req'[o].pc = "reload" /\ req'[o].order = req[o].order /\ req'[o].branch = req[o].branch
    BY <1>2, <2>1 DEF ReqType
  <2>3. RequestInv(o)'
    BY <1>1, <1>11, <2>2 DEF RequestInv, SaveTransitionConflict, Reached, external
  <2> QED
    BY <1>11, <2>1, <2>3, QuietRequest DEF SaveTransitionConflict
<1>12. CASE SaveTransitionFails(o)
  <2>1. UNCHANGED <<orders, external, rec>> /\ Abandons({ReqStatement(o)})
    BY <1>12 DEF SaveTransitionFails, GivesUpOn
  <2>2. LateInv'
    BY <1>12, <2>1, RequestStatementGood, AbandonInv DEF SaveTransitionFails, external
  <2>3. Forward /\ RowsInv' /\ ServicesInv'
    BY <2>1, StandStill, ServicesForward DEF external, ServiceInv
  <2>4. RequestInv(o)' /\ \A x \in Orders \ {o} : req'[x] = req[x]
    BY <1>12, RespondInv DEF SaveTransitionFails
  <2> QED
    BY <2>1, <2>2, <2>3, <2>4, RequestFrame DEF external
<1>13. CASE Reload(o)
  BY <1>13, RespondInv, QuietRequest DEF Reload
<1>14. CASE ReloadFails(o)
  BY <1>14, RespondInv, QuietRequest DEF ReloadFails
<1>15. CASE EmitPaid(o)
  <2>1. /\ req'[o] = [req[o] EXCEPT !.pc = "reserve", !.branch = "none",
                                    !.order = PullEvents(req[o].next), !.next = NoOrder]
        /\ \A x \in Orders \ {o} : req'[x] = req[x]
    BY <1>15 DEF EmitPaid, ReqBecomes, TypeOK
  <2>2. req'[o].pc = "reserve" /\ req'[o].order = PullEvents(req[o].next)
    BY <1>2, <2>1 DEF ReqType
  <2>3. req[o].next.status = "paid" /\ Reached(o, "paid") /\ Justified(o, Row(req[o].next))
    BY <1>1, <1>15 DEF RequestInv, EmitPaid
  <2>4. StrictDecoding => req[o].next.ref = ChargeRef
    BY <2>3, FromThereFacts DEF Justified, Row, nullableString, NULL, ChargeRef
  <2>5. req'[o].order.status = "paid" /\ (StrictDecoding => req'[o].order.ref = ChargeRef)
    BY <1>2, <2>2, <2>3, <2>4 DEF PullEvents, OrderType
  <2>6. RequestInv(o)'
    BY <1>15, <2>2, <2>3, <2>5 DEF RequestInv, EmitPaid, Reached, external
  <2> QED
    BY <1>15, <2>1, <2>6, QuietRequest DEF EmitPaid
<1>16. CASE EmitAndReturn(o)
  BY <1>16, RespondInv, QuietRequest DEF EmitAndReturn
<1>17. CASE SubmitReservation(o)
  <2>1. /\ req'[o] = [req[o] EXCEPT !.pc = "reserving"]
        /\ \A x \in Orders \ {o} : req'[x] = req[x]
    BY <1>17 DEF SubmitReservation, Goto, ReqBecomes, TypeOK
  <2>2. /\ req'[o].pc = "reserving" /\ req'[o].order = req[o].order
        /\ req[o].order.status = "paid" /\ Reached(o, "paid")
        /\ StrictDecoding => req[o].order.ref = ChargeRef
    BY <1>1, <1>2, <1>17, <2>1 DEF ReqType, RequestInv, SubmitReservation
  <2>3. Forward /\ RowsInv'
    BY <1>17, StandStill DEF SubmitReservation
  <2>4. LateInv'
    BY <1>17, <2>3, Frame DEF LateInv, SubmitReservation
  <2>5. ServicesInv'
    BY <1>17, <2>2
    DEF ServiceInv, ServicesInv, SubmitReservation, SendReservation, Reached, TypeOK
  <2>6. RequestInv(o)'
    BY <1>17, <2>2 DEF RequestInv, SubmitReservation, Reached
  <2> QED
    BY <1>17, <2>1, <2>3, <2>4, <2>5, <2>6, RequestFrame DEF SubmitReservation
<1>18. CASE ReserveReturns(o)
  <2>1. PICK code \in ReserveAnswers(o) :
          BeginTransition(o, IF ReserveSucceeds(code) THEN "fulfilled" ELSE "unfulfilled", NoRef)
    BY <1>18 DEF ReserveReturns
  <2>2. ReserveSucceeds(code) => reserved[o]
    BY DEF ReserveSucceeds, ReserveAnswers
  <2>3. "fulfilled" \in Branches \ {"none"} /\ "unfulfilled" \in Branches \ {"none"}
        /\ NoRef \in Refs
    BY DEF Branches, Refs
  <2>4. CASE ReserveSucceeds(code)
    BY <1>18, <2>1, <2>2, <2>3, <2>4, BeginTransitionInv DEF ReserveReturns
  <2>5. CASE ~ReserveSucceeds(code)
    BY <1>18, <2>1, <2>3, <2>5, BeginTransitionInv DEF ReserveReturns
  <2> QED
    BY <2>4, <2>5
<1> QED
  BY <1>3, <1>4, <1>5, <1>6, <1>7, <1>8, <1>9, <1>10, <1>11, <1>12, <1>13, <1>14, <1>15,
     <1>16, <1>17, <1>18
  DEF RequestStep

\* A worker between two orders has nothing to keep.
LEMMA IdleWorker ==
  ASSUME TypeOK, ServiceInv, NEW p \in Procs,
         \A x \in Procs \ {p} : rec'[x] = rec[x],
         rec'[p].pc \in {"idle", "list", "relist", "next"},
         UNCHANGED <<orders, late, external, req>>
  PROVE  ServiceInv'
<1>1. WorkerInv(p)'
  BY DEF WorkerInv
<1> QED
  BY <1>1, QuietWorker

\* LeaveOrder takes the worker to the next order of its page.
LEMMA LeaveOrderInv ==
  ASSUME TypeOK, NEW p \in Procs, LeaveOrder(p)
  PROVE  rec'[p].pc = "next" /\ \A x \in Procs \ {p} : rec'[x] = rec[x]
BY DEF LeaveOrder, RecBecomes, TypeOK, RecType

\* A transition of the order at hand prepares a good statement, given that the
\* services justify it.
LEMMA RecTransitionInv ==
  ASSUME TypeOK, ServiceInv, NEW p \in Procs, NEW order \in OrderType,
         rec[p].cur \in Orders, RecTransition(p, order),
         Justified(rec[p].cur, Row(order)),
         order.status \in FromThere(rec[p].order.status) \ {"absent"},
         UNCHANGED <<orders, late, external, req>>
  PROVE  ServiceInv'
<1>1. /\ rec'[p] = [rec[p] EXCEPT !.pc = "saving", !.order = order,
                                  !.expected = rec[p].order.status]
      /\ \A x \in Procs \ {p} : rec'[x] = rec[x]
  BY DEF RecTransition, RecBecomes, TypeOK
<1>2. /\ rec'[p].pc = "saving" /\ rec'[p].cur = rec[p].cur /\ rec'[p].order = order
      /\ rec'[p].expected = rec[p].order.status
  BY <1>1 DEF TypeOK, RecType
<1> DEFINE stmt == [id |-> rec[p].cur, expected |-> rec[p].order.status, row |-> Row(order)]
<1>3. stmt.id = rec[p].cur /\ stmt.expected = rec[p].order.status /\ stmt.row = Row(order)
  OBVIOUS
<1>4. RecStatement(p)' = stmt
  BY <1>2 DEF RecStatement, SaveIfStatus, Row, nullableString
<1> HIDE DEF stmt
<1>5. Justified(stmt.id, stmt.row) /\ stmt.row.status \in FromThere(stmt.expected) \ {"absent"}
  <2>1. Row(order).status = order.status
    BY DEF Row
  <2> QED
    BY <1>3, <2>1
<1>6. GoodStatement(RecStatement(p))'
  BY <1>4, <1>5 DEF GoodStatement, Justified, external, stmt
<1>7. WorkerInv(p)'
  BY <1>2, <1>6 DEF WorkerInv
<1> QED
  BY <1>1, <1>7, QuietWorker

\* RunOnce and its pages leave the worker between two orders.
LEMMA PagingStep ==
  ASSUME TypeOK, NEW p \in Procs,
         RunOnce(p) \/ ListPage(p) \/ ListFirstPage(p) \/ ListFails(p) \/ EndBatch(p)
  PROVE  /\ rec'[p].pc \in {"idle", "list", "relist", "next"}
         /\ \A x \in Procs \ {p} : rec'[x] = rec[x]
<1> DEFINE w == rec[p]
<1>0. w \in RecType
  BY DEF TypeOK
<1>1. \A worker : RecBecomes(p, worker) =>
        rec'[p] = worker /\ \A x \in Procs \ {p} : rec'[x] = rec[x]
  BY DEF RecBecomes, TypeOK
<1>2. CASE RunOnce(p) \/ ListFirstPage(p) \/ ListFails(p) \/ EndBatch(p)
  <2>1. CASE RunOnce(p)
    <3> DEFINE worker == [w EXCEPT !.pc = "list", !.cutoff = old]
    <3>1. RecBecomes(p, worker) /\ worker.pc = "list"
      BY <1>0, <2>1 DEF RunOnce, RecType
    <3> HIDE DEF worker
    <3> QED
      BY <1>1, <3>1
  <2>2. CASE ListFirstPage(p)
    <3> DEFINE worker == [w EXCEPT !.pc = "next", !.cutoff = {},
                  !.ids = ListRecoverableIDs(orders, 0, w.cutoff, BatchSize)]
    <3>1. RecBecomes(p, worker) /\ worker.pc = "next"
      BY <1>0, <2>2 DEF ListFirstPage, RecType
    <3> HIDE DEF worker
    <3> QED
      BY <1>1, <3>1
  <2>3. CASE ListFails(p)
    <3> DEFINE worker == [w EXCEPT !.pc = "idle", !.cutoff = {}]
    <3>1. RecBecomes(p, worker) /\ worker.pc = "idle"
      BY <1>0, <2>3 DEF ListFails, RecType
    <3> HIDE DEF worker
    <3> QED
      BY <1>1, <3>1
  <2>4. CASE EndBatch(p)
    BY <1>0, <1>1, <2>4 DEF EndBatch, RecGoto, RecType
  <2> QED
    BY <1>2, <2>1, <2>2, <2>3, <2>4
<1>3. CASE ListPage(p)
  <2> DEFINE page == ListRecoverableIDs(orders, w.afterID, w.cutoff, BatchSize)
             wrapped == [w EXCEPT !.pc = "relist", !.afterID = 0]
             listed == [w EXCEPT !.pc = "next", !.ids = page, !.cutoff = {}]
  <2>1. RecBecomes(p, wrapped) \/ RecBecomes(p, listed)
    BY <1>3 DEF ListPage
  <2>2. wrapped.pc = "relist" /\ listed.pc = "next"
    BY <1>0 DEF RecType
  <2> HIDE DEF wrapped, listed
  <2> QED
    BY <1>1, <2>1, <2>2
<1> QED
  BY <1>2, <1>3

\* A step of a worker leaves the requests and the other workers alone.
LEMMA RecoverTouches ==
  ASSUME TypeOK, NEW p \in Procs, RecoverStep(p)
  PROVE  /\ req' = req
         /\ \A x \in Procs \ {p} : rec'[x] = rec[x]
         /\ ~RecoveryEmits(p) => emitted' = emitted
<1>1. /\ req' = req
      /\ ~RecoveryEmits(p) => emitted' = emitted
  BY DEF RecoverStep, RunOnce, ListPage, ListFirstPage, ListFails, NextOrder, EndBatch, FindOrder,
         FindFails, LookupSettles, LookupLeavesOpen, RecoverySaves, RecoveryLosesRace,
         RecoverySaveFails, RecoveryEmits, RecoveryReserves, ReservationHeld, ReservationFails
<1>2. \A w : RecBecomes(p, w) => \A x \in Procs \ {p} : rec'[x] = rec[x]
  BY DEF RecBecomes, TypeOK
<1>3. \A x \in Procs \ {p} : rec'[x] = rec[x]
  BY <1>2
  DEF RecoverStep, RunOnce, ListPage, ListFirstPage, ListFails, NextOrder, EndBatch, FindOrder,
      FindFails, LookupSettles, LookupLeavesOpen, RecoverySaves, RecoveryLosesRace,
      RecoverySaveFails, RecoveryEmits, RecoveryReserves, ReservationHeld, ReservationFails,
      RecGoto, LeaveOrder, RecTransition
<1> QED
  BY <1>1, <1>3

\* Every step of the recovery worker keeps the inductive invariant.
LEMMA RecoverInvStep ==
  ASSUME TypeOK, ServiceInv, NEW p \in Procs, RecoverStep(p)
  PROVE  ServiceInv'
<1> DEFINE w == rec[p]
<1>1. WorkerInv(p)
  BY DEF ServiceInv, WorkersInv
<1>2. w \in RecType /\ w.order \in OrderType /\ w.order.status \in Statuses
  BY OrderFields DEF TypeOK, RecType
<1>3. CASE RunOnce(p) \/ ListPage(p) \/ ListFirstPage(p) \/ ListFails(p) \/ EndBatch(p)
  <2>1. UNCHANGED <<orders, late, external, req>>
    BY <1>3 DEF RunOnce, ListPage, ListFirstPage, ListFails, EndBatch
  <2> QED
    BY <1>3, <2>1, PagingStep, IdleWorker
<1>4. ASSUME NEW o \in Orders, NextOrder(p, o) PROVE ServiceInv'
  <2>1. /\ rec'[p] = [rec[p] EXCEPT !.pc = "find", !.afterID = o, !.cur = o, !.ids = @ \ {o}]
        /\ \A x \in Procs \ {p} : rec'[x] = rec[x]
    BY <1>4 DEF NextOrder, RecBecomes, TypeOK
  <2>2. rec'[p].pc = "find" /\ rec'[p].cur = o
    BY <1>2, <2>1 DEF RecType
  <2>3. WorkerInv(p)'
    BY <2>2 DEF WorkerInv
  <2> QED
    BY <1>4, <2>1, <2>3, QuietWorker DEF NextOrder
<1>5. CASE FindFails(p) \/ LookupLeavesOpen(p) \/ RecoveryLosesRace(p)
  BY <1>5, LeaveOrderInv, IdleWorker DEF FindFails, LookupLeavesOpen, RecoveryLosesRace
<1>6. CASE FindOrder(p)
  <2> DEFINE order == FindByID(orders, w.cur)
             step == RecoveryStep(order.status)
  <2>1. CASE step = "next"
    BY <1>6, <2>1, LeaveOrderInv, IdleWorker DEF FindOrder
  <2>2. CASE step # "next"
    <3>1. w.cur \in Orders
      BY <1>1, <1>6 DEF FindOrder, WorkerInv
    <3>2. /\ rec'[p] = [rec[p] EXCEPT !.pc = step, !.order = order]
          /\ \A x \in Procs \ {p} : rec'[x] = rec[x]
      BY <1>6, <2>2 DEF FindOrder, RecBecomes, TypeOK
    <3>3. rec'[p].pc = step /\ rec'[p].order = order /\ rec'[p].cur = w.cur
      BY <1>2, <3>2 DEF RecType
    <3>4. \/ step = "lookup" /\ order.status \in {"pending", "payment_unknown"}
          \/ step = "reserve" /\ order.status \in {"paid", "fulfillment_pending"}
      BY <2>2 DEF RecoveryStep
    <3>5. Row(order) = orders[w.cur] /\ order.status = orders[w.cur].status
      <4>1. orders[w.cur] \in RowType
        BY <3>1 DEF TypeOK
      <4> QED
        BY <4>1 DEF Row, FindByID, RowType, nullableString, NULL, NoRef, ChargeRef
    <3>6. Justified(w.cur, orders[w.cur]) /\ orders[w.cur].status \in FromThere(orders[w.cur].status)
      BY <3>1, FromThereFacts DEF ServiceInv, RowsInv, TypeOK, RowType
    <3> HIDE DEF order, step
    <3>7. Row(rec'[p].order) = orders[w.cur] /\ rec'[p].order.status = orders[w.cur].status
      BY <3>3, <3>5
    <3>8. /\ Reached(rec[p].cur, rec[p].order.status)'
          /\ Justified(rec[p].cur, Row(rec[p].order))'
      <4>1. Row(rec[p].order)' = Row(rec'[p].order)
        BY DEF Row, nullableString
      <4> QED
        BY <1>6, <3>3, <3>6, <3>7, <4>1 DEF FindOrder, Reached, Justified, external
    <3>9. WorkerInv(p)'
      BY <3>1, <3>3, <3>4, <3>8 DEF WorkerInv, PaymentOpen, FulfillmentOpen
    <3> QED
      BY <1>6, <3>2, <3>9, QuietWorker DEF FindOrder
  <2> QED
    BY <2>1, <2>2
<1>7. CASE LookupSettles(p)
  <2>1. w.cur \in Orders /\ PaymentOpen(w.order)
    BY <1>1, <1>7 DEF LookupSettles, WorkerInv
  <2>2. PICK answer \in LookupAnswers(w.cur) :
          /\ Settles(LookupCharge(answer))
          /\ RecTransition(p, Settled(w.order, LookupCharge(answer).result))
    BY <1>7 DEF LookupSettles
  <2> DEFINE result == LookupCharge(answer).result
             next == Settled(w.order, result)
  <2>3. \/ result.status = "approved" /\ charge[w.cur] = "approved" /\ result.ref = ChargeRef
        \/ result.status = "declined" /\ charge[w.cur] \in NotCharged
    BY <2>1, <2>2, LookupFacts
  <2> HIDE DEF result
  <2>4. /\ next \in OrderType
        /\ next.status \in FromThere(w.order.status) \ {"absent"}
        /\ Justified(w.cur, Row(next))
    <3>1. CASE result.status = "approved"
      <4>1. next = MarkPaid(w.order, ChargeRef) /\ ChargeRef \in Refs
        BY <2>3, <3>1 DEF Settled, Refs
      <4>2. next \in OrderType /\ next.status = "paid" /\ next.ref = ChargeRef
        BY <1>2, <4>1, TransitionTypes DEF MarkPaid, record, OrderType
      <4> QED
        BY <2>1, <2>3, <3>1, <4>2
        DEF PaymentOpen, FromThere, Statuses, Justified, Row, nullableString, ChargeRef, NoRef
    <3>2. CASE result.status = "declined"
      <4>1. next = MarkFailed(w.order)
        BY <3>2 DEF Settled
      <4>2. next \in OrderType /\ next.status = "failed"
        BY <1>2, <4>1, TransitionTypes DEF MarkFailed, record, OrderType
      <4> QED
        BY <2>1, <2>3, <3>2, <4>2, FromThereFacts
        DEF PaymentOpen, FromThere, Statuses, Justified, Row
    <3> QED
      BY <2>3, <3>1, <3>2
  <2> QED
    BY <1>7, <2>1, <2>2, <2>4, RecTransitionInv DEF LookupSettles, result
<1>8. CASE RecoverySaves(p)
  <2> DEFINE stmt == RecStatement(p)
  <2>1. w.cur \in Orders /\ stmt \in StatementType /\ GoodStatement(stmt)
    BY <1>1, <1>8, StatementTypes DEF WorkerInv, RecoverySaves
  <2>2. stmt.id = w.cur /\ stmt.row = Row(w.order)
    BY DEF RecStatement, SaveIfStatus
  <2>3. RowsInv' /\ Forward
    BY <1>8, <2>1, ApplyGood DEF RecoverySaves, Executes, ServiceInv, external
  <2>4. orders'[w.cur] = Row(w.order)
    BY <1>8, <2>1, <2>2 DEF RecoverySaves, Executes, Apply, TypeOK
  <2>5. /\ rec'[p] = [rec[p] EXCEPT !.pc = "emit"]
        /\ \A x \in Procs \ {p} : rec'[x] = rec[x]
    BY <1>8 DEF RecoverySaves, RecGoto, RecBecomes, TypeOK
  <2>6. rec'[p].pc = "emit" /\ rec'[p].cur = w.cur /\ rec'[p].order = w.order
    BY <1>2, <2>5 DEF RecType
  <2>7. Reached(rec[p].cur, rec[p].order.status)'
    BY <1>2, <2>4, <2>6, FromThereFacts DEF Reached, Row
  <2>8. Justified(rec[p].cur, Row(rec[p].order))'
    <3>1. Row(rec[p].order)' = Row(rec[p].order)
      BY <2>6 DEF Row, nullableString
    <3>2. Justified(w.cur, Row(w.order))
      BY <2>1, <2>2 DEF GoodStatement
    <3> QED
      BY <1>8, <2>6, <3>1, <3>2 DEF Justified, RecoverySaves, external
  <2>9. WorkerInv(p)'
    BY <2>1, <2>6, <2>7, <2>8 DEF WorkerInv
  <2>10. LateInv' /\ ServicesInv'
    BY <1>8, <2>3, Frame, ServicesForward DEF RecoverySaves, Executes, LateInv, ServiceInv
  <2> QED
    BY <1>8, <2>3, <2>5, <2>9, <2>10, WorkerFrame DEF RecoverySaves, external
<1>9. CASE RecoverySaveFails(p)
  <2>1. w.cur \in Orders /\ RecStatement(p) \in StatementType /\ GoodStatement(RecStatement(p))
    BY <1>1, <1>9, StatementTypes DEF WorkerInv, RecoverySaveFails
  <2>2. UNCHANGED <<orders, external, req>> /\ Abandons({RecStatement(p)})
    BY <1>9 DEF RecoverySaveFails, GivesUpOn
  <2>3. LateInv'
    BY <2>1, <2>2, AbandonInv DEF external
  <2>4. Forward /\ RowsInv' /\ ServicesInv'
    BY <2>2, StandStill, ServicesForward DEF external, ServiceInv
  <2>5. rec'[p].pc = "next" /\ \A x \in Procs \ {p} : rec'[x] = rec[x]
    BY <1>9, LeaveOrderInv DEF RecoverySaveFails
  <2>6. WorkerInv(p)'
    BY <2>5 DEF WorkerInv
  <2> QED
    BY <2>2, <2>3, <2>4, <2>5, <2>6, WorkerFrame DEF external
<1>10. CASE RecoveryEmits(p)
  <2>1. CASE w.order.status # "paid"
    BY <1>10, <2>1, LeaveOrderInv, IdleWorker DEF RecoveryEmits
  <2>2. CASE w.order.status = "paid"
    <3>1. w.cur \in Orders /\ Reached(w.cur, w.order.status) /\ Justified(w.cur, Row(w.order))
      BY <1>1, <1>10 DEF RecoveryEmits, WorkerInv
    <3>2. /\ rec'[p] = [rec[p] EXCEPT !.pc = "reserve", !.order = PullEvents(@),
                                      !.expected = "pending"]
          /\ \A x \in Procs \ {p} : rec'[x] = rec[x]
      BY <1>10, <2>2 DEF RecoveryEmits, RecBecomes, TypeOK
    <3>3. rec'[p].pc = "reserve" /\ rec'[p].cur = w.cur /\ rec'[p].order = PullEvents(w.order)
      BY <1>2, <3>2 DEF RecType
    <3>4. rec'[p].order.status = w.order.status /\ rec'[p].order.ref = w.order.ref
      BY <1>2, <3>3 DEF PullEvents, OrderType
    <3>5. Row(rec[p].order)' = Row(rec[p].order)
      BY <3>4 DEF Row, nullableString
    <3>6. Reached(rec[p].cur, rec[p].order.status)' /\ Justified(rec[p].cur, Row(rec[p].order))'
      BY <1>10, <3>1, <3>3, <3>4, <3>5 DEF RecoveryEmits, Reached, Justified, external
    <3>7. WorkerInv(p)'
      BY <2>2, <3>1, <3>3, <3>4, <3>6 DEF WorkerInv, FulfillmentOpen
    <3> QED
      BY <1>10, <3>2, <3>7, QuietWorker DEF RecoveryEmits
  <2> QED
    BY <2>1, <2>2
<1>11. CASE RecoveryReserves(p)
  <2>1. w.cur \in Orders /\ Reached(w.cur, w.order.status) /\ Justified(w.cur, Row(w.order))
        /\ FulfillmentOpen(w.order)
    BY <1>1, <1>11 DEF RecoveryReserves, WorkerInv
  <2>2. /\ rec'[p] = [rec[p] EXCEPT !.pc = "reserving"]
        /\ \A x \in Procs \ {p} : rec'[x] = rec[x]
    BY <1>11 DEF RecoveryReserves, RecGoto, RecBecomes, TypeOK
  <2>3. rec'[p].pc = "reserving" /\ rec'[p].cur = w.cur /\ rec'[p].order = w.order
    BY <1>2, <2>2 DEF RecType
  <2>4. Forward /\ RowsInv'
    BY <1>11, StandStill DEF RecoveryReserves
  <2>5. LateInv'
    BY <1>11, <2>4, Frame DEF LateInv, RecoveryReserves
  <2>6. Reached(w.cur, "paid")
    BY <2>1, FromThereFacts DEF Reached, FulfillmentOpen, FromThere
  <2>7. ServicesInv'
    BY <1>11, <2>1, <2>6
    DEF ServiceInv, ServicesInv, RecoveryReserves, SendReservation, Reached, TypeOK
  <2>8. WorkerInv(p)'
    <3>1. Row(rec[p].order)' = Row(rec[p].order)
      BY <2>3 DEF Row, nullableString
    <3>2. Reached(rec[p].cur, rec[p].order.status)' /\ Justified(rec[p].cur, Row(rec[p].order))'
      BY <1>11, <2>1, <2>3, <3>1 DEF RecoveryReserves, Reached, Justified
    <3> QED
      BY <2>1, <2>3, <3>2 DEF WorkerInv, FulfillmentOpen
  <2> QED
    BY <1>11, <2>2, <2>4, <2>5, <2>7, <2>8, WorkerFrame DEF RecoveryReserves
<1>12. CASE ReservationHeld(p) \/ ReservationFails(p)
  <2>1. w.cur \in Orders /\ Justified(w.cur, Row(w.order)) /\ FulfillmentOpen(w.order)
    BY <1>1, <1>12 DEF ReservationHeld, ReservationFails, WorkerInv
  <2>2. charge[w.cur] = "approved" /\ (StrictDecoding => Row(w.order).ref = ChargeRef)
    BY <2>1, FromThereFacts DEF Justified, FulfillmentOpen, Row
  <2>3. StrictDecoding => w.order.ref = ChargeRef
    BY <2>2 DEF Row, nullableString, NULL, ChargeRef
  <2>4. CASE ReservationHeld(p)
    <3>1. reserved[w.cur]
      BY <2>4 DEF ReservationHeld, ReserveSucceeds, ReserveAnswers
    <3>2. RecTransition(p, Complete(w.order))
      BY <2>1, <2>4 DEF ReservationHeld
    <3>3. /\ Complete(w.order) \in OrderType
          /\ Complete(w.order).status = "completed" /\ Complete(w.order).ref = w.order.ref
      BY <1>2, <2>3, TransitionTypes DEF Complete, record, OrderType
    <3>4. Justified(w.cur, Row(Complete(w.order)))
      BY <2>2, <2>3, <3>1, <3>3 DEF Justified, Row, nullableString, NoRef, ChargeRef
    <3>5. Complete(w.order).status \in FromThere(w.order.status) \ {"absent"}
      BY <2>1, <3>3 DEF FulfillmentOpen, FromThere
    <3> QED
      BY <2>1, <2>4, <3>2, <3>3, <3>4, <3>5, RecTransitionInv DEF ReservationHeld
  <2>5. CASE ReservationFails(p) /\ w.order.status = "paid"
    <3> DEFINE next == MarkFulfillmentPending(w.order)
    <3>1. RecTransition(p, next)
      BY <2>5 DEF ReservationFails
    <3>2. next \in OrderType /\ next.status = "fulfillment_pending" /\ next.ref = w.order.ref
      BY <1>2, <2>3, TransitionTypes DEF MarkFulfillmentPending, record, OrderType
    <3> HIDE DEF next
    <3>3. Justified(w.cur, Row(next))
      BY <2>2, <2>3, <3>2 DEF Justified, Row, nullableString, NoRef, ChargeRef
    <3>4. next.status \in FromThere(w.order.status) \ {"absent"}
      BY <2>5, <3>2 DEF FromThere
    <3> QED
      BY <2>1, <2>5, <3>1, <3>2, <3>3, <3>4, RecTransitionInv DEF ReservationFails
  <2>6. CASE ReservationFails(p) /\ w.order.status # "paid"
    BY <2>6, LeaveOrderInv, IdleWorker DEF ReservationFails
  <2> QED
    BY <1>12, <2>4, <2>5, <2>6
<1> QED
  BY <1>3, <1>4, <1>5, <1>6, <1>7, <1>8, <1>9, <1>10, <1>11, <1>12 DEF RecoverStep

\* So does every step of the services, the clock, the database and a crash.
LEMMA EnvironmentInvStep ==
  ASSUME TypeOK, ServiceInv,
         \/ \E o \in Orders : ProviderDecides(o) \/ InventoryReserves(o) \/ OrderAges(o)
         \/ \E p \in Procs : Crash(p)
         \/ \E stmt \in late : LateStatement(stmt)
  PROVE  ServiceInv'
<1>1. ASSUME Forward, RowsInv', ServicesInv', LateInv', UNCHANGED <<req, rec, chargeSent>>
      PROVE  ServiceInv'
  BY <1>1, Frame DEF ServiceInv, RequestsInv, WorkersInv
<1>2. \A o \in Orders : orders[o].status \in FromThere(orders[o].status)
  BY FromThereFacts DEF TypeOK, RowType
<1>3. ASSUME NEW o \in Orders, ProviderDecides(o) PROVE ServiceInv'
  <2>1. \A x \in Orders : charge'[x] = charge[x] \/ (charge[x] = "none" /\ chargeSent[x])
    BY <1>3 DEF ProviderDecides, TypeOK
  <2>2. Forward
    BY <1>2, <1>3, <2>1 DEF Forward, ProviderDecides
  <2>3. RowsInv' /\ LateInv'
    BY <1>3, <2>2, Frame DEF RowsInv, LateInv, ProviderDecides
  <2>4. ServicesInv'
    BY <1>3, <2>1 DEF ServiceInv, ServicesInv, ProviderDecides, Reached
  <2> QED
    BY <1>1, <1>3, <2>2, <2>3, <2>4 DEF ProviderDecides
<1>4. ASSUME NEW o \in Orders, InventoryReserves(o) PROVE ServiceInv'
  <2>1. \A x \in Orders : /\ reserved[x] => reserved'[x]
                          /\ reserved'[x] => reserved[x] \/ reserveSent[x]
    BY <1>4 DEF InventoryReserves, TypeOK
  <2>2. Forward
    BY <1>2, <1>4, <2>1 DEF Forward, InventoryReserves
  <2>3. RowsInv' /\ LateInv'
    BY <1>4, <2>2, Frame DEF RowsInv, LateInv, InventoryReserves
  <2>4. ServicesInv'
    BY <1>4, <2>1 DEF ServiceInv, ServicesInv, InventoryReserves, Reached
  <2> QED
    BY <1>1, <1>4, <2>2, <2>3, <2>4 DEF InventoryReserves
<1>5. ASSUME NEW o \in Orders, OrderAges(o) PROVE ServiceInv'
  <2>1. UNCHANGED <<orders, late, external, req, rec>>
    BY <1>5 DEF OrderAges
  <2>2. Forward /\ RowsInv'
    BY <2>1, StandStill DEF external
  <2>3. LateInv' /\ ServicesInv'
    BY <2>1, <2>2, Frame, ServicesForward DEF LateInv, ServiceInv
  <2> QED
    BY <1>1, <2>1, <2>2, <2>3 DEF external
<1>6. ASSUME NEW p \in Procs, Crash(p) PROVE ServiceInv'
  <2>1. UNCHANGED <<orders, external>> /\ Abandons(OpenStatements(p))
    BY <1>6 DEF Crash
  <2>2. Forward /\ RowsInv' /\ ServicesInv'
    BY <2>1, StandStill, ServicesForward DEF external, ServiceInv
  <2>3. \A stmt \in OpenStatements(p) : stmt \in StatementType /\ GoodStatement(stmt)
    <3>1. \A o \in Orders : req[o].pc \in {"save", "saving"} =>
            ReqStatement(o) \in StatementType /\ GoodStatement(ReqStatement(o))
      BY RequestStatementGood
    <3>2. rec[p].pc = "saving" =>
            RecStatement(p) \in StatementType /\ GoodStatement(RecStatement(p))
      BY StatementTypes DEF ServiceInv, WorkersInv, WorkerInv
    <3> QED
      BY <3>1, <3>2 DEF OpenStatements
  <2>4. LateInv'
    BY <2>1, <2>3, AbandonInv DEF external
  <2>5. RequestsInv'
    <3>1. ASSUME NEW o \in Orders PROVE RequestInv(o)'
      <4>1. CASE req[o].proc = p
        <5>1. req'[o].pc = "done"
          BY <1>6, <4>1 DEF Crash, DoneReq, IdleReq
        <5> QED
          BY <5>1 DEF RequestInv
      <4>2. CASE req[o].proc # p
        <5>1. req'[o] = req[o]
          BY <1>6, <4>2 DEF Crash
        <5> QED
          BY <2>1, <2>2, <5>1, Frame DEF external
      <4> QED
        BY <4>1, <4>2
    <3> QED
      BY <3>1 DEF RequestsInv
  <2>6. WorkersInv'
    <3>1. rec'[p].pc = "idle" /\ \A x \in Procs \ {p} : rec'[x] = rec[x]
      BY <1>6 DEF Crash, IdleRec, TypeOK
    <3>2. WorkerInv(p)'
      BY <3>1 DEF WorkerInv
    <3> QED
      BY <2>2, <3>1, <3>2, Frame DEF WorkersInv
  <2> QED
    BY <2>2, <2>4, <2>5, <2>6 DEF ServiceInv
<1>7. ASSUME NEW stmt \in late, LateStatement(stmt) PROVE ServiceInv'
  <2>1. stmt \in StatementType /\ GoodStatement(stmt)
    BY DEF TypeOK, ServiceInv, LateInv
  <2>2. UNCHANGED <<external, req, rec>> /\ orders' = Apply(orders, stmt) /\ late' \subseteq late
    BY <1>7 DEF LateStatement
  <2>3. RowsInv' /\ Forward
    BY <2>1, <2>2, ApplyGood DEF ServiceInv, external
  <2>4. LateInv' /\ ServicesInv'
    BY <2>2, <2>3, Frame, ServicesForward DEF LateInv, ServiceInv
  <2> QED
    BY <1>1, <2>2, <2>3, <2>4 DEF external
<1> QED
  BY <1>3, <1>4, <1>5, <1>6, <1>7

\* The inductive invariant holds initially.
LEMMA InitInv == Init => TypeOK /\ ServiceInv
<1> SUFFICES ASSUME Init PROVE TypeOK /\ ServiceInv
  OBVIOUS
<1>1. TypeOK
  <2>1. NoRow \in RowType /\ IdleReq \in ReqType /\ NoResponse \in ResponseType
    BY TransitionTypes
    DEF NoRow, RowType, IdleReq, ReqType, Branches, NoResponse, ResponseType
  <2>2. IdleRec \in RecType
    BY TransitionTypes DEF IdleRec, RecType, Statuses
  <2>3. << >> \in Seq(EventNames) /\ 0 \in 0..MaxCrashes
    BY MaxCrashesAssumption
  <2> QED
    BY <2>1, <2>2, <2>3 DEF Init, TypeOK, Decisions
<1>2. RowsInv
  BY FromThereFacts DEF Init, RowsInv, Justified, NoRow
<1>3. LateInv /\ ServicesInv
  BY DEF Init, LateInv, ServicesInv
<1>4. RequestsInv
  BY DEF Init, RequestsInv, RequestInv, IdleReq
<1>5. WorkersInv
  BY DEF Init, WorkersInv, WorkerInv, IdleRec
<1> QED
  BY <1>1, <1>2, <1>3, <1>4, <1>5 DEF ServiceInv

\* Every step, or none, keeps the inductive invariant.
LEMMA StepInv ==
  ASSUME ProviderContract, TypeOK, ServiceInv, [Next]_vars
  PROVE  (TypeOK /\ ServiceInv)'
<1> DEFINE Environment ==
             \/ \E o \in Orders : ProviderDecides(o) \/ InventoryReserves(o) \/ OrderAges(o)
             \/ \E p \in Procs : Crash(p)
             \/ \E stmt \in late : LateStatement(stmt)
<1>1. RequestsInv /\ WorkersInv
  BY DEF ServiceInv
<1>2. ASSUME NEW o \in Orders, RequestStep(o) PROVE (TypeOK /\ ServiceInv)'
  BY <1>1, <1>2, RequestTypeStep, RequestInvStep
<1>3. ASSUME NEW p \in Procs, RecoverStep(p) PROVE (TypeOK /\ ServiceInv)'
  BY <1>1, <1>3, RecoverTypeStep, RecoverInvStep
<1>4. CASE Environment
  BY <1>1, <1>4, EnvironmentTypeStep, EnvironmentInvStep
<1>5. CASE UNCHANGED vars
  <2>1. TypeOK'
    BY <1>5 DEF vars, external, TypeOK
  <2>2. Forward /\ RowsInv'
    BY <1>5, StandStill DEF vars, external
  <2>3. LateInv' /\ ServicesInv'
    BY <1>5, <2>2, Frame, ServicesForward DEF LateInv, ServiceInv, vars
  <2>4. RequestsInv' /\ WorkersInv'
    BY <1>5, <2>2, Frame DEF RequestsInv, WorkersInv, vars, external
  <2> QED
    BY <2>1, <2>2, <2>3, <2>4 DEF ServiceInv
<1> QED
  BY <1>2, <1>3, <1>4, <1>5 DEF Next

----
\* The inductive invariant holds in every reachable state, for every set of
\* orders and processes, page size, number of crashes and number of abandoned
\* statements: Init establishes it and every step of Execute, of the recovery
\* worker, of the services, of the database and of a crash keeps it.
THEOREM ServiceInvariant ==
  ASSUME ProviderContract
  PROVE  Spec => [](TypeOK /\ ServiceInv)
<1>1. TypeOK /\ ServiceInv /\ [Next]_vars => (TypeOK /\ ServiceInv)'
  BY StepInv
<1> QED
  BY <1>1, InitInv, PTL DEF Spec

\* Type correctness: the table, the statements on their way to it, requests and
\* workers keep to the values the code can give them.
THEOREM TypeCorrect ==
  ASSUME ProviderContract
  PROVE  Spec => []TypeOK
BY ServiceInvariant, PTL

\* MarkFailed is stored only for an order the provider decided not to charge,
\* and MarkPaid only for one it charged: the error classification of Execute and
\* of reconcileOrder never hides a charge behind a failed order, however late it
\* is decided and whatever the payment adapter makes of a body.
THEOREM PaymentTruth ==
  ASSUME ProviderContract
  PROVE  Spec => [](/\ FailedMeansNotCharged
                    /\ \A o \in Orders :
                         orders[o].status \in PaidStatuses => charge[o] = "approved")
<1>1. ServiceInv => /\ FailedMeansNotCharged
                    /\ \A o \in Orders :
                         orders[o].status \in PaidStatuses => charge[o] = "approved"
  BY DEF ServiceInv, RowsInv, Justified, FailedMeansNotCharged
<1> QED
  BY <1>1, ServiceInvariant, PTL

\* With the client of this repository, which accepts no approval without a
\* reference, a paid row also keeps the reference of its charge.
THEOREM PaidIsTraceable ==
  ASSUME ProviderContract, StrictDecoding
  PROVE  Spec => []PaidMeansCharged
<1>1. ServiceInv => PaidMeansCharged
  BY DEF ServiceInv, RowsInv, Justified, PaidMeansCharged
<1> QED
  BY <1>1, ServiceInvariant, PTL

\* Execute causes the payment side effect only behind a durable pending row, and
\* the row never disappears, crashes and abandoned statements included.
THEOREM ChargeIsTraceable ==
  ASSUME ProviderContract
  PROVE  Spec => []ChargeLeavesTrace
<1>1. ServiceInv => ChargeLeavesTrace
  BY FromThereFacts DEF ServiceInv, ServicesInv, Reached, ChargeLeavesTrace, Statuses
<1> QED
  BY <1>1, ServiceInvariant, PTL

\* Fulfillment: Reserve is called, by Execute and by fulfill, only for an order
\* that is durably paid, and Complete is stored only once the stock is held.
THEOREM FulfillmentTruth ==
  ASSUME ProviderContract
  PROVE  Spec => [](ReservationMeansPaid /\ CompletedMeansReserved)
<1>1. ServiceInv => ReservationMeansPaid
  BY DEF ServiceInv, ServicesInv, Reached, ReservationMeansPaid, PaidStatuses
<1>2. ServiceInv => CompletedMeansReserved
  BY DEF ServiceInv, RowsInv, Justified, CompletedMeansReserved
<1> QED
  BY <1>1, <1>2, ServiceInvariant, PTL
====
