---- MODULE ServiceState ----
(***************************************************************************)
(* The state the request path and the recovery worker share: the database,  *)
(* what the Payment and the Inventory Service did, and what was logged; and *)
(* the state each of the two keeps in memory.                               *)
(*                                                                          *)
(* A request is named by the order ID it draws, so Orders is both the set of *)
(* requests and the set of IDs.  A process serves requests and runs one      *)
(* recovery worker.                                                          *)
(***************************************************************************)
EXTENDS OrderRepository, PaymentClient, InventoryClient, HttpApi

CONSTANTS
  Orders,          \* the order IDs
  Procs,           \* the service processes
  NoProc,          \* no process
  BatchSize,       \* ReconcilerConfig.BatchSize
  MaxCrashes,      \* bound: how many process crashes a behaviour may have
  MaxLate,         \* bound: how many abandoned statements wait at a time
  UndecidedCodes,  \* codes with which the provider, or a proxy before it, may
                   \* answer whatever became of the charge
  RejectionCodes   \* codes that answer a charge the provider refused to make

ASSUME OrdersAssumption == Orders \subseteq Nat \ {0}
ASSUME ProcsAssumption == NoProc \notin Procs
ASSUME BatchSizeAssumption == BatchSize \in Nat \ {0}
ASSUME MaxCrashesAssumption == MaxCrashes \in Nat
ASSUME MaxLateAssumption == MaxLate \in Nat
ASSUME CodesAssumption ==
  /\ UndecidedCodes \subseteq 300..599
  /\ RejectionCodes \subseteq 400..499

VARIABLES
  orders,       \* the table: order ID -> row
  late,         \* statements whose caller is gone and that may still execute
  charge,       \* the provider's decision on the charge of an order
  chargeSent,   \* whether a charge request left the service
  reserved,     \* whether the Inventory Service holds the stock of an order
  reserveSent,  \* whether a reservation request left the service
  old,          \* the IDs created at least MinAge ago
  emitted,      \* the events logged for an order, in order
  req,          \* the request in flight for an order
  resp,         \* what its caller was answered
  rec,          \* the recovery worker of a process
  crashes       \* how many crashes happened

external == <<charge, chargeSent, reserved, reserveSent>>
vars == <<orders, late, external, old, emitted, req, resp, rec, crashes>>

Decisions == {"none", "approved", "declined", "rejected"}

NoOrder == [status |-> "pending", ref |-> NoRef, events |-> << >>]

StatementType == [id : Orders, expected : Statuses \cup {"absent"}, row : RowType]

\* A request: where Execute is, the process that runs it, its order, and the
\* transition saveTransition is to store with the branch of Execute it is in.
Branches == {"none", "ambiguous", "rejected", "declined", "approved", "invalid",
             "unfulfilled", "fulfilled"}
ReqType ==
  [pc : {"idle", "save", "created", "charge", "charging", "saving", "reload",
         "emit", "reserve", "reserving", "done"},
   proc : Procs \cup {NoProc}, order : OrderType, branch : Branches, next : OrderType]
IdleReq == [pc |-> "idle", proc |-> NoProc, order |-> NoOrder, branch |-> "none", next |-> NoOrder]
DoneReq == [IdleReq EXCEPT !.pc = "done"]

\* A recovery worker: where it is, its cursor, the rest of its page, the IDs
\* its cutoff admits, the order at hand and the status it read it with.
RecType ==
  [pc : {"idle", "list", "relist", "next", "find", "lookup", "saving", "emit",
         "reserve", "reserving"},
   afterID : Orders \cup {0}, ids : SUBSET Orders, cutoff : SUBSET Orders,
   cur : Orders \cup {0}, order : OrderType, expected : Statuses]
IdleRec == [pc |-> "idle", afterID |-> 0, ids |-> {}, cutoff |-> {},
            cur |-> 0, order |-> NoOrder, expected |-> "pending"]

\* The statement a request, or a worker, is about to execute.
ReqStatement(o) ==
  IF req[o].pc = "save" THEN Save(o, req[o].order)
  ELSE SaveIfStatus(o, req[o].next, req[o].order.status)
RecStatement(p) == SaveIfStatus(rec[p].cur, rec[p].order, rec[p].expected)

\* Type correctness: every variable stays in its set; in particular the table
\* holds only statuses the CHECK constraint of 002_fulfillment_pending.sql
\* admits and every page is a set of known IDs.
TypeOK ==
  /\ orders \in [Orders -> RowType]
  /\ late \subseteq StatementType
  /\ charge \in [Orders -> Decisions]
  /\ chargeSent \in [Orders -> BOOLEAN]
  /\ reserved \in [Orders -> BOOLEAN]
  /\ reserveSent \in [Orders -> BOOLEAN]
  /\ old \subseteq Orders
  /\ emitted \in [Orders -> Seq(EventNames)]
  /\ req \in [Orders -> ReqType]
  /\ resp \in [Orders -> ResponseType]
  /\ rec \in [Procs -> RecType]
  /\ crashes \in 0..MaxCrashes

Init ==
  /\ orders = [o \in Orders |-> NoRow]
  /\ late = {}
  /\ charge = [o \in Orders |-> "none"]
  /\ chargeSent = [o \in Orders |-> FALSE]
  /\ reserved = [o \in Orders |-> FALSE]
  /\ reserveSent = [o \in Orders |-> FALSE]
  /\ old = {}
  /\ emitted = [o \in Orders |-> << >>]
  /\ req = [o \in Orders |-> IdleReq]
  /\ resp = [o \in Orders |-> NoResponse]
  /\ rec = [p \in Procs |-> IdleRec]
  /\ crashes = 0

\* emitDomainEvents: the events an order still holds are logged.
emitDomainEvents(o, order) ==
  emitted' = [emitted EXCEPT ![o] = @ \o order.events]

\* A statement succeeds, or its caller gives up on it: it returns an error,
\* and the statement may have been executed, be executed later or never.
Executes(stmt) == orders' = Apply(orders, stmt) /\ UNCHANGED late
Abandons(stmts) ==
  \E open \in SUBSET stmts :
    late' = late \cup open /\ Cardinality(late') <= MaxLate
GivesUpOn(stmt) == Abandons({stmt}) /\ UNCHANGED orders

\* A reservation request leaves the service; its key is the order ID, so
\* sending it again changes nothing.
SendReservation(o) == reserveSent' = [reserveSent EXCEPT ![o] = TRUE]

\* The answers the provider may give to a charge (external).  Whatever it
\* decided, and before it decides, the answer may be lost, be one of the
\* undecided codes or be unreadable.
OpenAnswers ==
  {TransportFailure, Answer(200, "other"), Answer(200, "garbled")}
    \cup {Answer(code, "garbled") : code \in UndecidedCodes}

ChargeAnswers(o) ==
  OpenAnswers \cup
  CASE charge[o] = "approved" -> {Answer(200, "approved"), Answer(200, "approved_without_reference")}
    [] charge[o] = "declined" -> {Answer(200, "declined")} \cup {Answer(code, "garbled") : code \in RejectionCodes}
    [] charge[o] = "rejected" -> {Answer(code, "garbled") : code \in RejectionCodes}
    [] OTHER -> {}

\* The answers to a lookup (external): the record may not be visible yet.
LookupAnswers(o) ==
  OpenAnswers \cup {Answer(404, "garbled")} \cup
  CASE charge[o] = "approved" -> {Answer(200, "approved"), Answer(200, "approved_without_reference")}
    [] charge[o] = "declined" -> {Answer(200, "declined")}
    [] OTHER -> {}

\* The codes that answer a reservation (external): only a reservation that
\* was made is confirmed.
ReserveAnswers(o) == {0, 503} \cup (IF reserved[o] THEN {200} ELSE {})
====
