---- MODULE MCOrderService ----
EXTENDS OrderService, TLC

Symmetry == Permutations(Procs)

\* What a crash of every process can leave behind of an order: no request, no
\* worker in the middle of one, the row in any status the services' decisions
\* allow.  Restarting from there leaves the recovery workers to themselves.
Leftovers ==
  {left \in [status : Statuses, decision : Decisions, reserved : BOOLEAN] :
     /\ left.status \in PaidStatuses => left.decision = "approved"
     /\ left.status = "failed" => left.decision \in {"declined", "rejected"}
     /\ left.reserved => left.status \in PaidStatuses
     /\ left.status = "completed" => left.reserved}

RestartInit ==
  \E left \in [Orders -> Leftovers] :
    /\ orders = [o \in Orders |->
                   [status |-> left[o].status,
                    ref |-> IF left[o].status \in PaidStatuses THEN ChargeRef ELSE NULL]]
    /\ late = {}
    /\ charge = [o \in Orders |-> left[o].decision]
    /\ chargeSent = [o \in Orders |-> left[o].status # "pending" \/ left[o].decision # "none"]
    /\ reserved = [o \in Orders |-> left[o].reserved]
    /\ reserveSent = [o \in Orders |->
                        left[o].reserved \/ left[o].status = "fulfillment_pending"]
    /\ old = {}
    /\ emitted = [o \in Orders |-> <<"order.created">>]
    /\ req = [o \in Orders |-> DoneReq]
    /\ resp = [o \in Orders |-> NoResponse]
    /\ rec = [p \in Procs |-> IdleRec]
    /\ crashes = 0

\* Only the calls for one order are ever sure to be answered: those for the
\* others may fail for ever.
CONSTANT Focus

RestartSpec ==
  /\ RestartInit /\ [][Next]_vars
  /\ WorkersRun /\ TimePasses /\ PagesListed /\ CallsAnswered(Focus)

\* The order whose calls are answered settles though every other order on the
\* worker's way may stay unresolved for ever: the cursor of RunOnce passes them
\* and wraps, with a page of one order.
FocusSettles == ChargeSettles(Focus)
====
