---- MODULE OrderLifecycle ----
(***************************************************************************)
(* What the service promises of an order, without requests, workers,        *)
(* messages or failures: the status moves forward along                     *)
(*                                                                          *)
(*   absent -> pending -> payment_unknown -> paid -> fulfillment_pending    *)
(*                                        -> failed         -> completed    *)
(*                                                                          *)
(* (any of the intermediate ones may be skipped), an order fails only when   *)
(* it was not and will not be charged, is paid only when the charge was      *)
(* approved and its reference kept, and is completed only when its stock is  *)
(* reserved, which nobody asks for before the order is paid.                 *)
(***************************************************************************)
CONSTANT Orders

VARIABLES status, charge, reserved, hasRef

lvars == <<status, charge, reserved, hasRef>>

Paid == {"paid", "fulfillment_pending", "completed"}

LInit ==
  /\ status = [o \in Orders |-> "absent"]
  /\ charge = [o \in Orders |-> "none"]
  /\ reserved = [o \in Orders |-> FALSE]
  /\ hasRef = [o \in Orders |-> FALSE]

Create(o) ==
  /\ status[o] = "absent"
  /\ status' = [status EXCEPT ![o] = "pending"]
  /\ UNCHANGED <<charge, reserved, hasRef>>

\* The provider decides once, and only about an order that is durable.
Decide(o, decision) ==
  /\ charge[o] = "none"
  /\ status[o] \in {"pending", "payment_unknown"}
  /\ charge' = [charge EXCEPT ![o] = decision]
  /\ UNCHANGED <<status, reserved, hasRef>>

Doubt(o) ==
  /\ status[o] = "pending"
  /\ status' = [status EXCEPT ![o] = "payment_unknown"]
  /\ UNCHANGED <<charge, reserved, hasRef>>

Pay(o) ==
  /\ status[o] \in {"pending", "payment_unknown"}
  /\ charge[o] = "approved"
  /\ status' = [status EXCEPT ![o] = "paid"]
  /\ hasRef' = [hasRef EXCEPT ![o] = TRUE]
  /\ UNCHANGED <<charge, reserved>>

Fail(o) ==
  /\ status[o] \in {"pending", "payment_unknown"}
  /\ charge[o] \in {"declined", "rejected"}
  /\ status' = [status EXCEPT ![o] = "failed"]
  /\ UNCHANGED <<charge, reserved, hasRef>>

\* The stock is taken for an order that is durably paid, once.
Reserve(o) ==
  /\ status[o] \in Paid
  /\ ~reserved[o]
  /\ reserved' = [reserved EXCEPT ![o] = TRUE]
  /\ UNCHANGED <<status, charge, hasRef>>

Delay(o) ==
  /\ status[o] = "paid"
  /\ status' = [status EXCEPT ![o] = "fulfillment_pending"]
  /\ UNCHANGED <<charge, reserved, hasRef>>

Finish(o) ==
  /\ status[o] \in {"paid", "fulfillment_pending"}
  /\ reserved[o]
  /\ status' = [status EXCEPT ![o] = "completed"]
  /\ UNCHANGED <<charge, reserved, hasRef>>

LNext ==
  \E o \in Orders :
    \/ Create(o) \/ Doubt(o) \/ Pay(o) \/ Fail(o)
    \/ Reserve(o) \/ Delay(o) \/ Finish(o)
    \/ \E decision \in {"approved", "declined", "rejected"} : Decide(o, decision)

LSpec == LInit /\ [][LNext]_lvars
====
