---- MODULE AnswerProofs ----
(***************************************************************************)
(* What callers, metrics, log and trace are told.  An answer is given once,   *)
(* at the end of Execute, and never corrected; AnswerInv says what stays true *)
(* of it while workers, late statements and the provider move on.             *)
(***************************************************************************)
EXTENDS TransitionProofs, FiniteSetTheorems

\* What is true of an answer from the moment it is given: it is the request's
\* last word, the row is at the status it reports or beyond, an answer without an error
\* is final, and one that reads as a failure stays free of a charge.
AnswerInv(o) ==
  LET r == resp[o]
  IN  IF r.given
      THEN /\ req[o].pc = "done"
           /\ Reached(o, r.status)
           /\ r.errs = {} => r.status \in {"failed", "completed"}
           /\ StatusCode(r) \in {400, 402, 500, 502} =>
                (chargeSent[o] => charge[o] \in NotCharged)
      ELSE r = NoResponse

\* Every request that has answered, answered the truth; the others said nothing yet.
AnswersInv == \A o \in Orders : AnswerInv(o)

\* The code of the answer Respond gives.
Code(status, errs) == StatusCode([given |-> TRUE, status |-> status, errs |-> errs])
----
\* An answer that is not touched stays true: the table only moves forward, a
\* decision not to charge is final and a request that is done sends no charge.
LEMMA AnswerFrame ==
  ASSUME TypeOK, Forward, NEW o \in Orders, AnswerInv(o), resp'[o] = resp[o],
         resp[o].given => req'[o].pc = "done" /\ chargeSent'[o] = chargeSent[o]
  PROVE  AnswerInv(o)'
<1>1. CASE ~resp[o].given
  BY <1>1 DEF AnswerInv
<1>2. CASE resp[o].given
  <2>1. Reached(o, resp[o].status) /\ resp[o].status \in Statuses \cup {"absent"}
    BY <1>2 DEF AnswerInv, TypeOK, ResponseType
  <2>2. orders'[o].status \in FromThere(resp[o].status)
    BY <2>1, FromThereFacts DEF Forward, Reached
  <2>3. Reached(o, resp[o].status)'
    BY <2>2 DEF Reached
  <2>4. charge[o] \in NotCharged => charge'[o] \in NotCharged
    BY DEF Forward, NotCharged
  <2>5. StatusCode(resp[o])' = StatusCode(resp[o])
    BY DEF StatusCode, Accepted, Rejected, isValidationError
  <2> QED
    BY <1>2, <2>3, <2>4, <2>5 DEF AnswerInv
<1> QED
  BY <1>1, <1>2

\* An answer that Respond gives is true if what it says is.
LEMMA RespondAnswer ==
  ASSUME TypeOK, NEW o \in Orders, NEW status \in Statuses \cup {"absent"}, NEW errs,
         Respond(o, status, errs), UNCHANGED <<orders, external>>,
         orders[o].status \in FromThere(status),
         errs = {} => status \in {"failed", "completed"},
         Code(status, errs) \in {400, 402, 500, 502} =>
           (chargeSent[o] => charge[o] \in NotCharged)
  PROVE  AnswerInv(o)'
<1> DEFINE r == [given |-> TRUE, status |-> status, errs |-> errs]
<1>1. req'[o].pc = "done" /\ resp'[o] = r
  BY Responded
<1>2. r.given = TRUE /\ r.status = status /\ r.errs = errs
  OBVIOUS
<1>3. StatusCode(resp[o])' = StatusCode(r)
  BY <1>1 DEF StatusCode, Accepted, Rejected, isValidationError
<1>4. StatusCode(r) \in {400, 402, 500, 502} => (chargeSent[o] => charge[o] \in NotCharged)
  BY DEF Code
<1> HIDE DEF r
<1>5. Reached(o, resp[o].status)'
  BY <1>1, <1>2 DEF Reached
<1> QED
  BY <1>1, <1>2, <1>3, <1>4, <1>5 DEF AnswerInv, external

\* A request that can still step has not been answered.
LEMMA UnansweredStep ==
  ASSUME TypeOK, NEW o \in Orders, AnswerInv(o), req[o].pc # "done"
  PROVE  ~resp[o].given /\ resp[o] = NoResponse
BY DEF AnswerInv, NoResponse

\* The codes of the answers Execute can end with after it charged: whatever is
\* not accepted (202) or completed (201) comes from a branch that the provider's
\* refusal selected.
LEMMA AnswerCodes ==
  ASSUME NEW branch \in Branches \ {"none"}, NEW status \in Statuses
  PROVE  /\ Code(status, ConflictErrors(branch)) = 202
         /\ branch \notin {"rejected", "declined"} =>
              Code(status, SaveErrors(branch)) = 202
         /\ branch \in {"ambiguous", "invalid", "unfulfilled"} =>
              Code(status, StoredErrors(branch)) = 202
         /\ branch = "fulfilled" =>
              Code("completed", StoredErrors(branch)) = 201
         /\ ConflictErrors(branch) # {} /\ SaveErrors(branch) # {}
         /\ branch \notin {"declined", "approved", "fulfilled"} => StoredErrors(branch) # {}
<1>1. status # "absent"
  BY DEF Statuses
<1>2. ConflictErrors(branch) \cap {"ErrPaymentUncertain", "ErrFulfillmentPending"} # {}
  BY DEF ConflictErrors
<1>3. SaveErrors(branch) # {} /\
      (branch \notin {"rejected", "declined"} =>
         SaveErrors(branch) \cap {"ErrPaymentUncertain", "ErrFulfillmentPending"} # {})
  BY DEF SaveErrors, Branches
<1>4. /\ branch \notin {"declined", "approved", "fulfilled"} => StoredErrors(branch) # {}
      /\ branch \in {"ambiguous", "invalid", "unfulfilled"} =>
           StoredErrors(branch) \cap {"ErrPaymentUncertain", "ErrFulfillmentPending"} # {}
      /\ branch = "fulfilled" => StoredErrors(branch) = {}
  BY DEF StoredErrors, Branches
<1>5. ASSUME NEW errs, errs \cap {"ErrPaymentUncertain", "ErrFulfillmentPending"} # {}
      PROVE  Code(status, errs) = 202 /\ errs # {}
  BY <1>1, <1>5 DEF Code, StatusCode, Accepted
<1>6. Code("completed", {}) = 201
  BY DEF Code, StatusCode
<1> QED
  BY <1>2, <1>3, <1>4, <1>5, <1>6

\* Every step of Execute keeps the answer of its own request true.
LEMMA RequestAnswerStep ==
  ASSUME TypeOK, ServiceInv, TransitionInv, NEW o \in Orders, AnswerInv(o), RequestStep(o)
  PROVE  AnswerInv(o)'
<1>1. /\ RequestInv(o) /\ RequestCarries(o) /\ req[o] \in ReqType
      /\ req[o].order.status \in Statuses /\ req[o].next.status \in Statuses
      /\ orders[o].status \in Statuses \cup {"absent"}
  BY OrderFields DEF ServiceInv, RequestsInv, TransitionInv, TypeOK, ReqType, RowType
<1>2. req[o].pc # "done"
  BY DEF RequestStep, RejectRequest, AcceptRequest, SavePending, SavePendingFails, EmitCreated,
         SubmitCharge, ChargeReturns, SaveTransition, SaveTransitionConflict,
         SaveTransitionFails, Reload, ReloadFails, EmitPaid, EmitAndReturn, SubmitReservation,
         ReserveReturns
<1>3. ~resp[o].given /\ resp[o] = NoResponse
  BY <1>2, UnansweredStep
<1>4. ASSUME resp' = resp PROVE AnswerInv(o)'
  BY <1>3, <1>4 DEF AnswerInv
<1>5. "absent" \in Statuses \cup {"absent"} /\ orders[o].status \in FromThere("absent")
  BY <1>1 DEF FromThere
<1>6. ASSUME NEW q \in Requests, RejectRequest(o, q) PROVE AnswerInv(o)'
  <2>1. ~chargeSent[o]
    BY <1>1, <1>6 DEF RejectRequest, RequestInv
  <2> QED
    BY <1>5, <1>6, <2>1, RespondAnswer DEF RejectRequest
<1>7. CASE SavePendingFails(o)
  <2>1. ~chargeSent[o]
    BY <1>1, <1>7 DEF SavePendingFails, RequestInv
  <2>2. /\ Respond(o, "absent", {"ErrUnclassified"})
        /\ UNCHANGED <<orders, external>>
    BY <1>7 DEF SavePendingFails, GivesUpOn
  <2>3. {"ErrUnclassified"} # {}
    OBVIOUS
  <2> QED
    BY <1>5, <2>1, <2>2, <2>3, RespondAnswer
<1>8. CASE ChargeReturns(o)
  <2>1. PICK answer \in ChargeAnswers(o) :
          BeginTransition(o, Branch(Charge(answer)), Charge(answer).ref)
    BY <1>8 DEF ChargeReturns
  <2>2. Charge(answer).ref \in Refs
    BY AnswerTypes
  <2> QED
    BY <1>4, <1>8, <2>1, <2>2, ChargeBranches, BeginTransitionCarries DEF ChargeReturns
<1>9. CASE ReserveReturns(o)
  <2>1. PICK code \in ReserveAnswers(o) :
          BeginTransition(o, IF ReserveSucceeds(code) THEN "fulfilled" ELSE "unfulfilled", NoRef)
    BY <1>9 DEF ReserveReturns
  <2>2. NoRef \in Refs
    BY DEF Refs
  <2> QED
    BY <1>4, <1>9, <2>1, <2>2, BeginTransitionCarries DEF ReserveReturns
<1>10. ASSUME req[o].pc \in {"saving", "reload", "emit"}
       PROVE  /\ req[o].branch \in Branches \ {"none"}
              /\ orders[o].status \in FromThere(req[o].order.status)
              /\ req[o].branch \in {"rejected", "declined"} => charge[o] \in NotCharged
  BY <1>1, <1>10 DEF RequestInv, ReqType, Reached
<1>11. CASE SaveTransitionFails(o)
  <2>1. /\ Respond(o, req[o].order.status, SaveErrors(req[o].branch))
        /\ UNCHANGED <<orders, external>> /\ req[o].pc = "saving"
    BY <1>11 DEF SaveTransitionFails, GivesUpOn
  <2> QED
    BY <1>1, <1>10, <2>1, AnswerCodes, RespondAnswer
<1>12. CASE ReloadFails(o)
  <2>1. /\ Respond(o, req[o].order.status, ConflictErrors(req[o].branch))
        /\ UNCHANGED <<orders, external>> /\ req[o].pc = "reload"
    BY <1>12 DEF ReloadFails
  <2> QED
    BY <1>1, <1>10, <2>1, AnswerCodes, RespondAnswer
<1>13. CASE Reload(o)
  <2>1. /\ Respond(o, orders[o].status, ConflictErrors(req[o].branch))
        /\ UNCHANGED <<orders, external>> /\ req[o].pc = "reload"
    BY <1>13 DEF Reload, FindByID
  <2>2. orders[o].status \in Statuses
    <3>1. \A s \in Statuses : FromThere(s) \subseteq Statuses
      BY DEF FromThere, Statuses
    <3> QED
      BY <1>1, <1>10, <2>1, <3>1
  <2>3. orders[o].status \in FromThere(orders[o].status)
    BY <2>2, FromThereFacts
  <2> QED
    BY <1>10, <2>1, <2>2, <2>3, AnswerCodes, RespondAnswer
<1>14. CASE EmitAndReturn(o)
  <2>1. /\ Respond(o, req[o].next.status, StoredErrors(req[o].branch))
        /\ UNCHANGED <<orders, external>> /\ req[o].pc = "emit" /\ req[o].branch # "approved"
    BY <1>14 DEF EmitAndReturn
  <2>2. orders[o].status \in FromThere(req[o].next.status)
    BY <1>1, <2>1 DEF RequestInv, Reached
  <2>3. /\ req[o].branch = "declined" => req[o].next.status = "failed"
        /\ req[o].branch = "fulfilled" => req[o].next.status = "completed"
    BY <1>1, <2>1 DEF RequestCarries
  <2>4. req[o].branch \in {"ambiguous", "invalid", "unfulfilled", "rejected", "declined", "fulfilled"}
    BY <1>10, <2>1 DEF Branches
  <2>5. StoredErrors(req[o].branch) = {} => req[o].next.status \in {"failed", "completed"}
    BY <1>1, <1>10, <2>1, <2>3, <2>4, AnswerCodes
  <2>6. Code(req[o].next.status, StoredErrors(req[o].branch)) \in {400, 402, 500, 502} =>
          charge[o] \in NotCharged
    BY <1>1, <1>10, <2>1, <2>3, <2>4, AnswerCodes
  <2> QED
    BY <1>1, <2>1, <2>2, <2>5, <2>6, RespondAnswer
<1>15. ASSUME \/ \E p \in Procs, q \in Requests : AcceptRequest(o, p, q)
              \/ SavePending(o) \/ EmitCreated(o) \/ SubmitCharge(o) \/ SaveTransition(o)
              \/ SaveTransitionConflict(o) \/ EmitPaid(o) \/ SubmitReservation(o)
       PROVE  resp' = resp
  BY <1>15 DEF AcceptRequest, SavePending, EmitCreated, SubmitCharge, SaveTransition,
               SaveTransitionConflict, EmitPaid, SubmitReservation, Goto
<1> QED
  BY <1>4, <1>6, <1>7, <1>8, <1>9, <1>11, <1>12, <1>13, <1>14, <1>15 DEF RequestStep

\* Every step of the service keeps every answer true.
LEMMA StepAnswers ==
  ASSUME TypeOK, ServiceInv, TransitionInv, AnswersInv, [Next]_vars
  PROVE  AnswersInv'
<1>1. Forward
  BY StepForward
<1>2. ASSUME NEW o \in Orders, RequestStep(o) PROVE AnswersInv'
  <2>1. AnswerInv(o)'
    BY <1>2, RequestAnswerStep DEF AnswersInv
  <2>2. ASSUME NEW x \in Orders \ {o} PROVE AnswerInv(x)'
    <3>1. req'[x] = req[x] /\ resp'[x] = resp[x] /\ chargeSent'[x] = chargeSent[x]
      BY <1>2, RequestTouches
    <3>2. AnswerInv(x) /\ (resp[x].given => req[x].pc = "done")
      BY DEF AnswersInv, AnswerInv
    <3> QED
      BY <1>1, <3>1, <3>2, AnswerFrame
  <2> QED
    BY <2>1, <2>2 DEF AnswersInv
<1>3. ASSUME UNCHANGED <<resp, chargeSent>>,
             \A x \in Orders : req'[x] = req[x] \/ req'[x].pc = "done"
      PROVE  AnswersInv'
  <2>1. ASSUME NEW x \in Orders PROVE AnswerInv(x)'
    <3>1. AnswerInv(x) /\ (resp[x].given => req[x].pc = "done")
      BY DEF AnswersInv, AnswerInv
    <3> QED
      BY <1>1, <1>3, <3>1, AnswerFrame
  <2> QED
    BY <2>1 DEF AnswersInv
<1>4. ASSUME NEW p \in Procs, RecoverStep(p) PROVE UNCHANGED <<req, resp, chargeSent>>
  BY <1>4
  DEF RecoverStep, RunOnce, ListPage, ListFirstPage, ListFails, NextOrder, EndBatch, FindOrder,
      FindFails, LookupSettles, LookupLeavesOpen, RecoverySaves, RecoveryLosesRace,
      RecoverySaveFails, RecoveryEmits, RecoveryReserves, ReservationHeld, ReservationFails,
      external
<1>5. ASSUME \/ \E o \in Orders : ProviderDecides(o) \/ InventoryReserves(o) \/ OrderAges(o)
             \/ \E stmt \in late : LateStatement(stmt)
             \/ UNCHANGED vars
      PROVE  UNCHANGED <<req, resp, chargeSent>>
  BY <1>5 DEF ProviderDecides, InventoryReserves, OrderAges, LateStatement, vars, external
<1>6. ASSUME NEW p \in Procs, Crash(p)
      PROVE  /\ UNCHANGED <<resp, chargeSent>>
             /\ \A x \in Orders : req'[x] = req[x] \/ req'[x].pc = "done"
  BY <1>6 DEF Crash, DoneReq, IdleReq, external
<1> QED
  BY <1>2, <1>3, <1>4, <1>5, <1>6 DEF Next

\* No answer is given initially.
LEMMA InitAnswers == Init => AnswersInv
BY DEF Init, AnswersInv, AnswerInv, NoResponse

----
\* Every answer stays true for ever after it was given.
THEOREM AnswerInvariant ==
  ASSUME ProviderContract
  PROVE  Spec => [](TypeOK /\ ServiceInv /\ AnswersInv)
<1> DEFINE Inv == TypeOK /\ ServiceInv /\ TransitionInv
<1>1. Spec => []Inv
  BY TransitionInvariant
<1>2. Inv /\ AnswersInv /\ [Next]_vars => AnswersInv'
  BY StepAnswers
<1> QED
  BY <1>1, <1>2, InitAnswers, PTL DEF Spec

\* What the handler reports of an order is never ahead of the table: the row is at
\* the reported status or beyond, and a reported success is a completed order with
\* its stock held, for the caller and for the metrics.
THEOREM AnswersAreTrue ==
  ASSUME ProviderContract
  PROVE  Spec => [](ReportedStatusWasStored /\ SuccessMeansCompleted)
<1>1. AnswersInv => ReportedStatusWasStored
  BY DEF AnswersInv, AnswerInv, ReportedStatusWasStored, Reached
<1>2. ASSUME TypeOK, ServiceInv, AnswersInv PROVE SuccessMeansCompleted
  <2> SUFFICES ASSUME NEW o \in Orders,
                      StatusCode(resp[o]) = 201 \/ CountedAs(resp[o]) = "success"
               PROVE  orders[o].status = "completed" /\ reserved[o]
    BY DEF SuccessMeansCompleted
  <2>1. AnswerInv(o) /\ Justified(o, orders[o])
    BY <1>2 DEF AnswersInv, ServiceInv, RowsInv
  <2>2. resp[o].given /\ resp[o].errs = {} /\ resp[o].status # "failed"
    BY <2>1 DEF StatusCode, CountedAs, StatusLabel, AnswerInv, NoResponse
  <2>3. resp[o].status = "completed" /\ Reached(o, "completed")
    BY <2>1, <2>2 DEF AnswerInv
  <2>4. orders[o].status = "completed"
    BY <2>3 DEF Reached, FromThere
  <2> QED
    BY <2>1, <2>4 DEF Justified
<1> QED
  BY <1>1, <1>2, AnswerInvariant, PTL

\* "Callers must not present this as a decline": whoever got 400, 402, 500 or
\* 502 is not charged and never will be, however late the provider decides.
THEOREM FailuresAreFree ==
  ASSUME ProviderContract
  PROVE  Spec => []FailureMeansNotCharged
<1>1. ASSUME AnswersInv PROVE FailureMeansNotCharged
  <2> SUFFICES ASSUME NEW o \in Orders, StatusCode(resp[o]) \in {400, 402, 500, 502}
               PROVE  chargeSent[o] => charge[o] \in NotCharged
    BY DEF FailureMeansNotCharged
  <2>1. AnswerInv(o) /\ resp[o].given
    BY <1>1 DEF AnswersInv, StatusCode
  <2> QED
    BY <2>1 DEF AnswerInv
<1> QED
  BY <1>1, AnswerInvariant, PTL

\* Handler, metrics, logging and tracing, which read the result of Execute
\* independently, tell one story of every request.
THEOREM OneStory ==
  ASSUME ProviderContract
  PROVE  Spec => []ObserversAgree
<1>1. ASSUME TypeOK, AnswersInv PROVE ObserversAgree
  <2> SUFFICES ASSUME NEW o \in Orders, ReachesUsecase(resp[o])
               PROVE  LET r == resp[o]
                      IN  /\ StatusCode(r) = 201 <=> LoggedAs(r) = "success"
                          /\ CountedAs(r) = "success" <=> LoggedAs(r) = "success"
                          /\ SpanFailed(r) <=> StatusCode(r) \notin {201, 402}
                          /\ r.errs = {} => r.status # "absent"
    BY DEF ObserversAgree
  <2> DEFINE r == resp[o]
  <2>1. r.given /\ (r.errs = {} => r.status \in {"failed", "completed"})
    BY <1>1 DEF AnswersInv, AnswerInv, ReachesUsecase
  <2> HIDE DEF r
  <2>2. CASE r.errs = {}
    BY <2>1, <2>2 DEF StatusCode, LoggedAs, CountedAs, StatusLabel, SpanFailed, r
  <2>3. CASE r.errs # {}
    BY <2>1, <2>3 DEF StatusCode, LoggedAs, CountedAs, StatusLabel, SpanFailed, r
  <2> QED
    BY <2>2, <2>3 DEF r
<1> QED
  BY <1>1, AnswerInvariant, PTL

\* CountPending is authoritative: with finitely many orders, a gauge at zero
\* means that every stored or charged order is settled, and truthfully so.
THEOREM GaugeIsAuthoritative ==
  ASSUME ProviderContract, IsFiniteSet(Orders)
  PROVE  Spec => []GaugeAtZeroIsSettled
<1>1. ASSUME TypeOK, ServiceInv PROVE GaugeAtZeroIsSettled
  <2> DEFINE open == {id \in DOMAIN orders : orders[id].status \in PendingStatuses}
  <2> SUFFICES ASSUME CountPending(orders) = 0, NEW o \in Orders,
                      orders[o].status # "absent" \/ chargeSent[o]
               PROVE  \/ orders[o].status = "completed" /\ charge[o] = "approved" /\ reserved[o]
                      \/ orders[o].status = "failed" /\ charge[o] \in NotCharged
    BY DEF GaugeAtZeroIsSettled, PendingGauge
  <2>1. open = {}
    <3>1. open \subseteq Orders
      BY <1>1 DEF TypeOK
    <3>2. IsFiniteSet(open)
      BY <3>1, FS_Subset
    <3>3. Cardinality(open) = 0
      BY DEF CountPending
    <3> QED
      BY <3>2, <3>3, FS_EmptySet
  <2>2. orders[o].status \notin PendingStatuses
    BY <1>1, <2>1 DEF TypeOK
  <2>3. orders[o].status \in {"absent", "failed", "completed"}
    BY <1>1, <2>2 DEF TypeOK, RowType, Statuses, PendingStatuses
  <2>4. orders[o].status # "absent"
    BY <1>1, FromThereFacts DEF ServiceInv, ServicesInv, Reached, Statuses
  <2>5. Justified(o, orders[o])
    BY <1>1 DEF ServiceInv, RowsInv
  <2> QED
    BY <2>3, <2>4, <2>5, FromThereFacts DEF Justified
<1> QED
  BY <1>1, ServiceInvariant, PTL
====
