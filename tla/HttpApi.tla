---- MODULE HttpApi ----
(***************************************************************************)
(* What the client, the metrics, the log and the trace learn from the       *)
(* result of Execute: internal/httpapi/handler.go and the decorators of     *)
(* internal/usecase (metrics, logging, tracing).                            *)
(* A response holds the status of the order Execute returned ("absent" for  *)
(* a nil order) and the set of errors its error wraps (empty for nil).      *)
(***************************************************************************)
EXTENDS Order

ValidationErrors == {"ErrInvalidCustomerTier", "ErrEmptyCustomer",
                     "ErrEmptyOrder", "ErrInvalidOrderItem"}

Errors == ValidationErrors \cup
  {"ErrInvalidBody", "ErrPaymentUncertain", "ErrPaymentRejected",
   "ErrFulfillmentPending", "ErrConcurrentStateChange",
   "ErrOrderNotPending", "ErrOrderNotPaid", "ErrUnclassified"}

NoResponse == [given |-> FALSE, status |-> "absent", errs |-> {}]

ResponseType == [given : BOOLEAN, status : Statuses \cup {"absent"}, errs : SUBSET Errors]

isValidationError(errs) == errs \cap ValidationErrors # {}

\* The branches of the handler's switch that need an order to report.
Accepted(r) ==
  /\ r.errs \cap {"ErrPaymentUncertain", "ErrFulfillmentPending"} # {}
  /\ r.status # "absent"

Rejected(r) == "ErrPaymentRejected" \in r.errs /\ r.status # "absent"

\* The status code CreateOrder writes, 0 before it writes one.
StatusCode(r) ==
  IF ~r.given THEN 0
  ELSE IF r.errs = {} THEN IF r.status = "failed" THEN 402 ELSE 201
  ELSE IF Accepted(r) THEN 202
  ELSE IF Rejected(r) THEN 502
  ELSE IF isValidationError(r.errs) \/ "ErrInvalidBody" \in r.errs THEN 400
  ELSE 500

\* The status label under which orders_created_total counts the request;
\* IncOrdersCreated bounds it.
StatusLabel(status) == IF status \in {"success", "failure"} THEN status ELSE "failure"
CountedAs(r) ==
  CASE r.status = "absent" -> "not counted"
    [] r.errs = {} /\ r.status = "completed" -> StatusLabel("success")
    [] OTHER -> StatusLabel("failure")

\* Whether the request got past the handler, and so past the decorators; the
\* outcome LoggingInteractor logs for it; and whether TracingInteractor marks its
\* span as failed.
ReachesUsecase(r) == r.given /\ "ErrInvalidBody" \notin r.errs
LoggedAs(r) == IF r.errs = {} /\ r.status = "completed" THEN "success" ELSE "failure"
SpanFailed(r) == r.errs # {}
====
