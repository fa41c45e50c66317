---- MODULE PaymentClient ----
(***************************************************************************)
(* internal/paymentclient/client.go: how an answer of the Payment Service   *)
(* becomes the result of Charge or LookupCharge, and how the use case       *)
(* classifies an error (internal/usecase/ports.go).                         *)
(*                                                                          *)
(* An answer is an HTTP status code and what its body decodes to; code 0 is *)
(* a transport failure (time-out, lost connection, cancelled request).  An  *)
(* error is a number: the code of an HTTPStatusError, or Unclassified for   *)
(* an error that does not implement PaymentFailure.                         *)
(***************************************************************************)
EXTENDS Order, Integers

CONSTANT StrictDecoding

ASSUME StrictDecodingAssumption == StrictDecoding \in BOOLEAN

Bodies == {"approved", "approved_without_reference", "declined", "other", "garbled"}
Answer(code, body) == [code |-> code, body |-> body]
TransportFailure == Answer(0, "garbled")

NoError == 0
Unclassified == 1

Failed(err) == [err |-> err, status |-> "", ref |-> NoRef]

\* Bug: every 4xx is taken for a definitive rejection.
OutcomeMayHaveCommittedServerErrors(code) == code >= 500

\* Any code from 500, and 408, 409, 425 and 429, leaves the outcome open.
OutcomeMayHaveCommitted(code) == code >= 500 \/ code \in {408, 409, 425, 429}

\* Bug: an error that does not classify itself is taken for a rejection.
PaymentOutcomeClassifiedOnly(err) == OutcomeMayHaveCommitted(err)

PaymentOutcomeMayHaveCommitted(err) ==
  err = Unclassified \/ OutcomeMayHaveCommitted(err)

\* The fields a body carries; any JSON but a garbled one decodes.
RawResult(body) ==
  [err    |-> NoError,
   status |-> IF body = "approved_without_reference" THEN "approved" ELSE body,
   ref    |-> IF body = "approved" THEN ChargeRef ELSE NoRef]

\* Bug: an approval without a reference is accepted.
decodeWithoutReferenceCheck(body) ==
  IF body \in {"approved", "approved_without_reference", "declined"}
  THEN RawResult(body) ELSE Failed(Unclassified)

\* The client of this repository accepts two kinds of body and no other.  The
\* use case and the reconciler guard against an adapter that passes on whatever it
\* decoded; StrictDecoding = FALSE is such an adapter.
decodeChargeResponse(body) ==
  IF \/ body \in {"approved", "declined"}
     \/ ~StrictDecoding /\ body # "garbled"
  THEN RawResult(body)
  ELSE Failed(Unclassified)

Charge(answer) ==
  CASE answer.code = 0 -> Failed(Unclassified)
    [] answer.code # 0 /\ answer.code \notin 200..299 -> Failed(answer.code)
    [] OTHER -> decodeChargeResponse(answer.body)

\* A 404 is not an error: nothing was found, which settles nothing.
LookupCharge(answer) ==
  IF answer.code = 404
  THEN [found |-> FALSE, result |-> Failed(NoError)]
  ELSE LET result == Charge(answer)
       IN  [found |-> result.err = NoError, result |-> result]
====
