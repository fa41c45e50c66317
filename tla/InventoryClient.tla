---- MODULE InventoryClient ----
(***************************************************************************)
(* internal/inventoryclient/client.go: Reserve succeeds exactly on a 2xx    *)
(* answer.  Code 0 is a transport failure.                                  *)
(***************************************************************************)
EXTENDS Naturals

\* Bug: any answer is taken for a reservation.
ReserveSucceedsOnAnyAnswer(code) == code # 0

ReserveSucceeds(code) == code \in 200..299
====
