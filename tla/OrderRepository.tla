---- MODULE OrderRepository ----
(***************************************************************************)
(* The Postgres adapter, internal/repository/postgres/order_repo.go, as     *)
(* operators on a table: a function from order IDs to rows.  Every method   *)
(* is one SQL statement, executed atomically.  IDs are numbers in the     *)
(* order the primary key sorts them; 0 stands for the empty string, the     *)
(* cursor before the first ID.                                              *)
(***************************************************************************)
EXTENDS Order, Naturals, FiniteSets

\* The SQL NULL of payment_reference and the row of an ID never inserted.
NULL == "NULL"
NoRow == [status |-> "absent", ref |-> NULL]
RowType == [status : Statuses \cup {"absent"}, ref : {NULL, ChargeRef}]

\* Bug: the empty string is stored instead of NULL.
nullableStringDropped(ref) == ref

nullableString(ref) == IF ref = NoRef THEN NULL ELSE ref

Row(order) == [status |-> order.status, ref |-> nullableString(order.ref)]

\* The two statements that change a row, each a condition on the status the
\* row must have and the columns it sets.  The INSERT needs the ID unused: the
\* primary key refuses it otherwise.
Save(id, order) == [id |-> id, expected |-> "absent", row |-> Row(order)]

SaveIfStatus(id, order, expected) == [id |-> id, expected |-> expected, row |-> Row(order)]

\* Bug: the UPDATE's WHERE clause forgets the expected status.
MatchesAnyStatus(table, stmt) ==
  IF stmt.expected = "absent" THEN table[stmt.id].status = "absent"
  ELSE table[stmt.id].status # "absent"

\* Executing one: whether it affects a row, and the table it leaves.
Matches(table, stmt) == table[stmt.id].status = stmt.expected

Apply(table, stmt) ==
  IF Matches(table, stmt) THEN [table EXCEPT ![stmt.id] = stmt.row] ELSE table

FindByID(table, id) ==
  [status |-> table[id].status,
   ref    |-> IF table[id].ref = NULL THEN NoRef ELSE table[id].ref,
   events |-> << >>]

RecoverableStatuses == {"pending", "payment_unknown", "paid", "fulfillment_pending"}

\* Bug: the page is sorted in descending order.
ListRecoverableIDsDescending(table, afterID, olderThan, limit) ==
  LET found == {id \in olderThan :
                  id > afterID /\ table[id].status \in RecoverableStatuses}
  IN  {id \in found : Cardinality({other \in found : other > id}) < limit}

\* The page after the cursor: at most limit IDs, the smallest ones, of the
\* rows created before the cutoff (the set olderThan) that are not settled.
\* The page is used in ascending order, so a set is all it needs to be.
ListRecoverableIDs(table, afterID, olderThan, limit) ==
  LET found == {id \in olderThan :
                  id > afterID /\ table[id].status \in RecoverableStatuses}
  IN  {id \in found : Cardinality({other \in found : other < id}) < limit}

\* Bug: the list of the index that 001_orders.sql created, left behind when
\* that of ListRecoverableIDs grew.
StatusesAwaitingPayment == {"pending", "payment_unknown"}

\* The list of CountPending's own query.
PendingStatuses == {"pending", "payment_unknown", "paid", "fulfillment_pending"}

CountPending(table) ==
  Cardinality({id \in DOMAIN table : table[id].status \in PendingStatuses})

\* The gauge orders_pending_count at a scrape: not a number when the query fails.
PendingGauge(table, failed) ==
  [nan |-> failed, count |-> IF failed THEN 0 ELSE CountPending(table)]
====
