---- MODULE OrderTotal ----
(***************************************************************************)
(* Order.Total of internal/domain/order.go: the amount the use case charges, *)
(* computed in the machine's signed integers.  MaxInt stands for the largest *)
(* int64, 2^63 - 1; the arithmetic wraps in the same way at every width.     *)
(***************************************************************************)
EXTENDS Integers, Sequences

CONSTANTS MaxInt,    \* the largest machine integer; the smallest is -MaxInt - 1
          MaxItems   \* bound: how many items an order has

ASSUME OrderTotalAssumption == MaxInt \in Nat \ {0} /\ MaxItems \in Nat

VARIABLE items  \* the items of an order that NewOrder accepts

\* Two's complement: what is left of an exact result.
Modulus == 2 * (MaxInt + 1)
Wrap(n) == ((n + MaxInt + 1) % Modulus) - (MaxInt + 1)

\* What NewOrder lets through: a positive quantity and no negative price.
ValidItems == [quantity : 1..MaxInt, unitPrice : 0..MaxInt]

\* Bug: the total is the value of the last item.
TotalOfLast(list) ==
  IF list = << >> THEN 0 ELSE Wrap(list[Len(list)].unitPrice * list[Len(list)].quantity)

\* The loop of Total: what total is after n of the items.
RunningTotal(list) ==
  LET total[n \in 0..Len(list)] ==
        IF n = 0 THEN 0
        ELSE Wrap(total[n - 1] + Wrap(list[n].unitPrice * list[n].quantity))
  IN  total

Total(list) == RunningTotal(list)[Len(list)]

\* The order value, in numbers that do not wrap.
RunningValue(list) ==
  LET value[n \in 0..Len(list)] ==
        IF n = 0 THEN 0 ELSE value[n - 1] + list[n].unitPrice * list[n].quantity
  IN  value

Value(list) == RunningValue(list)[Len(list)]

TotalInit == items = << >>

AddItem(item) ==
  /\ Len(items) < MaxItems
  /\ items' = Append(items, item)

TotalNext == \E item \in ValidItems : AddItem(item)

TotalSpec == TotalInit /\ [][TotalNext]_items

\* "Total is the order value in cents": the amount charged is the value of the
\* items for every order the validation accepts.
TotalIsOrderValue == Total(items) = Value(items)

\* An amount that fits the machine's integers is charged exactly, whatever the
\* number of items and the order they come in, and no other amount is.
TotalIsValueWhenItFits == Total(items) = Value(items) <=> Value(items) <= MaxInt
====
