---- MODULE OrderTotalProofs ----
(***************************************************************************)
(* What Order.Total computes, for every width of the machine's integers and  *)
(* any number of items: the order value, wrapped once.                       *)
(*                                                                           *)
(* Total is a loop, and what a loop computes is an induction over its rounds. *)
(* The induction is an appeal to the smallest round that would be wrong, a    *)
(* member of a set of naturals.                                              *)
(***************************************************************************)
EXTENDS OrderTotal, TLAPS, WellFoundedInduction

\* A set of naturals that has a member has a smallest one.
LEMMA SmallestRound ==
  ASSUME NEW S \in SUBSET Nat, S # {}
  PROVE  \E m \in S : \A n \in S : m <= n
<1> DEFINE less == OpToRel(<, Nat)
<1>1. IsWellFoundedOn(less, Nat)
  BY NatLessThanWellFounded, Zenon
<1>2. \A n, m \in Nat : n < m => <<n, m>> \in less
  BY DEF OpToRel
<1> HIDE DEF less
<1>3. PICK m \in S : \A n \in S : <<n, m>> \notin less
  BY <1>1, WFMin, Zenon
<1>4. ASSUME NEW n \in S PROVE m <= n
  <2>1. n \in Nat /\ m \in Nat
    OBVIOUS
  <2>2. ~(n < m)
    BY <1>2, <1>3, <2>1
  <2> QED
    BY <2>1, <2>2
<1> QED
  BY <1>4

\* Induction over the rounds of a loop, on the set of the rounds that are right.
LEMMA RoundInduction ==
  ASSUME NEW N \in Nat, NEW Right, 0 \in Right,
         \A n \in 1..N : n - 1 \in Right => n \in Right
  PROVE  \A n \in 0..N : n \in Right
<1> DEFINE wrong == {n \in 0..N : n \notin Right}
<1> SUFFICES ASSUME wrong # {} PROVE FALSE
  OBVIOUS
<1>1. wrong \in SUBSET Nat
  OBVIOUS
<1>2. PICK m \in wrong : \A n \in wrong : m <= n
  BY <1>1, SmallestRound
<1>3. m \in 1..N /\ m - 1 \in 0..N /\ ~(m <= m - 1)
  OBVIOUS
<1>4. m - 1 \in Right
  BY <1>2, <1>3
<1> QED
  BY <1>3, <1>4

\* A loop with one number for its state has a history: what the number is after
\* each round, given what a round makes of it.
LEMMA LoopHistory ==
  ASSUME NEW N \in Nat, NEW round \in [1..N -> [Int -> Int]]
  PROVE  \E f \in [0..N -> Int] :
           f[0] = 0 /\ \A n \in 1..N : f[n] = round[n][f[n - 1]]
<1> DEFINE History(k, f) == /\ f \in [0..k -> Int] /\ f[0] = 0
                            /\ \A n \in 1..k : f[n] = round[n][f[n - 1]]
           Right == {k \in 0..N : \E f : History(k, f)}
<1>1. 0 \in Right
  <2>1. History(0, [i \in 0..0 |-> 0])
    OBVIOUS
  <2>2. 0 \in 0..N
    OBVIOUS
  <2> HIDE DEF History
  <2> QED
    BY <2>1, <2>2
<1>2. ASSUME NEW k \in 1..N, k - 1 \in Right PROVE k \in Right
  <2>1. PICK f : History(k - 1, f)
    BY <1>2
  <2> DEFINE g == [i \in 0..k |-> IF i = k THEN round[k][f[k - 1]] ELSE f[i]]
  <2>2. k - 1 \in 0..(k - 1) /\ k \in Nat /\ f[k - 1] \in Int
    BY <2>1
  <2>3. round[k][f[k - 1]] \in Int
    BY <2>2
  <2>4. g \in [0..k -> Int]
    BY <2>1, <2>3
  <2>5. g[0] = 0
    BY <2>1
  <2>6. ASSUME NEW n \in 1..k PROVE g[n] = round[n][g[n - 1]]
    <3>1. CASE n = k
      BY <2>2, <3>1
    <3>2. CASE n # k
      <4>1. n \in 1..(k - 1) /\ n - 1 \in 0..k /\ n - 1 # k /\ n \in 0..k
        BY <3>2
      <4>2. g[n] = f[n] /\ g[n - 1] = f[n - 1]
        BY <3>2, <4>1
      <4>3. f[n] = round[n][f[n - 1]]
        BY <2>1, <4>1
      <4> HIDE DEF g
      <4> QED
        BY <4>2, <4>3
    <3> QED
      BY <3>1, <3>2
  <2> HIDE DEF g
  <2>7. History(k, g)
    BY <2>4, <2>5, <2>6
  <2> HIDE DEF History
  <2> QED
    BY <2>7
<1> HIDE DEF Right
<1>3. \A n \in 0..N : n \in Right
  BY <1>1, <1>2, RoundInduction
<1>4. N \in 0..N
  OBVIOUS
<1> QED
  BY <1>3, <1>4 DEF Right

----
\* Division with remainder, which is what the remainder is known by.
LEMMA Remainder ==
  ASSUME NEW M \in Nat \ {0}, NEW q \in Int, NEW r \in 0..(M - 1)
  PROVE  (M * q + r) % M = r
<1>1. ASSUME NEW y \in Int, y = M * q + r PROVE y % M = r
  BY <1>1
<1> QED
  BY <1>1

LEMMA Division ==
  ASSUME NEW M \in Nat \ {0}, NEW n \in Int
  PROVE  /\ n \div M \in Int /\ n % M \in 0..(M - 1)
         /\ n = M * (n \div M) + (n % M)
<1>1. n \div M \in Int
  OBVIOUS
<1>2. n % M \in 0..(M - 1)
  OBVIOUS
<1>3. n = M * (n \div M) + (n % M)
  OBVIOUS
<1> QED
  BY <1>1, <1>2, <1>3

\* Wrapping gives a machine integer, and drops a multiple of the modulus.
LEMMA WrapFacts ==
  ASSUME NEW n \in Int
  PROVE  /\ Wrap(n) \in Int /\ -MaxInt - 1 <= Wrap(n) /\ Wrap(n) <= MaxInt
         /\ \E q \in Int : n = Wrap(n) + Modulus * q
<1> DEFINE y == n + MaxInt + 1
           q == y \div Modulus
           r == y % Modulus
<1>1. MaxInt \in Nat /\ Modulus \in Nat \ {0} /\ Modulus = 2 * (MaxInt + 1) /\ y \in Int
  BY OrderTotalAssumption DEF Modulus
<1>2. q \in Int /\ r \in 0..(Modulus - 1) /\ y = Modulus * q + r
  BY <1>1, Division
<1>3. Wrap(n) = r - (MaxInt + 1)
  BY DEF Wrap
<1>4. Modulus * q \in Int
  BY <1>1, <1>2
<1> DEFINE product == Modulus * q
<1> HIDE DEF q, r
<1>5. n = Wrap(n) + product
  <2>1. y = product + r /\ product \in Int
    BY <1>2, <1>4
  <2> HIDE DEF product
  <2> QED
    BY <1>1, <1>2, <1>3, <2>1
<1> QED
  BY <1>1, <1>2, <1>3, <1>5

\* Multiples of the modulus make no difference.
LEMMA WrapShift ==
  ASSUME NEW n \in Int, NEW k \in Int
  PROVE  Wrap(n + Modulus * k) = Wrap(n)
<1> DEFINE y == n + MaxInt + 1
           q == y \div Modulus
           r == y % Modulus
           z == (n + Modulus * k) + MaxInt + 1
<1>1. MaxInt \in Nat /\ Modulus \in Nat \ {0} /\ y \in Int
  BY OrderTotalAssumption DEF Modulus
<1>2. q \in Int /\ r \in 0..(Modulus - 1) /\ y = Modulus * q + r
  BY <1>1, Division
<1>3. Wrap(n) = r - (MaxInt + 1)
  BY DEF Wrap
<1>4. Wrap(n + Modulus * k) = (z % Modulus) - (MaxInt + 1)
  BY DEF Wrap
<1>5. z = Modulus * (q + k) + r
  <2>1. Modulus * (q + k) = Modulus * q + Modulus * k /\ Modulus * k \in Int /\ Modulus * q \in Int
    <3> HIDE DEF q
    <3> QED
      BY <1>1, <1>2
  <2>2. z = y + Modulus * k
    BY <1>1, <2>1
  <2> HIDE DEF q, r, y, z
  <2> QED
    BY <1>1, <1>2, <2>1, <2>2
<1>6. z % Modulus = r
  <2>1. q + k \in Int
    BY <1>2
  <2> HIDE DEF q, r, z
  <2> QED
    BY <1>1, <1>2, <1>5, <2>1, Remainder
<1> QED
  BY <1>3, <1>4, <1>6

\* So it does not matter whether the terms of a sum are wrapped before it is.
LEMMA WrapSum ==
  ASSUME NEW a \in Int, NEW b \in Int
  PROVE  Wrap(Wrap(a) + Wrap(b)) = Wrap(a + b)
<1>1. PICK p \in Int : a = Wrap(a) + Modulus * p
  BY WrapFacts
<1>2. PICK q \in Int : b = Wrap(b) + Modulus * q
  BY WrapFacts
<1>3. Wrap(a) \in Int /\ Wrap(b) \in Int /\ Modulus \in Nat
  BY WrapFacts, OrderTotalAssumption DEF Modulus
<1>4. a + b = (Wrap(a) + Wrap(b)) + Modulus * (p + q)
  <2>1. \A M \in Nat : M * (p + q) = M * p + M * q /\ M * p \in Int /\ M * q \in Int
    OBVIOUS
  <2> QED
    BY <1>1, <1>2, <1>3, <2>1
<1>5. p + q \in Int /\ Wrap(a) + Wrap(b) \in Int
  BY <1>3
<1> QED
  BY <1>4, <1>5, WrapShift

\* A machine integer is left as it is.
LEMMA WrapFits ==
  ASSUME NEW n \in Int, -MaxInt - 1 <= n, n <= MaxInt
  PROVE  Wrap(n) = n
<1>1. MaxInt \in Nat /\ Modulus = 2 * (MaxInt + 1)
  BY OrderTotalAssumption DEF Modulus
<1>2. n + MaxInt + 1 \in 0..(Modulus - 1)
  BY <1>1
<1>3. \A M \in Nat \ {0} : \A x \in 0..(M - 1) : x % M = x
  OBVIOUS
<1>4. (n + MaxInt + 1) % Modulus = n + MaxInt + 1
  BY <1>1, <1>2, <1>3
<1> QED
  BY <1>1, <1>4 DEF Wrap

----
\* The amount of an item, before it is wrapped.
Amount(item) == item.unitPrice * item.quantity

LEMMA AmountType ==
  ASSUME NEW item \in ValidItems
  PROVE  Amount(item) \in Nat
<1>1. item.unitPrice \in Nat /\ item.quantity \in Nat
  BY OrderTotalAssumption DEF ValidItems
<1>2. \A x, y \in Nat : x * y \in Nat
  OBVIOUS
<1> QED
  BY <1>1, <1>2 DEF Amount

\* RunningTotal is the history of the loop of Total.
LEMMA RunningTotalRounds ==
  ASSUME NEW list \in Seq(ValidItems)
  PROVE  /\ RunningTotal(list)[0] = 0
         /\ \A n \in 1..Len(list) :
              RunningTotal(list)[n] = Wrap(RunningTotal(list)[n - 1] + Wrap(Amount(list[n])))
<1> DEFINE N == Len(list)
           Loop(f) == [n \in 0..N |-> IF n = 0 THEN 0
                                      ELSE Wrap(f[n - 1] + Wrap(list[n].unitPrice * list[n].quantity))]
           round == [n \in 1..N |-> [t \in Int |-> Wrap(t + Wrap(Amount(list[n])))]]
<1>1. N \in Nat /\ \A n \in 1..N : Amount(list[n]) \in Int
  BY AmountType
<1>2. \A n \in 1..N : \A t \in Int : Wrap(t + Wrap(Amount(list[n]))) \in Int
  <2>1. \A x \in Int : Wrap(x) \in Int
    BY WrapFacts
  <2>2. \A x, y \in Int : x + y \in Int
    OBVIOUS
  <2> QED
    BY <1>1, <2>1, <2>2
<1>3. round \in [1..N -> [Int -> Int]]
  BY <1>2
<1>4. PICK f \in [0..N -> Int] : f[0] = 0 /\ \A n \in 1..N : f[n] = round[n][f[n - 1]]
  <2> HIDE DEF round
  <2> QED
    BY <1>1, <1>3, LoopHistory
<1>5. ASSUME NEW n \in 1..N
      PROVE  f[n] = Wrap(f[n - 1] + Wrap(list[n].unitPrice * list[n].quantity))
  <2>1. n - 1 \in 0..N
    BY <1>1
  <2>2. f[n - 1] \in Int
    BY <2>1
  <2> QED
    BY <1>4, <2>2 DEF Amount
<1>6. f = Loop(f)
  <2>1. \A n \in 0..N : n # 0 => n \in 1..N
    BY <1>1
  <2>2. \A n \in 0..N : f[n] = Loop(f)[n]
    BY <1>4, <1>5, <2>1
  <2> QED
    BY <2>2
<1>7. RunningTotal(list) = CHOOSE g : g = Loop(g)
  BY DEF RunningTotal
<1>8. RunningTotal(list) = Loop(RunningTotal(list))
  <2> HIDE DEF Loop
  <2> QED
    BY <1>6, <1>7
<1>9. 0 \in 0..N /\ \A n \in 1..N : n \in 0..N /\ n # 0
  BY <1>1
<1> QED
  BY <1>8, <1>9 DEF Amount

\* RunningValue is the history of the same loop in numbers that do not wrap.
LEMMA RunningValueRounds ==
  ASSUME NEW list \in Seq(ValidItems)
  PROVE  /\ RunningValue(list)[0] = 0
         /\ \A n \in 1..Len(list) :
              RunningValue(list)[n] = RunningValue(list)[n - 1] + Amount(list[n])
<1> DEFINE N == Len(list)
           Loop(f) == [n \in 0..N |-> IF n = 0 THEN 0
                                      ELSE f[n - 1] + list[n].unitPrice * list[n].quantity]
           round == [n \in 1..N |-> [t \in Int |-> t + Amount(list[n])]]
<1>1. N \in Nat /\ \A n \in 1..N : Amount(list[n]) \in Int
  BY AmountType
<1>2. \A n \in 1..N : \A t \in Int : t + Amount(list[n]) \in Int
  BY <1>1
<1>3. round \in [1..N -> [Int -> Int]]
  BY <1>2
<1>4. PICK f \in [0..N -> Int] : f[0] = 0 /\ \A n \in 1..N : f[n] = round[n][f[n - 1]]
  <2> HIDE DEF round
  <2> QED
    BY <1>1, <1>3, LoopHistory
<1>5. ASSUME NEW n \in 1..N
      PROVE  f[n] = f[n - 1] + list[n].unitPrice * list[n].quantity
  <2>1. n - 1 \in 0..N
    BY <1>1
  <2>2. f[n - 1] \in Int
    BY <2>1
  <2> QED
    BY <1>4, <2>2 DEF Amount
<1>6. f = Loop(f)
  <2>1. \A n \in 0..N : n # 0 => n \in 1..N
    BY <1>1
  <2>2. \A n \in 0..N : f[n] = Loop(f)[n]
    BY <1>4, <1>5, <2>1
  <2> QED
    BY <2>2
<1>7. RunningValue(list) = CHOOSE g : g = Loop(g)
  BY DEF RunningValue
<1>8. RunningValue(list) = Loop(RunningValue(list))
  <2> HIDE DEF Loop
  <2> QED
    BY <1>6, <1>7
<1>9. 0 \in 0..N /\ \A n \in 1..N : n \in 0..N /\ n # 0
  BY <1>1
<1> QED
  BY <1>8, <1>9 DEF Amount

----
\* What Total returns, for every list of valid items and every width: the order
\* value, wrapped once, though the loop wraps twice in every round.
THEOREM TotalIsWrappedValue ==
  ASSUME NEW list \in Seq(ValidItems)
  PROVE  Value(list) \in Nat /\ Total(list) = Wrap(Value(list))
<1> DEFINE N == Len(list)
           value == RunningValue(list)
           total == RunningTotal(list)
           Right == {n \in 0..N : value[n] \in Nat /\ total[n] = Wrap(value[n])}
<1>1. N \in Nat /\ \A n \in 1..N : Amount(list[n]) \in Nat
  BY AmountType
<1>2. 0 \in Right
  <2>1. value[0] = 0 /\ total[0] = 0
    BY RunningValueRounds, RunningTotalRounds
  <2>2. Wrap(0) = 0
    BY OrderTotalAssumption, WrapFits
  <2> QED
    BY <1>1, <2>1, <2>2
<1>3. ASSUME NEW n \in 1..N, n - 1 \in Right PROVE n \in Right
  <2>1. /\ value[n] = value[n - 1] + Amount(list[n])
        /\ total[n] = Wrap(total[n - 1] + Wrap(Amount(list[n])))
    BY RunningValueRounds, RunningTotalRounds
  <2>2. value[n - 1] \in Nat /\ total[n - 1] = Wrap(value[n - 1])
    BY <1>3
  <2>3. Wrap(Wrap(value[n - 1]) + Wrap(Amount(list[n]))) = Wrap(value[n - 1] + Amount(list[n]))
    <3>1. value[n - 1] \in Int /\ Amount(list[n]) \in Int
      BY <1>1, <2>2
    <3> HIDE DEF value
    <3> QED
      BY <3>1, WrapSum
  <2>4. value[n] \in Nat
    BY <1>1, <2>1, <2>2
  <2>5. n \in 0..N
    BY <1>1
  <2> HIDE DEF value, total
  <2> QED
    BY <2>1, <2>2, <2>3, <2>4, <2>5
<1>4. N \in 0..N
  BY <1>1
<1> HIDE DEF Right
<1>5. N \in Right
  BY <1>1, <1>2, <1>3, <1>4, RoundInduction
<1> QED
  BY <1>5 DEF Right, Total, Value

\* "Total is the order value in cents" is true of exactly the orders whose value
\* fits the machine's integers, whatever the width, the number of the items and
\* their order.
THEOREM TotalIsExactWhenItFits == TotalSpec => []TotalIsValueWhenItFits
<1>1. TotalInit => items \in Seq(ValidItems)
  BY DEF TotalInit
<1>2. items \in Seq(ValidItems) /\ [TotalNext]_items => (items \in Seq(ValidItems))'
  BY DEF TotalNext, AddItem
<1>3. ASSUME items \in Seq(ValidItems) PROVE TotalIsValueWhenItFits
  <2>1. Value(items) \in Nat /\ Total(items) = Wrap(Value(items))
    BY <1>3, TotalIsWrappedValue
  <2>2. Wrap(Value(items)) <= MaxInt /\ Wrap(Value(items)) \in Int
    BY <2>1, WrapFacts
  <2>3. Value(items) <= MaxInt => Wrap(Value(items)) = Value(items)
    BY <2>1, OrderTotalAssumption, WrapFits
  <2> QED
    BY <2>1, <2>2, <2>3 DEF TotalIsValueWhenItFits
<1> QED
  BY <1>1, <1>2, <1>3, PTL DEF TotalSpec
====
