---- MODULE PagingProofs ----
(***************************************************************************)
(* The pages of the recovery worker.  ListRecoverableIDs ranks the orders it *)
(* finds by how many come before them; that a full page has exactly limit    *)
(* orders and that only the last page is shorter are facts about             *)
(* cardinalities, proved here for any finite set of orders.  From them: the  *)
(* batches of a worker sweep the table without a gap.                        *)
(***************************************************************************)
EXTENDS OrderServiceProofs, FiniteSetTheorems, WellFoundedInduction

\* The cursor's place between two steps of RunOnce: at the start when the first
\* page is asked for again, and never beyond what is left of the page.
SweepInv ==
  \A p \in Procs :
    /\ rec[p].pc = "relist" => rec[p].afterID = 0
    /\ \A id \in rec[p].ids : rec[p].afterID < id

----
\* A set of naturals that has a member has a smallest one.
LEMMA SmallestMember ==
  ASSUME NEW S \in SUBSET Nat, S # {}
  PROVE  \E m \in S : \A n \in S : m <= n
<1> DEFINE less == OpToRel(<, Nat)
<1>1. IsWellFoundedOn(less, Nat)
  BY NatLessThanWellFounded, Zenon
<1>2. \A n, m \in Nat : n < m => <<n, m>> \in less
  BY DEF OpToRel
<1> HIDE DEF less
<1>3. PICK m \in S : \A n \in S : <<n, m>> \notin less
  BY <1>1, WFMin, Zenon
<1>4. ASSUME NEW n \in S PROVE m <= n
  <2>1. n \in Nat /\ m \in Nat
    OBVIOUS
  <2>2. ~(n < m)
    BY <1>2, <1>3, <2>1
  <2> QED
    BY <2>1, <2>2
<1> QED
  BY <1>4

\* A finite one has a largest one, the member with the fewest above it.
LEMMA LargestMember ==
  ASSUME NEW S \in SUBSET Nat, IsFiniteSet(S), S # {}
  PROVE  \E m \in S : \A n \in S : n <= m
<1> DEFINE above(m) == {n \in S : m < n}
           counts == {Cardinality(above(m)) : m \in S}
<1>1. \A m \in S : IsFiniteSet(above(m)) /\ Cardinality(above(m)) \in Nat
  BY FS_Subset, FS_CardinalityType
<1>2. counts \in SUBSET Nat /\ counts # {}
  BY <1>1
<1>3. PICK c \in counts : \A d \in counts : c <= d
  BY <1>2, SmallestMember
<1>4. PICK m \in S : c = Cardinality(above(m))
  OBVIOUS
<1>5. ASSUME NEW n \in S, m < n PROVE FALSE
  <2>1. above(n) \in SUBSET above(m) /\ n \in above(m) /\ n \notin above(n)
    <3>1. \A k \in S : n < k => m < k
      BY <1>5
    <3>2. ~(n < n)
      OBVIOUS
    <3> QED
      BY <1>5, <3>1, <3>2
  <2>2. /\ Cardinality(above(n)) <= Cardinality(above(m))
        /\ Cardinality(above(m)) = Cardinality(above(n)) => above(m) = above(n)
    BY <1>1, <2>1, FS_Subset
  <2>3. Cardinality(above(m)) <= Cardinality(above(n))
    BY <1>3, <1>4
  <2>4. Cardinality(above(m)) \in Nat /\ Cardinality(above(n)) \in Nat
    BY <1>1
  <2> HIDE DEF above
  <2> QED
    BY <2>1, <2>2, <2>3, <2>4
<1> QED
  BY <1>5

\* The members of a finite set with fewer than limit others before them: an
\* initial segment, of limit members at most, and of fewer only if it is all.
LEMMA InitialSegment ==
  ASSUME NEW found \in SUBSET Nat, IsFiniteSet(found), NEW limit \in Nat
  PROVE  LET page == {id \in found : Cardinality({other \in found : other < id}) < limit}
         IN  /\ IsFiniteSet(page) /\ Cardinality(page) \in Nat
             /\ Cardinality(page) <= limit
             /\ \A id \in page, other \in found : other < id => other \in page
             /\ Cardinality(page) < limit => page = found
<1> DEFINE before(id) == {other \in found : other < id}
           page == {id \in found : Cardinality(before(id)) < limit}
<1>0. \A id \in found : id \in Nat
  OBVIOUS
<1>1. \A id \in found : IsFiniteSet(before(id)) /\ Cardinality(before(id)) \in Nat
  BY FS_Subset, FS_CardinalityType
<1>2. page \in SUBSET found /\ IsFiniteSet(page) /\ Cardinality(page) \in Nat
  BY FS_Subset, FS_CardinalityType
<1>3. ASSUME NEW id \in page, NEW other \in found, other < id PROVE other \in page
  <2>1. before(other) \in SUBSET before(id)
    <3>1. other \in Nat /\ id \in Nat /\ \A k \in found : k \in Nat
      BY <1>0
    <3>2. \A k \in found : k < other => k < id
      BY <1>3, <3>1
    <3> QED
      BY <3>2
  <2>2. Cardinality(before(other)) <= Cardinality(before(id))
    BY <1>1, <2>1, FS_Subset
  <2>3. Cardinality(before(id)) < limit
    OBVIOUS
  <2>4. Cardinality(before(other)) \in Nat /\ Cardinality(before(id)) \in Nat
    BY <1>1
  <2>5. Cardinality(before(other)) < limit
    <3> HIDE DEF before
    <3> QED
      BY <2>2, <2>3, <2>4
  <2> QED
    BY <2>5
<1>4. Cardinality(page) <= limit
  <2>1. CASE page = {}
    <3>1. Cardinality(page) = 0
      BY <2>1, FS_EmptySet
    <3> HIDE DEF page
    <3> QED
      BY <3>1
  <2>2. CASE page # {}
    <3>1. PICK m \in page : \A n \in page : n <= m
      BY <1>2, <2>2, LargestMember
    <3>2. page \in SUBSET (before(m) \cup {m})
      <4>1. ASSUME NEW n \in page PROVE n \in before(m) \cup {m}
        <5>1. n \in Nat /\ m \in Nat /\ n \in found /\ n <= m
          BY <1>0, <3>1
        <5>2. n < m \/ n = m
          BY <5>1
        <5> QED
          BY <5>1, <5>2
      <4> QED
        BY <4>1
    <3>3. /\ IsFiniteSet(before(m)) /\ Cardinality(before(m)) \in Nat
          /\ Cardinality(before(m)) < limit
      BY <1>1
    <3>4. m \notin before(m)
      OBVIOUS
    <3>5. /\ IsFiniteSet(before(m) \cup {m})
          /\ Cardinality(before(m) \cup {m}) = Cardinality(before(m)) + 1
      BY <3>3, <3>4, FS_AddElement
    <3>6. Cardinality(page) <= Cardinality(before(m) \cup {m})
      BY <3>2, <3>5, FS_Subset
    <3> HIDE DEF before, page
    <3> QED
      BY <1>2, <3>3, <3>5, <3>6
  <2> QED
    BY <2>1, <2>2
<1>5. ASSUME Cardinality(page) < limit PROVE page = found
  <2> SUFFICES ASSUME found \ page # {} PROVE FALSE
    BY <1>2
  <2>1. PICK m \in found \ page : \A n \in found \ page : m <= n
    BY SmallestMember
  <2>2. before(m) \in SUBSET page
    <3>1. ASSUME NEW n \in before(m) PROVE n \in page
      <4>1. n \in found /\ n \in Nat /\ m \in Nat /\ n < m
        BY <1>0
      <4>2. ~(m <= n)
        BY <4>1
      <4> HIDE DEF page
      <4> QED
        BY <2>1, <4>1, <4>2
    <3> QED
      BY <3>1
  <2>3. Cardinality(before(m)) <= Cardinality(page)
    BY <1>2, <2>2, FS_Subset
  <2>4. ~(Cardinality(before(m)) < limit) /\ Cardinality(before(m)) \in Nat
    BY <1>1
  <2> HIDE DEF before, page
  <2> QED
    BY <1>2, <1>5, <2>3, <2>4
<1> QED
  BY <1>2, <1>3, <1>4, <1>5

\* What ListRecoverableIDs returns: only orders it was asked for, the first of
\* them, all of them unless it is full, and none only if there are none.
LEMMA PageFacts ==
  ASSUME IsFiniteSet(Orders), NEW table, NEW after \in Nat, NEW cutoff \in SUBSET Orders
  PROVE  LET page == ListRecoverableIDs(table, after, cutoff, BatchSize)
             ahead == {o \in cutoff : o > after /\ table[o].status \in RecoverableStatuses}
         IN  /\ page \subseteq ahead
             /\ \A o \in ahead \ page :
                  Cardinality(page) = BatchSize /\ \A id \in page : id < o
             /\ page = {} => ahead = {}
<1> DEFINE ahead == {o \in cutoff : o > after /\ table[o].status \in RecoverableStatuses}
           page == {id \in ahead : Cardinality({other \in ahead : other < id}) < BatchSize}
<1>1. page = ListRecoverableIDs(table, after, cutoff, BatchSize)
  BY DEF ListRecoverableIDs
<1>2. ahead \in SUBSET Orders /\ ahead \in SUBSET Nat
  BY OrdersAssumption
<1>3. IsFiniteSet(ahead)
  BY <1>2, FS_Subset
<1>4. BatchSize \in Nat /\ 0 < BatchSize
  BY BatchSizeAssumption
<1> HIDE DEF ahead
<1>5. /\ Cardinality(page) \in Nat
      /\ Cardinality(page) <= BatchSize
      /\ \A id \in page, other \in ahead : other < id => other \in page
      /\ Cardinality(page) < BatchSize => page = ahead
  BY <1>2, <1>3, <1>4, InitialSegment
<1>6. page \subseteq ahead
  OBVIOUS
<1>7. page = {} => Cardinality(page) = 0
  BY FS_EmptySet
<1> HIDE DEF page
<1>8. ASSUME NEW o \in ahead \ page
      PROVE  Cardinality(page) = BatchSize /\ \A id \in page : id < o
  <2>1. Cardinality(page) = BatchSize
    BY <1>4, <1>5, <1>8
  <2>2. ASSUME NEW id \in page PROVE id < o
    <3>1. id \in Nat /\ o \in Nat /\ id # o
      BY <1>2, <1>6
    <3>2. ~(o < id)
      BY <1>5
    <3> QED
      BY <3>1, <3>2
  <2> QED
    BY <2>1, <2>2
<1>9. page = {} => ahead = {}
  BY <1>4, <1>5, <1>7
<1> QED
  BY <1>1, <1>6, <1>8, <1>9 DEF ahead

----
\* Between listing a page and taking an order of it RunOnce moves neither its
\* page nor its cursor; reconcileOrder never does.
LEMMA PageKept ==
  ASSUME TypeOK, NEW p \in Procs, RecoverStep(p), ~ListPage(p), ~ListFirstPage(p),
         \A o \in Orders : ~NextOrder(p, o)
  PROVE  /\ rec'[p].ids = rec[p].ids /\ rec'[p].afterID = rec[p].afterID
         /\ rec'[p].pc # "relist"
         /\ rec'[p].pc = "next" => rec[p].pc \notin {"list", "relist"}
<1> DEFINE w == rec[p]
           kept == /\ rec'[p].ids = w.ids /\ rec'[p].afterID = w.afterID
                   /\ rec'[p].pc # "relist"
<1>0. w \in RecType /\ rec \in [Procs -> RecType]
  BY DEF TypeOK
<1>1. CASE RunOnce(p)
  <2>1. rec'[p] = [w EXCEPT !.pc = "list", !.cutoff = old] /\ w.pc = "idle"
    BY <1>0, <1>1 DEF RunOnce, RecBecomes
  <2> QED
    BY <1>0, <2>1 DEF RecType
<1>2. CASE ListFails(p)
  <2>1. rec'[p] = [w EXCEPT !.pc = "idle", !.cutoff = {}]
    BY <1>0, <1>2 DEF ListFails, RecBecomes
  <2> QED
    BY <1>0, <2>1 DEF RecType
<1>3. ASSUME NEW pc, RecGoto(p, pc), pc # "relist" PROVE kept
  <2>1. rec'[p] = [w EXCEPT !.pc = pc]
    BY <1>0, <1>3 DEF RecGoto, RecBecomes
  <2> QED
    BY <1>0, <1>3, <2>1 DEF RecType
<1>4. ASSUME LeaveOrder(p) PROVE kept
  <2>1. rec'[p] = [w EXCEPT !.pc = "next", !.cur = 0, !.order = NoOrder, !.expected = "pending"]
    BY <1>0, <1>4 DEF LeaveOrder, RecBecomes
  <2> QED
    BY <1>0, <2>1 DEF RecType
<1>5. ASSUME NEW order, RecTransition(p, order) PROVE kept
  <2>1. rec'[p] = [w EXCEPT !.pc = "saving", !.order = order, !.expected = w.order.status]
    BY <1>0, <1>5 DEF RecTransition, RecBecomes
  <2> QED
    BY <1>0, <2>1 DEF RecType
<1>6. ASSUME FindOrder(p) PROVE kept
  <2>1. CASE LeaveOrder(p)
    BY <1>4, <2>1
  <2>2. CASE ~LeaveOrder(p)
    <3> DEFINE order == FindByID(orders, w.cur)
    <3>1. rec'[p] = [w EXCEPT !.pc = RecoveryStep(order.status), !.order = order]
      BY <1>0, <1>6, <2>2 DEF FindOrder, RecBecomes
    <3>2. RecoveryStep(order.status) # "relist"
      BY DEF RecoveryStep
    <3> HIDE DEF order
    <3> QED
      BY <1>0, <3>1, <3>2 DEF RecType
  <2> QED
    BY <2>1, <2>2
<1>7. ASSUME RecoveryEmits(p) PROVE kept
  <2>1. CASE LeaveOrder(p)
    BY <1>4, <2>1
  <2>2. CASE ~LeaveOrder(p)
    <3>1. rec'[p] = [w EXCEPT !.pc = "reserve", !.order = PullEvents(@), !.expected = "pending"]
      BY <1>0, <1>7, <2>2 DEF RecoveryEmits, RecBecomes
    <3> QED
      BY <1>0, <3>1 DEF RecType
  <2> QED
    BY <2>1, <2>2
<1> HIDE DEF kept
<1>8. CASE \/ EndBatch(p) \/ FindOrder(p) \/ FindFails(p) \/ LookupSettles(p)
           \/ LookupLeavesOpen(p) \/ RecoverySaves(p) \/ RecoveryLosesRace(p)
           \/ RecoverySaveFails(p) \/ RecoveryEmits(p) \/ RecoveryReserves(p)
           \/ ReservationHeld(p) \/ ReservationFails(p)
  <2>1. kept
    <3>1. CASE EndBatch(p)
      BY <1>3, <3>1 DEF EndBatch
    <3>2. CASE FindOrder(p) \/ RecoveryEmits(p)
      BY <1>6, <1>7, <3>2
    <3>3. CASE FindFails(p) \/ LookupLeavesOpen(p) \/ RecoveryLosesRace(p) \/ RecoverySaveFails(p)
      BY <1>4, <3>3 DEF FindFails, LookupLeavesOpen, RecoveryLosesRace, RecoverySaveFails
    <3>4. CASE RecoverySaves(p) \/ RecoveryReserves(p)
      BY <1>3, <3>4 DEF RecoverySaves, RecoveryReserves
    <3>5. CASE LookupSettles(p) \/ ReservationHeld(p) \/ ReservationFails(p)
      BY <1>4, <1>5, <3>5 DEF LookupSettles, ReservationHeld, ReservationFails
    <3> QED
      BY <1>8, <3>1, <3>2, <3>3, <3>4, <3>5
  <2>2. w.pc \notin {"list", "relist"}
    BY <1>8 DEF EndBatch, FindOrder, FindFails, LookupSettles, LookupLeavesOpen, RecoverySaves,
                RecoveryLosesRace, RecoverySaveFails, RecoveryEmits, RecoveryReserves,
                ReservationHeld, ReservationFails
  <2> QED
    BY <2>1, <2>2 DEF kept
<1> QED
  BY <1>1, <1>2, <1>8 DEF RecoverStep

\* What one worker's step leaves: its part of the invariant, and no gap.
Sweeps(p) ==
  /\ rec'[p].pc = "relist" => rec'[p].afterID = 0
  /\ \A id \in rec'[p].ids : rec'[p].afterID < id
  /\ BatchMissesNone(p)
  /\ WrapsAtTheEnd(p)

\* A worker whose step lists nothing and takes up nothing leaves no gap.
LEMMA PageKeptSweeps ==
  ASSUME SweepInv, NEW p \in Procs,
         rec'[p].ids = rec[p].ids, rec'[p].afterID = rec[p].afterID,
         rec'[p].pc = "relist" => rec[p].pc = "relist",
         rec'[p].pc = "next" => rec[p].pc \notin {"list", "relist"}
  PROVE  Sweeps(p)
BY DEF SweepInv, Sweeps, BatchMissesNone, WrapsAtTheEnd

\* A step of the worker itself leaves no gap.
LEMMA RecoverSweeps ==
  ASSUME TypeOK, SweepInv, IsFiniteSet(Orders), NEW p \in Procs, RecoverStep(p)
  PROVE  Sweeps(p)
<1> DEFINE w == rec[p]
           ahead(after) == {o \in w.cutoff : o > after /\ orders[o].status \in RecoverableStatuses}
<1>0. /\ w \in RecType /\ rec \in [Procs -> RecType]
      /\ w.cutoff \in SUBSET Orders /\ w.afterID \in Nat
      /\ \A o \in Orders : o \in Nat /\ o > 0
  <2>1. w \in RecType /\ rec \in [Procs -> RecType]
    BY DEF TypeOK
  <2>2. w.cutoff \in SUBSET Orders /\ w.afterID \in Orders \cup {0}
    BY <2>1 DEF RecType
  <2>3. ASSUME NEW o \in Orders PROVE o \in Nat /\ o > 0
    <3>1. o \in Nat /\ o # 0
      BY OrdersAssumption
    <3> QED
      BY <3>1
  <2>4. w.afterID \in Nat
    BY <2>2, <2>3
  <2> QED
    BY <2>1, <2>2, <2>3, <2>4
<1>1. CASE ListPage(p)
  <2> DEFINE page == ListRecoverableIDs(orders, w.afterID, w.cutoff, BatchSize)
             wrapped == [w EXCEPT !.pc = "relist", !.afterID = 0]
             listed == [w EXCEPT !.pc = "next", !.ids = page, !.cutoff = {}]
  <2>1. /\ page \subseteq ahead(w.afterID)
        /\ \A o \in ahead(w.afterID) \ page :
             Cardinality(page) = BatchSize /\ \A id \in page : id < o
        /\ page = {} => ahead(w.afterID) = {}
    BY <1>0, PageFacts
  <2>2. \A o \in Recoverable(p) : o \in ahead(w.afterID) \/ o <= w.afterID
    BY <1>0 DEF Recoverable
  <2>3. CASE page = {} /\ w.afterID # 0
    <3>1. rec'[p] = wrapped
      BY <1>0, <1>1, <2>3 DEF ListPage, RecBecomes
    <3>2. wrapped.pc = "relist" /\ wrapped.afterID = 0 /\ wrapped.ids = w.ids
      BY <1>0 DEF RecType
    <3>3. w.ids \subseteq Orders
      BY <1>0 DEF RecType
    <3>4. WrapsAtTheEnd(p)
      BY <2>1, <2>2, <2>3 DEF WrapsAtTheEnd
    <3> QED
      BY <1>0, <3>1, <3>2, <3>3, <3>4 DEF Sweeps, BatchMissesNone
  <2>4. CASE ~(page = {} /\ w.afterID # 0)
    <3>1. rec'[p] = listed
      BY <1>0, <1>1, <2>4 DEF ListPage, RecBecomes
    <3>2. listed.pc = "next" /\ listed.ids = page /\ listed.afterID = w.afterID
      BY <1>0 DEF RecType
    <3>3. \A id \in page : w.afterID < id
      BY <2>1
    <3>4. \A o \in Recoverable(p) \ page :
            \/ o <= w.afterID
            \/ Cardinality(page) = BatchSize /\ \A id \in page : id < o
      BY <2>1, <2>2
    <3>5. page = {} => Recoverable(p) = {}
      <4>1. ASSUME page = {}, NEW o \in Recoverable(p) PROVE FALSE
        <5>1. o <= 0 /\ o \in Orders
          BY <1>0, <2>1, <2>2, <2>4, <4>1 DEF Recoverable
        <5> QED
          BY <1>0, <5>1
      <4> QED
        BY <4>1
    <3> HIDE DEF page, listed
    <3> QED
      BY <3>1, <3>2, <3>3, <3>4, <3>5 DEF Sweeps, BatchMissesNone, WrapsAtTheEnd
  <2> QED
    BY <2>3, <2>4
<1>2. CASE ListFirstPage(p)
  <2> DEFINE page == ListRecoverableIDs(orders, 0, w.cutoff, BatchSize)
             listed == [w EXCEPT !.pc = "next", !.cutoff = {}, !.ids = page]
  <2>1. /\ page \subseteq ahead(0)
        /\ \A o \in ahead(0) \ page :
             Cardinality(page) = BatchSize /\ \A id \in page : id < o
        /\ page = {} => ahead(0) = {}
    BY <1>0, PageFacts
  <2>2. Recoverable(p) \subseteq ahead(0)
    BY <1>0 DEF Recoverable
  <2>3. rec'[p] = listed /\ w.pc = "relist" /\ w.afterID = 0
    BY <1>0, <1>2 DEF ListFirstPage, RecBecomes, SweepInv
  <2>4. listed.pc = "next" /\ listed.ids = page /\ listed.afterID = w.afterID
    BY <1>0 DEF RecType
  <2>5. \A id \in page : 0 < id
    BY <2>1
  <2> HIDE DEF page, listed
  <2> QED
    BY <2>1, <2>2, <2>3, <2>4, <2>5 DEF Sweeps, BatchMissesNone, WrapsAtTheEnd
<1>3. ASSUME NEW o \in Orders, NextOrder(p, o) PROVE Sweeps(p)
  <2>1. /\ rec'[p] = [w EXCEPT !.pc = "find", !.afterID = o, !.cur = o, !.ids = @ \ {o}]
        /\ \A other \in w.ids : o <= other
    BY <1>0, <1>3 DEF NextOrder, RecBecomes
  <2>2. rec'[p].pc = "find" /\ rec'[p].afterID = o /\ rec'[p].ids = w.ids \ {o}
    BY <1>0, <2>1 DEF RecType
  <2>3. w.ids \subseteq Orders
    BY <1>0 DEF RecType
  <2>4. \A id \in w.ids \ {o} : o < id
    BY <1>0, <2>1, <2>3
  <2> QED
    BY <2>2, <2>4 DEF Sweeps, BatchMissesNone, WrapsAtTheEnd
<1>4. CASE ~ListPage(p) /\ ~ListFirstPage(p) /\ \A o \in Orders : ~NextOrder(p, o)
  BY <1>4, PageKept, PageKeptSweeps
<1> QED
  BY <1>1, <1>2, <1>3, <1>4

\* Requests, the services, the clock and the database do not touch the workers.
LEMMA OthersSweepNothing ==
  ASSUME \/ UNCHANGED vars
         \/ \E o \in Orders :
              RequestStep(o) \/ ProviderDecides(o) \/ InventoryReserves(o) \/ OrderAges(o)
         \/ \E stmt \in late : LateStatement(stmt)
  PROVE  rec' = rec
BY DEF RequestStep, RejectRequest, AcceptRequest, SavePending, SavePendingFails, EmitCreated,
       SubmitCharge, ChargeReturns, SaveTransition, SaveTransitionConflict,
       SaveTransitionFails, Reload, ReloadFails, EmitPaid, EmitAndReturn, SubmitReservation,
       ReserveReturns, ProviderDecides, InventoryReserves, OrderAges, LateStatement, vars

\* No step of the service leaves a gap in the sweep of any worker.
LEMMA StepSweeps ==
  ASSUME TypeOK, SweepInv, IsFiniteSet(Orders), [Next]_vars
  PROVE  \A p \in Procs : Sweeps(p)
<1>1. ASSUME NEW p \in Procs, rec'[p] = rec[p] PROVE Sweeps(p)
  BY <1>1, PageKeptSweeps
<1>2. ASSUME NEW q \in Procs, RecoverStep(q) PROVE \A p \in Procs : Sweeps(p)
  BY <1>1, <1>2, RecoverSweeps, RecoverTouches
<1>3. ASSUME NEW q \in Procs, Crash(q) PROVE \A p \in Procs : Sweeps(p)
  <2>1. rec'[q] = IdleRec /\ \A p \in Procs \ {q} : rec'[p] = rec[p]
    BY <1>3 DEF Crash, TypeOK
  <2>2. Sweeps(q)
    BY <2>1 DEF Sweeps, BatchMissesNone, WrapsAtTheEnd, IdleRec
  <2> QED
    BY <1>1, <2>1, <2>2
<1>4. CASE rec' = rec
  BY <1>1, <1>4
<1> QED
  BY <1>2, <1>3, <1>4, OthersSweepNothing DEF Next

\* "The cursor wraps after the last ID, so an unresolved old order cannot starve
\* newer orders": for any finite set of orders, any page size, any number of
\* workers and crashes, RunOnce never skips an order it was to recover, wraps
\* only behind the last one and comes back empty only if there is none.
THEOREM RecoverySweeps ==
  ASSUME ProviderContract, IsFiniteSet(Orders)
  PROVE  Spec => SweepMissesNothing
<1>1. Init => SweepInv
  BY DEF Init, SweepInv, IdleRec
<1>2. TypeOK /\ SweepInv /\ [Next]_vars => SweepInv'
  BY StepSweeps DEF SweepInv, Sweeps
<1>3. TypeOK /\ SweepInv /\ [Next]_vars =>
        \A p \in Procs :
          /\ BatchMissesNone(p)
          /\ WrapsAtTheEnd(p)
          /\ \A id \in rec'[p].ids : rec'[p].afterID < id
  BY StepSweeps DEF Sweeps
<1> QED
  BY <1>1, <1>2, <1>3, ServiceInvariant, PTL DEF Spec, SweepMissesNothing
====
