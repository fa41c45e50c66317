---- MODULE MigrationsProofs ----
(***************************************************************************)
(* Proofs about Migrations, for every set of runs and of releases.          *)
(***************************************************************************)
EXTENDS Migrations, TLAPS

\* The invariant the proofs carry from step to step.
Inv == MigrationsTypeOK /\ MigrationsInv

\* The initial state satisfies it.
LEMMA InitInv == Init => Inv
<1> SUFFICES ASSUME Init PROVE Inv
  OBVIOUS
<1>1. MigrationsTypeOK
  <2>1. IdleRun \in RunType
    BY DEF RunType, IdleRun
  <2>2. history \in Seq(MigrationType)
    BY DEF Init
  <2>3. lock \in Runs \cup {NoRun} /\ hasLedger \in BOOLEAN /\ ledger \subseteq MigrationType
    BY DEF Init
  <2>4. /\ tx \in [Runs -> SUBSET {"begun", "ran", "recorded"}]
        /\ session \in [Runs -> {"none", "open", "lost", "ended"}]
        /\ sent \in [Runs -> {"none", "lock", "ledger", "commit"}]
    BY DEF Init
  <2>5. run \in [Runs -> RunType]
    BY <2>1 DEF Init
  <2> QED BY <2>2, <2>3, <2>4, <2>5 DEF MigrationsTypeOK
<1>2. LockInv /\ OneMigrator /\ NoLedgerConflict
  BY RunsAssumption DEF Init, LockInv, OneMigrator, NoLedgerConflict, IdleRun, WithLock, InTransaction
<1>3. LedgerIsHistory /\ ExecutedInOrder
  BY DEF Init, LedgerIsHistory, Executed, ExecutedInOrder
<1>4. ASSUME NEW r \in Runs PROVE RunInv(r) /\ TransactionInv(r)
  <2>1. run[r] = IdleRun /\ tx[r] = {} /\ sent[r] = "none"
    BY DEF Init
  <2>2. RunInv(r)
    BY <2>1 DEF RunInv, IdleRun, InTransaction
  <2>3. TransactionInv(r)
    BY <2>1 DEF TransactionInv, IdleRun, InTransaction
  <2> QED BY <2>2, <2>3
<1> QED BY <1>1, <1>2, <1>3, <1>4 DEF Inv, MigrationsInv

\* A release stays what it is once its run has begun, so what it accounts for
\* stays accounted for.
LEMMA OrderKept ==
  ASSUME Inv, UNCHANGED history,
         \A x \in Runs : run'[x].release = run[x].release \/ run[x].release = {}
  PROVE  ExecutedInOrder'
<1> SUFFICES ASSUME NEW i \in DOMAIN history
             PROVE  \E x \in Runs :
                      /\ history[i] \in run'[x].release
                      /\ \A file \in run'[x].release :
                           file.version < history[i].version => \E k \in 1..(i - 1) : history[k] = file
  BY DEF ExecutedInOrder
<1>1. PICK x \in Runs :
        /\ history[i] \in run[x].release
        /\ \A file \in run[x].release :
             file.version < history[i].version => \E k \in 1..(i - 1) : history[k] = file
  BY DEF Inv, MigrationsInv, ExecutedInOrder
<1>2. run'[x].release = run[x].release
  BY <1>1
<1> QED BY <1>1, <1>2

\* A step that touches one run and its transaction, and neither the ledger nor
\* the history, has only that run's own part of the invariant to show.
LEMMA LocalStep ==
  ASSUME Inv, NEW r \in Runs,
         UNCHANGED <<history, ledger>>, hasLedger => hasLedger',
         \A x \in Runs \ {r} : run'[x] = run[x] /\ tx'[x] = tx[x] /\ sent'[x] = sent[x],
         run'[r].release = run[r].release \/ run[r].release = {},
         RunInv(r)', TransactionInv(r)'
  PROVE  /\ LedgerIsHistory' /\ ExecutedInOrder'
         /\ \A x \in Runs : RunInv(x)' /\ TransactionInv(x)'
<1>1. LedgerIsHistory'
  <2>1. LedgerIsHistory /\ history' = history /\ ledger' = ledger
    BY DEF Inv, MigrationsInv
  <2> QED BY <2>1 DEF LedgerIsHistory, Executed
<1>2. ExecutedInOrder'
  BY OrderKept
<1>3. ASSUME NEW x \in Runs \ {r} PROVE RunInv(x)' /\ TransactionInv(x)'
  <2>1. RunInv(x) /\ TransactionInv(x)
    BY DEF Inv, MigrationsInv
  <2>2. run'[x] = run[x] /\ tx'[x] = tx[x] /\ sent'[x] = sent[x] /\ ledger' = ledger
    OBVIOUS
  <2>3. RunInv(x)'
    BY <2>1, <2>2 DEF RunInv, Verified, Applied
  <2>4. TransactionInv(x)'
    BY <2>1, <2>2 DEF TransactionInv
  <2> QED BY <2>3, <2>4
<1> QED BY <1>1, <1>2, <1>3

\* A session and its lock belong to one run: what the lock's part of the
\* invariant needs of a step of run r.
LEMMA LockStep ==
  ASSUME Inv, NEW r \in Runs,
         \A x \in Runs \ {r} : /\ run'[x] = run[x] /\ tx'[x] = tx[x] /\ sent'[x] = sent[x]
                               /\ session'[x] = session[x],
         lock' \in {lock, r, NoRun},
         lock' = r /\ lock # r => lock = NoRun,
         lock' = NoRun => lock \in {NoRun, r},
         lock' = r => session'[r] \in {"open", "lost"} /\ run'[r].pc \notin {"start", "lock"},
         run'[r].pc \in WithLock => lock' = r /\ session'[r] = "open",
         run'[r].pc = "lock" => session'[r] = "open",
         run'[r].pc \in {"start", "lock"} => sent'[r] = "none",
         session'[r] # "lost" => sent'[r] = "none",
         tx'[r] # {} => lock' = r
  PROVE  LockInv' /\ OneMigrator'
BY RunsAssumption DEF Inv, MigrationsInv, MigrationsTypeOK, LockInv, OneMigrator

\* The frame of every step that commits nothing: what is left to show is the
\* part of the run that moves.
LEMMA Frame ==
  ASSUME Inv, NEW r \in Runs, MigrationsTypeOK',
         UNCHANGED <<history, ledger>>, hasLedger => hasLedger',
         \A x \in Runs \ {r} : /\ run'[x] = run[x] /\ tx'[x] = tx[x] /\ sent'[x] = sent[x]
                               /\ session'[x] = session[x],
         lock' \in {lock, r, NoRun},
         lock' = r /\ lock # r => lock = NoRun,
         lock' = NoRun => lock \in {NoRun, r},
         lock' = r => session'[r] \in {"open", "lost"} /\ run'[r].pc \notin {"start", "lock"},
         run'[r].pc \in WithLock => lock' = r /\ session'[r] = "open",
         run'[r].pc = "lock" => session'[r] = "open",
         run'[r].pc \in {"start", "lock"} => sent'[r] = "none",
         session'[r] # "lost" => sent'[r] = "none",
         tx'[r] # {} => lock' = r,
         run'[r].err # "conflict",
         run'[r].release = run[r].release \/ run[r].release = {},
         RunInv(r)', TransactionInv(r)'
  PROVE  Inv'
<1>1. LockInv' /\ OneMigrator'
  BY LockStep
<1>2. LedgerIsHistory' /\ ExecutedInOrder' /\ \A x \in Runs : RunInv(x)' /\ TransactionInv(x)'
  BY LocalStep
<1>3. NoLedgerConflict'
  BY DEF Inv, MigrationsInv, NoLedgerConflict
<1> QED BY <1>1, <1>2, <1>3 DEF Inv, MigrationsInv

\* What holds of a run that has the lock.
LEMMA HolderFacts ==
  ASSUME Inv, NEW r \in Runs
  PROVE  /\ run[r] \in RunType /\ tx[r] \in SUBSET {"begun", "ran", "recorded"}
         /\ run[r].pc \in WithLock => lock = r /\ session[r] = "open" /\ sent[r] = "none"
         /\ RunInv(r) /\ TransactionInv(r)
         /\ run[r].err # "conflict"
         /\ tx[r] # {} => lock = r
BY DEF Inv, MigrationsInv, MigrationsTypeOK, LockInv, OneMigrator, NoLedgerConflict

\* How the run of a step changes, by the operator that changes it.
Pcs == {"start", "lock", "returned"} \cup WithLock

LEMMA RunTyped ==
  ASSUME Inv, NEW r \in Runs, NEW v \in RunType, RunBecomes(r, v)
  PROVE  /\ run' \in [Runs -> RunType]
         /\ run'[r] = v
         /\ \A x \in Runs \ {r} : run'[x] = run[x]
BY DEF RunBecomes, Inv, MigrationsTypeOK

LEMMA GotoFacts ==
  ASSUME Inv, NEW r \in Runs, NEW pc \in Pcs, Goto(r, pc)
  PROVE  /\ run' \in [Runs -> RunType]
         /\ run'[r].pc = pc /\ run'[r].file = run[r].file
         /\ run'[r].release = run[r].release /\ run'[r].err = run[r].err
         /\ \A x \in Runs \ {r} : run'[x] = run[x]
<1> DEFINE v == [run[r] EXCEPT !.pc = pc]
<1>1. run[r] \in RunType
  BY DEF Inv, MigrationsTypeOK
<1>2. v \in RunType /\ v.pc = pc /\ v.file = run[r].file /\ v.release = run[r].release /\ v.err = run[r].err
  BY <1>1 DEF RunType, Pcs
<1>3. RunBecomes(r, v)
  BY DEF Goto
<1> HIDE DEF v
<1> QED BY <1>2, <1>3, RunTyped

LEMMA FailFacts ==
  ASSUME Inv, NEW r \in Runs, NEW err \in {"checksum", "conflict", "other"}, Fail(r, err)
  PROVE  /\ run' \in [Runs -> RunType]
         /\ run'[r].pc = "unlock" /\ run'[r].file = run[r].file
         /\ run'[r].release = run[r].release /\ run'[r].err = err
         /\ \A x \in Runs \ {r} : run'[x] = run[x]
<1> DEFINE v == [run[r] EXCEPT !.pc = "unlock", !.err = err]
<1>1. run[r] \in RunType
  BY DEF Inv, MigrationsTypeOK
<1>2. v \in RunType /\ v.pc = "unlock" /\ v.file = run[r].file /\ v.release = run[r].release /\ v.err = err
  BY <1>1 DEF RunType, WithLock
<1>3. RunBecomes(r, v)
  BY DEF Fail
<1> HIDE DEF v
<1> QED BY <1>2, <1>3, RunTyped

LEMMA EntryFacts ==
  ASSUME Inv, NEW r \in Runs, NEW v \in Nat, Entry(r, v)
  PROVE  /\ run' \in [Runs -> RunType]
         /\ run'[r].release = run[r].release /\ run'[r].err = run[r].err
         /\ \A x \in Runs \ {r} : run'[x] = run[x]
         /\ \/ /\ run'[r].pc = "unlock"
               /\ \A file \in run[r].release : ~(file.version > v)
            \/ /\ run'[r].pc = "check" /\ run'[r].file \in run[r].release
               /\ \A other \in run[r].release :
                    other.version > v => run'[r].file.version <= other.version
<1> DEFINE rest == {file \in run[r].release : file.version > v}
<1>1. run[r] \in RunType
  BY DEF Inv, MigrationsTypeOK
<1>2. CASE rest = {} /\ Goto(r, "unlock")
  <2>1. \A file \in run[r].release : ~(file.version > v)
    BY <1>2
  <2> QED BY <1>2, <2>1, GotoFacts DEF Pcs, WithLock
<1>3. ASSUME NEW file \in rest, \A other \in rest : file.version <= other.version,
             RunBecomes(r, [run[r] EXCEPT !.pc = "check", !.file = file])
      PROVE  /\ run' \in [Runs -> RunType]
             /\ run'[r].release = run[r].release /\ run'[r].err = run[r].err
             /\ \A x \in Runs \ {r} : run'[x] = run[x]
             /\ run'[r].pc = "check" /\ run'[r].file \in run[r].release
             /\ \A other \in run[r].release :
                  other.version > v => run'[r].file.version <= other.version
  <2> DEFINE next == [run[r] EXCEPT !.pc = "check", !.file = file]
  <2>1. file \in run[r].release /\ file \in MigrationType
    BY <1>1 DEF RunType
  <2>2. /\ next \in RunType /\ next.pc = "check" /\ next.file = file
        /\ next.release = run[r].release /\ next.err = run[r].err
    BY <1>1, <2>1 DEF RunType, WithLock
  <2>3. RunBecomes(r, next)
    BY <1>3
  <2> HIDE DEF next
  <2>4. run' \in [Runs -> RunType] /\ run'[r] = next /\ \A x \in Runs \ {r} : run'[x] = run[x]
    BY <2>2, <2>3, RunTyped
  <2> QED BY <1>3, <2>1, <2>2, <2>4
<1> QED BY <1>2, <1>3 DEF Entry

\* The sorted loop leaves no file behind: if everything up to v is applied, so
\* is everything before the next file, and the whole release if there is none.
LEMMA EntryVerified ==
  ASSUME Inv, NEW r \in Runs, NEW v \in Nat, Entry(r, v),
         \A file \in run[r].release : file.version <= v => file \in ledger'
  PROVE  /\ run'[r].pc = "check" => run'[r].file \in run'[r].release /\ Verified(r)'
         /\ run'[r].pc = "unlock" => run'[r].release \subseteq ledger'
<1>1. \A file \in run[r].release : file.version \in Nat
  <2>1. run[r] \in RunType
    BY DEF Inv, MigrationsTypeOK
  <2> QED BY <2>1 DEF RunType, MigrationType
<1>2. run'[r].release = run[r].release
  BY EntryFacts
<1>3. CASE /\ run'[r].pc = "unlock"
           /\ \A file \in run[r].release : ~(file.version > v)
  BY <1>1, <1>2, <1>3
<1>4. CASE /\ run'[r].pc = "check" /\ run'[r].file \in run[r].release
           /\ \A other \in run[r].release :
                other.version > v => run'[r].file.version <= other.version
  <2>1. ASSUME NEW file \in run[r].release, file.version < run'[r].file.version
        PROVE  file \in ledger'
    <3>1. file.version \in Nat /\ run'[r].file.version \in Nat
      BY <1>1, <1>4
    <3>2. file.version <= v
      BY <1>4, <2>1, <3>1
    <3> QED BY <3>2
  <2> QED BY <1>2, <1>4, <2>1 DEF Verified
<1> QED BY <1>3, <1>4, EntryFacts

\* The files up to the one at hand are those before it and itself, since no two
\* have the same name.
LEMMA UpToCurrent ==
  ASSUME Inv, NEW r \in Runs, run[r].pc \in {"check", "begin"} \cup InTransaction \/ tx[r] # {},
         NEW file \in run[r].release, file.version <= run[r].file.version
  PROVE  file \in ledger \/ file = Current(r)
<1>1. /\ run[r].file \in run[r].release /\ Verified(r) /\ run[r].release \in Releases
      /\ run[r].release \subseteq MigrationType
  <2>1. run[r].file \in run[r].release /\ Verified(r) /\ run[r].release \in Releases \cup {{}}
    BY HolderFacts DEF RunInv
  <2>2. run[r].release \subseteq MigrationType
    BY HolderFacts DEF RunType
  <2> QED BY <2>1, <2>2
<1>2. file.version \in Nat /\ run[r].file.version \in Nat
  BY <1>1 DEF MigrationType
<1>3. CASE file.version < run[r].file.version
  BY <1>1, <1>3 DEF Verified
<1>4. CASE file.version = run[r].file.version
  BY <1>1, <1>4, ReleasesAssumption DEF Current
<1> QED BY <1>2, <1>3, <1>4

\* Connect: a run that has not started holds nothing.
LEMMA ConnectInv ==
  ASSUME Inv, NEW r \in Runs, NEW release \in Releases, Connect(r, release)
  PROVE  Inv'
<1> DEFINE v == [IdleRun EXCEPT !.pc = "lock", !.release = release]
<1>1. v \in RunType /\ v.pc = "lock" /\ v.release = release /\ v.err = "none"
  BY ReleasesAssumption DEF RunType, IdleRun
<1>2. RunBecomes(r, v)
  BY DEF Connect
<1> HIDE DEF v
<1>3. /\ run' \in [Runs -> RunType] /\ run'[r] = v
      /\ \A x \in Runs \ {r} : run'[x] = run[x]
  BY <1>1, <1>2, RunTyped
<1>4. lock # r /\ sent[r] = "none" /\ tx[r] = {} /\ run[r].release = {}
  BY HolderFacts, RunsAssumption DEF Connect, Inv, MigrationsInv, LockInv, TransactionInv, RunInv, InTransaction
<1>5. /\ UNCHANGED <<history, ledger, hasLedger, lock, tx, sent>>
      /\ session' = [session EXCEPT ![r] = "open"]
  BY DEF Connect
<1>6. MigrationsTypeOK'
  BY <1>3, <1>5 DEF Inv, MigrationsTypeOK
<1>7. session'[r] = "open" /\ \A x \in Runs \ {r} : session'[x] = session[x]
  BY <1>5 DEF Inv, MigrationsTypeOK
<1>8. RunInv(r)'
  BY <1>1, <1>3, <1>4, <1>5 DEF RunInv, Applied, Verified, InTransaction
<1>9. TransactionInv(r)'
  BY <1>1, <1>3, <1>4, <1>5 DEF TransactionInv, InTransaction
<1> QED BY <1>1, <1>3, <1>4, <1>5, <1>6, <1>7, <1>8, <1>9, Frame DEF WithLock, InTransaction

\* AcquireLock: the lock was free, so no other run has it.
LEMMA AcquireLockInv ==
  ASSUME Inv, NEW r \in Runs, AcquireLock(r)
  PROVE  Inv'
<1>1. run[r].pc = "lock" /\ lock = NoRun /\ session[r] = "open" /\ sent[r] = "none" /\ tx[r] = {}
  BY HolderFacts, RunsAssumption DEF AcquireLock, Inv, MigrationsInv, LockInv, TransactionInv, WithLock, InTransaction
<1>2. /\ run' \in [Runs -> RunType]
      /\ \A x \in Runs \ {r} : run'[x] = run[x]
      /\ run'[r].pc = "ledger" /\ run'[r].file = run[r].file
      /\ run'[r].release = run[r].release /\ run'[r].err = run[r].err
  BY <1>1, GotoFacts DEF AcquireLock, Pcs, WithLock, InTransaction
<1>3. /\ lock' = r /\ UNCHANGED <<hasLedger, ledger, history, tx, session, sent>>
  BY DEF AcquireLock, Release
<1>4. MigrationsTypeOK'
  BY <1>1, <1>2, <1>3 DEF Inv, MigrationsTypeOK
<1>5. /\ tx'[r] = {} /\ sent'[r] = "none" /\ session'[r] = "open" /\ lock' = r
      /\ \A x \in Runs \ {r} : tx'[x] = tx[x] /\ sent'[x] = sent[x] /\ session'[x] = session[x]
  BY <1>1, <1>2, <1>3 DEF Inv, MigrationsTypeOK
<1>6. RunInv(r)'
  BY <1>1, <1>2, <1>3, <1>5, HolderFacts DEF RunInv, Applied, Verified, InTransaction, RunType
<1>7. TransactionInv(r)'
  BY <1>1, <1>2, <1>3, <1>5, HolderFacts DEF TransactionInv, InTransaction
<1> QED BY <1>1, <1>2, <1>3, <1>4, <1>5, <1>6, <1>7, Frame, HolderFacts, RunsAssumption DEF WithLock, InTransaction

\* CreateLedger: the loop begins with the first file.
LEMMA CreateLedgerInv ==
  ASSUME Inv, NEW r \in Runs, CreateLedger(r)
  PROVE  Inv'
<1>1. run[r].pc = "ledger" /\ lock = r /\ session[r] = "open" /\ sent[r] = "none" /\ tx[r] = {}
  BY HolderFacts, RunsAssumption DEF CreateLedger, Inv, MigrationsInv, LockInv, TransactionInv, WithLock, InTransaction
<1>2. /\ run' \in [Runs -> RunType]
      /\ \A x \in Runs \ {r} : run'[x] = run[x]
      /\ run'[r].pc \in {"unlock", "check"}
      /\ run'[r].release = run[r].release /\ run'[r].err = run[r].err
  BY <1>1, EntryFacts DEF CreateLedger, Pcs, WithLock, InTransaction
<1>3. /\ hasLedger' = TRUE /\ UNCHANGED <<lock, ledger, history, tx, session, sent>>
  BY DEF CreateLedger, Release
<1>4. MigrationsTypeOK'
  BY <1>1, <1>2, <1>3 DEF Inv, MigrationsTypeOK
<1>5. /\ tx'[r] = {} /\ sent'[r] = "none" /\ session'[r] = "open" /\ lock' = r
      /\ \A x \in Runs \ {r} : tx'[x] = tx[x] /\ sent'[x] = sent[x] /\ session'[x] = session[x]
  BY <1>1, <1>2, <1>3 DEF Inv, MigrationsTypeOK
<1>8. \A file \in run[r].release : file.version <= 0 => file \in ledger'
  <2>1. \A file \in run[r].release : file.version \in Nat \ {0}
    BY HolderFacts DEF RunType, MigrationType
  <2> QED BY <2>1
<1>9. /\ run'[r].pc = "check" => run'[r].file \in run'[r].release /\ Verified(r)'
      /\ run'[r].pc = "unlock" => run'[r].release \subseteq ledger'
  BY <1>8, EntryVerified DEF CreateLedger
<1>6. RunInv(r)'
  BY <1>1, <1>2, <1>3, <1>5, <1>9, HolderFacts DEF RunInv, InTransaction
<1>7. TransactionInv(r)'
  BY <1>1, <1>2, <1>3, <1>5, HolderFacts DEF TransactionInv, InTransaction
<1> QED BY <1>1, <1>2, <1>3, <1>4, <1>5, <1>6, <1>7, Frame, HolderFacts, RunsAssumption DEF WithLock, InTransaction

\* SkipApplied: the ledger has the file as it is, so one more file is verified.
LEMMA SkipAppliedInv ==
  ASSUME Inv, NEW r \in Runs, SkipApplied(r)
  PROVE  Inv'
<1>1. run[r].pc = "check" /\ lock = r /\ session[r] = "open" /\ sent[r] = "none" /\ tx[r] = {} /\ run[r].file.version \in Nat
  BY HolderFacts, RunsAssumption DEF SkipApplied, Inv, MigrationsInv, LockInv, TransactionInv, WithLock, InTransaction, RunType, MigrationType, NoFile
<1>2. /\ run' \in [Runs -> RunType]
      /\ \A x \in Runs \ {r} : run'[x] = run[x]
      /\ run'[r].pc \in {"unlock", "check"}
      /\ run'[r].release = run[r].release /\ run'[r].err = run[r].err
  BY <1>1, EntryFacts DEF SkipApplied, Pcs, WithLock, InTransaction
<1>3. /\ UNCHANGED <<lock, hasLedger, ledger, history, tx, session, sent>>
  BY DEF SkipApplied, Release
<1>4. MigrationsTypeOK'
  BY <1>1, <1>2, <1>3 DEF Inv, MigrationsTypeOK
<1>5. /\ tx'[r] = {} /\ sent'[r] = "none" /\ session'[r] = "open" /\ lock' = r
      /\ \A x \in Runs \ {r} : tx'[x] = tx[x] /\ sent'[x] = sent[x] /\ session'[x] = session[x]
  BY <1>1, <1>2, <1>3 DEF Inv, MigrationsTypeOK
<1>8. \A file \in run[r].release : file.version <= run[r].file.version => file \in ledger'
  <2>1. Current(r) \in ledger
    BY DEF SkipApplied, Applied
  <2> QED BY <1>1, <1>3, <2>1, UpToCurrent
<1>9. /\ run'[r].pc = "check" => run'[r].file \in run'[r].release /\ Verified(r)'
      /\ run'[r].pc = "unlock" => run'[r].release \subseteq ledger'
  BY <1>1, <1>8, EntryVerified DEF SkipApplied
<1>6. RunInv(r)'
  BY <1>1, <1>2, <1>3, <1>5, <1>9, HolderFacts DEF RunInv, InTransaction
<1>7. TransactionInv(r)'
  BY <1>1, <1>2, <1>3, <1>5, HolderFacts DEF TransactionInv, InTransaction
<1> QED BY <1>1, <1>2, <1>3, <1>4, <1>5, <1>6, <1>7, Frame, HolderFacts, RunsAssumption DEF WithLock, InTransaction

\* RefuseChanged: a refused run only has to give up the lock.
LEMMA RefuseChangedInv ==
  ASSUME Inv, NEW r \in Runs, RefuseChanged(r)
  PROVE  Inv'
<1>1. run[r].pc = "check" /\ lock = r /\ session[r] = "open" /\ sent[r] = "none" /\ tx[r] = {}
  BY HolderFacts, RunsAssumption DEF RefuseChanged, Inv, MigrationsInv, LockInv, TransactionInv, WithLock, InTransaction
<1>2. /\ run' \in [Runs -> RunType]
      /\ \A x \in Runs \ {r} : run'[x] = run[x]
      /\ run'[r].pc = "unlock" /\ run'[r].file = run[r].file
      /\ run'[r].release = run[r].release /\ run'[r].err = "checksum"
  BY <1>1, FailFacts DEF RefuseChanged, Pcs, WithLock, InTransaction
<1>3. /\ UNCHANGED <<lock, hasLedger, ledger, history, tx, session, sent>>
  BY DEF RefuseChanged, Release
<1>4. MigrationsTypeOK'
  BY <1>1, <1>2, <1>3 DEF Inv, MigrationsTypeOK
<1>5. /\ tx'[r] = {} /\ sent'[r] = "none" /\ session'[r] = "open" /\ lock' = r
      /\ \A x \in Runs \ {r} : tx'[x] = tx[x] /\ sent'[x] = sent[x] /\ session'[x] = session[x]
  BY <1>1, <1>2, <1>3 DEF Inv, MigrationsTypeOK
<1>6. RunInv(r)'
  BY <1>1, <1>2, <1>3, <1>5, HolderFacts DEF RunInv, Applied, Verified, InTransaction, RunType
<1>7. TransactionInv(r)'
  BY <1>1, <1>2, <1>3, <1>5, HolderFacts DEF TransactionInv, InTransaction
<1> QED BY <1>1, <1>2, <1>3, <1>4, <1>5, <1>6, <1>7, Frame, HolderFacts, RunsAssumption DEF WithLock, InTransaction

\* FindNew: the ledger has no row under the name of the file.
LEMMA FindNewInv ==
  ASSUME Inv, NEW r \in Runs, FindNew(r)
  PROVE  Inv'
<1>1. run[r].pc = "check" /\ lock = r /\ session[r] = "open" /\ sent[r] = "none" /\ tx[r] = {}
  BY HolderFacts, RunsAssumption DEF FindNew, Inv, MigrationsInv, LockInv, TransactionInv, WithLock, InTransaction
<1>2. /\ run' \in [Runs -> RunType]
      /\ \A x \in Runs \ {r} : run'[x] = run[x]
      /\ run'[r].pc = "begin" /\ run'[r].file = run[r].file
      /\ run'[r].release = run[r].release /\ run'[r].err = run[r].err
  BY <1>1, GotoFacts DEF FindNew, Pcs, WithLock, InTransaction
<1>3. /\ UNCHANGED <<lock, hasLedger, ledger, history, tx, session, sent>>
  BY DEF FindNew, Release
<1>4. MigrationsTypeOK'
  BY <1>1, <1>2, <1>3 DEF Inv, MigrationsTypeOK
<1>5. /\ tx'[r] = {} /\ sent'[r] = "none" /\ session'[r] = "open" /\ lock' = r
      /\ \A x \in Runs \ {r} : tx'[x] = tx[x] /\ sent'[x] = sent[x] /\ session'[x] = session[x]
  BY <1>1, <1>2, <1>3 DEF Inv, MigrationsTypeOK
<1>8. Applied(r) = {} /\ Applied(r)' = {}
  BY <1>2, <1>3 DEF FindNew, Applied
<1>6. RunInv(r)'
  BY <1>1, <1>2, <1>3, <1>5, <1>8, HolderFacts DEF RunInv, Applied, InTransaction, RunType, Verified
<1>7. TransactionInv(r)'
  BY <1>1, <1>2, <1>3, <1>5, HolderFacts DEF TransactionInv, InTransaction
<1> QED BY <1>1, <1>2, <1>3, <1>4, <1>5, <1>6, <1>7, Frame, HolderFacts, RunsAssumption DEF WithLock, InTransaction

\* BeginTx: the transaction is opened under the lock.
LEMMA BeginTxInv ==
  ASSUME Inv, NEW r \in Runs, BeginTx(r)
  PROVE  Inv'
<1>1. run[r].pc = "begin" /\ lock = r /\ session[r] = "open" /\ sent[r] = "none"
  BY HolderFacts, RunsAssumption DEF BeginTx, Inv, MigrationsInv, LockInv, TransactionInv, WithLock, InTransaction
<1>2. /\ run' \in [Runs -> RunType]
      /\ \A x \in Runs \ {r} : run'[x] = run[x]
      /\ run'[r].pc = "apply" /\ run'[r].file = run[r].file
      /\ run'[r].release = run[r].release /\ run'[r].err = run[r].err
  BY <1>1, GotoFacts DEF BeginTx, Pcs, WithLock, InTransaction
<1>3. /\ tx' = [tx EXCEPT ![r] = {"begun"}] /\ UNCHANGED <<lock, hasLedger, ledger, history, session, sent>>
  BY DEF BeginTx, Release
<1>4. MigrationsTypeOK'
  BY <1>1, <1>2, <1>3 DEF Inv, MigrationsTypeOK
<1>5. /\ tx'[r] = {"begun"} /\ sent'[r] = "none" /\ session'[r] = "open" /\ lock' = r
      /\ \A x \in Runs \ {r} : tx'[x] = tx[x] /\ sent'[x] = sent[x] /\ session'[x] = session[x]
  BY <1>1, <1>2, <1>3 DEF Inv, MigrationsTypeOK
<1>8. /\ run[r].file \in run[r].release /\ Verified(r) /\ Applied(r) = {} /\ hasLedger
      /\ run[r].release \in Releases \cup {{}} /\ run[r].err = "none" /\ run[r].release \in Releases
  BY <1>1, HolderFacts DEF RunInv, RunType
<1>9. Verified(r)' /\ Applied(r)' = {}
  BY <1>2, <1>3, <1>8 DEF Verified, Applied
<1>6. RunInv(r)'
  BY <1>1, <1>2, <1>3, <1>5, <1>8, <1>9, HolderFacts DEF RunInv, Applied, Verified, InTransaction, RunType
<1>7. TransactionInv(r)'
  BY <1>1, <1>2, <1>3, <1>5, HolderFacts DEF TransactionInv, InTransaction
<1> QED BY <1>1, <1>2, <1>3, <1>4, <1>5, <1>6, <1>7, Frame, HolderFacts, RunsAssumption DEF WithLock, InTransaction

\* ApplyMigration: the migration runs inside the transaction.
LEMMA ApplyMigrationInv ==
  ASSUME Inv, NEW r \in Runs, ApplyMigration(r)
  PROVE  Inv'
<1>1. run[r].pc = "apply" /\ lock = r /\ session[r] = "open" /\ sent[r] = "none" /\ tx[r] = {"begun"}
  BY HolderFacts, RunsAssumption DEF ApplyMigration, Inv, MigrationsInv, LockInv, TransactionInv, WithLock, InTransaction
<1>2. /\ run' \in [Runs -> RunType]
      /\ \A x \in Runs \ {r} : run'[x] = run[x]
      /\ run'[r].pc = "record" /\ run'[r].file = run[r].file
      /\ run'[r].release = run[r].release /\ run'[r].err = run[r].err
  BY <1>1, GotoFacts DEF ApplyMigration, Pcs, WithLock, InTransaction
<1>3. /\ tx' = [tx EXCEPT ![r] = @ \cup {"ran"}] /\ UNCHANGED <<lock, hasLedger, ledger, history, session, sent>>
  BY DEF ApplyMigration, Release
<1>4. MigrationsTypeOK'
  BY <1>1, <1>2, <1>3 DEF Inv, MigrationsTypeOK
<1>5. /\ tx'[r] = {"begun", "ran"} /\ sent'[r] = "none" /\ session'[r] = "open" /\ lock' = r
      /\ \A x \in Runs \ {r} : tx'[x] = tx[x] /\ sent'[x] = sent[x] /\ session'[x] = session[x]
  BY <1>1, <1>2, <1>3 DEF Inv, MigrationsTypeOK
<1>6. RunInv(r)'
  BY <1>1, <1>2, <1>3, <1>5, HolderFacts DEF RunInv, Applied, InTransaction, RunType, Verified
<1>7. TransactionInv(r)'
  BY <1>1, <1>2, <1>3, <1>5, HolderFacts DEF TransactionInv, InTransaction
<1> QED BY <1>1, <1>2, <1>3, <1>4, <1>5, <1>6, <1>7, Frame, HolderFacts, RunsAssumption DEF WithLock, InTransaction

\* Unlock: the lock is given up by the run that has it, its transaction closed.
LEMMA UnlockInv ==
  ASSUME Inv, NEW r \in Runs, Unlock(r)
  PROVE  Inv'
<1>1. run[r].pc = "unlock" /\ lock = r /\ session[r] = "open" /\ sent[r] = "none" /\ tx[r] = {}
  BY HolderFacts, RunsAssumption DEF Unlock, Inv, MigrationsInv, LockInv, TransactionInv, WithLock, InTransaction
<1>2. /\ run' \in [Runs -> RunType]
      /\ \A x \in Runs \ {r} : run'[x] = run[x]
      /\ run'[r].pc = "returned" /\ run'[r].file = run[r].file
      /\ run'[r].release = run[r].release /\ run'[r].err = run[r].err
  BY <1>1, GotoFacts DEF Unlock, Pcs, WithLock, InTransaction
<1>3. /\ /\ lock' = (IF lock = r THEN NoRun ELSE lock)
      /\ session' = (IF run[r].err = "none" THEN session ELSE [session EXCEPT ![r] = "lost"])
      /\ UNCHANGED <<hasLedger, ledger, history, tx, sent>>
  BY DEF Unlock, Release
<1>4. MigrationsTypeOK'
  BY <1>1, <1>2, <1>3 DEF Inv, MigrationsTypeOK
<1>5. /\ tx'[r] = {} /\ sent'[r] = "none" /\ lock' = NoRun
      /\ \A x \in Runs \ {r} : tx'[x] = tx[x] /\ sent'[x] = sent[x] /\ session'[x] = session[x]
  BY <1>1, <1>2, <1>3 DEF Inv, MigrationsTypeOK
<1>6. RunInv(r)'
  BY <1>1, <1>2, <1>3, <1>5, HolderFacts DEF RunInv, Applied, InTransaction, RunType, Verified
<1>7. TransactionInv(r)'
  BY <1>1, <1>2, <1>3, <1>5, HolderFacts DEF TransactionInv, InTransaction
<1> QED BY <1>1, <1>2, <1>3, <1>4, <1>5, <1>6, <1>7, Frame, HolderFacts, RunsAssumption DEF WithLock, InTransaction

\* UnlockFails: the lock stays with the session until it ends.
LEMMA UnlockFailsInv ==
  ASSUME Inv, NEW r \in Runs, UnlockFails(r)
  PROVE  Inv'
<1>1. run[r].pc = "unlock" /\ lock = r /\ session[r] = "open" /\ sent[r] = "none" /\ tx[r] = {}
  BY HolderFacts, RunsAssumption DEF UnlockFails, Inv, MigrationsInv, LockInv, TransactionInv, WithLock, InTransaction
<1>2. /\ run' \in [Runs -> RunType]
      /\ \A x \in Runs \ {r} : run'[x] = run[x]
      /\ run'[r].pc = "returned" /\ run'[r].file = run[r].file
      /\ run'[r].release = run[r].release /\ run'[r].err = run[r].err
  BY <1>1, GotoFacts DEF UnlockFails, Pcs, WithLock, InTransaction
<1>3. /\ /\ session' = [session EXCEPT ![r] = "lost"]
      /\ UNCHANGED <<lock, hasLedger, ledger, history, tx, sent>>
  BY DEF UnlockFails, Release
<1>4. MigrationsTypeOK'
  BY <1>1, <1>2, <1>3 DEF Inv, MigrationsTypeOK
<1>5. /\ tx'[r] = {} /\ sent'[r] = "none" /\ session'[r] = "lost" /\ lock' = r
      /\ \A x \in Runs \ {r} : tx'[x] = tx[x] /\ sent'[x] = sent[x] /\ session'[x] = session[x]
  BY <1>1, <1>2, <1>3 DEF Inv, MigrationsTypeOK
<1>6. RunInv(r)'
  BY <1>1, <1>2, <1>3, <1>5, HolderFacts DEF RunInv, Applied, InTransaction, RunType, Verified
<1>7. TransactionInv(r)'
  BY <1>1, <1>2, <1>3, <1>5, HolderFacts DEF TransactionInv, InTransaction
<1> QED BY <1>1, <1>2, <1>3, <1>4, <1>5, <1>6, <1>7, Frame, HolderFacts, RunsAssumption DEF WithLock, InTransaction

\* StatementFails: the transaction is rolled back and the lock still held.
LEMMA StatementFailsInv ==
  ASSUME Inv, NEW r \in Runs, StatementFails(r)
  PROVE  Inv'
<1>1. lock = r /\ session[r] = "open" /\ sent[r] = "none"
  BY HolderFacts, RunsAssumption DEF StatementFails, Inv, MigrationsInv, LockInv, TransactionInv, WithLock, InTransaction
<1>2. /\ run' \in [Runs -> RunType]
      /\ \A x \in Runs \ {r} : run'[x] = run[x]
      /\ run'[r].pc = "unlock" /\ run'[r].file = run[r].file
      /\ run'[r].release = run[r].release /\ run'[r].err = "other"
  BY <1>1, FailFacts DEF StatementFails, Pcs, WithLock, InTransaction
<1>3. /\ /\ tx' = [tx EXCEPT ![r] = {}]
      /\ UNCHANGED <<lock, hasLedger, ledger, history, session, sent>>
  BY DEF StatementFails, Release
<1>4. MigrationsTypeOK'
  BY <1>1, <1>2, <1>3 DEF Inv, MigrationsTypeOK
<1>5. /\ tx'[r] = {} /\ sent'[r] = "none" /\ session'[r] = "open" /\ lock' = r
      /\ \A x \in Runs \ {r} : tx'[x] = tx[x] /\ sent'[x] = sent[x] /\ session'[x] = session[x]
  BY <1>1, <1>2, <1>3 DEF Inv, MigrationsTypeOK
<1>6. RunInv(r)'
  BY <1>1, <1>2, <1>3, <1>5, HolderFacts DEF RunInv, Applied, Verified, InTransaction, RunType
<1>7. TransactionInv(r)'
  BY <1>1, <1>2, <1>3, <1>5, HolderFacts DEF TransactionInv, InTransaction
<1> QED BY <1>1, <1>2, <1>3, <1>4, <1>5, <1>6, <1>7, Frame, HolderFacts, RunsAssumption DEF WithLock, InTransaction

\* RecordMigration: the ledger has had no row of this name since it was read,
\* so the insert is not refused.
LEMMA RecordMigrationInv ==
  ASSUME Inv, NEW r \in Runs, RecordMigration(r)
  PROVE  Inv'
<1>1. run[r].pc = "record" /\ lock = r /\ session[r] = "open" /\ sent[r] = "none" /\ tx[r] = {"begun", "ran"}
  BY HolderFacts DEF RecordMigration, TransactionInv, WithLock, InTransaction
<1>2. Applied(r) = {}
  BY <1>1, HolderFacts DEF RunInv, InTransaction
<1>3. /\ tx' = [tx EXCEPT ![r] = @ \cup {"recorded"}] /\ Goto(r, "commit")
      /\ UNCHANGED <<lock, hasLedger, ledger, history, session, sent>>
  BY <1>2 DEF RecordMigration
<1>4. /\ run' \in [Runs -> RunType]
      /\ \A x \in Runs \ {r} : run'[x] = run[x]
      /\ run'[r].pc = "commit" /\ run'[r].file = run[r].file
      /\ run'[r].release = run[r].release /\ run'[r].err = run[r].err
  BY <1>3, GotoFacts DEF Pcs, WithLock, InTransaction
<1>5. MigrationsTypeOK'
  BY <1>3, <1>4 DEF Inv, MigrationsTypeOK
<1>6. /\ tx'[r] = {"begun", "ran", "recorded"} /\ sent'[r] = "none" /\ session'[r] = "open" /\ lock' = r
      /\ \A x \in Runs \ {r} : tx'[x] = tx[x] /\ sent'[x] = sent[x] /\ session'[x] = session[x]
  BY <1>1, <1>3 DEF Inv, MigrationsTypeOK
<1>7. Verified(r) => Verified(r)'
  BY <1>3, <1>4 DEF Verified
<1>8. RunInv(r)'
  BY <1>1, <1>3, <1>4, <1>6, <1>7, HolderFacts DEF RunInv, Applied, Verified, InTransaction
<1>9. TransactionInv(r)'
  BY <1>4, <1>6 DEF TransactionInv, InTransaction
<1> QED BY <1>1, <1>3, <1>4, <1>5, <1>6, <1>8, <1>9, Frame, HolderFacts, RunsAssumption DEF WithLock, InTransaction

\* ConnectFails: the run returns without ever having had a session.
LEMMA ConnectFailsInv ==
  ASSUME Inv, NEW r \in Runs, ConnectFails(r)
  PROVE  Inv'
<1> DEFINE v == [IdleRun EXCEPT !.pc = "returned", !.err = "other"]
<1>0. IdleRun \in RunType /\ IdleRun.release = {}
  BY DEF RunType, IdleRun
<1>1. v \in RunType /\ v.pc = "returned" /\ v.release = {} /\ v.err = "other"
  BY <1>0 DEF RunType
<1>2. RunBecomes(r, v) /\ UNCHANGED <<lock, hasLedger, ledger, history, tx, session, sent>>
  BY DEF ConnectFails
<1> HIDE DEF v
<1>3. /\ run' \in [Runs -> RunType] /\ run'[r] = v
      /\ \A x \in Runs \ {r} : run'[x] = run[x]
  BY <1>1, <1>2, RunTyped
<1>4. lock # r /\ sent[r] = "none" /\ tx[r] = {} /\ run[r].release = {}
  BY HolderFacts, RunsAssumption DEF ConnectFails, Inv, MigrationsInv, LockInv, TransactionInv, RunInv, InTransaction
<1>5. MigrationsTypeOK'
  BY <1>2, <1>3 DEF Inv, MigrationsTypeOK
<1>6. RunInv(r)'
  BY <1>1, <1>2, <1>3, <1>4 DEF RunInv, Applied, Verified, InTransaction
<1>7. TransactionInv(r)'
  BY <1>1, <1>2, <1>3, <1>4 DEF TransactionInv, InTransaction
<1> QED BY <1>1, <1>2, <1>3, <1>4, <1>5, <1>6, <1>7, Frame DEF WithLock, InTransaction

\* ConnectionLost: the transaction and the lock stay as they are, with a COMMIT
\* on its way only if the transaction was complete.
LEMMA ConnectionLostInv ==
  ASSUME Inv, NEW r \in Runs, ConnectionLost(r)
  PROVE  Inv'
<1> DEFINE v == [run[r] EXCEPT !.pc = "returned", !.err = "other"]
<1>1. run[r] \in RunType
  BY HolderFacts
<1>2. v \in RunType /\ v.pc = "returned" /\ v.file = run[r].file /\ v.release = run[r].release /\ v.err = "other"
  BY <1>1 DEF RunType
<1>3. RunBecomes(r, v) /\ UNCHANGED <<lock, hasLedger, ledger, history, tx>>
  BY DEF ConnectionLost
<1> HIDE DEF v
<1>4. /\ run' \in [Runs -> RunType] /\ run'[r] = v
      /\ \A x \in Runs \ {r} : run'[x] = run[x]
  BY <1>2, <1>3, RunTyped
<1>5. PICK stmt \in {"none"} \cup ({run[r].pc} \cap {"lock", "ledger", "commit"}) :
        sent' = [sent EXCEPT ![r] = stmt]
  BY DEF ConnectionLost
<1>6. session' = [session EXCEPT ![r] = "lost"]
  BY DEF ConnectionLost
<1>7. MigrationsTypeOK'
  BY <1>3, <1>4, <1>5, <1>6 DEF Inv, MigrationsTypeOK
<1>8. /\ session'[r] = "lost" /\ sent'[r] = stmt /\ tx'[r] = tx[r]
      /\ \A x \in Runs \ {r} : tx'[x] = tx[x] /\ sent'[x] = sent[x] /\ session'[x] = session[x]
  BY <1>3, <1>5, <1>6 DEF Inv, MigrationsTypeOK
<1>9. Verified(r) => Verified(r)'
  BY <1>2, <1>3, <1>4 DEF Verified
<1>10. RunInv(r)'
  BY <1>2, <1>3, <1>4, <1>8, <1>9, HolderFacts DEF RunInv, Applied, Verified, InTransaction
<1>11. TransactionInv(r)'
  BY <1>2, <1>4, <1>5, <1>8, HolderFacts DEF TransactionInv, InTransaction
<1> QED BY <1>2, <1>3, <1>4, <1>7, <1>8, <1>10, <1>11, Frame, HolderFacts DEF WithLock, InTransaction

\* A run whose session is lost or has still a statement to execute has returned.
LEMMA LostFacts ==
  ASSUME Inv, NEW r \in Runs, session[r] = "lost" \/ sent[r] # "none"
  PROVE  session[r] = "lost" /\ run[r].pc \notin {"lock"} \cup WithLock
BY DEF Inv, MigrationsInv, LockInv

\* LateLock: a lock that is granted to a lost session is given up when it ends.
LEMMA LateLockInv ==
  ASSUME Inv, NEW r \in Runs, LateLock(r)
  PROVE  Inv'
<1>1. /\ session[r] = "lost" /\ run[r].pc \notin {"start", "lock"} \cup WithLock /\ lock = NoRun
  BY LostFacts DEF LateLock, Inv, MigrationsInv, LockInv
<1>2. lock' = r /\ sent' = [sent EXCEPT ![r] = "none"]
      /\ UNCHANGED <<hasLedger, ledger, history, tx, session, run>>
  BY DEF LateLock
<1>3. MigrationsTypeOK'
  BY <1>2 DEF Inv, MigrationsTypeOK
<1>4. /\ sent'[r] = "none"
      /\ \A x \in Runs \ {r} : sent'[x] = sent[x]
  BY <1>2 DEF Inv, MigrationsTypeOK
<1>5. RunInv(r)'
  BY <1>2, HolderFacts DEF RunInv, Applied, Verified
<1>6. TransactionInv(r)'
  BY <1>2, <1>4, HolderFacts DEF TransactionInv
<1> QED BY <1>1, <1>2, <1>3, <1>4, <1>5, <1>6, Frame, HolderFacts, RunsAssumption

\* LateLedger: the table is there, whoever created it.
LEMMA LateLedgerInv ==
  ASSUME Inv, NEW r \in Runs, LateLedger(r)
  PROVE  Inv'
<1>1. session[r] = "lost" /\ run[r].pc \notin {"start", "lock"} \cup WithLock
  BY LostFacts DEF LateLedger, Inv, MigrationsInv, LockInv
<1>2. hasLedger' = TRUE /\ sent' = [sent EXCEPT ![r] = "none"]
      /\ UNCHANGED <<lock, ledger, history, tx, session, run>>
  BY DEF LateLedger
<1>3. MigrationsTypeOK'
  BY <1>2 DEF Inv, MigrationsTypeOK
<1>4. /\ sent'[r] = "none"
      /\ \A x \in Runs \ {r} : sent'[x] = sent[x]
  BY <1>2 DEF Inv, MigrationsTypeOK
<1>5. RunInv(r)'
  BY <1>2, HolderFacts DEF RunInv, Applied, Verified
<1>6. TransactionInv(r)'
  BY <1>2, <1>4, HolderFacts DEF TransactionInv
<1> QED BY <1>1, <1>2, <1>3, <1>4, <1>5, <1>6, Frame, HolderFacts, RunsAssumption

\* SessionEnds: nothing of the session is left, and the lock is free again.
LEMMA SessionEndsInv ==
  ASSUME Inv, NEW r \in Runs, SessionEnds(r)
  PROVE  Inv'
<1>1. session[r] = "lost" /\ run[r].pc \notin {"lock"} \cup WithLock
  BY LostFacts DEF SessionEnds
<1>2. /\ session' = [session EXCEPT ![r] = "ended"]
      /\ sent' = [sent EXCEPT ![r] = "none"]
      /\ tx' = [tx EXCEPT ![r] = {}]
      /\ lock' = (IF lock = r THEN NoRun ELSE lock)
      /\ UNCHANGED <<hasLedger, ledger, history, run>>
  BY DEF SessionEnds, Release
<1>3. MigrationsTypeOK'
  BY <1>2 DEF Inv, MigrationsTypeOK
<1>4. /\ sent'[r] = "none" /\ tx'[r] = {} /\ session'[r] = "ended" /\ lock' # r
      /\ \A x \in Runs \ {r} : tx'[x] = tx[x] /\ sent'[x] = sent[x] /\ session'[x] = session[x]
  BY <1>2, RunsAssumption DEF Inv, MigrationsTypeOK
<1>5. Verified(r) => Verified(r)'
  BY <1>2 DEF Verified
<1>6. RunInv(r)'
  BY <1>1, <1>2, <1>4, <1>5, HolderFacts DEF RunInv, Applied, Verified, WithLock, InTransaction
<1>7. TransactionInv(r)'
  BY <1>1, <1>2, <1>4 DEF TransactionInv, WithLock, InTransaction
<1> QED BY <1>1, <1>2, <1>3, <1>4, <1>6, <1>7, Frame, HolderFacts, RunsAssumption

\* What a COMMIT publishes: a migration of a new name, with its ledger row.
LEMMA PublishFacts ==
  ASSUME Inv, NEW r \in Runs, tx[r] = {"begun", "ran", "recorded"}, Publish(r)
  PROVE  /\ lock = r /\ run[r].file \in run[r].release /\ Verified(r) /\ Applied(r) = {}
         /\ history \in Seq(MigrationType) /\ Current(r) \in MigrationType
         /\ history' = Append(history, Current(r))
         /\ history' \in Seq(MigrationType) /\ Len(history') = Len(history) + 1
         /\ DOMAIN history' = DOMAIN history \cup {Len(history) + 1}
         /\ history'[Len(history) + 1] = Current(r)
         /\ \A i \in DOMAIN history : history'[i] = history[i]
         /\ ledger' = ledger \cup {Current(r)} /\ ledger' \subseteq MigrationType
         /\ tx' \in [Runs -> SUBSET {"begun", "ran", "recorded"}] /\ tx'[r] = {}
         /\ \A x \in Runs \ {r} : tx'[x] = tx[x]
<1>1. /\ lock = r /\ run[r].file \in run[r].release /\ Verified(r) /\ Applied(r) = {}
      /\ run[r].release \subseteq MigrationType /\ history \in Seq(MigrationType)
  BY HolderFacts DEF RunInv, RunType, Inv, MigrationsTypeOK
<1>2. Current(r) \in MigrationType
  BY <1>1 DEF Current
<1>3. /\ history' = Append(history, Current(r)) /\ ledger' = ledger \cup {Current(r)}
      /\ tx' = [tx EXCEPT ![r] = {}]
  BY DEF Publish
<1>4. /\ tx' \in [Runs -> SUBSET {"begun", "ran", "recorded"}] /\ tx'[r] = {}
      /\ \A x \in Runs \ {r} : tx'[x] = tx[x]
  BY <1>3 DEF Inv, MigrationsTypeOK
<1>5. ledger' \subseteq MigrationType
  BY <1>2, <1>3 DEF Inv, MigrationsTypeOK
<1>6. /\ history' \in Seq(MigrationType) /\ Len(history') = Len(history) + 1
      /\ DOMAIN history' = 1..(Len(history) + 1) /\ DOMAIN history = 1..Len(history)
      /\ Len(history) \in Nat
      /\ history'[Len(history) + 1] = Current(r)
      /\ \A i \in DOMAIN history : history'[i] = history[i]
  BY <1>1, <1>2, <1>3
<1>7. DOMAIN history' = DOMAIN history \cup {Len(history) + 1}
  BY <1>6
<1> QED BY <1>1, <1>2, <1>3, <1>4, <1>5, <1>6, <1>7

\* The ledger still lists the history: the new migration is the only one of its
\* name.
LEMMA CommitKeepsLedger ==
  ASSUME Inv, NEW r \in Runs, tx[r] = {"begun", "ran", "recorded"}, Publish(r)
  PROVE  LedgerIsHistory'
<1> USE PublishFacts
<1> DEFINE n == Len(history) + 1
<1>1. LedgerIsHistory
  BY DEF Inv, MigrationsInv
<1>2. \A i \in DOMAIN history : history[i].version # Current(r).version
  BY <1>1 DEF LedgerIsHistory, Executed, Applied, Current
<1>3. DOMAIN history' = DOMAIN history \cup {n} /\ history'[n] = Current(r)
  OBVIOUS
<1> HIDE DEF n
<1>4. ledger' = Executed'
  BY <1>1, <1>3 DEF LedgerIsHistory, Executed
<1>5. ASSUME NEW i \in DOMAIN history', NEW j \in DOMAIN history',
             history'[i].version = history'[j].version
      PROVE  i = j
  BY <1>1, <1>2, <1>3, <1>5 DEF LedgerIsHistory
<1> QED BY <1>4, <1>5 DEF LedgerIsHistory

\* The run that commits has verified everything its release sorts before.
LEMMA CommitKeepsOrder ==
  ASSUME Inv, NEW r \in Runs, tx[r] = {"begun", "ran", "recorded"}, Publish(r),
         \A x \in Runs : run'[x].release = run[x].release
  PROVE  ExecutedInOrder'
<1> USE PublishFacts
<1> DEFINE After(h, i, x) ==
             /\ h[i] \in run[x].release
             /\ \A file \in run[x].release :
                  file.version < h[i].version => \E k \in 1..(i - 1) : h[k] = file
<1>1. \A i \in DOMAIN history : \E x \in Runs : After(history, i, x)
  BY DEF Inv, MigrationsInv, ExecutedInOrder
<1>2. ASSUME NEW i \in DOMAIN history PROVE \E x \in Runs : After(history', i, x)
  <2>1. PICK x \in Runs : After(history, i, x)
    BY <1>1
  <2>2. \A k \in 1..(i - 1) : history'[k] = history[k]
    <3>1. \A k \in 1..(i - 1) : k \in DOMAIN history
      OBVIOUS
    <3> QED BY <3>1
  <2>3. After(history', i, x)
    BY <2>1, <2>2
  <2> QED BY <2>3
<1>3. After(history', Len(history) + 1, r)
  <2>1. history'[Len(history) + 1] = run[r].file /\ run[r].file \in run[r].release
    BY DEF Current
  <2>2. ASSUME NEW file \in run[r].release, file.version < run[r].file.version
        PROVE  \E k \in 1..Len(history) : history'[k] = file
    <3>1. file \in ledger
      BY <2>2 DEF Verified
    <3>2. PICK k \in DOMAIN history : history[k] = file
      BY <3>1 DEF Inv, MigrationsInv, LedgerIsHistory, Executed
    <3>3. k \in 1..Len(history) /\ history'[k] = file
      BY <3>2
    <3> QED BY <3>3
  <2>3. (Len(history) + 1) - 1 = Len(history)
    OBVIOUS
  <2> QED BY <2>1, <2>2, <2>3
<1>4. \A i \in DOMAIN history' : \E x \in Runs : After(history', i, x)
  <2> HIDE DEF After
  <2> QED BY <1>2, <1>3
<1> QED BY <1>4 DEF ExecutedInOrder

\* The other runs, none of which has the lock, still build on the ledger.
LEMMA CommitFrame ==
  ASSUME Inv, NEW r \in Runs, tx[r] = {"begun", "ran", "recorded"}, Publish(r), MigrationsTypeOK',
         UNCHANGED <<lock, hasLedger, session>>,
         \A x \in Runs \ {r} : run'[x] = run[x] /\ sent'[x] = sent[x],
         run'[r].release = run[r].release,
         session[r] \in {"open", "lost"}, run'[r].pc \notin {"start", "lock"},
         run'[r].pc \in WithLock => session[r] = "open",
         sent'[r] = "none", run'[r].err # "conflict",
         RunInv(r)', TransactionInv(r)'
  PROVE  Inv'
<1> USE PublishFacts
<1>1. LedgerIsHistory' /\ ExecutedInOrder'
  <2>1. \A x \in Runs : run'[x].release = run[x].release
    OBVIOUS
  <2> QED BY <2>1, CommitKeepsLedger, CommitKeepsOrder
<1>2. LockInv' /\ OneMigrator'
  BY LockStep
<1>3. NoLedgerConflict'
  BY DEF Inv, MigrationsInv, NoLedgerConflict
<1>4. ASSUME NEW x \in Runs \ {r} PROVE RunInv(x)' /\ TransactionInv(x)'
  <2>1. RunInv(x) /\ TransactionInv(x) /\ tx[x] = {} /\ run[x].pc \notin WithLock
    BY DEF Inv, MigrationsInv, OneMigrator, LockInv
  <2>2. run'[x] = run[x] /\ tx'[x] = {} /\ sent'[x] = sent[x] /\ ledger \subseteq ledger'
    BY <2>1
  <2>3. RunInv(x)'
    BY <2>1, <2>2 DEF RunInv, WithLock, InTransaction
  <2>4. TransactionInv(x)'
    BY <2>1, <2>2 DEF TransactionInv, WithLock, InTransaction
  <2> QED BY <2>3, <2>4
<1> QED BY <1>1, <1>2, <1>3, <1>4 DEF Inv, MigrationsInv

\* Commit: the file just committed is verified with the others.
LEMMA CommitInv ==
  ASSUME Inv, NEW r \in Runs, Commit(r)
  PROVE  Inv'
<1>1. /\ run[r].pc = "commit" /\ lock = r /\ session[r] = "open" /\ sent[r] = "none"
      /\ tx[r] = {"begun", "ran", "recorded"} /\ run[r].file.version \in Nat
  BY HolderFacts DEF Commit, TransactionInv, WithLock, InTransaction, RunType, MigrationType, NoFile
<1>2. Publish(r) /\ Entry(r, run[r].file.version) /\ UNCHANGED <<lock, hasLedger, session, sent>>
  BY DEF Commit
<1>3. /\ run' \in [Runs -> RunType]
      /\ \A x \in Runs \ {r} : run'[x] = run[x]
      /\ run'[r].pc \in {"unlock", "check"}
      /\ run'[r].release = run[r].release /\ run'[r].err = run[r].err
  BY <1>1, <1>2, EntryFacts
<1>4. MigrationsTypeOK'
  BY <1>1, <1>2, <1>3, PublishFacts DEF Inv, MigrationsTypeOK
<1>5. \A file \in run[r].release : file.version <= run[r].file.version => file \in ledger'
  BY <1>1, <1>2, UpToCurrent, PublishFacts
<1>6. /\ run'[r].pc = "check" => run'[r].file \in run'[r].release /\ Verified(r)'
      /\ run'[r].pc = "unlock" => run'[r].release \subseteq ledger'
  BY <1>1, <1>2, <1>5, EntryVerified
<1>7. RunInv(r)'
  <2>1. hasLedger /\ run[r].err = "none" /\ run[r].release \in Releases /\ tx'[r] = {}
    BY <1>1, <1>2, HolderFacts, PublishFacts DEF RunInv, InTransaction, RunType
  <2> QED BY <1>2, <1>3, <1>6, <2>1 DEF RunInv, InTransaction
<1>8. TransactionInv(r)'
  BY <1>1, <1>2, <1>3, PublishFacts DEF TransactionInv, InTransaction
<1> QED BY <1>1, <1>2, <1>3, <1>4, <1>7, <1>8, CommitFrame, HolderFacts

\* LateCommit: the same, for a client that is gone.
LEMMA LateCommitInv ==
  ASSUME Inv, NEW r \in Runs, LateCommit(r)
  PROVE  Inv'
<1>1. /\ session[r] = "lost" /\ run[r].pc \notin {"start", "lock"} \cup WithLock
      /\ tx[r] = {"begun", "ran", "recorded"}
  BY LostFacts, HolderFacts DEF LateCommit, Inv, MigrationsInv, LockInv, TransactionInv
<1>2. /\ Publish(r) /\ sent' = [sent EXCEPT ![r] = "none"]
      /\ UNCHANGED <<lock, hasLedger, session, run>>
  BY DEF LateCommit
<1>3. MigrationsTypeOK'
  BY <1>1, <1>2, PublishFacts DEF Inv, MigrationsTypeOK
<1>4. sent'[r] = "none" /\ \A x \in Runs \ {r} : sent'[x] = sent[x]
  BY <1>2 DEF Inv, MigrationsTypeOK
<1>5. tx'[r] = {} /\ run[r].err # "none"
  <2>1. tx'[r] = {} /\ run[r].file \in run[r].release /\ Applied(r) = {}
    BY <1>1, <1>2, PublishFacts
  <2>2. run[r].pc = "returned" /\ RunInv(r)
    BY <1>1, HolderFacts DEF RunType
  <2>3. ~(run[r].release \subseteq ledger)
    BY <2>1 DEF Applied
  <2> QED BY <2>1, <2>2, <2>3 DEF RunInv
<1>6. RunInv(r)'
  BY <1>1, <1>2, <1>5, HolderFacts DEF RunInv, Applied, Verified, WithLock, InTransaction
<1>7. TransactionInv(r)'
  BY <1>1, <1>2, <1>4, <1>5 DEF TransactionInv, WithLock, InTransaction
<1> QED BY <1>1, <1>2, <1>3, <1>4, <1>6, <1>7, CommitFrame, HolderFacts

\* Every step keeps the invariant.
LEMMA StepInv == Inv /\ [Next]_vars => Inv'
<1> SUFFICES ASSUME Inv, [Next]_vars PROVE Inv'
  OBVIOUS
<1>1. ASSUME NEW r \in Runs, NEW release \in Releases, Connect(r, release) PROVE Inv'
  BY <1>1, ConnectInv
<1>2. ASSUME NEW r \in Runs, Advance(r) PROVE Inv'
  BY <1>2, AcquireLockInv, CreateLedgerInv, SkipAppliedInv, RefuseChangedInv, FindNewInv,
     BeginTxInv, ApplyMigrationInv, RecordMigrationInv, CommitInv, UnlockInv DEF Advance
<1>3. ASSUME NEW r \in Runs, Fault(r) PROVE Inv'
  BY <1>3, StatementFailsInv, UnlockFailsInv, ConnectFailsInv, ConnectionLostInv DEF Fault
<1>4. ASSUME NEW r \in Runs, Server(r) PROVE Inv'
  BY <1>4, LateLockInv, LateLedgerInv, LateCommitInv, SessionEndsInv DEF Server
<1>5. CASE UNCHANGED vars
  <2>1. /\ lock' = lock /\ hasLedger' = hasLedger /\ ledger' = ledger /\ history' = history
        /\ tx' = tx /\ session' = session /\ sent' = sent /\ run' = run
    BY <1>5 DEF vars
  <2>2. /\ MigrationsTypeOK' /\ LockInv' /\ OneMigrator' /\ LedgerIsHistory'
        /\ ExecutedInOrder' /\ NoLedgerConflict'
    BY <2>1, OrderKept
       DEF Inv, MigrationsInv, MigrationsTypeOK, LockInv, OneMigrator, LedgerIsHistory, Executed,
           NoLedgerConflict
  <2>3. ASSUME NEW r \in Runs PROVE RunInv(r)' /\ TransactionInv(r)'
    <3>1. RunInv(r) /\ TransactionInv(r)
      BY HolderFacts
    <3> QED BY <2>1, <3>1 DEF RunInv, Verified, Applied, TransactionInv
  <2> QED BY <2>2, <2>3 DEF Inv, MigrationsInv
<1> QED BY <1>1, <1>2, <1>3, <1>4, <1>5 DEF Next, Settled

\* The types and the inductive invariant of Migrate hold for every number of
\* starting processes and every set of releases, however their statements,
\* lost connections and late executions interleave.
THEOREM MigrationsInvariant == Spec => [](MigrationsTypeOK /\ MigrationsInv)
<1>1. Spec => []Inv
  BY InitInv, StepInv, PTL DEF Spec
<1> QED BY <1>1, PTL DEF Inv

\* Migrate's guarantees about the database: one transaction at a time and under
\* the advisory lock, the ledger exactly the executed migrations and none of a
\* name twice, and no start refused by the ledger's primary key.
THEOREM MigrationsAreSerial == Spec => [](OneMigrator /\ LedgerIsHistory /\ NoLedgerConflict)
<1>1. Inv => OneMigrator /\ LedgerIsHistory /\ NoLedgerConflict
  BY DEF Inv, MigrationsInv
<1>2. Spec => []Inv
  BY MigrationsInvariant, PTL DEF Inv
<1> QED BY <1>1, <1>2, PTL

\* Migrate executes the files of a release in the order of their names, however
\* often it is interrupted and whatever other releases do in between.
THEOREM MigrationsAreOrdered == Spec => []ExecutedInOrder
<1>1. Inv => ExecutedInOrder
  BY DEF Inv, MigrationsInv
<1>2. Spec => []Inv
  BY MigrationsInvariant, PTL DEF Inv
<1> QED BY <1>1, <1>2, PTL

\* Releases that only ever add files at the end: what one has, a release with a
\* later file has under the same name too.
AppendOnly ==
  \A release, other \in Releases : \A file \in release, earlier \in other :
    earlier.version < file.version => \E same \in release : same.version = earlier.version

Sorted == \A i, j \in DOMAIN history : i < j => history[i].version < history[j].version

\* With such releases, as numbered file names suggest, the whole history is in
\* the order of the names.  Without, Migrate executes a file that was inserted
\* late after files that sort behind it.
THEOREM AppendOnlyIsSorted ==
  ASSUME AppendOnly
  PROVE  Spec => []Sorted
<1>1. ASSUME Inv PROVE Sorted
  <2> SUFFICES ASSUME NEW i \in DOMAIN history, NEW j \in DOMAIN history, i < j,
                      ~(history[i].version < history[j].version)
               PROVE  FALSE
    BY DEF Sorted
  <2>1. LedgerIsHistory /\ ExecutedInOrder /\ history \in Seq(MigrationType)
    BY <1>1 DEF Inv, MigrationsInv, MigrationsTypeOK
  <2>2. i \in Nat /\ j \in Nat /\ history[i] \in MigrationType /\ history[j] \in MigrationType
    BY <2>1
  <2>3. history[j].version < history[i].version
    <3>1. history[i].version \in Nat /\ history[j].version \in Nat
      BY <2>2 DEF MigrationType
    <3>2. history[i].version # history[j].version
      BY <2>1, <2>2 DEF LedgerIsHistory
    <3> QED BY <3>1, <3>2
  <2>4. PICK x \in Runs :
          /\ history[i] \in run[x].release
          /\ \A file \in run[x].release :
               file.version < history[i].version => \E k \in 1..(i - 1) : history[k] = file
    BY <2>1 DEF ExecutedInOrder
  <2>5. PICK y \in Runs : history[j] \in run[y].release
    BY <2>1 DEF ExecutedInOrder
  <2>6. run[x].release \in Releases /\ run[y].release \in Releases
    <3>1. /\ run[x].release \in Releases \cup {{}} /\ run[y].release \in Releases \cup {{}}
      BY <1>1, HolderFacts DEF RunInv
    <3> QED BY <2>4, <2>5, <3>1
  <2>7. PICK same \in run[x].release : same.version = history[j].version
    BY <2>3, <2>4, <2>5, <2>6 DEF AppendOnly
  <2>8. PICK k \in 1..(i - 1) : history[k] = same
    BY <2>3, <2>4, <2>7
  <2>9. k \in DOMAIN history /\ k # j
    BY <2>1, <2>2, <2>8
  <2> QED BY <2>1, <2>7, <2>8, <2>9 DEF LedgerIsHistory
<1>2. Spec => []Inv
  BY MigrationsInvariant, PTL DEF Inv
<1> QED BY <1>1, <1>2, PTL

\* A process whose Migrate returned nil finds every file of its release
\* applied, now and for as long as it serves, whatever other releases do.
THEOREM ReadyMeansMigrated == Spec => []ServesMigratedSchema
<1>1. Inv => ServesMigratedSchema
  <2> SUFFICES ASSUME Inv, NEW r \in Runs, run[r].pc = "returned", run[r].err = "none"
               PROVE  run[r].release \subseteq Executed
    BY DEF ServesMigratedSchema, Ready
  <2>1. run[r].release \subseteq ledger /\ ledger = Executed
    BY HolderFacts DEF RunInv, Inv, MigrationsInv, LedgerIsHistory
  <2> QED BY <2>1
<1>2. Spec => []Inv
  BY MigrationsInvariant, PTL DEF Inv
<1> QED BY <1>1, <1>2, PTL

\* A run that stays up, or stays down, leaves the set of those that are up.
LEMMA ReadyKept ==
  ASSUME NEW r \in Runs,
         \A x \in Runs \ {r} : run'[x] = run[x],
         (run'[r].pc = "returned" /\ run'[r].err = "none")
           <=> (run[r].pc = "returned" /\ run[r].err = "none")
  PROVE  Ready' = Ready
BY DEF Ready

\* A COMMIT is an upgrade by the run's release.
LEMMA PublishUpgrades ==
  ASSUME Inv, NEW r \in Runs, tx[r] = {"begun", "ran", "recorded"}, Publish(r), Ready' = Ready
  PROVE  History!HNext
<1> USE PublishFacts
<1>1. run[r].release \in Releases /\ ledger = Executed
  <2>1. run[r].release \in Releases \cup {{}} /\ ledger = Executed
    BY HolderFacts DEF RunInv, Inv, MigrationsInv, LedgerIsHistory
  <2> QED BY <2>1
<1>2. \A done \in Executed : done.version # run[r].file.version
  BY <1>1 DEF Applied
<1>3. \A other \in run[r].release : other.version < run[r].file.version => other \in Executed
  BY <1>1 DEF Verified
<1>4. History!Upgrade(run[r].release, run[r].file)
  BY <1>2, <1>3 DEF History!Upgrade, History!Executed, Executed, Current
<1> QED BY <1>1, <1>4 DEF History!HNext

\* A run that ends without an error comes up on a schema that has its release.
LEMMA ReturnComesUp ==
  ASSUME Inv, NEW r \in Runs, run[r].pc = "unlock", run[r].err = "none",
         Ready' = Ready \cup {r}, history' = history
  PROVE  History!HNext
<1>1. run[r].release \in Releases /\ run[r].release \subseteq Executed
  BY HolderFacts DEF RunInv, Inv, MigrationsInv, LedgerIsHistory
<1>2. r \notin Ready
  BY DEF Ready
<1>3. History!ComesUp(r, run[r].release)
  BY <1>1, <1>2 DEF History!ComesUp, History!Executed, Executed
<1> QED BY <1>1, <1>3 DEF History!HNext

\* The end of a run, unlocked or not.
LEMMA ReturnRefines ==
  ASSUME Inv, NEW r \in Runs, run[r].pc = "unlock", Goto(r, "returned"), history' = history
  PROVE  [History!HNext]_<<history, Ready>>
<1>1. /\ run'[r].pc = "returned" /\ run'[r].err = run[r].err
      /\ \A x \in Runs \ {r} : run'[x] = run[x]
  BY GotoFacts DEF Pcs
<1>2. CASE run[r].err = "none"
  <2>1. Ready' = Ready \cup {r}
    BY <1>1, <1>2 DEF Ready
  <2> QED BY <1>2, <2>1, ReturnComesUp
<1>3. CASE run[r].err # "none"
  <2>1. Ready' = Ready
    BY <1>1, <1>3 DEF Ready
  <2> QED BY <2>1
<1> QED BY <1>2, <1>3

\* Every step maps to an upgrade, a process that comes up, or a stutter.
LEMMA StepRefines == Inv /\ [Next]_vars => [History!HNext]_<<history, Ready>>
<1> SUFFICES ASSUME Inv, [Next]_vars PROVE [History!HNext]_<<history, Ready>>
  OBVIOUS
<1>1. ASSUME NEW r \in Runs, NEW release \in Releases, Connect(r, release)
      PROVE  Ready' = Ready /\ history' = history
  <2> DEFINE v == [IdleRun EXCEPT !.pc = "lock", !.release = release]
  <2>1. v \in RunType /\ v.pc = "lock"
    BY ReleasesAssumption DEF RunType, IdleRun
  <2>2. RunBecomes(r, v) /\ history' = history /\ run[r].pc = "start"
    BY <1>1 DEF Connect
  <2> HIDE DEF v
  <2> QED BY <2>1, <2>2, RunTyped, ReadyKept
<1>2. ASSUME NEW r \in Runs, Goto(r, "ledger") \/ Goto(r, "begin") \/ Goto(r, "apply") \/ Goto(r, "record") \/ Goto(r, "commit"),
             run[r].pc # "returned"
      PROVE  Ready' = Ready
  BY <1>2, GotoFacts, ReadyKept DEF Pcs, WithLock, InTransaction
<1>3. ASSUME NEW r \in Runs, NEW err \in {"checksum", "conflict", "other"}, Fail(r, err), run[r].pc # "returned"
      PROVE  Ready' = Ready
  BY <1>3, FailFacts, ReadyKept
<1>4. ASSUME NEW r \in Runs, NEW n \in Nat, Entry(r, n), run[r].pc # "returned"
      PROVE  Ready' = Ready
  <2>1. run'[r].pc # "returned" /\ \A x \in Runs \ {r} : run'[x] = run[x]
    BY <1>4, EntryFacts
  <2> QED BY <1>4, <2>1, ReadyKept
<1>5. ASSUME NEW r \in Runs, Advance(r) PROVE [History!HNext]_<<history, Ready>>
  <2>1. CASE AcquireLock(r) \/ FindNew(r) \/ BeginTx(r) \/ ApplyMigration(r)
    BY <2>1, <1>2 DEF AcquireLock, FindNew, BeginTx, ApplyMigration
  <2>2. CASE RecordMigration(r)
    BY <2>2, <1>2, <1>3 DEF RecordMigration
  <2>3. CASE CreateLedger(r) \/ SkipApplied(r)
    <3>1. run[r].file.version \in Nat
      BY HolderFacts DEF RunType, MigrationType, NoFile
    <3> QED BY <2>3, <3>1, <1>4 DEF CreateLedger, SkipApplied
  <2>4. CASE RefuseChanged(r)
    BY <2>4, <1>3 DEF RefuseChanged
  <2>5. CASE Commit(r)
    <3>1. run[r].file.version \in Nat /\ tx[r] = {"begun", "ran", "recorded"} /\ Publish(r)
      BY <2>5, HolderFacts DEF RunType, MigrationType, NoFile, Commit, TransactionInv
    <3>2. Ready' = Ready
      BY <2>5, <3>1, <1>4 DEF Commit
    <3> QED BY <3>1, <3>2, PublishUpgrades
  <2>6. CASE Unlock(r)
    BY <2>6, ReturnRefines DEF Unlock
  <2> QED BY <1>5, <2>1, <2>2, <2>3, <2>4, <2>5, <2>6 DEF Advance
<1>6. ASSUME NEW r \in Runs, Fault(r) PROVE [History!HNext]_<<history, Ready>>
  <2>1. CASE StatementFails(r)
    BY <2>1, <1>3 DEF StatementFails, WithLock, InTransaction
  <2>2. CASE UnlockFails(r)
    BY <2>2, ReturnRefines DEF UnlockFails
  <2>3. CASE ConnectFails(r)
    <3> DEFINE v == [IdleRun EXCEPT !.pc = "returned", !.err = "other"]
    <3>0. IdleRun \in RunType
      BY DEF RunType, IdleRun
    <3>1. v \in RunType /\ v.err = "other"
      BY <3>0 DEF RunType
    <3>2. RunBecomes(r, v) /\ history' = history /\ run[r].pc = "start"
      BY <2>3 DEF ConnectFails
    <3> HIDE DEF v
    <3> QED BY <3>1, <3>2, RunTyped, ReadyKept
  <2>4. CASE ConnectionLost(r)
    <3> DEFINE v == [run[r] EXCEPT !.pc = "returned", !.err = "other"]
    <3>1. run[r] \in RunType
      BY HolderFacts
    <3>2. v \in RunType /\ v.err = "other"
      BY <3>1 DEF RunType
    <3>3. RunBecomes(r, v) /\ history' = history /\ run[r].pc # "returned"
      BY <2>4 DEF ConnectionLost, WithLock, InTransaction
    <3> HIDE DEF v
    <3> QED BY <3>2, <3>3, RunTyped, ReadyKept
  <2> QED BY <1>6, <2>1, <2>2, <2>3, <2>4 DEF Fault
<1>7. ASSUME NEW r \in Runs, Server(r) PROVE [History!HNext]_<<history, Ready>>
  <2>1. Ready' = Ready
    BY <1>7 DEF Server, LateLock, LateLedger, LateCommit, SessionEnds, Ready
  <2>2. CASE LateCommit(r)
    <3>1. tx[r] = {"begun", "ran", "recorded"} /\ Publish(r)
      BY <2>2, HolderFacts DEF LateCommit, TransactionInv
    <3> QED BY <2>1, <3>1, PublishUpgrades
  <2>3. CASE LateLock(r) \/ LateLedger(r) \/ SessionEnds(r)
    BY <2>1, <2>3 DEF LateLock, LateLedger, SessionEnds
  <2> QED BY <1>7, <2>2, <2>3 DEF Server
<1>8. CASE UNCHANGED vars
  BY <1>8 DEF vars, Ready
<1> QED BY <1>1, <1>5, <1>6, <1>7, <1>8 DEF Next, Settled

\* Migrate implements a single history of upgrades: no interleaving of starts,
\* lost connections and late executions shows anything a sequence of whole
\* upgrades would not.
THEOREM MigrationsRefineHistory == Spec => ImplementsHistory
<1>1. Init => History!HInit
  <2> SUFFICES ASSUME Init PROVE History!HInit
    OBVIOUS
  <2>1. \A r \in Runs : run[r].pc = "start"
    BY DEF Init, IdleRun
  <2> QED BY <2>1 DEF Init, Ready, History!HInit
<1>2. Spec => []Inv
  BY MigrationsInvariant, PTL DEF Inv
<1> QED BY <1>1, <1>2, StepRefines, PTL DEF Spec, ImplementsHistory, History!HSpec
====
