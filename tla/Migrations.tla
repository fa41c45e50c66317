---- MODULE Migrations ----
(***************************************************************************)
(* Migrate of internal/repository/postgres/migrations.go, run by every      *)
(* process at startup: an advisory lock, a ledger of applied checksums and  *)
(* one transaction per migration.  A run of Migrate has one database        *)
(* session; a process that is started again is another run.  One action     *)
(* per statement that Migrate sends.                                        *)
(*                                                                          *)
(* A client can be gone while its session lives on: the server finishes the *)
(* statement it was sent, and only then notices, rolls back and gives up    *)
(* the session's lock.                                                      *)
(***************************************************************************)
EXTENDS Naturals, Sequences

CONSTANTS Runs,       \* the runs of Migrate
          NoRun,      \* no run
          Checksums,  \* the checksums of migration files
          Releases    \* the releases: the sets of the files they embed

\* A migration is a file.  Its version is its name, of which only the order
\* matters: a number above 0.
MigrationType == [version : Nat \ {0}, checksum : Checksums]

ASSUME RunsAssumption == NoRun \notin Runs
\* A directory has one file of a name.
ASSUME ReleasesAssumption ==
  \A release \in Releases :
    /\ release \subseteq MigrationType
    /\ \A file, other \in release : file.version = other.version => file = other

VARIABLES
  lock,       \* the run whose session holds the advisory lock
  hasLedger,  \* whether schema_migrations exists
  ledger,     \* its rows
  history,    \* the migrations executed and committed, in order
  tx,         \* what the open transaction of a run's session has done
  session,    \* the session of a run
  sent,       \* the statement a lost session may still execute
  run         \* where a run is in Migrate

vars == <<lock, hasLedger, ledger, history, tx, session, sent, run>>

\* A run: where it is, its release, the file at hand and why it failed.
NoFile == [version |-> 0, checksum |-> "none"]
InTransaction == {"apply", "record", "commit"}
WithLock == {"ledger", "check", "begin", "unlock"} \cup InTransaction
RunType ==
  [pc : {"start", "lock", "returned"} \cup WithLock, release : SUBSET MigrationType,
   file : MigrationType \cup {NoFile}, err : {"none", "checksum", "conflict", "other"}]
IdleRun == [pc |-> "start", release |-> {}, file |-> NoFile, err |-> "none"]

\* Type correctness: the ledger holds versions and checksums, and a
\* transaction exists only between its BEGIN and its end.
MigrationsTypeOK ==
  /\ lock \in Runs \cup {NoRun}
  /\ hasLedger \in BOOLEAN
  /\ ledger \subseteq MigrationType
  /\ history \in Seq(MigrationType)
  /\ tx \in [Runs -> SUBSET {"begun", "ran", "recorded"}]
  /\ session \in [Runs -> {"none", "open", "lost", "ended"}]
  /\ sent \in [Runs -> {"none", "lock", "ledger", "commit"}]
  /\ run \in [Runs -> RunType]

Init ==
  /\ lock = NoRun
  /\ hasLedger = FALSE
  /\ ledger = {}
  /\ history = << >>
  /\ tx = [r \in Runs |-> {}]
  /\ session = [r \in Runs |-> "none"]
  /\ sent = [r \in Runs |-> "none"]
  /\ run = [r \in Runs |-> IdleRun]

\* Bug: the checksum of the file is not computed.
CurrentWithoutChecksum(r) == [version |-> run[r].file.version, checksum |-> ""]

\* The file a run is at, and the rows the ledger has under its name.
Current(r) == run[r].file
Applied(r) == {row \in ledger : row.version = run[r].file.version}

RunBecomes(r, value) == run' = [run EXCEPT ![r] = value]
Goto(r, pc) == RunBecomes(r, [run[r] EXCEPT !.pc = pc])
Fail(r, err) == RunBecomes(r, [run[r] EXCEPT !.pc = "unlock", !.err = err])

\* Bug: the files are not sorted.
EntryUnsorted(r, v) ==
  LET rest == {file \in run[r].release : file.version # v /\ file \notin ledger}
  IN  \/ rest = {} /\ Goto(r, "unlock")
      \/ \E file \in rest : RunBecomes(r, [run[r] EXCEPT !.pc = "check", !.file = file])

\* The head of the loop over the sorted files, after the one named v.
Entry(r, v) ==
  LET rest == {file \in run[r].release : file.version > v}
  IN  \/ rest = {} /\ Goto(r, "unlock")
      \/ \E file \in rest :
           /\ \A other \in rest : file.version <= other.version
           /\ RunBecomes(r, [run[r] EXCEPT !.pc = "check", !.file = file])

\* COMMIT: what the transaction did becomes visible.
Publish(r) ==
  /\ history' = IF "ran" \in tx[r] THEN Append(history, Current(r)) ELSE history
  /\ ledger' = IF "recorded" \in tx[r] THEN ledger \cup {Current(r)} ELSE ledger
  /\ tx' = [tx EXCEPT ![r] = {}]

Release(r) == lock' = IF lock = r THEN NoRun ELSE lock
----
Connect(r, release) ==
  /\ run[r].pc = "start"
  /\ RunBecomes(r, [IdleRun EXCEPT !.pc = "lock", !.release = release])
  /\ session' = [session EXCEPT ![r] = "open"]
  /\ UNCHANGED <<lock, hasLedger, ledger, history, tx, sent>>

\* Bug: the lock is taken for the statement only, as pg_advisory_xact_lock would.
AcquireLockForStatement(r) ==
  /\ run[r].pc = "lock"
  /\ lock = NoRun
  /\ Goto(r, "ledger")
  /\ UNCHANGED <<lock, hasLedger, ledger, history, tx, session, sent>>

AcquireLock(r) ==
  /\ run[r].pc = "lock"
  /\ lock = NoRun
  /\ lock' = r
  /\ Goto(r, "ledger")
  /\ UNCHANGED <<hasLedger, ledger, history, tx, session, sent>>

CreateLedger(r) ==
  /\ run[r].pc = "ledger"
  /\ hasLedger' = TRUE
  /\ Entry(r, 0)
  /\ UNCHANGED <<lock, ledger, history, tx, session, sent>>

\* Bug: a file counts as applied whatever its checksum.
SkipAppliedAnyChecksum(r) ==
  /\ run[r].pc = "check"
  /\ hasLedger
  /\ Applied(r) # {}
  /\ Entry(r, run[r].file.version)
  /\ UNCHANGED <<lock, hasLedger, ledger, history, tx, session, sent>>

\* The three results of reading the ledger: the file is applied as it is, ...
SkipApplied(r) ==
  /\ run[r].pc = "check"
  /\ hasLedger
  /\ Current(r) \in Applied(r)
  /\ Entry(r, run[r].file.version)
  /\ UNCHANGED <<lock, hasLedger, ledger, history, tx, session, sent>>

\* ... it was applied with other contents, ...
RefuseChanged(r) ==
  /\ run[r].pc = "check"
  /\ hasLedger
  /\ Applied(r) # {}
  /\ Current(r) \notin Applied(r)
  /\ Fail(r, "checksum")
  /\ UNCHANGED <<lock, hasLedger, ledger, history, tx, session, sent>>

\* ... or it is new.
FindNew(r) ==
  /\ run[r].pc = "check"
  /\ hasLedger
  /\ Applied(r) = {}
  /\ Goto(r, "begin")
  /\ UNCHANGED <<lock, hasLedger, ledger, history, tx, session, sent>>

BeginTx(r) ==
  /\ run[r].pc = "begin"
  /\ tx' = [tx EXCEPT ![r] = {"begun"}]
  /\ Goto(r, "apply")
  /\ UNCHANGED <<lock, hasLedger, ledger, history, session, sent>>

\* Bug: the migration is executed on the connection, outside the transaction.
ApplyMigrationOutside(r) ==
  /\ run[r].pc = "apply"
  /\ history' = Append(history, Current(r))
  /\ Goto(r, "record")
  /\ UNCHANGED <<lock, hasLedger, ledger, tx, session, sent>>

ApplyMigration(r) ==
  /\ run[r].pc = "apply"
  /\ tx' = [tx EXCEPT ![r] = @ \cup {"ran"}]
  /\ Goto(r, "record")
  /\ UNCHANGED <<lock, hasLedger, ledger, history, session, sent>>

\* The primary key of the ledger: the insert waits for another transaction's
\* row of the same name, and is refused once there is one.
RecordMigration(r) ==
  /\ run[r].pc = "record"
  /\ \A other \in Runs \ {r} : "recorded" \in tx[other] => run[other].file.version # run[r].file.version
  /\ IF Applied(r) = {}
     THEN tx' = [tx EXCEPT ![r] = @ \cup {"recorded"}] /\ Goto(r, "commit")
     ELSE tx' = [tx EXCEPT ![r] = {}] /\ Fail(r, "conflict")
  /\ UNCHANGED <<lock, hasLedger, ledger, history, session, sent>>

Commit(r) ==
  /\ run[r].pc = "commit"
  /\ Publish(r)
  /\ Entry(r, run[r].file.version)
  /\ UNCHANGED <<lock, hasLedger, session, sent>>

\* Bug: the lock is left to the session, which goes back to the pool.
UnlockForgotten(r) ==
  /\ run[r].pc = "unlock"
  /\ session' = IF run[r].err = "none" THEN session ELSE [session EXCEPT ![r] = "lost"]
  /\ Goto(r, "returned")
  /\ UNCHANGED <<lock, hasLedger, ledger, history, tx, sent>>

\* The deferred unlock.  The connection goes back to the pool of the process,
\* which serves; or the process exits with the error.
Unlock(r) ==
  /\ run[r].pc = "unlock"
  /\ Release(r)
  /\ session' = IF run[r].err = "none" THEN session ELSE [session EXCEPT ![r] = "lost"]
  /\ Goto(r, "returned")
  /\ UNCHANGED <<hasLedger, ledger, history, tx, sent>>

\* The unlock fails, or takes longer than its 5 seconds: the error is ignored
\* and the driver drops the connection.
UnlockFails(r) ==
  /\ run[r].pc = "unlock"
  /\ session' = [session EXCEPT ![r] = "lost"]
  /\ Goto(r, "returned")
  /\ UNCHANGED <<lock, hasLedger, ledger, history, tx, sent>>

\* Bug: the error path forgets to roll back.
StatementFailsWithoutRollback(r) ==
  /\ run[r].pc \in WithLock \ {"unlock"}
  /\ Fail(r, "other")
  /\ UNCHANGED <<lock, hasLedger, ledger, history, tx, session, sent>>

\* A statement returns an error on a connection that stays usable: the 10
\* seconds of the startup are over, a signal arrived, or the server refused it.
\* An open transaction is rolled back and the lock is given up.
StatementFails(r) ==
  /\ run[r].pc \in WithLock \ {"unlock"}
  /\ tx' = [tx EXCEPT ![r] = {}]
  /\ Fail(r, "other")
  /\ UNCHANGED <<lock, hasLedger, ledger, history, session, sent>>

\* No connection is to be had.
ConnectFails(r) ==
  /\ run[r].pc = "start"
  /\ RunBecomes(r, [IdleRun EXCEPT !.pc = "returned", !.err = "other"])
  /\ UNCHANGED <<lock, hasLedger, ledger, history, tx, session, sent>>

\* The connection breaks or the process dies, at any statement; or the wait for
\* the lock is given up, which leaves nothing to unlock.  What was sent is
\* executed yet, or never.
ConnectionLost(r) ==
  /\ run[r].pc \in {"lock"} \cup WithLock
  /\ RunBecomes(r, [run[r] EXCEPT !.pc = "returned", !.err = "other"])
  /\ session' = [session EXCEPT ![r] = "lost"]
  /\ \E stmt \in {"none"} \cup ({run[r].pc} \cap {"lock", "ledger", "commit"}) :
       sent' = [sent EXCEPT ![r] = stmt]
  /\ UNCHANGED <<lock, hasLedger, ledger, history, tx>>
----
\* The server (external): a lost session executes what it was sent ...
LateLock(r) ==
  /\ sent[r] = "lock"
  /\ lock = NoRun
  /\ lock' = r
  /\ sent' = [sent EXCEPT ![r] = "none"]
  /\ UNCHANGED <<hasLedger, ledger, history, tx, session, run>>

LateLedger(r) ==
  /\ sent[r] = "ledger"
  /\ hasLedger' = TRUE
  /\ sent' = [sent EXCEPT ![r] = "none"]
  /\ UNCHANGED <<lock, ledger, history, tx, session, run>>

LateCommit(r) ==
  /\ sent[r] = "commit"
  /\ Publish(r)
  /\ sent' = [sent EXCEPT ![r] = "none"]
  /\ UNCHANGED <<lock, hasLedger, session, run>>

\* ... and ends: its transaction is rolled back, its lock given up.
SessionEnds(r) ==
  /\ session[r] = "lost"
  /\ session' = [session EXCEPT ![r] = "ended"]
  /\ sent' = [sent EXCEPT ![r] = "none"]
  /\ tx' = [tx EXCEPT ![r] = {}]
  /\ Release(r)
  /\ UNCHANGED <<hasLedger, ledger, history, run>>
----
\* The steps of a run whose calls succeed, ...
Advance(r) ==
  \/ AcquireLock(r) \/ CreateLedger(r)
  \/ SkipApplied(r) \/ RefuseChanged(r) \/ FindNew(r)
  \/ BeginTx(r) \/ ApplyMigration(r) \/ RecordMigration(r) \/ Commit(r)
  \/ Unlock(r)

\* ... and of one whose calls fail.
Fault(r) == StatementFails(r) \/ UnlockFails(r) \/ ConnectFails(r) \/ ConnectionLost(r)

Server(r) == LateLock(r) \/ LateLedger(r) \/ LateCommit(r) \/ SessionEnds(r)

\* Every run has returned and no session is left to end.
Settled ==
  /\ \A r \in Runs : run[r].pc = "returned" /\ session[r] # "lost"
  /\ UNCHANGED vars

Next ==
  \/ \E r \in Runs, release \in Releases : Connect(r, release)
  \/ \E r \in Runs : Advance(r) \/ Fault(r) \/ Server(r)
  \/ Settled

Spec == Init /\ [][Next]_vars

\* Every statement returns once the server can execute it, and the server
\* notices that a client is gone.  Faults and late statements may never happen.
FairSpec ==
  /\ Spec
  /\ \A r \in Runs : WF_vars(Advance(r)) /\ WF_vars(SessionEnds(r))
----
Ready == {r \in Runs : run[r].pc = "returned" /\ run[r].err = "none"}

\* "Locked, transactional": a migration is executed, or waits to be committed,
\* only while its session holds the advisory lock, even if its client is gone
\* and another process is starting.
OneMigrator == \A r \in Runs : tx[r] # {} => lock = r

\* "Checksummed": the ledger lists exactly the migrations that were executed,
\* and none of a name is executed twice, whatever failed between a migration and
\* its ledger row.
Executed == {history[i] : i \in DOMAIN history}
LedgerIsHistory ==
  /\ ledger = Executed
  /\ \A i, j \in DOMAIN history : history[i].version = history[j].version => i = j

\* What the sorting by name comes to, over all starts: a migration is executed
\* by a release that has it, after all the files that the same release sorts
\* before it and as that release has them.  A file that a later release inserts
\* between two others is executed after both.
ExecutedInOrder ==
  \A i \in DOMAIN history : \E r \in Runs :
    /\ history[i] \in run[r].release
    /\ \A file \in run[r].release :
         file.version < history[i].version => \E k \in 1..(i - 1) : history[k] = file

\* "The runner also serializes deploys": two starts never get as far as to
\* record the same migration, so none is refused by the ledger's primary key.
\* A start may still run out of its 10 seconds waiting for another's lock.
NoLedgerConflict == \A r \in Runs : run[r].err # "conflict"

\* Migrate returns nil only when every file of the release is applied as it
\* is embedded, so no process serves on a schema it was not built for.
ServesMigratedSchema == \A r \in Ready : run[r].release \subseteq Executed

\* The whole of it, as a history of upgrades.
History == INSTANCE SchemaHistory WITH ready <- Ready

\* Every step of every run, its client there or not, is one upgrade by a
\* release whose earlier files are all applied unchanged, one process coming up
\* on a schema that has its release, or nothing.
ImplementsHistory == History!HSpec

\* "Repeatable migration startup": no run waits for ever, neither for the lock
\* of a process that died nor for that of one that serves.
MigrateReturns == \A r \in Runs : run[r].pc = "lock" ~> run[r].pc = "returned"

\* The inductive invariant behind them: who has the lock, what a run at a file
\* has established, and what an open transaction will do when it is committed.
LockInv ==
  /\ lock # NoRun => session[lock] \in {"open", "lost"} /\ run[lock].pc \notin {"start", "lock"}
  /\ \A r \in Runs : run[r].pc \in WithLock => lock = r /\ session[r] = "open"
  /\ \A r \in Runs : run[r].pc = "lock" => session[r] = "open"
  /\ \A r \in Runs : run[r].pc \in {"start", "lock"} => sent[r] = "none"
  /\ \A r \in Runs : session[r] # "lost" => sent[r] = "none"

\* The files before the one at hand are applied.
Verified(r) ==
  \A file \in run[r].release : file.version < run[r].file.version => file \in ledger

RunInv(r) ==
  /\ run[r].pc \in {"check", "begin"} \cup InTransaction \/ tx[r] # {} =>
       run[r].file \in run[r].release /\ Verified(r)
  /\ run[r].pc \in {"begin"} \cup InTransaction \/ tx[r] # {} => Applied(r) = {}
  /\ run[r].pc \in {"unlock", "returned"} /\ run[r].err = "none" => run[r].release \subseteq ledger
  /\ run[r].pc \in {"check", "begin"} \cup InTransaction => hasLedger
  /\ run[r].err # "none" => run[r].pc \in {"unlock", "returned"}
  /\ run[r].release \in Releases \cup {{}}
  /\ run[r].pc = "start" => run[r].release = {}
  /\ run[r].pc # "start" /\ run[r].err = "none" => run[r].release \in Releases

TransactionInv(r) ==
  /\ run[r].pc = "apply" => tx[r] = {"begun"}
  /\ run[r].pc = "record" => tx[r] = {"begun", "ran"}
  /\ run[r].pc = "commit" \/ sent[r] = "commit" => tx[r] = {"begun", "ran", "recorded"}
  /\ run[r].pc \notin InTransaction \cup {"returned"} => tx[r] = {}

\* The parts together.
MigrationsInv ==
  /\ LockInv
  /\ OneMigrator
  /\ LedgerIsHistory
  /\ ExecutedInOrder
  /\ NoLedgerConflict
  /\ \A r \in Runs : RunInv(r) /\ TransactionInv(r)
====
