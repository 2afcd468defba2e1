-------------------------- MODULE LegacyMigration --------------------------
(***************************************************************************)
(* Opening the threads database (threads/thread_persistence.py): the Host  *)
(* that holds the migration lock upgrades a legacy database in a child     *)
(* process under a manifest, bootstraps an empty one itself, and settles   *)
(* by the facts on disk whatever a crash, a failed write or a child that   *)
(* would not die has left behind.  threads/migration_recovery.py is the    *)
(* offline command that settles an attempt whose owner is gone.            *)
(*                                                                         *)
(* A process is a Host, the offline Operator, or the child of an attempt,  *)
(* which is named by the attempt.  A fingerprint is abstracted to the kind *)
(* of database it identifies; an attempt always starts from "legacy".      *)
(***************************************************************************)
EXTENDS Integers, FiniteSets

CONSTANTS Hosts, Operator, None,
          MaxAttempts,   \* bound: migration attempts ever made
          MaxFaults,     \* bound: failures the environment injects
          ReadsFail      \* may reading the main database fail for once?

Attempts == 1..MaxAttempts
Procs == Hosts \cup {Operator} \cup Attempts

ASSUME ProcsAssumption == /\ MaxAttempts \in Nat /\ MaxFaults \in Nat
                          /\ ReadsFail \in BOOLEAN
                          /\ Operator \notin Hosts \cup Attempts
                          /\ Hosts \cap Attempts = {}
                          /\ None \notin Procs

VARIABLES
    db,         \* "empty" | "legacy" | "final" | "used" (served) | "other" (half migrated)
    backup,     \* the kinds of source the fixed backup slots hold
    manifest,   \* the attempt manifest: its status, attempt and settled result
    state,      \* the migration state: status, attempt (0: a bootstrap), knows final
    poison,     \* is the poison marker on disk?
    staged,     \* which of the attempt and poison staging files exist
    draft,      \* the state staging file: a state, or one torn by a crash
    files,      \* what is in the private directory of each attempt
    pc,         \* where each process is
    lock,       \* who holds the migration file lock
    writer,     \* whose BEGIN IMMEDIATE transaction is open
    verdict,    \* the settled result the lock's holder has decided on
    poisoned,   \* Hosts with the in-process poison
    attempts, faults   \* how many so far

disk == <<db, backup, manifest, state, poison, staged, draft, files>>
vars == <<disk, pc, lock, writer, verdict, poisoned, attempts, faults>>

NoManifest == [status |-> "none", id |-> 0, result |-> "none"]
NoState == [status |-> "none", id |-> 0, final |-> FALSE]
Active == {"preparing", "prepared", "exit_unknown"}
Temps == {"dir", "backup", "restore"}
Done == {"none", "exited"}          \* a child that was never started, or is reaped or dead

Init == /\ db \in {"empty", "legacy"}
        /\ backup = {} /\ manifest = NoManifest /\ state = NoState
        /\ poison = FALSE /\ staged = {} /\ draft = NoState
        /\ files = [a \in Attempts |-> {}]
        /\ pc = [p \in Procs |-> IF p \in Attempts THEN "none" ELSE "closed"]
        /\ lock = None /\ writer = None /\ verdict = "none" /\ poisoned = {}
        /\ attempts = 0 /\ faults = 0

-----------------------------------------------------------------------------
(* Processes, faults and the atomic write of a marker.                     *)

(* The attempt a process works for; 0 is the bootstrap, which has none. *)
AttemptOf(p) == IF p \in Attempts THEN p ELSE 0
SourceOf(id) == IF id = 0 THEN "empty" ELSE "legacy"

Spend == faults < MaxFaults /\ faults' = faults + 1
Goes(p, l) == pc' = [pc EXCEPT ![p] = l]

(* The process is done with the database: open raises or the command ends, *)
(* and the lock goes; a child exits.  Its transaction, if any, rolls back. *)
Ends(p) == /\ Goes(p, IF p \in Attempts THEN "exited" ELSE "closed")
           /\ lock' = IF lock = p THEN None ELSE lock
           /\ writer' = IF writer = p THEN None ELSE writer

(* p goes to l when ok, and ends otherwise. *)
GoesOrEnds(p, ok, l) == IF ok THEN Goes(p, l) /\ UNCHANGED <<lock, writer>>
                              ELSE Ends(p)

(* _migration_atomic_write_json: the marker is written; nothing is ("lost"); *)
(* it is, but the fsync of the directory fails ("late"); or the process dies *)
(* with the staging file complete ("staged") or torn.  A staging file that   *)
(* is already there fails the write.                                         *)
Outcomes == {"done", "lost", "late", "staged"}
Written(o) == o \in {"done", "late"}
Dies(o) == o \in {"staged", "torn"}
AtomicWrite(blocked, o) ==
    IF blocked THEN o = "lost" /\ UNCHANGED faults
    ELSE IF o = "done" THEN UNCHANGED faults ELSE Spend

WriteManifest(m, o) ==
    /\ AtomicWrite("attempt" \in staged, o)
    /\ manifest' = IF Written(o) THEN m ELSE manifest
    /\ staged' = IF o = "staged" THEN staged \cup {"attempt"} ELSE staged

PutState(s, o) ==
    /\ state' = IF Written(o) THEN s ELSE state
    /\ draft' = CASE o = "staged" -> s
                  [] o = "torn" -> [s EXCEPT !.status = "torn"]
                  [] OTHER -> draft

WriteState(s, o) == AtomicWrite(draft # NoState, o) /\ PutState(s, o)

(* What a reader of the main database may take it for. *)
Readings == {db} \cup (IF ReadsFail /\ faults < MaxFaults THEN {"unreadable"} ELSE {})
Reads(r) == r \in Readings /\ IF r = db THEN UNCHANGED faults ELSE Spend

-----------------------------------------------------------------------------
(* ThreadPersistence.open: the markers are examined under the lock.        *)

Open(h) ==
    /\ pc[h] = "closed" /\ h \notin poisoned /\ lock = None
    /\ Goes(h, "check") /\ lock' = h
    /\ UNCHANGED <<disk, writer, verdict, poisoned, attempts, faults>>

(* _check_migration_attempt_and_poison_sync, an active attempt. *)
RefuseActiveAttempt(h) ==
    /\ pc[h] = "check" /\ manifest.status \in Active
    /\ Ends(h)
    /\ UNCHANGED <<disk, verdict, poisoned, attempts, faults>>

(* The markers of a settled attempt go in this order, the manifest last; a *)
(* failure after n of them ends the process.                               *)
Housekeeping(p, n) ==
    /\ pc[p] = "check" /\ manifest.status = "settled"
    /\ IF db = manifest.result
       THEN /\ IF n = 6 THEN UNCHANGED faults ELSE Spend
            /\ draft' = IF n >= 1 THEN NoState ELSE draft
            /\ staged' = (IF n >= 2 THEN staged \ {"poison"} ELSE staged)
                            \ (IF n >= 3 THEN {"attempt"} ELSE {})
            /\ state' = IF n >= 4 THEN NoState ELSE state
            /\ poison' = IF n >= 5 THEN FALSE ELSE poison
            /\ manifest' = IF n = 6 THEN NoManifest ELSE manifest
            /\ poisoned' = IF n >= 5 THEN poisoned \ {p} ELSE poisoned
            /\ GoesOrEnds(p, n = 6 /\ p \in Hosts, "inspect")
       ELSE /\ n = 0 /\ Ends(p)
            /\ UNCHANGED <<draft, staged, state, poison, manifest, poisoned, faults>>
    /\ UNCHANGED <<db, backup, files, verdict, attempts>>

(* Mutant: nothing staged is removed. *)
KeptStaging == staged

AdoptedStaging == staged \ {"attempt"}

(* Without a manifest no child was spawned: an attempt staging is removed, *)
(* the staged state of a bootstrap is promoted, and anything else refused. *)
AdoptOrphanMarkers(h) ==
    LET bad == draft.status = "torn" \/ draft.id # 0
        orphan == draft # NoState /\ ~bad
    IN /\ pc[h] = "check" /\ manifest.status = "none"
       /\ staged' = AdoptedStaging
       /\ state' = IF orphan THEN draft ELSE state
       /\ draft' = IF orphan THEN NoState ELSE draft
       /\ GoesOrEnds(h, ~bad /\ ~poison /\ "poison" \notin staged, "recover")
       /\ UNCHANGED <<db, backup, manifest, poison, files,
                      verdict, poisoned, attempts, faults>>

(* _recover_interrupted_migration_sync: an interrupted bootstrap is settled *)
(* by the facts; a failure is only noted in the state.                      *)
RecoverInterruptedMigration(h, r) ==
    LET source == SourceOf(state.id)
        final == state.final /\ r = "final"
        intact == ~final /\ r = source
        fails == state.id # 0 \/ (~final /\ source \notin backup)
    IN /\ pc[h] = "recover"
       /\ IF state = NoState
          THEN /\ r = db /\ Goes(h, "inspect")
               /\ UNCHANGED <<db, state, lock, writer, faults>>
          ELSE /\ Reads(r)
               /\ GoesOrEnds(h, ~fails, "inspect")
               /\ db' = IF fails \/ final \/ intact THEN db ELSE source
               /\ state' = IF fails THEN [state EXCEPT !.status = "restore_failed"]
                           ELSE IF intact /\ state.status = "restore_failed" THEN state
                           ELSE NoState
       /\ UNCHANGED <<backup, manifest, poison, staged, draft, files,
                      verdict, poisoned, attempts>>

(* _inspect_migration_source_sync: only a legacy database needs a child. *)
Inspect(h) ==
    /\ pc[h] = "inspect"
    /\ GoesOrEnds(h, db # "other", IF db = "legacy" THEN "create" ELSE "begin")
    /\ UNCHANGED <<disk, verdict, poisoned, attempts, faults>>

-----------------------------------------------------------------------------
(* _run_legacy_migration_child: the attempt and its child.                 *)

CreateAttempt(h, o) ==
    /\ pc[h] = "create" /\ attempts < MaxAttempts
    /\ attempts' = attempts + 1
    /\ WriteManifest([status |-> "preparing", id |-> attempts + 1, result |-> "none"], o)
    /\ GoesOrEnds(h, o = "done", "temps")
    /\ UNCHANGED <<db, backup, state, poison, draft, files, verdict, poisoned>>

(* The directory and its two files; a failure on the way leaves some part F *)
(* of them, best-effort cleanup included (_settle_prepare_failure_sync).    *)
MakeTemps(h, F) ==
    /\ pc[h] = "temps"
    /\ F # {} => "dir" \in F
    /\ files' = [files EXCEPT ![manifest.id] = F]
    /\ \/ F = Temps /\ UNCHANGED faults /\ GoesOrEnds(h, TRUE, "register")
       \/ Spend /\ Ends(h)
    /\ UNCHANGED <<db, backup, manifest, state, poison, staged, draft,
                   verdict, poisoned, attempts>>

RegisterAttempt(h, o, F) ==
    /\ pc[h] = "register"
    /\ WriteManifest([manifest EXCEPT !.status = "prepared"], o)
    /\ IF o \in {"lost", "late"}
       THEN F \subseteq files[manifest.id] /\ (F # {} => "dir" \in F)
       ELSE F = files[manifest.id]
    /\ files' = [files EXCEPT ![manifest.id] = F]
    /\ GoesOrEnds(h, o = "done", "spawn")
    /\ UNCHANGED <<db, backup, state, poison, draft, verdict, poisoned, attempts>>

(* Popen; when it fails there is no child, and the attempt is sealed as it *)
(* was found (_settle_not_started_sync).                                   *)
Spawn(h) ==
    /\ pc[h] = "spawn"
    /\ \/ /\ pc' = [pc EXCEPT ![h] = "supervise", ![manifest.id] = "spawned"]
          /\ UNCHANGED <<verdict, faults>>
       \/ /\ Spend /\ Goes(h, "clean") /\ verdict' = "legacy"
    /\ UNCHANGED <<disk, lock, writer, poisoned, attempts>>

(* Mutant: the child is given up, not killed. *)
ReapNothing(h) ==
    /\ pc[h] = "supervise" /\ Spend /\ Goes(h, "settle")
    /\ UNCHANGED <<disk, lock, writer, verdict, poisoned, attempts>>

(* _supervise_migration_child: the child is reaped, or killed at the deadline *)
(* or on cancellation and then reaped.                                        *)
ReapChild(h) ==
    LET a == manifest.id
    IN /\ pc[h] = "supervise"
       /\ IF pc[a] = "exited" THEN UNCHANGED faults ELSE Spend
       /\ pc' = [pc EXCEPT ![h] = "settle", ![a] = "exited"]
       /\ writer' = IF writer = a THEN None ELSE writer
       /\ UNCHANGED <<disk, lock, verdict, poisoned, attempts>>

(* No return code could be had: the child may be alive. *)
LoseChild(h) ==
    /\ pc[h] = "supervise" /\ Spend
    /\ Goes(h, "unknown") /\ poisoned' = poisoned \cup {h}
    /\ UNCHANGED <<disk, lock, writer, verdict, attempts>>

PublishExitUnknown(h, o) ==
    /\ pc[h] = "unknown"
    /\ WriteManifest([manifest EXCEPT !.status = "exit_unknown"], o)
    /\ GoesOrEnds(h, ~Dies(o), "poison")
    /\ poisoned' = IF Dies(o) THEN poisoned \ {h} ELSE poisoned
    /\ UNCHANGED <<db, backup, state, poison, draft, files, verdict, attempts>>

PublishPoison(h, o) ==
    /\ pc[h] = "poison"
    /\ AtomicWrite("poison" \in staged, o)
    /\ poison' = (poison \/ Written(o))
    /\ staged' = IF Dies(o) THEN staged \cup {"poison"} ELSE staged
    /\ poisoned' = IF Dies(o) THEN poisoned \ {h} ELSE poisoned
    /\ Ends(h)
    /\ UNCHANGED <<db, backup, manifest, state, draft, files, verdict, attempts>>

-----------------------------------------------------------------------------
(* Settling: _settle_owned_migration_attempt_sync by the Host that reaped  *)
(* the child, _offline_settle_attempt_sync by the Operator.                *)

(* The Operator confirms that every worker has stopped, and it is so. *)
StartOfflineRecovery ==
    /\ pc[Operator] = "closed" /\ lock = None /\ manifest.status # "none"
    /\ \A a \in Attempts : pc[a] \in Done
    /\ lock' = Operator
    /\ IF manifest.status = "preparing"       \* its child cannot have started
       THEN Goes(Operator, "clean") /\ verdict' = "legacy"
       ELSE /\ Goes(Operator, IF manifest.status = "settled" THEN "check" ELSE "settle")
            /\ UNCHANGED verdict
    /\ UNCHANGED <<disk, writer, poisoned, attempts, faults>>

(* Mutant: the recorded status counts, not what is on disk. *)
CommittedByStatus(r) == state.status = "committed"

CommittedByFacts(r) == state.final /\ r = "final"

(* By the facts: the final database is kept, an intact source is kept, and *)
(* anything else is replaced by the backup through the registered file.    *)
Settle(p, r) ==
    LET a == manifest.id
        owned == /\ state.id = a
                 /\ p \in Hosts => "ready" \in files[a]
        final == CommittedByFacts(r)
        source == r = "legacy" /\ (p \in Hosts \/ "legacy" \in backup)
        restore == /\ ~final /\ r # "legacy"
                   /\ "legacy" \in backup /\ "restore" \in files[a]
        ok == /\ p = Operator => r # "unreadable"
              /\ IF state = NoState THEN r = "legacy"
                 ELSE owned /\ (final \/ source \/ restore)
        restores == ok /\ state # NoState /\ restore
    IN /\ pc[p] = "settle"
       /\ Reads(r)
       /\ GoesOrEnds(p, ok, "clean")
       /\ verdict' = IF ~ok THEN verdict ELSE IF final THEN "final" ELSE "legacy"
       /\ db' = IF restores THEN "legacy" ELSE db
       /\ files' = IF restores THEN [files EXCEPT ![a] = @ \ {"restore"}] ELSE files
       /\ UNCHANGED <<backup, manifest, state, poison, staged, draft,
                      poisoned, attempts>>

(* _migration_cleanup_attempt_temps and the directory; F is what a failure leaves. *)
CleanupAttemptTemps(p, F) ==
    /\ pc[p] = "clean"
    /\ F \subseteq files[manifest.id] /\ (F # {} => "dir" \in F)
    /\ files' = [files EXCEPT ![manifest.id] = F]
    /\ IF F = {} THEN UNCHANGED faults ELSE Spend
    /\ GoesOrEnds(p, F = {}, "seal")
    /\ UNCHANGED <<db, backup, manifest, state, poison, staged, draft,
                   verdict, poisoned, attempts>>

(* The staging files go first, or the settled manifest could not be written. *)
SealAttempt(p, o) ==
    /\ pc[p] = "seal"
    /\ draft' = NoState
    /\ IF manifest.status = "preparing" /\ db # "legacy"
       THEN o = "lost" /\ staged' = {} /\ UNCHANGED <<manifest, faults>>
       ELSE /\ IF o = "done" THEN UNCHANGED faults ELSE Spend
            /\ staged' = IF Dies(o) THEN {"attempt"} ELSE {}
            /\ manifest' = IF Written(o)
                           THEN [manifest EXCEPT !.status = "settled", !.result = verdict]
                           ELSE manifest
    /\ GoesOrEnds(p, o = "done", "tidy")
    /\ UNCHANGED <<db, backup, state, poison, files, verdict, poisoned, attempts>>

(* Mutant: the manifest goes first. *)
TidyManifestFirst(p, n) ==
    /\ pc[p] = "tidy"
    /\ IF n = 3 THEN UNCHANGED faults ELSE Spend
    /\ manifest' = IF n >= 1 THEN NoManifest ELSE manifest
    /\ state' = IF n >= 2 THEN NoState ELSE state
    /\ poison' = IF n = 3 THEN FALSE ELSE poison
    /\ poisoned' = IF n = 3 THEN poisoned \ {p} ELSE poisoned
    /\ GoesOrEnds(p, n = 3 /\ p \in Hosts /\ db = "final", "begin")
    /\ UNCHANGED <<db, backup, staged, draft, files, verdict, attempts>>

(* The state, the poison and the manifest go, in this order; the Host then *)
(* opens the database if it is the final one.                              *)
TidyMarkers(p, n) ==
    /\ pc[p] = "tidy"
    /\ IF n = 3 THEN UNCHANGED faults ELSE Spend
    /\ state' = IF n >= 1 THEN NoState ELSE state
    /\ poison' = IF n >= 2 THEN FALSE ELSE poison
    /\ poisoned' = IF n >= 2 THEN poisoned \ {p} ELSE poisoned
    /\ manifest' = IF n = 3 THEN NoManifest ELSE manifest
    /\ GoesOrEnds(p, n = 3 /\ p \in Hosts /\ db = "final", "begin")
    /\ UNCHANGED <<db, backup, staged, draft, files, verdict, attempts>>

-----------------------------------------------------------------------------
(* _prepare, run by the child of an attempt or by the bootstrapping Host.  *)

(* run_legacy_migration_child: the ready marker precedes any access. *)
Owned(a) == manifest.status = "prepared" /\ manifest.id = a

AnnounceReady(a, o) ==
    /\ pc[a] = "spawned"
    /\ IF Owned(a) /\ Temps \subseteq files[a]
       THEN /\ IF o = "done" THEN UNCHANGED faults ELSE Spend
            /\ files' = CASE Written(o) -> [files EXCEPT ![a] = @ \cup {"ready"}]
                          [] Dies(o) -> [files EXCEPT ![a] = @ \cup {"ready_staging"}]
                          [] OTHER -> files
            /\ GoesOrEnds(a, o = "done", "begin")
       ELSE o = "lost" /\ Ends(a) /\ UNCHANGED <<files, faults>>
    /\ UNCHANGED <<db, backup, manifest, state, poison, staged, draft,
                   verdict, poisoned, attempts>>

(* BEGIN IMMEDIATE and the examination of the source. *)
BeginMigration(p) ==
    /\ pc[p] = "begin"
    /\ p \in Attempts \/ db \notin {"final", "used"}
    /\ IF /\ writer = None /\ db = SourceOf(AttemptOf(p))
          /\ p \in Attempts => Owned(p)
       THEN Goes(p, "backup") /\ writer' = p /\ UNCHANGED lock
       ELSE Ends(p)
    /\ UNCHANGED <<disk, verdict, poisoned, attempts, faults>>

(* A database of the current schema needs no migration: it is served. *)
OpenCurrent(h) ==
    /\ pc[h] = "begin" /\ db \in {"final", "used"}
    /\ IF writer = None THEN Goes(h, "serving") /\ lock' = None ELSE Ends(h)
    /\ UNCHANGED <<disk, writer, verdict, poisoned, attempts, faults>>

(* Mutant: the copy is not put in the place of the backup. *)
CopyOnly(p) ==
    /\ pc[p] = "backup" /\ Goes(p, "announce")
    /\ UNCHANGED <<disk, lock, writer, verdict, poisoned, attempts, faults>>

(* A child copies into its registered file, which becomes the backup. *)
CreateBackup(p) ==
    /\ pc[p] = "backup"
    /\ backup' = backup \cup {SourceOf(AttemptOf(p))}
    /\ IF p \in Attempts THEN files' = [files EXCEPT ![p] = @ \ {"backup"}]
                         ELSE UNCHANGED files
    /\ Goes(p, "announce")
    /\ UNCHANGED <<db, manifest, state, poison, staged, draft,
                   lock, writer, verdict, poisoned, attempts, faults>>

StateOf(p, status) == [status |-> status, id |-> AttemptOf(p),
                       final |-> status \in {"committing", "commit_unknown", "committed"}]

(* One write of the migration state by _prepare, from step l: the process *)
(* goes on to next when it is done, to fail when it fails, or dies.       *)
PrepareWrites(p, l, status, o, next, fail) ==
    /\ pc[p] = l
    /\ WriteState(StateOf(p, status), o)
    /\ LET to == IF o = "done" THEN next ELSE fail
       IN GoesOrEnds(p, ~Dies(o) /\ to # "end", to)
    /\ UNCHANGED <<db, backup, manifest, poison, staged, files,
                   verdict, poisoned, attempts>>

WriteMigrating(p, o) == PrepareWrites(p, "announce", "migrating", o, "migrate", "end")
WriteCommitting(p, o) == PrepareWrites(p, "migrate", "committing", o, "commit", "failing")
WriteCommitUnknown(p, o) == PrepareWrites(p, "pending", "commit_unknown", o, "landing", "landing")
WriteCommitted(p, o) == PrepareWrites(p, "committed", "committed", o,
                                      IF p \in Hosts THEN "clear" ELSE "end", "end")

(* A step of the schema upgrade fails. *)
MigrationFails(p) ==
    /\ pc[p] = "migrate" /\ Spend /\ Goes(p, "failing")
    /\ UNCHANGED <<disk, lock, writer, verdict, poisoned, attempts>>

(* _commit_and_classify_outcome_async: the commit lands, is not applied, or *)
(* leaves a database that is neither, and a second connection reads which;  *)
(* or the deadline passes first.                                            *)
Commit(p, d, r) ==
    /\ pc[p] = "commit"
    /\ d \in {"final", db, "other"} /\ r \in {d, "unreadable"}
    /\ r # d => ReadsFail
    /\ IF d = "final" /\ r = d THEN UNCHANGED faults ELSE Spend
    /\ db' = d
    /\ writer' = IF d = "final" THEN None ELSE writer
    /\ Goes(p, IF r = "final" THEN "committed" ELSE "failing")
    /\ UNCHANGED <<backup, manifest, state, poison, staged, draft, files,
                   lock, verdict, poisoned, attempts>>

CommitTimesOut(p) ==
    /\ pc[p] = "commit" /\ Spend /\ Goes(p, "pending")
    /\ UNCHANGED <<disk, lock, writer, verdict, poisoned, attempts>>

(* The commit nobody waits for lands after all, ... *)
CommitLands(p) ==
    /\ pc[p] \in {"pending", "landing"} /\ writer = p
    /\ db' = "final" /\ writer' = None
    /\ UNCHANGED <<backup, manifest, state, poison, staged, draft, files,
                   pc, lock, verdict, poisoned, attempts, faults>>

(* ... or is rolled back when the process or its connection goes. *)
GiveUp(p) ==
    /\ pc[p] = "landing" /\ Ends(p)
    /\ UNCHANGED <<disk, verdict, poisoned, attempts, faults>>

(* _restore_migration_backup_async after the rollback; a child can only use *)
(* its registered file.  A failure is noted in the state, if that succeeds. *)
RestoreBackup(p, ok, o) ==
    LET source == SourceOf(AttemptOf(p))
        usable == source \in backup /\ (p \in Attempts => "restore" \in files[p])
    IN /\ pc[p] = "failing"
       /\ IF ok
          THEN /\ usable /\ o = "done"
               /\ db' = source
               /\ IF p \in Attempts THEN files' = [files EXCEPT ![p] = @ \ {"restore"}]
                                    ELSE UNCHANGED files
               /\ Goes(p, "restored") /\ writer' = None
               /\ UNCHANGED <<state, draft, lock, faults>>
          ELSE /\ IF usable THEN Spend ELSE UNCHANGED faults
               /\ draft # NoState => o = "lost"
               /\ PutState([state EXCEPT !.status = "restore_failed"], o)
               /\ Ends(p)
               /\ UNCHANGED <<db, files>>
       /\ UNCHANGED <<backup, manifest, poison, staged, verdict, poisoned, attempts>>

(* When the write fails, restore_failed is noted over what is there. *)
WriteRestored(p, o, marks) ==
    /\ pc[p] = "restored"
    /\ AtomicWrite(draft # NoState, o)
    /\ marks => o \in {"lost", "late"} /\ draft = NoState
    /\ LET s == StateOf(p, "restored_source")
       IN IF marks
          THEN /\ state' = [(IF o = "late" THEN s ELSE state) EXCEPT !.status = "restore_failed"]
               /\ UNCHANGED draft
          ELSE PutState(s, o)
    /\ Ends(p)
    /\ UNCHANGED <<db, backup, manifest, poison, staged, files,
                   verdict, poisoned, attempts>>

(* Mutant: a bootstrap does not. *)
ClearNothing(h) ==
    /\ pc[h] = "clear"
    /\ Goes(h, "serving") /\ lock' = None
    /\ UNCHANGED <<disk, writer, verdict, poisoned, attempts, faults>>

(* Only a bootstrap clears its own state; a child leaves that to its parent. *)
ClearMigrationState(h) ==
    /\ pc[h] = "clear"
    /\ state' = NoState
    /\ Goes(h, "serving") /\ lock' = None
    /\ UNCHANGED <<db, backup, manifest, poison, staged, draft, files,
                   writer, verdict, poisoned, attempts, faults>>

-----------------------------------------------------------------------------
(* Serving Hosts, crashes and restarts.                                    *)

Use(h) == /\ pc[h] = "serving" /\ db' = "used"
          /\ UNCHANGED <<backup, manifest, state, poison, staged, draft, files, pc,
                         lock, writer, verdict, poisoned, attempts, faults>>

Close(h) == /\ pc[h] = "serving" /\ Ends(h)
            /\ UNCHANGED <<disk, verdict, poisoned, attempts, faults>>

(* A process dies, or raises where nothing more is written.  A Host leaves *)
(* its child behind.                                                       *)
Crash(p) ==
    /\ pc[p] \notin Done \cup {"closed", "serving"}
    /\ Spend /\ Ends(p)
    /\ poisoned' = poisoned \ {p}
    /\ UNCHANGED <<disk, verdict, attempts>>

(* The in-process poison goes only with the process. *)
Restart(h) == /\ h \in poisoned /\ pc[h] = "closed"
              /\ poisoned' = poisoned \ {h}
              /\ UNCHANGED <<disk, pc, lock, writer, verdict, attempts, faults>>

-----------------------------------------------------------------------------
Prepare(p) ==
    \/ BeginMigration(p) \/ CreateBackup(p) \/ MigrationFails(p) \/ CommitTimesOut(p)
    \/ CommitLands(p) \/ GiveUp(p)
    \/ \E o \in Outcomes \cup {"torn"} :
          \/ WriteMigrating(p, o) \/ WriteCommitting(p, o)
          \/ WriteCommitUnknown(p, o) \/ WriteCommitted(p, o)
          \/ \E marks \in BOOLEAN : WriteRestored(p, o, marks)
          \/ \E ok \in BOOLEAN : RestoreBackup(p, ok, o)
    \/ \E d \in {"final", db, "other"}, r \in {"final", db, "other", "unreadable"} :
          Commit(p, d, r)

SettleAttempt(p) ==
    \/ \E n \in 0..6 : Housekeeping(p, n)
    \/ \E r \in Readings : Settle(p, r)
    \/ \E F \in SUBSET (Temps \cup {"ready", "ready_staging"}) : CleanupAttemptTemps(p, F)
    \/ \E o \in Outcomes : SealAttempt(p, o)
    \/ \E n \in 0..3 : TidyMarkers(p, n)

HostSteps(h) ==
    \/ RefuseActiveAttempt(h) \/ AdoptOrphanMarkers(h) \/ Inspect(h)
    \/ \E r \in Readings : RecoverInterruptedMigration(h, r)
    \/ Spawn(h) \/ ReapChild(h) \/ LoseChild(h)
    \/ \E o \in Outcomes :
          \/ CreateAttempt(h, o) \/ PublishExitUnknown(h, o) \/ PublishPoison(h, o)
          \/ \E F \in SUBSET Temps : RegisterAttempt(h, o, F)
    \/ \E F \in SUBSET Temps : MakeTemps(h, F)
    \/ SettleAttempt(h) \/ Prepare(h) \/ OpenCurrent(h) \/ ClearMigrationState(h)

ChildSteps(a) == Prepare(a) \/ \E o \in Outcomes : AnnounceReady(a, o)

Next == \/ \E h \in Hosts : Open(h) \/ HostSteps(h) \/ Use(h) \/ Close(h) \/ Restart(h)
        \/ StartOfflineRecovery \/ SettleAttempt(Operator)
        \/ \E a \in Attempts : ChildSteps(a)
        \/ \E p \in Procs : Crash(p)

Spec == Init /\ [][Next]_vars

(* Code that runs goes on running, a Host is opened again after a failure  *)
(* and restarted when it is poisoned, and the Operator, who polls for the  *)
(* lock, gets it if it is free again and again.                            *)
Fairness == /\ \A h \in Hosts : WF_vars(HostSteps(h)) /\ WF_vars(Open(h)) /\ WF_vars(Restart(h))
            /\ \A a \in Attempts : WF_vars(ChildSteps(a))
            /\ WF_vars(SettleAttempt(Operator)) /\ SF_vars(StartOfflineRecovery)

FairSpec == Spec /\ Fairness

-----------------------------------------------------------------------------
(* Properties.                                                             *)

(* Every variable holds a value of its kind, and a process is at a step of its own code. *)
PreparePlaces == {"begin", "backup", "announce", "migrate", "commit", "pending",
                  "landing", "failing", "restored", "committed"}
OperatorPlaces == {"closed", "check", "settle", "clean", "seal", "tidy"}
HostPlaces == OperatorPlaces \cup PreparePlaces \cup
    {"recover", "inspect", "create", "temps", "register", "spawn", "supervise",
     "unknown", "poison", "clear", "serving"}
ChildPlaces == PreparePlaces \cup {"none", "spawned", "exited"}

PlacesOK == /\ pc \in [Procs -> HostPlaces \cup ChildPlaces]
            /\ \A h \in Hosts : pc[h] \in HostPlaces
            /\ pc[Operator] \in OperatorPlaces
            /\ \A a \in Attempts : pc[a] \in ChildPlaces

ManifestOK == manifest \in [status : {"none", "settled"} \cup Active, id : 0..MaxAttempts,
                            result : {"none", "legacy", "final"}]
States == [status : {"none", "torn", "migrating", "committing", "commit_unknown",
                     "committed", "restore_failed", "restored_source"},
           id : 0..MaxAttempts, final : BOOLEAN]

TypeOK ==
    /\ db \in {"empty", "legacy", "final", "used", "other"}
    /\ backup \subseteq {"empty", "legacy"}
    /\ ManifestOK /\ state \in States /\ draft \in States
    /\ poison \in BOOLEAN /\ staged \subseteq {"attempt", "poison"}
    /\ files \in [Attempts -> SUBSET (Temps \cup {"ready", "ready_staging"})]
    /\ PlacesOK
    /\ lock \in Procs \cup {None} /\ writer \in Procs \cup {None}
    /\ verdict \in {"none", "legacy", "final"} /\ poisoned \subseteq Hosts
    /\ attempts \in 0..MaxAttempts /\ faults \in 0..MaxFaults

(* A child that may still touch the database is always guarded by its own   *)
(* active manifest, whatever became of the Host that spawned it, so no other *)
(* process recovers, migrates or starts to serve meanwhile                   *)
(* (_check_migration_attempt_and_poison_sync fails closed).                  *)
Live(a) == pc[a] \notin Done
ChildIsGuarded ==
    \A a \in Attempts : Live(a) =>
        /\ manifest.status \in {"prepared", "exit_unknown"} /\ manifest.id = a
        /\ \A p \in Procs \ {a} :
              pc[p] \in Done \cup {"closed", "check", "supervise", "unknown", "poison"}

(* A half-migrated database can always be turned back: the state says what  *)
(* it was, the verified backup is there, and for an attempt so are its      *)
(* manifest and the file registered for the restore.                        *)
DamageIsRecoverable ==
    db = "other" =>
        /\ state # NoState /\ SourceOf(state.id) \in backup
        /\ state.id # 0 => /\ manifest.id = state.id /\ manifest.status \in Active
                           /\ {"restore", "ready"} \subseteq files[state.id]

(* Whatever an attempt leaves on disk is covered by its manifest until it is *)
(* gone, and a bootstrap leaves none: otherwise every later open would       *)
(* refuse the orphan and the offline command would find no attempt.          *)
MarkersAreOwned ==
    /\ poison \/ "poison" \in staged => manifest.status # "none"
    /\ \A s \in {state, draft} : s # NoState => s.id = manifest.id
    /\ \A a \in Attempts : files[a] # {} => manifest.id = a

(* No marker of a migration survives beside a database in service: read     *)
(* later, its fingerprints would match nothing and the backup would be put  *)
(* over what was written since.  A settled manifest matches the database.   *)
InService == db = "used" \/ \E h \in Hosts : pc[h] = "serving"
ServesOnlyUnguarded ==
    /\ InService => /\ db \in {"final", "used"}
                    /\ manifest = NoManifest /\ state = NoState /\ draft = NoState
                    /\ ~poison /\ staged = {}
    /\ manifest.status = "settled" => db = manifest.result

(* What open promises of the database, through every crash and retry: a      *)
(* committed database is never rolled back, by whichever process (comments   *)
(* in _prepare and _recover_interrupted_migration_sync).                     *)
Committed == db \in {"final", "used"}
Upgrade == INSTANCE AtomicUpgrade
           WITH data <- IF Committed THEN db ELSE "source",
                serving <- {h \in Hosts : pc[h] = "serving"}
ImplementsUpgrade == Upgrade!Spec

(* Some Host gets to serve the database, unless a bootstrap crashed while it *)
(* wrote the staging file of its state: a torn one is refused by every open, *)
(* and the offline command wants a manifest.                                 *)
TornBootstrap == manifest.status = "none" /\ draft.status = "torn"
EventuallyServed == <>((\E h \in Hosts : pc[h] = "serving") \/ TornBootstrap)
=============================================================================
