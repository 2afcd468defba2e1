-------------------------- MODULE SharedConnection --------------------------
(***************************************************************************)
(* Every store of a project (ThreadPersistence, GoalStore, the Compose and *)
(* Team stores, the LangGraph checkpointer) writes through one aiosqlite   *)
(* connection and one asyncio.Lock.  An await on the connection appends a  *)
(* statement to the queue of its worker thread; when the awaiting task is  *)
(* cancelled the statement stays there and is executed all the same.  What *)
(* the stores do about an exception comes in these idioms:                 *)
(*                                                                         *)
(* inner   BEGIN under the try whose except clause rolls back, both under  *)
(*         the lock (append_transcript_batch)                              *)
(* outer   BEGIN just before that try (GoalStore, ComposeWorkItemStore)    *)
(* plain   one statement and commit, no rollback (set_proposal_status)     *)
(* whole   the try is around the lock as well, and its except clause rolls *)
(*         back without the lock (commit_context)                          *)
(* enter   the lock and BEGIN are in __aenter__, the rest in __aexit__     *)
(*         (ComposeActivityStore._Tx)                                      *)
(*                                                                         *)
(* An operation is one call of a store.  Its writes stand for all of them. *)
(***************************************************************************)
EXTENDS Naturals, FiniteSets, SequencesExt

CONSTANTS Calls,       \* the operations
          Idiom,       \* the idiom of each
          None,
          MaxFaults    \* bound: cancellations and statements that fail

Idioms == {"inner", "outer", "plain", "whole", "enter"}

ASSUME SharedAssumption == /\ Idiom \in [Calls -> Idioms]
                           /\ None \notin Calls
                           /\ MaxFaults \in Nat

VARIABLES
    lock,       \* the holder of the asyncio.Lock, or None
    waiters,    \* the operations that wait for it
    at,         \* the statement an operation awaits, or where else it is
    result,     \* the result of that statement
    queue,      \* the worker thread's queue of <<operation, statement>>
    inTx,       \* is a transaction open on the connection?
    written,    \* the writes in it
    durable,    \* the committed writes
    ended,      \* how an operation ended: "none" yet, "returned" or "raised"
    faults

connection == <<queue, inTx, written, durable>>
connectionVars == <<lock, waiters, at, result, connection, ended, faults>>

Statements == {"begin", "write1", "write2", "commit", "rollback"}

(* The writes of an operation, each named by its statement. *)
WritesOf(o) == IF Idiom[o] = "plain" THEN {<<o, "write2">>}
                                     ELSE {<<o, "write1">>, <<o, "write2">>}

(* Mutant: BEGIN is left to the connection. *)
FirstWrite(o) == IF Idiom[o] = "plain" THEN "write2" ELSE "write1"

First(o) == IF Idiom[o] = "plain" THEN "write2" ELSE "begin"
After == [begin |-> "write1", write1 |-> "write2", write2 |-> "commit"]

ConnectionInit ==
    /\ lock = None /\ waiters = <<>>
    /\ at = [o \in Calls |-> "idle"] /\ result = [o \in Calls |-> "none"]
    /\ queue = <<>> /\ inTx = FALSE /\ written = {} /\ durable = {}
    /\ ended = [o \in Calls |-> "none"] /\ faults = 0

Spend == faults < MaxFaults /\ faults' = faults + 1

-----------------------------------------------------------------------------
(* The task of an operation.                                               *)

(* await self._connection.execute(...), .commit() or .rollback() *)
Awaits(o, s) == /\ at' = [at EXCEPT ![o] = s]
                /\ result' = [result EXCEPT ![o] = "none"]
                /\ queue' = Append(queue, <<o, s>>)

Ends(o, how) == /\ at' = [at EXCEPT ![o] = "done"]
                /\ ended' = [ended EXCEPT ![o] = how]
                /\ UNCHANGED <<result, queue>>

(* The lock is free and nobody waits, or o joins its waiters. *)
Call(o) ==
    /\ at[o] = "idle"
    /\ IF lock = None /\ waiters = <<>>
       THEN lock' = o /\ Awaits(o, First(o)) /\ UNCHANGED waiters
       ELSE /\ waiters' = Append(waiters, o)
            /\ at' = [at EXCEPT ![o] = "waiting"]
            /\ UNCHANGED <<lock, result, queue>>
    /\ UNCHANGED <<inTx, written, durable, ended, faults>>

Acquire(o) ==
    /\ lock = None /\ waiters # <<>> /\ Head(waiters) = o
    /\ lock' = o /\ waiters' = Tail(waiters)
    /\ Awaits(o, First(o))
    /\ UNCHANGED <<inTx, written, durable, ended, faults>>

Proceed(o) ==
    /\ result[o] = "ok" /\ at[o] \in DOMAIN After
    /\ Awaits(o, After[at[o]])
    /\ UNCHANGED <<lock, waiters, inTx, written, durable, ended, faults>>

Return(o) ==
    /\ result[o] = "ok" /\ at[o] = "commit"
    /\ lock' = None
    /\ Ends(o, "returned")
    /\ UNCHANGED <<waiters, inTx, written, durable, faults>>

(* Mutant: only the commit is rolled back. *)
RollsBackCommit(o) == Idiom[o] # "plain" /\ at[o] = "commit"

(* The idioms' reaction to an exception at a statement other than the      *)
(* rollback; an exception of the rollback leaves the operation.            *)
RollsBack(o) == \/ Idiom[o] = "inner"
                \/ Idiom[o] = "outer" /\ at[o] # "begin"
                \/ Idiom[o] = "enter" /\ at[o] \in {"write1", "write2"}

(* Mutant: a BEGIN that fails keeps the lock. *)
RaisesLocked(o) ==
    IF at[o] # "rollback" /\ RollsBack(o)
    THEN Awaits(o, "rollback") /\ UNCHANGED <<lock, ended>>
    ELSE /\ lock' = IF at[o] = "begin" THEN lock ELSE None
         /\ Ends(o, "raised")

Raises(o) ==
    IF at[o] = "rollback"
    THEN lock' = (IF lock = o THEN None ELSE lock) /\ Ends(o, "raised")
    ELSE IF RollsBack(o) THEN Awaits(o, "rollback") /\ UNCHANGED <<lock, ended>>
    ELSE IF Idiom[o] = "whole"
    THEN lock' = None /\ Awaits(o, "rollback") /\ UNCHANGED ended
    ELSE /\ lock' = IF Idiom[o] = "enter" /\ at[o] = "begin" THEN lock ELSE None
         /\ Ends(o, "raised")

(* A statement failed, or the rollback is over and the exception goes on. *)
Fail(o) ==
    /\ \/ at[o] \in Statements /\ result[o] = "error"
       \/ at[o] = "rollback" /\ result[o] = "ok"
    /\ Raises(o)
    /\ UNCHANGED <<waiters, inTx, written, durable, faults>>

(* The task is cancelled at its await, whether or not the statement has    *)
(* been executed.                                                          *)
Cancel(o) ==
    /\ at[o] \in Statements /\ Spend
    /\ Raises(o)
    /\ UNCHANGED <<waiters, inTx, written, durable>>

CancelWaiting(o) ==
    /\ at[o] = "waiting" /\ Spend
    /\ \E i \in DOMAIN waiters : waiters[i] = o /\ waiters' = RemoveAt(waiters, i)
    /\ IF Idiom[o] = "whole" THEN Awaits(o, "rollback") /\ UNCHANGED ended
                             ELSE Ends(o, "raised")
    /\ UNCHANGED <<lock, inTx, written, durable>>

-----------------------------------------------------------------------------
(* The worker thread.  A write outside a transaction begins one (the       *)
(* default isolation level of sqlite3).                                    *)

Answers(o, s, r) ==
    result' = IF at[o] = s THEN [result EXCEPT ![o] = r] ELSE result

Executes(o, s) ==
    /\ s = "begin" => ~inTx
    /\ inTx' = (s \in {"begin", "write1", "write2"})
    /\ written' = IF s \in {"write1", "write2"} THEN written \cup {<<o, s>>}
                  ELSE IF s = "begin" THEN written ELSE {}
    /\ durable' = IF s = "commit" THEN durable \cup written ELSE durable
    /\ Answers(o, s, "ok")
    /\ UNCHANGED faults

(* "cannot start a transaction within a transaction", or an error of the    *)
(* disk or of a constraint: a write that fails may have begun a transaction. *)
Rejects(o, s) ==
    /\ IF s = "begin" /\ inTx THEN UNCHANGED faults
                              ELSE s # "rollback" /\ Spend
    /\ inTx' \in {inTx, inTx \/ s \in {"write1", "write2"}}
    /\ Answers(o, s, "error")
    /\ UNCHANGED <<written, durable>>

Work ==
    /\ queue # <<>>
    /\ queue' = Tail(queue)
    /\ LET o == Head(queue)[1]
           s == Head(queue)[2]
       IN Executes(o, s) \/ Rejects(o, s)
    /\ UNCHANGED <<lock, waiters, at, ended>>

-----------------------------------------------------------------------------
TaskStep(o) == Acquire(o) \/ Proceed(o) \/ Return(o) \/ Fail(o)

ConnectionNext ==
    \/ \E o \in Calls : Call(o) \/ TaskStep(o) \/ Cancel(o) \/ CancelWaiting(o)
    \/ Work

ConnectionSpec == ConnectionInit /\ [][ConnectionNext]_connectionVars

(* The worker thread and the event loop go on. *)
FairConnectionSpec == /\ ConnectionSpec
                      /\ WF_connectionVars(Work)
                      /\ \A o \in Calls : WF_connectionVars(TaskStep(o))

-----------------------------------------------------------------------------
(* Properties.                                                             *)

(* Every variable holds a value of its kind. *)
Writes == UNION {WritesOf(o) : o \in Calls}
ConnectionTypeOK ==
    /\ lock \in Calls \cup {None} /\ waiters \in Seq(Calls)
    /\ at \in [Calls -> {"idle", "waiting", "done"} \cup Statements]
    /\ result \in [Calls -> {"none", "ok", "error"}]
    /\ queue \in Seq(Calls \X Statements)
    /\ inTx \in BOOLEAN /\ written \subseteq Writes /\ durable \subseteq Writes
    /\ ended \in [Calls -> {"none", "returned", "raised"}]
    /\ faults \in 0..MaxFaults

(* The writes of an operation become durable together or not at all, and    *)
(* before it returns (docstring of append_transcript_batch: one transaction,*)
(* wholly rolled back on failure), whatever was cancelled around it.        *)
AllOrNothing ==
    \A o \in Calls : /\ WritesOf(o) \subseteq durable \/ WritesOf(o) \cap durable = {}
                     /\ ended[o] = "returned" => WritesOf(o) \subseteq durable

(* A transaction that an operation has begun holds its own writes only: a   *)
(* statement that a cancelled operation left in the queue is executed before *)
(* the next BEGIN, and never inside another's transaction.                   *)
InTransaction(o) == lock = o /\ (at[o] \in {"write1", "write2", "commit"})
                             /\ Idiom[o] # "plain"
TransactionsAreNotShared ==
    \A o \in Calls : InTransaction(o) /\ ~(at[o] = "commit" /\ result[o] # "none") =>
        /\ inTx /\ written \subseteq WritesOf(o)
        /\ \A i \in DOMAIN queue : queue[i][1] = o

(* To its callers the connection is a store of atomic calls, each of which  *)
(* takes effect as a whole or not at all, before it returns; what a call    *)
(* that was cancelled left behind may take effect with a later commit.      *)
Answer == [o \in Calls |-> IF at[o] = "idle" THEN "idle" ELSE ended[o]]
Atomic == INSTANCE AtomicStore WITH answer <- Answer, database <- durable,
                                    Effect <- [o \in Calls |-> WritesOf(o)]
ImplementsAtomicStore == Atomic!Spec

(* An operation ends: no cancellation keeps the lock from the others. *)
OperationsEnd == \A o \in Calls : at[o] # "idle" ~> at[o] = "done"
=============================================================================
