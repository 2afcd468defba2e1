--------------------------- MODULE RunCoordinator ---------------------------
(***************************************************************************)
(* The life of the Runs of one Host (host/run_coordinator.py): how a Run   *)
(* is admitted, executed by its own task, cancelled by its owner, swept    *)
(* when a Connection goes or the Host closes, and brought to one terminal  *)
(* state.                                                                  *)
(*                                                                         *)
(* The code is asyncio: a step is what runs between two suspensions.  The  *)
(* coordinator's lock and the execution registry's are never held across   *)
(* one, so they never suspend.  Task.cancel() raises CancelledError in the *)
(* task's next step, wherever that is: cancels is the set of tasks with    *)
(* one pending.  Thread persistence is on, as in production.               *)
(***************************************************************************)
EXTENDS Naturals, FiniteSets

CONSTANTS
    Runs,           \* the run ids that clients use
    Threads,
    Conns,          \* Connections
    Owner,          \* the Host's owner Connection, which leaves only by Host.close
    Multithread,    \* Connections that negotiated concurrent Runs
    HostClose,      \* names the sweep of RunCoordinator.close
    MaxAsking,      \* bound: the Interactions of a Run that are pending at a time
    NoRun, NoConn

ASSUME CoordinatorAssumption ==
    /\ Owner \in Conns
    /\ Multithread \subseteq Conns
    /\ HostClose \notin Conns
    /\ MaxAsking \in Nat
    /\ NoRun \notin Runs
    /\ NoConn \notin Conns

VARIABLES
    closed,         \* RunCoordinator._closed
    current,        \* _runs: the Run registered for a Thread
    starting,       \* _starting_runs: the owner of a Run being admitted
    maintenance,    \* _maintenance_threads
    snapshot,       \* the Run whose reservation holds the engine snapshot lock
    pc,             \* where a Run is; see Phases
    thread, owner,  \* the Thread and the owner Connection of a Run
    status,         \* RunState.status
    outcome,        \* the status the task is about to finish with
    cancelled,      \* the Runs with cancel_requested
    cancels,        \* the tasks in which CancelledError is to be raised
    reconciled,     \* the Runs with goal_terminal_reconciled
    asking,         \* how many Interactions of a Run are pending
    stream,         \* what the reader of RunState.events is given
    gone,           \* the Connections that have closed
    sweep,          \* where owner_disconnected of a Connection, or close, is
    targets,        \* the Runs a sweep cancelled
    left,           \* those it has not yet looked at again
    forcing         \* the Run whose goal a sweep is reconciling

registry == <<closed, current, starting, maintenance, snapshot>>
identity == <<thread, owner>>
task == <<pc, outcome, cancels, reconciled>>
sweeps == <<gone, sweep, targets, left, forcing>>
vars == <<registry, identity, task, status, cancelled, asking, stream, sweeps>>

(***************************************************************************)
(* waiting     start() awaits the snapshot lock                            *)
(* preparing   start() holds it: preparation and accept_run                *)
(* accepted    the task exists and has not run                             *)
(* adapting    a Compose turn reads its progress, or a goal proposal its   *)
(*             request, status still "accepted"                            *)
(* executing   adapter.execute                                             *)
(* reconcile   the goal reconciler, awaited in the body of _execute's try  *)
(* handling    the same, awaited in one of its except clauses              *)
(* cleanup     flush_transcript and complete_run, in its finally           *)
(* done        the task ended after its finally                            *)
(* dead        the task ended before its finally did, or without it        *)
(***************************************************************************)
Phases == {"new", "waiting", "preparing", "accepted", "adapting", "executing",
           "reconcile", "handling", "cleanup", "done", "dead"}

Starting == {r \in Runs : pc[r] \in {"waiting", "preparing"}}
TaskAlive == {r \in Runs : pc[r] \in {"accepted", "adapting", "executing",
                                      "reconcile", "handling", "cleanup"}}
TerminalStatus == {"completed", "failed", "cancelled"}
Completed == {r \in Runs : status[r] \in TerminalStatus}   \* completion is not None
Sweepers == (Conns \ {Owner}) \cup {HostClose}

TypeOK ==
    /\ closed \in BOOLEAN
    /\ current \in [Threads -> Runs \cup {NoRun}]
    /\ starting \in [Threads -> Conns \cup {NoConn}]
    /\ maintenance \subseteq Threads
    /\ snapshot \in Runs \cup {NoRun}
    /\ pc \in [Runs -> Phases]
    /\ thread \in [Runs -> Threads]
    /\ owner \in [Runs -> Conns]
    /\ status \in [Runs -> {"accepted", "running", "interacting"} \cup TerminalStatus]
    /\ outcome \in [Runs -> TerminalStatus]
    /\ cancelled \subseteq Runs
    /\ cancels \subseteq Runs
    /\ reconciled \subseteq Runs
    /\ asking \in [Runs -> 0 .. MaxAsking]
    /\ stream \in [Runs -> {"open", "terminal", "ended", "cut"}]
    /\ gone \subseteq Conns
    /\ sweep \in [Sweepers -> {"none", "gather", "force", "reconcile", "done", "failed"}]
    /\ targets \in [Sweepers -> SUBSET Runs]
    /\ left \in [Sweepers -> SUBSET Runs]
    /\ forcing \in [Sweepers -> Runs \cup {NoRun}]

Init ==
    /\ closed = FALSE
    /\ current = [t \in Threads |-> NoRun]
    /\ starting = [t \in Threads |-> NoConn]
    /\ maintenance = {}
    /\ snapshot = NoRun
    /\ pc = [r \in Runs |-> "new"]
    /\ thread \in [Runs -> Threads]
    /\ owner \in [Runs -> Conns]
    /\ status = [r \in Runs |-> "accepted"]
    /\ outcome = [r \in Runs |-> "completed"]
    /\ cancelled = {}
    /\ cancels = {}
    /\ reconciled = {}
    /\ asking = [r \in Runs |-> 0]
    /\ stream = [r \in Runs |-> "open"]
    /\ gone = {}
    /\ sweep = [s \in Sweepers |-> "none"]
    /\ targets = [s \in Sweepers |-> {}]
    /\ left = [s \in Sweepers |-> {}]
    /\ forcing = [s \in Sweepers |-> NoRun]

-----------------------------------------------------------------------------
(* Admission.                                                              *)

(* _is_active: registered and not completed. *)
IsActive(t) == current[t] # NoRun /\ current[t] \notin Completed

ConnectionHasActiveRun(c) ==
    \/ \E t \in Threads : starting[t] = c
    \/ \E t \in Threads : IsActive(t) /\ owner[current[t]] = c

ReleaseSnapshot(r) == IF snapshot = r THEN NoRun ELSE snapshot

(* Mutant: the reservation of a Thread by another start() is not looked at. *)
MayStartUnreserved(r) ==
    /\ ~closed
    /\ ~IsActive(thread[r])
    /\ owner[r] \in Multithread \/ ~ConnectionHasActiveRun(owner[r])
    /\ thread[r] \notin maintenance

MayStart(r) ==
    /\ ~closed
    /\ ~IsActive(thread[r])
    /\ starting[thread[r]] = NoConn
    /\ owner[r] \in Multithread \/ ~ConnectionHasActiveRun(owner[r])
    /\ thread[r] \notin maintenance

(* start() under the lock. *)
Start(r) ==
    /\ pc[r] = "new"
    /\ owner[r] \notin gone
    /\ MayStart(r)
    /\ starting' = [starting EXCEPT ![thread[r]] = owner[r]]
    /\ pc' = [pc EXCEPT ![r] = "waiting"]
    /\ UNCHANGED <<closed, current, maintenance, snapshot, identity, outcome, cancels,
                   reconciled, status, cancelled, asking, stream, sweeps>>

ReserveSnapshot(r) ==
    /\ pc[r] = "waiting"
    /\ snapshot = NoRun
    /\ snapshot' = r
    /\ pc' = [pc EXCEPT ![r] = "preparing"]
    /\ UNCHANGED <<closed, current, starting, maintenance, identity, outcome, cancels,
                   reconciled, status, cancelled, asking, stream, sweeps>>

(* Mutant: the reservation is taken for transferred. *)
StartFailsKeepsLock(r) ==
    /\ r \in Starting
    /\ pc' = [pc EXCEPT ![r] = "new"]
    /\ starting' = [starting EXCEPT ![thread[r]] = NoConn]
    /\ UNCHANGED <<closed, current, maintenance, snapshot, identity, outcome, cancels,
                   reconciled, status, cancelled, asking, stream, sweeps>>

(* Preparation fails, or the Run was accepted before (acceptance.created is
   False): start()'s finally. *)
StartFails(r) ==
    /\ r \in Starting
    /\ pc' = [pc EXCEPT ![r] = "new"]
    /\ snapshot' = ReleaseSnapshot(r)
    /\ starting' = [starting EXCEPT ![thread[r]] = NoConn]
    /\ UNCHANGED <<closed, current, maintenance, identity, outcome, cancels,
                   reconciled, status, cancelled, asking, stream, sweeps>>

(* The Run is registered and its task created.  Neither _closed nor the owner
   is looked at again. *)
Register(r) ==
    /\ pc[r] = "preparing"
    /\ current' = [current EXCEPT ![thread[r]] = r]
    /\ starting' = [starting EXCEPT ![thread[r]] = NoConn]
    /\ pc' = [pc EXCEPT ![r] = "accepted"]
    /\ UNCHANGED <<closed, maintenance, snapshot, identity, outcome, cancels,
                   reconciled, status, cancelled, asking, stream, sweeps>>

(* idle_thread, around compaction, undo, redo and the watch of a Thread. *)
BeginMaintenance(t) ==
    /\ ~closed
    /\ starting[t] = NoConn
    /\ t \notin maintenance
    /\ ~IsActive(t)
    /\ maintenance' = maintenance \cup {t}
    /\ UNCHANGED <<closed, current, starting, snapshot, identity, task, status, cancelled,
                   asking, stream, sweeps>>

EndMaintenance(t) ==
    /\ t \in maintenance
    /\ maintenance' = maintenance \ {t}
    /\ UNCHANGED <<closed, current, starting, snapshot, identity, task, status, cancelled,
                   asking, stream, sweeps>>

-----------------------------------------------------------------------------
(* The task of a Run.                                                      *)

(* _finish: the one terminal status and event, unless there is one. *)
Finish(r, st) ==
    /\ status' = IF r \in Completed THEN status ELSE [status EXCEPT ![r] = st]
    /\ stream' = [stream EXCEPT ![r] = IF r \notin Completed /\ @ = "open" THEN "terminal" ELSE @]

(* The task goes on to the reconciler, to finish with status st. *)
ToReconcile(r, at, st) ==
    /\ pc' = [pc EXCEPT ![r] = at]
    /\ outcome' = [outcome EXCEPT ![r] = st]
    /\ reconciled' = reconciled \cup {r}

(* The first step of the task. *)
BeginTask(r) ==
    /\ pc[r] = "accepted"
    /\ r \notin cancels
    /\ IF r \in cancelled
       THEN ToReconcile(r, "reconcile", "cancelled") /\ UNCHANGED status
       ELSE /\ \/ /\ pc' = [pc EXCEPT ![r] = "executing"]
                  /\ status' = [status EXCEPT ![r] = "running"]
               \/ /\ pc' = [pc EXCEPT ![r] = "adapting"]
                  /\ UNCHANGED status
            /\ UNCHANGED <<outcome, reconciled>>
    /\ UNCHANGED <<registry, identity, cancels, cancelled, asking, stream, sweeps>>

(* CancelledError before the first step: nothing of _execute runs. *)
CancelledBeforeFirstStep(r) ==
    /\ pc[r] = "accepted"
    /\ r \in cancels
    /\ pc' = [pc EXCEPT ![r] = "dead"]
    /\ cancels' = cancels \ {r}
    /\ UNCHANGED <<registry, identity, outcome, reconciled, status, cancelled, asking, stream, sweeps>>

(* A Compose turn goes on to the main Agent, where start_execution raises for
   a cancelled Run, or is over without it (/abandon, an invalid command); so
   does a goal proposal, or it fails when its request is no longer ready. *)
Adapted(r) ==
    /\ pc[r] = "adapting"
    /\ r \notin cancels
    /\ \/ /\ r \notin cancelled
          /\ pc' = [pc EXCEPT ![r] = "executing"]
          /\ UNCHANGED <<outcome, reconciled>>
          /\ status' = [status EXCEPT ![r] = "running"]
       \/ /\ r \in cancelled
          /\ ToReconcile(r, "handling", "cancelled")
          /\ status' = [status EXCEPT ![r] = "running"]
       \/ /\ \E st \in {"completed", "failed"} : ToReconcile(r, "reconcile", st)
          /\ UNCHANGED status
       \/ ToReconcile(r, "handling", "failed") /\ UNCHANGED status
    /\ UNCHANGED <<registry, identity, cancels, cancelled, asking, stream, sweeps>>

(* The engine is acquired, or the acquisition failed; a goal proposal needs
   none and gives the lock back while it is still "accepted". *)
EngineAcquired(r) ==
    /\ pc[r] \in {"adapting", "executing"}
    /\ r \notin cancels
    /\ snapshot = r
    /\ snapshot' = NoRun
    /\ UNCHANGED <<closed, current, starting, maintenance, identity, task, status, cancelled,
                   asking, stream, sweeps>>

(* request_interaction, of the Run's own agent or of a child's
   (request_child_interaction), which may be at work after the adapter's end. *)
RequestInteraction(r) ==
    /\ \/ pc[r] = "executing" /\ r \notin cancels
       \/ /\ pc[r] \in {"executing", "reconcile", "handling"}
          /\ r \notin Completed \cup cancelled
    /\ asking[r] < MaxAsking
    /\ asking' = [asking EXCEPT ![r] = @ + 1]
    /\ status' = [status EXCEPT ![r] = "interacting"]
    /\ UNCHANGED <<registry, identity, task, cancelled, stream, sweeps>>

(* Mutant: the end of an Interaction does not look at the completion. *)
InteractionEndsBlindly(r) ==
    /\ asking[r] > 0
    /\ asking' = [asking EXCEPT ![r] = @ - 1]
    /\ status' = [status EXCEPT ![r] = "running"]
    /\ UNCHANGED <<registry, identity, task, cancelled, stream, sweeps>>

(* Its finally: answered, expired, failed with the Connection or cancelled;
   a child's may outlive the task. *)
InteractionEnds(r) ==
    /\ asking[r] > 0
    /\ asking' = [asking EXCEPT ![r] = @ - 1]
    /\ status' = IF r \notin Completed /\ r \notin cancelled
                 THEN [status EXCEPT ![r] = "running"]
                 ELSE status
    /\ UNCHANGED <<registry, identity, task, cancelled, stream, sweeps>>

(* The adapter returns an outcome, or raises. *)
ExecutionEnds(r) ==
    /\ pc[r] = "executing"
    /\ r \notin cancels
    /\ \/ \E st \in {"completed", "failed"} : ToReconcile(r, "reconcile", st)
       \/ r \in cancelled /\ ToReconcile(r, "reconcile", "cancelled")
       \/ ToReconcile(r, "handling", "failed")
    /\ UNCHANGED <<registry, identity, cancels, status, cancelled, asking, stream, sweeps>>

(* CancelledError in the adapter.  A failing acquisition gives the snapshot
   lock back; an adapter without an engine does not. *)
ExecutionCancelled(r) ==
    /\ pc[r] \in {"adapting", "executing"}
    /\ r \in cancels
    /\ cancels' = cancels \ {r}
    /\ ToReconcile(r, "handling", "cancelled")
    /\ snapshot' \in {snapshot, ReleaseSnapshot(r)}
    /\ UNCHANGED <<closed, current, starting, maintenance, identity, status, cancelled,
                   asking, stream, sweeps>>

(* The end of _execute's finally, and of _force_cancel: the reservation is
   released, the Run unregistered and the event stream ended. *)
Settle(r) ==
    /\ snapshot' = ReleaseSnapshot(r)
    /\ current' = [current EXCEPT ![thread[r]] = IF @ = r THEN NoRun ELSE @]

EndOfStream(s) ==
    IF s = "open" THEN "cut" ELSE IF s = "terminal" THEN "ended" ELSE s

(* The reconciler returns.  The finally of a completed Run does not suspend. *)
RunCompletes(r) ==
    /\ pc[r] = "reconcile"
    /\ r \notin cancels
    /\ outcome[r] = "completed"
    /\ pc' = [pc EXCEPT ![r] = "done"]
    /\ status' = [status EXCEPT ![r] = "completed"]
    /\ stream' = [stream EXCEPT ![r] = "ended"]
    /\ Settle(r)
    /\ UNCHANGED <<closed, starting, maintenance, identity, outcome, cancels, reconciled,
                   cancelled, asking, sweeps>>

ReconcileCompletes(r) ==
    /\ pc[r] = "reconcile"
    /\ r \notin cancels
    /\ outcome[r] # "completed"
    /\ pc' = [pc EXCEPT ![r] = "cleanup"]
    /\ Finish(r, outcome[r])
    /\ UNCHANGED <<registry, identity, outcome, cancels, reconciled, cancelled, asking, sweeps>>

(* Cancelled in it, or the goal store fails: the except clause finishes the
   Run without a second reconciliation. *)
ReconcileAborts(r) ==
    /\ pc[r] = "reconcile"
    /\ pc' = [pc EXCEPT ![r] = "cleanup"]
    /\ Finish(r, IF r \in cancels THEN "cancelled" ELSE "failed")
    /\ cancels' = cancels \ {r}
    /\ UNCHANGED <<registry, identity, outcome, reconciled, cancelled, asking, sweeps>>

HandlerCompletes(r) ==
    /\ pc[r] = "handling"
    /\ r \notin cancels
    /\ pc' = [pc EXCEPT ![r] = "cleanup"]
    /\ Finish(r, outcome[r])
    /\ UNCHANGED <<registry, identity, outcome, cancels, reconciled, cancelled, asking, sweeps>>

(* What escapes an except clause goes to the finally: nothing finishes the Run. *)
HandlerAborts(r) ==
    /\ pc[r] = "handling"
    /\ pc' = [pc EXCEPT ![r] = "cleanup"]
    /\ cancels' = cancels \ {r}
    /\ UNCHANGED <<registry, identity, outcome, reconciled, status, cancelled, asking,
                   stream, sweeps>>

CleanupCompletes(r) ==
    /\ pc[r] = "cleanup"
    /\ r \notin cancels
    /\ pc' = [pc EXCEPT ![r] = "done"]
    /\ Settle(r)
    /\ stream' = [stream EXCEPT ![r] = EndOfStream(@)]
    /\ UNCHANGED <<closed, starting, maintenance, identity, outcome, cancels, reconciled,
                   status, cancelled, asking, sweeps>>

(* CancelledError is no Exception: it escapes the finally, and what follows
   is skipped. *)
CleanupCancelled(r) ==
    /\ pc[r] = "cleanup"
    /\ r \in cancels
    /\ pc' = [pc EXCEPT ![r] = "dead"]
    /\ cancels' = cancels \ {r}
    /\ UNCHANGED <<registry, identity, outcome, reconciled, status, cancelled, asking,
                   stream, sweeps>>

-----------------------------------------------------------------------------
(* Cancellation.                                                           *)

(* Mutant: the task is never interrupted. *)
CancelOnlyMarks(r) ==
    /\ current[thread[r]] = r
    /\ r \notin Completed
    /\ owner[r] \notin gone
    /\ cancelled' = cancelled \cup {r}
    /\ UNCHANGED <<registry, identity, task, status, asking, stream, sweeps>>

(* run.cancel: a Run whose status is still "accepted" is only marked. *)
Cancel(r) ==
    /\ current[thread[r]] = r
    /\ r \notin Completed
    /\ owner[r] \notin gone
    /\ cancelled' = cancelled \cup {r}
    /\ cancels' = IF status[r] # "accepted" /\ r \in TaskAlive THEN cancels \cup {r} ELSE cancels
    /\ UNCHANGED <<registry, identity, pc, outcome, reconciled, status, asking, stream, sweeps>>

(* The first loop of _cancel_runs and of close. *)
BeginSweep(s, rs) ==
    /\ sweep' = [sweep EXCEPT ![s] = "gather"]
    /\ targets' = [targets EXCEPT ![s] = rs]
    /\ left' = [left EXCEPT ![s] = rs]
    /\ cancelled' = cancelled \cup rs
    /\ cancels' = cancels \cup (rs \cap TaskAlive)
    /\ UNCHANGED forcing

OwnerDisconnected(c) ==
    /\ c # Owner
    /\ c \notin gone
    /\ gone' = gone \cup {c}
    /\ BeginSweep(c, {current[t] : t \in {u \in Threads : IsActive(u) /\ owner[current[u]] = c}})
    /\ UNCHANGED <<registry, identity, pc, outcome, reconciled, status, asking, stream>>

(* Every registered Run, those past their terminal status included. *)
Close ==
    /\ ~closed
    /\ closed' = TRUE
    /\ BeginSweep(HostClose, {current[t] : t \in Threads} \ {NoRun})
    /\ UNCHANGED <<current, starting, maintenance, snapshot, identity, pc, outcome, reconciled,
                   status, asking, stream, gone>>

(* The gather over the tasks returns. *)
SweepGathers(s) ==
    /\ sweep[s] = "gather"
    /\ targets[s] \cap TaskAlive = {}
    /\ sweep' = [sweep EXCEPT ![s] = "force"]
    /\ UNCHANGED <<registry, identity, task, status, cancelled, asking, stream, gone, targets,
                   left, forcing>>

(* _force_cancel from its _finish to its end, after which the sweep goes on. *)
ForceFinish(s, r) ==
    /\ Settle(r)
    /\ status' = IF r \in Completed THEN status ELSE [status EXCEPT ![r] = "cancelled"]
    /\ stream' = [stream EXCEPT ![r] =
         EndOfStream(IF r \notin Completed /\ @ = "open" THEN "terminal" ELSE @)]
    /\ left' = [left EXCEPT ![s] = @ \ {r}]
    /\ sweep' = [sweep EXCEPT ![s] = "force"]
    /\ forcing' = [forcing EXCEPT ![s] = NoRun]
    /\ UNCHANGED <<closed, starting, maintenance, identity, pc, outcome, cancels, cancelled, asking,
                   gone, targets>>

(* Mutant: the sweep trusts the tasks to have finished their Runs. *)
SweepSkipsAll(s, r) ==
    /\ sweep[s] = "force"
    /\ r \in left[s]
    /\ left' = [left EXCEPT ![s] = @ \ {r}]
    /\ UNCHANGED <<registry, identity, task, status, cancelled, asking, stream, gone, sweep,
                   targets, forcing>>

(* The last loop of a sweep: the task finished the Run. *)
SweepSkips(s, r) ==
    /\ sweep[s] = "force"
    /\ r \in left[s]
    /\ r \in Completed
    /\ left' = [left EXCEPT ![s] = @ \ {r}]
    /\ UNCHANGED <<registry, identity, task, status, cancelled, asking, stream, gone, sweep,
                   targets, forcing>>

(* It did not, but its goal was reconciled. *)
SweepForces(s, r) ==
    /\ sweep[s] = "force"
    /\ r \in left[s] \ Completed
    /\ r \in reconciled
    /\ ForceFinish(s, r)
    /\ UNCHANGED reconciled

(* It did neither: _force_cancel awaits the reconciler. *)
SweepReconciles(s, r) ==
    /\ sweep[s] = "force"
    /\ r \in left[s] \ Completed
    /\ r \notin reconciled
    /\ sweep' = [sweep EXCEPT ![s] = "reconcile"]
    /\ forcing' = [forcing EXCEPT ![s] = r]
    /\ reconciled' = reconciled \cup {r}
    /\ UNCHANGED <<registry, identity, pc, outcome, cancels, status, cancelled, asking, stream,
                   gone, targets, left>>

(* The reconciler awaited by _force_cancel returns, or its store fails. *)
ForceReconciles(s) ==
    /\ sweep[s] = "reconcile"
    /\ ForceFinish(s, forcing[s])
    /\ UNCHANGED reconciled

ForceFails(s) ==
    /\ sweep[s] = "reconcile"
    /\ sweep' = [sweep EXCEPT ![s] = "failed"]
    /\ forcing' = [forcing EXCEPT ![s] = NoRun]
    /\ UNCHANGED <<registry, identity, task, status, cancelled, asking, stream, gone, targets, left>>

SweepEnds(s) ==
    /\ sweep[s] = "force"
    /\ left[s] = {}
    /\ sweep' = [sweep EXCEPT ![s] = "done"]
    /\ UNCHANGED <<registry, identity, task, status, cancelled, asking, stream, gone, targets, left,
                   forcing>>

-----------------------------------------------------------------------------
TaskStep(r) ==
    \/ BeginTask(r)
    \/ CancelledBeforeFirstStep(r)
    \/ Adapted(r)
    \/ EngineAcquired(r)
    \/ RequestInteraction(r)
    \/ ExecutionEnds(r)
    \/ ExecutionCancelled(r)
    \/ RunCompletes(r)
    \/ ReconcileCompletes(r)
    \/ ReconcileAborts(r)
    \/ HandlerCompletes(r)
    \/ HandlerAborts(r)
    \/ CleanupCompletes(r)
    \/ CleanupCancelled(r)

SweepStep(s) ==
    \/ SweepGathers(s)
    \/ \E r \in Runs : SweepSkips(s, r) \/ SweepForces(s, r) \/ SweepReconciles(s, r)
    \/ ForceReconciles(s)
    \/ ForceFails(s)
    \/ SweepEnds(s)

Next ==
    \/ \E r \in Runs :
         \/ Start(r)
         \/ ReserveSnapshot(r)
         \/ StartFails(r)
         \/ Register(r)
         \/ TaskStep(r)
         \/ InteractionEnds(r)
         \/ Cancel(r)
    \/ \E t \in Threads : BeginMaintenance(t) \/ EndMaintenance(t)
    \/ \E c \in Conns : OwnerDisconnected(c)
    \/ Close
    \/ \E s \in Sweepers : SweepStep(s)

(***************************************************************************)
(* The event loop runs every task that is ready; a task in which           *)
(* CancelledError is pending is ready.  The store answers or fails.        *)
(* Nothing is assumed of an execution that is not cancelled.               *)
(***************************************************************************)
Fairness ==
    /\ \A r \in Runs :
         /\ WF_vars(BeginTask(r) \/ CancelledBeforeFirstStep(r))
         /\ WF_vars(Adapted(r) \/ ExecutionCancelled(r))
         /\ WF_vars(RunCompletes(r) \/ ReconcileCompletes(r) \/ ReconcileAborts(r))
         /\ WF_vars(HandlerCompletes(r) \/ HandlerAborts(r))
         /\ WF_vars(CleanupCompletes(r) \/ CleanupCancelled(r))
    /\ \A s \in Sweepers : WF_vars(SweepStep(s))

Spec == Init /\ [][Next]_vars

FairSpec == Spec /\ Fairness

-----------------------------------------------------------------------------
(* Properties.                                                             *)

(* Runs that are being admitted or executed: up to their terminal status. *)
Active == Starting \cup (TaskAlive \ Completed)

(* A Thread has at most one active Run: start() checks and reserves the
   Thread under one lock, and holds the reservation over every suspension up
   to the registration that replaces it. *)
OneActiveRunPerThread ==
    \A r, q \in Active : r # q => thread[r] # thread[q]

(* So has a Connection that did not negotiate concurrent Runs. *)
OneActiveRunPerConnection ==
    \A r, q \in Active : r # q /\ owner[r] = owner[q] => owner[r] \in Multithread

(* No active Run on a Thread that is compacted, undone or re-read: idle_thread
   and start() exclude each other although neither keeps the lock. *)
MaintenanceExcludesRuns ==
    \A r \in Active : thread[r] \notin maintenance

(* The snapshot lock is held by a Run that is being admitted, by a live task,
   or by a task that died in a step where its finally was cut short; a Run
   that was rejected or that ended took it along nowhere. *)
SnapshotHolderIsUnderWay ==
    snapshot # NoRun => pc[snapshot] \notin {"new", "waiting", "done"}

(* The terminal status of a Run is final: whatever a late Interaction, a late
   cancellation or a sweep does, _finish had the last word. *)
TerminalIsFinal ==
    [][\A r \in Completed : status'[r] = status[r]]_vars

(* To its clients a Run has the life that RunLifecycle describes, whatever
   is cancelled, swept, rejected or left behind by a task that died. *)
Place == [p \in Phases |->
             IF p = "new" THEN "new"
             ELSE IF p \in {"waiting", "preparing"} THEN "admitted"
             ELSE IF p \in {"done", "dead"} THEN "lost" ELSE "working"]
Phase == [r \in Runs |-> IF status[r] \in TerminalStatus THEN status[r] ELSE Place[pc[r]]]
Lifecycle == INSTANCE RunLifecycle WITH phase <- Phase, events <- stream
ImplementsLifecycle == Lifecycle!Spec

(* owner_disconnected returns only when every Run it cancelled is terminal and
   unregistered from its Thread or in a task's own hands: _force_cancel makes
   up for tasks cancelled before their first step or out of an except clause. *)
SweptRunsAreTerminal ==
    \A s \in Sweepers : sweep[s] = "done" => targets[s] \subseteq Completed

(* A cancelled Run's task ends: run.cancel, owner_disconnected and close each
   interrupt the execution, or mark a Run that looks at the mark. *)
CancelledTasksEnd ==
    \A r \in Runs : (r \in cancelled /\ r \in TaskAlive) ~> r \notin TaskAlive

(* A sweep comes to its end: it only waits for tasks that were cancelled. *)
SweepsEnd ==
    \A s \in Sweepers : sweep[s] = "gather" ~> sweep[s] \in {"done", "failed"}

(* What admission keeps apart: Runs of one Thread, of one Connection, and
   Runs and maintenance. *)
RunsExclude == OneActiveRunPerThread /\ OneActiveRunPerConnection /\ MaintenanceExcludesRuns

(* Whatever is cancelled comes to an end, and so does who waits for it. *)
CancellationEnds == CancelledTasksEnd /\ SweepsEnd
=============================================================================
