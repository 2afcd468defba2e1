# Harness Code: TLA+ models of the agent Host

Harness Code is a coding agent: a Python Host process (`src/packages/agent/harness_agent`) that owns
the Runs, the Threads and every project resource, and TypeScript front ends (`src/packages/cli`) that
talk to it over JSON-RPC, the owner over stdio and attached ones over a loopback WebSocket.  The Host
is one asyncio event loop: no two lines of it run at once, but every `await` that suspends lets any
other task run, and `Task.cancel()` raises in whatever step the task takes next.  Nearly all that is
hard about the Host is hard for one of these two reasons, and the models are about them.  Where state
is persisted there is a third: the process may die between any two writes, and the next one has to
make sense of what it finds.

Paths below are relative to `src/packages/agent/harness_agent/` unless they start with `src/`.

## 1. Inventory

| component | state | operations | talks to | correct when |
|---|---|---|---|---|
| control lease (`host/control_lease.py`) | holder, lease state, permit count, registered attachments | register, acquire, release, begin and complete revoke, disconnect, permit | called by every dispatch loop and by close | one holder; control moves only when quiet; it always returns to the owner |
| attachments and Connections (`host/attachments.py`, `host/connection.py`) | transport records, sockets, Connections, pending requests | create, authenticate, revoke, close | lease, dispatch | a revoked or closed one has no power left |
| Host dispatch (`host/agent_host.py`) | Connections, background tasks, the engine snapshot lock | some ninety request handlers, fan-out of events, close | everything | a handler's `await`s do not invalidate what it checked |
| Run coordinator (`host/run_coordinator.py`) | Runs by Thread, admissions under way, Threads under maintenance | start, cancel, owner_disconnected, close, Interactions, idle_thread | adapters, goal store, persistence, execution registry | one active Run per Thread; exactly one terminal event; every stop converges |
| Run adapters (`host/run_execution.py`, `runtime/managed_agent_executor.py`) | leases of the Run | execute in build, compose or shell mode | engine pool, graph | leases and locks come back on every path |
| agent engine pool (`runtime/agent_engine.py`) | entries by profile, engine states, leases | acquire, single-flight build, evict, sweep, invalidate, drain, close | clients, builders | never closed under a lease; never over capacity; no lost waiter |
| agent delegation (`runtime/agent_delegation.py`, `agent_execution.py`) | slots and queues per parent, execution tree, finished results | execute, cancel, time out | child agents, registry | slots balance; every child ends; nothing runs on unowned |
| team coordinator (`runtime/team_coordinator.py`) | task graph with states, persisted | run, recover, finalize | delegation, store | dependencies respected; a write is never run twice |
| shared resources (`runtime/resource_lifecycle.py`) | handles, leases | acquire, release, reap, close | MCP, workspaces | closed once, after the last lease |
| goals (`goals/`) | the Goal of a Thread with its revisions, a pending proposal, the ledger of operations, evaluations | request, mutate, draft and review, block, commit completion, reconcile, undo | Runs, `threads.open` | completion only on valid evidence of this revision; one change waits at a time and takes effect once |
| legacy migration (`threads/thread_persistence.py`, `threads/migration_recovery.py`) | the database, its backup, the markers of an attempt, a file lock, a child process | open: bootstrap, migrate in a child, settle what a crash left; the offline command | every Host of the project | an upgrade happens whole and is never undone; damage is recoverable; somebody gets to serve |
| thread persistence: stores (`threads/`) | SQLite: transcripts, bindings, checkpoints, undo, one connection and one lock for all stores | accept and complete a Run, undo, redo, compact | coordinator, goals, team, compose | transactions are whole and apart; idempotent acceptance |
| compose (`compose/session.py`, `threads/compose_progress_store.py`) | a row per Thread with the suite under way and what was confirmed of it; the suite's documents and the mark `implement.ok` on disk | Turns: write, confirm, implement, review, reject; new and abandoned suites | the compose adapter, agents, the user, the `compose.abandon` request | only the user confirms, stage after stage; a rejected review leads to a new implementation; Turns end |
| compose: work-item engine (`compose/work_item_engine.py`) | work items, their operations | | only tests reach it | |
| policy and approvals (`policy/`) | rules, staged approvals | classify, match | tools | deny wins |
| plugins, tools, configuration, extensions, skills, diagnostics, protocol, CLI | files, external services | parsing, I/O, presentation | | |

How they interact in what is modelled: a frame from a Connection is dispatched, if the operation is a
controlled one under a permit of the lease; `run.start` takes the Run through admission, preparation
(under the snapshot lock) and registration, and creates its task; the task leases an engine from the
pool and gives the snapshot lock back; the Run's events are fanned out, and a failed send closes a
Connection, which revokes its attachment, cancels its Runs and returns control.  A Run that is about
to end settles the Goal of its Thread before its terminal event; a client that changes the Goal while
a Run is active leaves its change in the ledger for that settlement.  A team run is a task of the Host
of its own, a root of the execution tree whose members are delegated as a Run's children are.  Every
store writes through the one connection of the project's database, which the Host opens, and upgrades
first, under a lock that Hosts of the same project and the offline command share.

What is hard: four callers of `close_connection` of which only the first does anything; checks made
before a suspension and relied on after it (admission, purge of records, idle lists); cancellation
that arrives in an `except` or a `finally`; a shielded task whose caller is gone; a lock handed from
one task to another.  `PROJECT.json` lists each such hazard at its line.

## 2. Modules

| module | models | theorems in |
|---|---|---|
| `ControlLease` | the lease: one action per method; each method's body is atomic because no await inside its lock suspends | |
| `HostControl` | the lease composed with attachments, Connections, dispatch loops, revocation, close and the Runs that operations start | `HostControlProofs` |
| `ControlOfHost` | what `HostControl` implements: one client has control and runs operations, and control changes hands while nothing runs | `HostControlProofs` (the refinement) |
| `RunCoordinator` | Runs from admission to their terminal event, with cancellation, disconnection, Host close, maintenance and the snapshot lock | `RunCoordinatorProofs` |
| `RunLifecycle` | what `RunCoordinator` implements: a Run is admitted alone to its Thread, works, and gets one terminal status and event, or is lost until a sweep finds it | `RunCoordinatorProofs` (the refinement) |
| `AgentEnginePool` | entries, builds, leases, draining, eviction and close of the engine pool, and its clients | `AgentEnginePoolProofs` |
| `LeasedEngines` | what `AgentEnginePool` implements: at most so many engines, one per profile; outdated builds are never used, retired engines take no new user and close with their last | `AgentEnginePoolProofs` (the refinement) |
| `AgentDelegation` | slots, queues, deadlines and cancellation of delegated executions, over the execution tree of a Run or a team run | `AgentDelegationProofs` |
| `FairSlots` | what `AgentDelegation` implements, seen through its slots: a semaphore per execution, first come, first served | `AgentDelegationProofs` (the refinement) |
| `TeamCoordinator` | one TeamRun: the task graph, the tasks of its members, the stored state, failure policies, crashes and resumption | `TeamCoordinatorProofs` |
| `GoalStore` | the Goal of one Thread: every operation of the store, in the order its callers (requests, Build and proposal Runs, `threads.open`) make them | `StoreProofs` |
| `LegacyMigration` | opening the database: the lock, the markers and their staging files, the migration child, the facts by which an attempt is settled, and the offline command | `LegacyMigrationProofs` |
| `AtomicUpgrade` | what `LegacyMigration` implements: the database is upgraded in one step, never back, and only then served | `LegacyMigrationProofs` (the refinement) |
| `SharedConnection` | how the stores bracket their statements on the one connection, and what cancellation and failure do to that | `StoreProofs` |
| `AtomicStore` | what `SharedConnection` implements: the writes of a call take effect together, once, and before it returns | `StoreProofs` (the refinement) |
| `ComposeSession` | the Compose mode: the Turns of a Thread through the stages of a suite, beside `compose.abandon`, crashes and edits of the documents | `ComposeSessionProofs` |
| `MCHostControl`, `MCRunCoordinator`, `MCAgentEnginePool` | symmetry sets for TLC | |
| `MCAgentDelegation`, `MCTeamCoordinator`, `MCSharedConnection` | the tree of calls (with a symmetry set), the task graph, and the idioms of the operations of the instances | |

A step of a model is what the code runs between two suspensions.  A call that raises and changes
nothing is not a step.  In each module the definitions named "Mutant" are the broken variants that
show that the properties can fail; nothing uses them.

**HostControl.** `state`, `holderConn`, `holderAtt`, `permits`, `attConn`, `attRevoked` are the fields
of `ControlLease`; `recState`, `recConn`, `kept`, `expired` are `AttachmentManager._records` (a record
dropped from the dictionary leaves `kept` and is still referenced by its handler); `handler[c]` is
where the dispatch loop of a Connection is; `closing[c]` is the one `close_connection` that found the
Connection open: it awaits the cancelled Runs (`gather`), then the permits (`drain`).  `revokeAt`
steps through the owner's `host.attachment.revoke`: close the socket, wait for the handler at most
five seconds, close the Connection, complete the revocation.  `runOwner` and `cancelling` are the
coordinator's Runs as far as the lease's activity provider sees them.  `ControlOfHost` sees none of the
attachments and sockets: to it a guest may acquire, release, go or have control taken away at any
moment, the guest that goes is losing control in that very step, and a taken control returns to the
owner once nothing runs.  Runs are over when control is given up, but may outlive its being taken away.

**RunCoordinator.** `current`, `starting`, `maintenance`, `closed` are the coordinator's dictionaries
and flag; `pc[r]` is where `start()` or the task of a Run is suspended; `cancels` are the tasks in
which a CancelledError is due; `stream[r]` is what the reader of the Run's events is given (`terminal`
after the terminal event, `ended` after the end mark as well, `cut` for an end mark without a terminal
event).  A sweep is `_cancel_runs` of a Connection or `close`, in its three loops.  A Run id that
start() rejected may be used again.  `RunLifecycle` sees of all that the phase of each Run (`Place`
says where `pc` puts it, unless it has a terminal status) and its stream.  A "lost" Run is one whose
task died without a terminal status, which the code allows (section 3, Control and Runs); only a sweep
brings it to "cancelled", and its reader may by then have been cut off.

**AgentEnginePool.** `entry` is `_entries`, `engine` the `AgentEngineState` of the entry's engine,
`closing` the shielded `aclose` tasks.  A client acquires, holds, releases and sweeps, or invalidates
after a configuration change; `ClientCancelled` cancels it wherever it suspends.  A lease stands for
the lease and the run lease taken with it, and the run queue behind it is not used by the Host.
`LeasedEngines` sees the pool through `PlaceOf`: an engine is "closing" from the creation of its close
task until its entry is gone.

**AgentDelegation.** A call is one `execute()` and stands for its child execution.  `active` and
`waiting` are `_active_by_parent` and `_waiters_by_parent`, `granted` the futures with a result that
none has used yet, `exec` and `tree` the registry (a discarded tree is `gone`), `token` the
cancellation token.  `pc[c]` is where the call is suspended: in the queue, at its runner, or at the
`gather` of a runner it cancelled for the deadline or the token.  `runner[e]` is the work of an
execution; a `stopping` one has cancelled the tasks of its own calls and waits for them.  A parent is
any execution, so calls nest.  For `FairSlots` a call has a slot while it runs or has a grant
(`Holding`), and the line of an execution is `waiting`; the tree itself (`Parent`) is a constant, and a runner makes each of its
calls at most once.  Calls under way have idempotency keys of their own (section 3 says what the code does
with one that is used twice).

**TeamCoordinator.** `saved` and `record` are the stored TeamRun and its tasks, `states` the
coordinator's own copy, `entry` the root in the execution registry, `coord` where
`TeamCoordinator.run` is, `runner[t]` where the asyncio task of a member is (created, saving its
"running" state, queued at the semaphore and the write lock, executing, returned), `batch` the returned
tasks being collected, `begun` how often a member was handed to its agent.  The graph, the order of
the definition and the writers are constants.  A save may fail at each place where the code saves, and
`Crash` may strike at any moment; `teams.run` of the same definition then resumes.  When the coordinator
ends before its members (fail-fast, an error; `Close`), it cancels their asyncio tasks.  The delegator then
leaves the agent of an executing member at work, unless that was not created yet or had been cancelled:
`abandoned` are the tasks of which such an agent still works.  Nobody awaits it, it may meet a resumption
of the run, and it ends by itself, if ever (`AgentEnds`), or with the process.

**GoalStore.** `goal`, `pending`, `ledger` and `evals` are the four tables of `goals/store.py`; `goals`
counts the ids given out and `effects` how often the intent of each operation took effect.  Each method
of the store is one transaction and one step.  `run` is the Run under way on the Thread with the
binding it took of the Goal, `ctl` the controlled request that has read the Thread's activity and will
call the store in a later step, `opener` a `threads.open` that has found the Thread idle.  A client may
repeat an operation with the same identifier at any time.  A Run that ends commits the completion,
clears the blocker and reconciles, in three steps, and may be cancelled between them.

**LegacyMigration.** The variables up to `files` are what is on disk; a marker is written through a
staging file, so every write may be lost, be late (written, but reported as failed), or die leaving
the staging file complete or torn (`Outcomes`).  A process is a Host, the offline `Operator`, or the
child of an attempt.  Steps of `_prepare` are shared by the child and by a Host that bootstraps an
empty database, as in the code.  `verdict` is the result that the facts on disk speak for
(`_classify`), the manifest is settled with it before anything is removed.  Fingerprints are abstracted
to the kind of database they identify, the versions of the schema to "legacy" and "final".
`AtomicUpgrade` sees `db` and the Hosts that serve: a database that is half migrated, or restored, is
still the source to it.

**SharedConnection.** An operation is one call of a store, of one of five idioms found in the stores:
where BEGIN, the `try` and the lock stand relative to each other.  The connection's worker thread
executes a `queue` of statements; a cancelled task leaves its statement in it.  A write outside a
transaction begins one, which is what `sqlite3` does at its default isolation level.  `AtomicStore`
sees the committed writes and how each call ended.  It lets a call that raised take effect, then or
later: a COMMIT that is in the queue when its task is cancelled is executed, and a plain write that
nothing rolled back is committed by whichever call commits next.

**ComposeSession.** `row[t]` is the row of a Thread in `harness_compose_sessions`, `docs` and `ok` are
the files of each suite's directory, which its goal text names.  `turn[t]` is where `execute_turn` is
suspended (`pc`: at the store, at an agent, at a question to the user), with the copy of the row it
works with, the stage and the depth of its recursion; a Turn that confirms a document goes on with the
next stage.  `dropping[t]` is what a `compose.abandon` has loaded and will write back as abandoned.
Digests are the texts they are digests of, `Absent` for none.  Any document may be written or removed
at any moment (`EditDocument`), by agents as well as by the user.  `approved` and `rejected` are
history: what the user answered, which no variable of the code keeps.

## 3. Runs and bounds

| run | instance | shows |
|---|---|---|
| `host_control` | 2 attachments, 2 attached Connections, 1 Run slot, 1 plugin operation; 461,624 states | permits, what backs the holder, the refinement of `ControlOfHost`, and that a closed Connection loses control |
| `run_coordinator` | 2 Runs, 2 Threads, owner and one attached Connection, only the owner may run concurrently, 1 Interaction of a Run at a time; 4.2 million states with symmetry | exclusion, sweeps converge, the snapshot lock's holder |
| `run_coordinator_live` | 1 Run, 1 Thread, 2 Connections, 2 Interactions at a time; 15,407 states | the life of a Run (refinement of `RunLifecycle`); cancelled tasks and sweeps end |
| `engine_pool` | 3 profiles (one pinned), capacity 2, 2 clients; 224,409 states | safety of leases, capacity, builds (refinement of `LeasedEngines`); drained engines close |
| `delegation` | one slot, three calls of the root, one call of a child; 1.2 million states with symmetry | slots, the queue and its order (refinement of `FairSlots`), terminal states and the order in which executions end |
| `delegation_live` | one slot, two calls of the root, one call of a child | every call ends |
| `team` | two writers, a reader that needs one of them, parallelism 2, all three policies, 3 faults; 275,702 states | writes happen once, members that are awaited work on what is stored, the terminal state accounts for every task and has those that were abandoned on record as failed or cancelled; a team run ends |
| `goals` | 2 operations and their repetitions, 3 Runs, 2 Goals, 3 revisions; 253,886 states | completion has evidence, changes wait alone and act once, revisions identify, proposals are recovered |
| `shared_connection` | 4 operations of three idioms, 3 cancellations or failures; 65,770 states | to their callers operations are atomic calls (refinement of `AtomicStore`), transactions are apart; every operation ends |
| `compose` | 1 Thread, 2 suites of one goal, one text per document, which may be there or not; 176,368 states | only the user confirms, a review sent back is reworked, Turns end |
| `migration` | 2 Hosts and the offline command, 4 attempts, 3 faults | safety of the database and of the markers, the refinement of `AtomicUpgrade`, and that some Host serves |

Two attached Connections are what it takes for a revocation of one to meet an acquire by the other;
a third is interchangeable with them.  Two Runs and two Threads cover every pair the exclusion
properties speak of, and a lock that one Run keeps and another waits for; in the life of a Run the
others appear only as what keeps it from being admitted, which `RunsExclude` checks with two, and the
refinement is proved for any number of them.  Three profiles and capacity
two make a miss evict one engine while another is draining or pinned; two clients make every race of
acquire with acquire, release, eviction or invalidation.  In `delegation`, with
a single slot, one call holds it, one can be granted it and one waits behind it, and the call of a
child meets the cancellation of its parent's call.  In `team`, two writers compete for the write lock
while the reader holds the second place; three faults are a crash, a failed save and a second crash of
the resumed run, and reach an abandoned writer beside the members of a resumed run, which a failed save
that is followed by `teams.run` leads to.  In `goals`, a Goal is created, blocked, taken out of "blocked" and completed in three
Runs, with one more operation racing them; a third operation would only meet what the theorems of
`StoreProofs` exclude for any number.  In `shared_connection`, two operations may leave a
transaction open, one rolls back what it finds and one commits into it.  In `migration`, three faults
are a torn or late marker, a crash on the way and another in the recovery from it, and four attempts
let each of them be followed by a retry.  In `compose`, the second suite finds the documents and the
mark that the first left, which is what two Threads with one goal do to each other; several Threads and
texts are left to the theorems of `ComposeSessionProofs`.  The theorems remove the bounds for safety where there are
theorems (section 5).

The liveness run of the coordinator has a single Run: with two it exceeds what can be checked in a few
minutes, and Runs wait on each other only through a sweep, which waits for each of its targets alone.
`CHECK_DEADLOCK` is off where the program may stop: after the Host or the pool has closed, a team run
is stored as ended, or all operations on the connection are done.

One run TLC must find violated; it quotes a docstring of the code and is recorded under "findings" in
`PROJECT.json`:

| run | what the trace shows |
|---|---|
| `shared_context` | `commit_context` is cancelled while it waits for the lock; its `except` clause rolls back without the lock, and with it the open transaction of `append_transcript_batch`, whose later writes are then committed alone |

### Further disagreements

These were met while modelling.  The models contain the behaviour (or the note says otherwise), and
the properties are stated so that they hold with it.

Control and Runs:

- `run.start` is in preparation when its Connection closes; the Run is accepted afterwards and nobody
  cancels it.  A `start()` in preparation also registers its Run after `close()` has returned.
- The record of a connected attachment is purged after sixty seconds; revoking it then leaves the lease
  in revocation until the peer leaves.  The owner's revocation completes while Runs it cancelled still
  end, when the socket's handler was the first to close the Connection.
- A second cancel, or a failing goal store, inside an `except` clause of `_execute` ends the event
  stream without a terminal event; `close` that cancels a task in its `finally` leaves a stream that
  never ends and that `AgentHost.close` awaits.  A Run that never acquired an engine keeps the snapshot
  lock when its cleanup is cut the same way.

Engines and delegation:

- The caller of `finalize_draining` is cancelled during the close: the closed engine keeps its entry.
- An engine whose only client was cancelled during the build stays READY, is never idle, and fills the
  pool.  `sweep` evicts from a list that is stale once it has suspended (the leased engine still stays
  open, `LeasesProtect`).
- The task of `execute` is cancelled (fail-fast of a team, a failed step of a graph): the child is
  recorded as cancelled and its runner goes on (`TeamCoordinator` has it as `abandoned`), although the
  docstring of `_run_with_cancellation` (`runtime/agent_delegation.py:455`) says that the tasks inside are
  always reclaimed.  A call cancelled in the queue keeps its future there,
  so that a slot granted to it is lost (`SlotAccounting` says that no other slot is).
- A second call with the idempotency key of one under way is refused by `accept` (`EXECUTION_ID_CONFLICT`,
  `runtime/agent_execution.py:41`), and the `except` clause of `execute` ends the first call's child as
  failed while its runner works (`agent_delegation.py:326`).  The keys are made of the tool call's id, the
  team run and its task, or the Run, and repeat only if a model gives two calls of one message the same
  id.  This is not modelled.

Teams:

- After fail-fast or an error, agents may go on while the run is stored as failed or cancelled.  After a
  failed save, `teams.run` may start a new writer while an abandoned one still works, so that the write
  lock excludes only writers of one coordinator (`WorksOnRecord` speaks of the members that are awaited).
  What an abandoned agent was writing is on record as failed or cancelled in the end, and a completed run
  has only readers left at work (`TerminalAccounts`).
- Fail-fast is not applied again after a resumption.  A token cancelled after all members completed
  gives a CANCELLED run in which every task is completed.  A completed result that is collected in the
  same batch as a failure is dropped as cancelled under fail-fast.
- A failed first save in `teams.run` leaves the root in the registry, so that the run cannot be started
  until the Host restarts; so does a tree that cannot be sealed.
- `_block_unreachable` makes one pass in the order of the definition and may leave tasks pending that
  can never run; if nothing else is running they stay pending in the stored run.

Goals:

- A mutation is queued behind a Run that completes the Goal, or revises it.  `reconcile` validates it
  again (`goals/store.py:286-299`), raises, and leaves it queued, so opening the Thread and every later
  Run meet the error, and requests and mutations, a clear included, are refused as an operation in
  progress.  The comment at `host/agent_host.py:2347` says that opening an idle Thread first brings an
  interrupted proposal or a queued mutation into a state from which it is safe to go on.
- A mutation queued after the Run's reconciliation but before its end waits for the next Run or the
  next opening.  A Goal may be complete although its Run is then reported as cancelled or failed.
  `goal_terminal_reconciled` is set before the reconciler runs, so a reconciliation that is cut is not
  repeated.  A cancelled proposal Run returns without reconciling, and a reconciliation by
  `threads.open` may set the proposal of a Run that has just started back to "ready".

Migration:

- A transient failure to read the database in `_classify`, `_settle_owned` or the recovery would put the
  old backup over a committed database, contrary to the comments there; `ReadsFail` turns this on, and
  the run, which is about crashes and failed writes, has it off.
- A torn staging file of the state of a bootstrap makes every open refuse, and the offline command finds
  no attempt to settle (`TornBootstrap` in `EventuallyServed`).
- A bootstrap whose commit is in doubt closes the connection, which the comment says it does not (the mark
  it sets, `_MIGRATION_CHILD_POISONED_PATHS`, is read by a migration child only).  A
  Host that has published "exit_unknown" stays poisoned until it is restarted.

Compose (the document is `src/docs/developer/spec/HC-155-重做Compose流程.md`):

- `compose.abandon` during a Turn: the Turn goes on with its own copy (`load() or record`,
  `compose/session.py:329`) and its next upsert, which compares nothing, brings the abandoned suite back
  as active or completed; a `compose.abandon` that loaded the old suite may overwrite the row of a new
  one.  The document (126, 133) says that an abandoned suite is no longer current and the work is
  cancelled.  Two different states may get one revision, and a new suite starts again at 0, whereas the
  client drops frames whose revision does not grow (`src/packages/cli/src/interactive/state.ts:361`).
- An order to proceed at the review stage completes the suite and then reviews it again, sets it back
  to "waiting_user" and asks; a rejection makes the completed suite active.
- Two goals with one text share a directory: the documents and `implement.ok` of an earlier suite count
  for the later one, whose plan, once confirmed, leads straight to the review.
- Digests that were confirmed are never compared with the files, although the document (118) says that
  a change takes the confirmation back.  The specification is always put to the user, although the
  complexity is always "simple" and a simple one is not (87).
- A `review.md` of an earlier round is put to the user when the reviewing agent writes none.

Stores:

- `ComposeActivityStore._Tx` never releases the lock when its BEGIN fails or is cancelled, although its
  docstring says that it always does (idiom "enter", which no run has).  The idiom "outer"
  leaves its transaction open when it is cancelled in BEGIN, and "plain" the one that its failing statement
  began; the next BEGIN fails on it.  Some plain
  operations (`cleanup_thread_history_after_turn`, `adelete_thread`, `cancel_proposal`) consist of several
  statements without a rollback.

## 4. Fairness

Weak fairness of steps that the event loop, a worker thread or a timer is bound to take: ready tasks
run, an operation of a dispatch loop ends, a cancelled Run's task ends (in `HostControl`, where Runs are
opaque; `RunCoordinator` checks it as `CancellationEnds`), the five-second wait of a revocation runs
out, close tasks of engines end, the deadline of a delegated call passes, a runner that was cancelled
cancels its calls and stops, a member of a team ends (its delegation has a deadline), an agent of a
Compose Turn returns and the user answers it or cancels its Run (`Proceeds`), the connection's
thread executes its queue, a process that works on a migration goes on and is started again after a
failure.  Strong fairness where a step competes with others for its turn: the Thread of a Goal is opened,
and that opening reconciles, although Runs come in between and the Host may die (`OpenThread`,
`OpenReconciles`); the offline command, which polls for the lock, gets it (`StartOfflineRecovery`).
An abandoned agent need not end.  Otherwise nothing is assumed of peers, users, models, of a Run that nobody cancels, or of a build.  That the goal
store answers or fails is assumed in `RunCoordinator`.

## 5. Proofs

All are checked by TLAPS for any constants that satisfy the named assumptions (`LeaseAssumption`,
`HostAssumption`, `CoordinatorAssumption`, `PoolAssumption`, `DelegationAssumption`, `TeamAssumption`,
`GoalAssumption`, `SharedAssumption`, `ComposeAssumption`, `ProcsAssumption`), which say little more than
that `None` is not an id, that counted sets are finite and that a limit is positive.

- `HostControlProofs`.  The inductive invariant is `TypeOK`, `PermitAccounting`,
  `PermitsBelongToHolder`, `Control` (which attachment stands behind each state of the lease), and
  `RecordsBookkeeping` and `FlowBookkeeping` (what ties a record, a revocation and a closing Connection
  to each other).  `PermitsBelongToHolder` is not inductive alone: that a handover finds no operation
  under way follows from `permits = 0` only through the accounting of permits by cardinality.  The same
  invariant carries the refinement of `ControlOfHost`: `CloseLeaves` needs that the holder is bound to
  a registered attachment, else a close would leave control with a Connection that is gone;
  `CompletionReturns` needs the accounting, and finds either the lease it is to return or that another
  caller has returned it.
- `RunCoordinatorProofs`.  `RunsExclude` follows from `Reservations` and `Registration`, which
  tie `pc` to the dictionaries: a Run being admitted holds the reservation of its Thread, and a live
  task that is not terminal is the one registered there.  `SweptRunsAreTerminal` is part of
  `SweepsFollowTasks` (what a sweep has looked at is terminal), which relies on `CompletedLate`;
  exclusion by Connection and `SnapshotHolderIsUnderWay` are conjuncts of their own.  That the coordinator
  implements `RunLifecycle` needs `StreamFits` besides, which ties the stream to `pc` and the status: the
  terminal event is there with the terminal status, and nothing ends the events of a Run that its task
  may still finish.  `StepIsLifecycleStep` takes each of the 31 actions to the step of the lifecycle that
  a client sees, or to none; `ForcedStep` is the sweep, which may meet a Run that another sweep has
  ended, and relies on `SweepsFollowTasks` for that its task is over.
- `AgentEnginePoolProofs`.  `LeasesProtect` needs `ClosingDrains` (a close task has a draining
  engine without leases), `KeysKnown` and `LeasesAreHeld` (a lease belongs to a client that holds the
  profile) and `NoBuildAfterClose`.  `WithinCapacity` counts the entries with the library's theorems on
  finite sets.  The refinement of `LeasedEngines` needs `BuildsHaveNoEngine` besides, since a client that
  saw an engine closed removes the entry of its profile also after `aclose` began; one lemma for each
  action that moves an engine says which step it is, `PoolStepIsSeen` puts them together.
- `AgentDelegationProofs`.  The inductive invariant is `TypeOK`, `Queues` (a queue holds each call at
  most once, and only calls of its parent that have no grant), `Full` and `Turns` (the queue as a set:
  `QueueIsServed` follows), `Grants`, `Children`, `RunnersEndLast`, `ParentsEndLast` and
  `SlotAccounting`.  A release is summed up by `Handover`: at most one call of the queue takes the slot
  over, else the slot is free and the queue was empty; the count then follows from the library's
  theorems on finite sets.  `SlotAccounting` alone is not inductive: that the next owner did not hold a
  slot already is `Queues`.  `ParentsEndLast` needs that runners end after their calls.  The same
  invariant gives the refinement of `FairSlots`: a call that leaves gives its slot to the head of the
  queue or frees it, and `Full` is why a call that takes a free slot overtakes nobody.
- `TeamCoordinatorProofs`.  The inductive invariant ties the three copies of a task's state to each
  other: `StatesFollowRunners` and `RecordFollowsStates` say in which order a runner, the coordinator
  and the store learn of a change, `BegunIsNotPending` that what was ever begun is not stored as
  pending if it writes, `RunnersAreReady` that a runner's dependencies are stored as completed, `AbandonedAreOnRecord` that a
  writer that was abandoned was begun and is stored as running, failed or cancelled, as far as the
  coordinator has come.
  `WritesRunOnce` then follows because only a pending task is handed out; it is not inductive alone, as
  a crash forgets everything but the store.
- `StoreProofs`, the Goal store.  `CompleteHasEvidence` needs `EvidenceStays`: the evaluation a Run is about to commit
  on is still the valid one, because the commit compares identity, revision and status in its
  transaction, and no other step changes those without a new revision.  `ChangesWaitAlone` follows from
  `OneChangeWaits` and `ProposalIsThere`, `RevisionsIdentify` from `GoalsAreCounted`.
- `StoreProofs`, the shared connection.  Types hold of every behaviour.  That calls are atomic, and that
  transactions are apart, is proved of behaviours with `[]RollbacksKeepTheLock`: no operation of the
  idiom "whole" has to roll back, which it does without the lock.  Without that hypothesis
  `AllOrNothing` is false, and `shared_context` is its counterexample.  Operations of the other four idioms
  may be cancelled and may fail anywhere, and there may be any number of them.  The invariant follows
  the worker thread's queue, which outlives the tasks: whoever awaits a statement holds the lock and
  awaits the last statement of the queue (`Holding`); a COMMIT or a write of a transaction is only ever
  first in the queue (`QueueFits`); what is open on the connection is the transaction of the holder, or
  one that a rollback in the queue is about to undo, or plain writes that somebody left behind
  (`TransactionFits`, `WritesAreWhole`).  The refinement of `AtomicStore` maps the worker's COMMIT to the one step in which
  all pending calls take effect, and every other step to the beginning or end of a call, or to none
  (`ConnectionStepIsSeen`).
- `ComposeSessionProofs`.  For any Threads, also such that share goals and with them the files.  That
  the row's confirmations are the user's needs the same of every copy of the row that may still be
  written back, the Turn's and that of `compose.abandon`; `RejectedReviewIsReworked` needs that a slug
  whose review was sent back has no mark unless an agent has implemented it since (`MarkedIsReworked`),
  and, thread by thread (`Threaded`), that what the user sent back is not under review again before
  that, and that nobody but its Turn makes a row current.
- `LegacyMigrationProofs`.  All of its theorems assume that reading the database does not fail for once
  (`~ReadsFail`); with such failures a committed database is rolled back, as section 3 says.  The
  invariant `IInv` consists of the four safety properties of the run, `Locked` (whoever opens or settles
  holds the lock), `Knowledge`, `ManifestFits` and `FinalIsKnown`.  `Knowledge` says, place by place, what
  the process at it may rely on of the disk; a step keeps it for everybody else because the holder of
  the lock is alone past the examination of the markers (`HolderIsAlone`), and because a child is
  guarded by its manifest.  `FinalIsKnown` (an upgraded database is one whose fingerprint every state on
  disk has) is why settling by the facts never takes it for damage, and so the core of the refinement
  of `AtomicUpgrade`: `StepIsSeen` sorts the steps into the stutters and the four steps of the
  abstract specification.  There is one lemma per action of `LegacyMigration`, with one step per
  conjunct of the invariant.

Only model-checked: the liveness properties (`ClosedLosesControl`, `CancellationEnds`,
`DrainedEnginesClose`, `CallsEnd`, `TeamEnds`, `ProposalsRecover`, `TurnsEnd`, `OperationsEnd`,
`EventuallyServed`), which are outside what TLAPS proves, and of course the violation.  Every safety
invariant and every action property or refinement that a passing run checks is a theorem.

## 6. Not modelled

- In the modelled components: the content of events and transcripts, approvals staged by a Run,
  timing, JSON framing and the WebSocket upgrade, the handlers of `agent_host.py` that touch none of
  this state, time (an idle engine may be past its TTL, an attachment may expire, at any moment), the
  metrics of the pool, resources shared between engines, the texts of Goals, and the statements by which
  a schema version is reached.
- The components of the inventory marked `not_modelled` in `PROJECT.json`: policies, plugins, tools,
  configuration, extensions, skills, diagnostics, protocol and CLI are sequential functions of text or
  I/O.  `SharedResourceOwner` is planned.
- The work-item engine of Compose (`compose/work_item_engine.py`, `threads/compose_work_item_store.py`):
  only tests reach it since `compose/session.py` took over.

## 7. Plan

Done: control, Runs, engine pool, delegation, teams, goals, migration with its abstract specification
and the proof that it implements it, the shared connection, Compose; abstract specifications of control,
of the life of a Run, of the stores' calls, of the engine pool and of delegation's slots, each proved
to be implemented.  In order of importance:

1. Undo, redo and compaction of a Thread; idempotent acceptance of a Run.
2. `SharedResourceOwner`.
3. An abstract specification of a team run (every task once, in the order of the graph), with the proof
   that `TeamCoordinator` implements it.
