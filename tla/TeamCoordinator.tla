-------------------------- MODULE TeamCoordinator --------------------------
(***************************************************************************)
(* One TeamRun: TeamCoordinator (runtime/team_coordinator.py) executes the *)
(* fixed DAG of a team through the AgentDelegator, one asyncio task per    *)
(* member task, and keeps the TeamRun in SQLite so that teams.run can      *)
(* resume it after a crash or an error of the Host (_handle_teams_run and  *)
(* _execute_team_run in host/agent_host.py).                               *)
(*                                                                         *)
(* Requests of one Connection are dispatched one after the other and only  *)
(* the holder of the control lease may call teams.run (module HostControl),*)
(* so the handler is one step.                                             *)
(***************************************************************************)
EXTENDS Naturals, FiniteSets

CONSTANTS Tasks,           \* the member tasks of the team
          Position,        \* the place of each in the definition
          Depends,         \* Depends[t]: the tasks t waits for
          Writers,         \* the tasks with access WRITE
          MaxParallelism,
          Policies,        \* the failure policies to consider
          MaxFaults        \* bound: crashes, failed saves, failed cleanups

ASSUME TeamAssumption ==
    /\ IsFiniteSet(Tasks) /\ Writers \subseteq Tasks
    /\ MaxParallelism \in Nat \ {0} /\ MaxFaults \in Nat
    /\ Depends \in [Tasks -> SUBSET Tasks]
    /\ Position \in [Tasks -> Nat]
    /\ Policies \subseteq {"fail-fast", "continue", "continue-to-synthesis"}

VARIABLES
    policy,     \* the failure policy of the definition
    saved,      \* status of the stored TeamRun; "none" when there is none
    record,     \* the stored status of each task
    entry,      \* the coordination root in the execution registry
    coord,      \* where TeamCoordinator.run is
    states,     \* the coordinator's own status of each task
    runner,     \* where the asyncio task of each member task is
    outcome,    \* what a runner that has returned did
    batch,      \* returned runners the coordinator is collecting
    token,      \* is the cancellation token cancelled?
    stopping,   \* did the loop stop early (its local "cancelled")?
    broken,     \* is an exception leaving TeamCoordinator.run?
    begun,      \* how often each task was handed to its agent
    abandoned,  \* tasks of which an agent works on although nobody awaits it
    faults

vars == <<policy, saved, record, entry, coord, states, runner, outcome, batch,
          token, stopping, broken, begun, abandoned, faults>>

TaskTerminal == {"completed", "failed", "cancelled", "blocked"}
TaskStatus == {"pending", "running"} \cup TaskTerminal
RunTerminal == {"completed", "failed", "cancelled"}

(* The members whose agent works and is awaited. *)
Executing == {t \in Tasks : runner[t] = "executing"}

Spend == faults < MaxFaults /\ faults' = faults + 1

Init == /\ policy \in Policies
        /\ saved = "none" /\ record = [t \in Tasks |-> "pending"]
        /\ entry = "none" /\ coord = "off"
        /\ states = [t \in Tasks |-> "pending"]
        /\ runner = [t \in Tasks |-> "none"] /\ outcome = [t \in Tasks |-> "none"]
        /\ batch = {} /\ token = FALSE /\ stopping = FALSE /\ broken = FALSE
        /\ begun = [t \in Tasks |-> 0] /\ abandoned = {} /\ faults = 0

-----------------------------------------------------------------------------
(* Mutant: a terminal run is executed again. *)
MayRunAgain == coord = "off" /\ entry = "none"

(* teams.run: a terminal run is only acknowledged, a root that is still in  *)
(* the registry refuses the start, and a new run is stored before its task  *)
(* starts.  When that save fails the root stays in the registry.            *)
MayRun == coord = "off" /\ entry = "none" /\ saved \notin RunTerminal

TeamsRun ==
    /\ MayRun
    /\ \/ /\ entry' = "open" /\ coord' = "load" /\ token' = FALSE
          /\ saved' = "running"
          /\ UNCHANGED faults
       \/ /\ saved = "none" /\ Spend /\ entry' = "stuck"
          /\ UNCHANGED <<coord, token, saved>>
    /\ UNCHANGED <<policy, record, states, runner, outcome, batch,
                   stopping, broken, begun, abandoned>>

(* teams.cancel, and the close of the Host. *)
TeamsCancel ==
    /\ coord # "off" /\ token' = TRUE
    /\ UNCHANGED <<policy, saved, record, entry, coord, states, runner, outcome,
                   batch, stopping, broken, begun, faults, abandoned>>

(* Mutant: every interrupted task is repeated. *)
RecoveredAll == [t \in Tasks |-> IF record[t] = "running" THEN "pending" ELSE record[t]]

(* _load_or_create: what was running is repeated if it only reads, and      *)
(* failed if it may have written.                                           *)
Recovered == [t \in Tasks |-> IF record[t] # "running" THEN record[t]
                              ELSE IF t \in Writers THEN "failed" ELSE "pending"]

LoadOrCreate ==
    /\ coord = "load"
    /\ stopping' = FALSE
    /\ \/ /\ record' = Recovered /\ states' = Recovered
          /\ coord' = "loop" /\ broken' = FALSE
          /\ UNCHANGED faults
       \/ /\ record # Recovered /\ Spend
          /\ coord' = "end" /\ broken' = TRUE
          /\ UNCHANGED <<record, states>>
    /\ UNCHANGED <<policy, saved, entry, runner, outcome, batch, token, begun,
                   abandoned>>

-----------------------------------------------------------------------------
(* The scheduling loop.                                                    *)

(* _block_unreachable visits the tasks once, in the order of the definition: *)
(* B is what it blocks.                                                      *)
Unreachable(t, B) ==
    LET blocked == {d \in B : Position[d] < Position[t]}
    IN /\ states[t] = "pending"
       /\ \A d \in Depends[t] : states[d] \in TaskTerminal \/ d \in blocked
       /\ \E d \in Depends[t] : states[d] \in TaskTerminal \ {"completed"} \/ d \in blocked

BlockUnreachable(B) ==
    B = IF policy = "continue-to-synthesis" THEN {} ELSE {t \in Tasks : Unreachable(t, B)}

DependenciesReady(t, s) ==
    /\ \A d \in Depends[t] : s[d] \in TaskTerminal
    /\ policy = "continue-to-synthesis" \/ \A d \in Depends[t] : s[d] = "completed"

Schedule(B) ==
    LET s == [t \in Tasks |-> IF t \in B THEN "blocked" ELSE states[t]]
        ready == {t \in Tasks : s[t] = "pending" /\ runner[t] = "none"
                                /\ DependenciesReady(t, s)}
    IN /\ coord = "loop"
       /\ IF token
          THEN /\ coord' = "close" /\ stopping' = TRUE
               /\ UNCHANGED <<states, runner>>
          ELSE /\ BlockUnreachable(B)
               /\ states' = s
               /\ runner' = [t \in Tasks |-> IF t \in ready THEN "created" ELSE runner[t]]
               /\ coord' = IF \E t \in Tasks : runner'[t] # "none" THEN "wait" ELSE "close"
               /\ UNCHANGED stopping
       /\ UNCHANGED <<policy, saved, record, entry, outcome, batch, token,
                      broken, begun, faults, abandoned>>

Wake ==
    /\ coord = "wait"
    /\ batch' = {t \in Tasks : runner[t] = "returned"}
    /\ batch' # {}
    /\ coord' = "collect"
    /\ UNCHANGED <<policy, saved, record, entry, states, runner, outcome, token,
                   stopping, broken, begun, faults, abandoned>>

(* The result of one member is taken over and saved; an exception, also of *)
(* the save, leaves the loop, and so does a failure under fail-fast.       *)
Collect(t) ==
    LET s == [states EXCEPT ![t] = outcome[t]]
    IN /\ coord = "collect" /\ t \in batch
       /\ runner' = [runner EXCEPT ![t] = "none"]
       /\ IF outcome[t] = "broken"
          THEN /\ broken' = TRUE
               /\ UNCHANGED <<states, record, stopping, faults>>
          ELSE /\ states' = s
               /\ \/ /\ record' = s
                     /\ stopping' = (outcome[t] = "failed" /\ policy = "fail-fast")
                     /\ UNCHANGED <<broken, faults>>
                  \/ /\ Spend /\ broken' = TRUE
                     /\ UNCHANGED <<record, stopping>>
       /\ IF broken' \/ stopping'
          THEN batch' = {} /\ coord' = "close"
          ELSE batch' = batch \ {t} /\ coord' = IF batch' = {} THEN "loop" ELSE "collect"
       /\ UNCHANGED <<policy, saved, entry, outcome, token, begun, abandoned>>

(* The finally clause cancels the runners that are left and waits for them; *)
(* whatever one of them may have returned is not looked at.  The delegator  *)
(* of a cancelled member leaves the task of the agent itself alone if it    *)
(* was waiting for it, and not if that was still to be created or was       *)
(* cancelled or done already: L are the agents that go on.                  *)
Close ==
    /\ coord = "close"
    /\ \E L \in SUBSET Executing : abandoned' = abandoned \cup L
    /\ states' = [t \in Tasks |->
          IF runner[t] # "none" /\ states[t] \notin TaskTerminal THEN "cancelled"
          ELSE states[t]]
    /\ runner' = [t \in Tasks |-> "none"] /\ outcome' = [t \in Tasks |-> "none"]
    /\ coord' = IF broken THEN "end" ELSE "final"
    /\ UNCHANGED <<policy, saved, record, entry, batch, token, stopping, broken,
                   begun, faults>>

(* Mutant: the tasks a stopped run leaves are not looked at. *)
Unfinalized == states

(* _finalize *)
Finalized == [t \in Tasks |-> IF (stopping \/ token) /\ states[t] \notin TaskTerminal
                              THEN "cancelled" ELSE states[t]]

Finalize ==
    LET s == Finalized
        status == IF token THEN "cancelled"
                  ELSE IF ~stopping /\ \A t \in Tasks : states[t] = "completed"
                       THEN "completed" ELSE "failed"
    IN /\ coord = "final"
       /\ states' = s /\ coord' = "end"
       /\ \/ /\ saved' = status /\ record' = s
             /\ UNCHANGED <<broken, faults>>
          \/ /\ Spend /\ broken' = TRUE
             /\ UNCHANGED <<saved, record>>
       /\ UNCHANGED <<policy, entry, runner, outcome, batch, token, stopping, begun,
                      abandoned>>

(* _execute_team_run: the root ends and its tree is sealed and discarded,   *)
(* unless an execution of the tree is still open.                           *)
EndTeamRun ==
    /\ coord = "end" /\ coord' = "off"
    /\ \/ entry' = "none" /\ UNCHANGED faults
       \/ entry' = "stuck" /\ Spend
    /\ UNCHANGED <<policy, saved, record, states, runner, outcome, batch, token,
                   stopping, broken, begun, abandoned>>

-----------------------------------------------------------------------------
(* _execute_task, one asyncio task per member task.                        *)

Steps(t, from, to) == runner[t] = from /\ runner' = [runner EXCEPT ![t] = to]
Returns(t, o) == outcome' = [outcome EXCEPT ![t] = o]

(* The task is marked in the shared dictionary before anything is awaited. *)
Register(t) ==
    /\ coord # "close" /\ Steps(t, "created", "saving")
    /\ states' = [states EXCEPT ![t] = "running"]
    /\ UNCHANGED <<policy, saved, record, entry, coord, outcome, batch, token,
                   stopping, broken, begun, faults, abandoned>>

(* Mutant: the task goes on before its state is saved. *)
SaveNothing(t) ==
    /\ coord # "close" /\ Steps(t, "saving", "queued")
    /\ UNCHANGED <<policy, saved, record, entry, coord, states, outcome, batch, token,
                   stopping, broken, begun, faults, abandoned>>

SaveTaskState(t) ==
    /\ coord # "close"
    /\ \/ /\ Steps(t, "saving", "queued")
          /\ record' = states
          /\ UNCHANGED <<outcome, faults>>
       \/ /\ Steps(t, "saving", "returned") /\ Returns(t, "broken") /\ Spend
          /\ UNCHANGED record
    /\ UNCHANGED <<policy, saved, entry, coord, states, batch, token,
                   stopping, broken, begun, abandoned>>

(* The semaphore comes first: a writer that waits for the write lock holds it. *)
Admit(t) ==
    /\ coord # "close"
    /\ Cardinality({u \in Tasks : runner[u] \in {"admitted", "executing"}}) < MaxParallelism
    /\ Steps(t, "queued", "admitted")
    /\ UNCHANGED <<policy, saved, record, entry, coord, states, outcome, batch,
                   token, stopping, broken, begun, faults, abandoned>>

(* Mutant: the write lock is taken before the semaphore is asked for. *)
WriteLockFreeForAll(t) ==
    \A u \in Writers \ {t} : runner[u] \notin {"admitted", "executing"}

WriteLockFree(t) == \A u \in Writers : runner[u] # "executing"

(* The delegator refuses once the token is cancelled. *)
Delegate(t) ==
    /\ coord # "close"
    /\ t \in Writers => WriteLockFree(t)
    /\ IF token
       THEN Steps(t, "admitted", "returned") /\ Returns(t, "cancelled") /\ UNCHANGED begun
       ELSE /\ Steps(t, "admitted", "executing")
            /\ begun' = [begun EXCEPT ![t] = @ + 1]
            /\ UNCHANGED outcome
    /\ UNCHANGED <<policy, saved, record, entry, coord, states, batch, token,
                   stopping, broken, faults, abandoned>>

(* A result, a failure or timeout, the cancellation, or an error that the  *)
(* task does not turn into a state.                                        *)
MemberReturns(t, o) ==
    /\ coord # "close"
    /\ Steps(t, "executing", "returned") /\ Returns(t, o)
    /\ o = "cancelled" => token
    /\ IF o = "broken" THEN Spend ELSE UNCHANGED faults
    /\ UNCHANGED <<policy, saved, record, entry, coord, states, batch, token,
                   stopping, broken, begun, abandoned>>

(* An agent that nobody awaits ends by itself, if ever. *)
AgentEnds(t) ==
    /\ t \in abandoned /\ abandoned' = abandoned \ {t}
    /\ UNCHANGED <<policy, saved, record, entry, coord, states, runner, outcome,
                   batch, token, stopping, broken, begun, faults>>

(* Only what is stored outlives the process. *)
Crash ==
    /\ coord # "off" \/ entry # "none" \/ abandoned # {}
    /\ Spend
    /\ coord' = "off" /\ entry' = "none" /\ token' = FALSE
    /\ stopping' = FALSE /\ broken' = FALSE /\ batch' = {}
    /\ runner' = [t \in Tasks |-> "none"] /\ outcome' = [t \in Tasks |-> "none"]
    /\ abandoned' = {}
    /\ UNCHANGED <<policy, saved, record, states, begun>>

-----------------------------------------------------------------------------
Coordinate == LoadOrCreate \/ (\E B \in SUBSET Tasks : Schedule(B)) \/ Wake
              \/ (\E t \in Tasks : Collect(t)) \/ Close \/ Finalize \/ EndTeamRun

Member(t) == \/ Register(t) \/ SaveTaskState(t) \/ Admit(t) \/ Delegate(t)
             \/ \E o \in {"completed", "failed", "cancelled", "broken"} : MemberReturns(t, o)

Next == \/ TeamsRun \/ TeamsCancel \/ Coordinate \/ Crash
        \/ \E t \in Tasks : Member(t) \/ AgentEnds(t)

Spec == Init /\ [][Next]_vars

(* The event loop runs what can run, and every member ends: its delegation *)
(* has a timeout.  Nobody has to start, cancel or resume a team, and an     *)
(* abandoned agent may work for ever.                                      *)
Fairness == WF_vars(Coordinate) /\ \A t \in Tasks : WF_vars(Member(t))

FairSpec == Spec /\ Fairness

-----------------------------------------------------------------------------
(* Properties.                                                             *)

(* Every variable holds a value of its kind. *)
TypeOK ==
    /\ policy \in Policies
    /\ saved \in {"none", "running"} \cup RunTerminal
    /\ record \in [Tasks -> TaskStatus] /\ states \in [Tasks -> TaskStatus]
    /\ entry \in {"none", "open", "stuck"}
    /\ coord \in {"off", "load", "loop", "wait", "collect", "close", "final", "end"}
    /\ runner \in [Tasks -> {"none", "created", "saving", "queued", "admitted",
                             "executing", "returned"}]
    /\ outcome \in [Tasks -> {"none", "completed", "failed", "cancelled", "broken"}]
    /\ batch \subseteq Tasks
    /\ token \in BOOLEAN /\ stopping \in BOOLEAN /\ broken \in BOOLEAN
    /\ begun \in [Tasks -> Nat] /\ abandoned \subseteq Tasks
    /\ faults \in 0..MaxFaults

(* A task that may write is handed to its agent at most once, whatever      *)
(* crashes, failed saves and resumptions there are (_load_or_create fails a *)
(* write whose outcome is unknown).                                         *)
WritesRunOnce == \A t \in Writers : begun[t] <= 1

(* A member that the coordinator waits for works only while the stored run *)
(* says so, and only on results that are stored: a crash can then neither  *)
(* forget that it began nor the results it was given.  Of these, no more   *)
(* work than the parallelism allows, and one writer.  An agent that an     *)
(* earlier attempt abandoned may work beside them, a writer too; but its   *)
(* write is stored as failed by then, so it is neither handed out again    *)
(* nor taken for a result.                                                 *)
WorksOnRecord ==
    /\ \A t \in Executing : /\ saved = "running" /\ record[t] = "running"
                            /\ DependenciesReady(t, record)
    /\ Cardinality(Executing) <= MaxParallelism
    /\ Cardinality(Executing \cap Writers) <= 1
    /\ Executing # {} => \A t \in abandoned \cap Writers : record[t] = "failed"

(* The single terminal state accounts for every task: nobody of the         *)
(* coordinator's works any more and no task is left running, it is a        *)
(* success only if all tasks were and a failure only if one was not.  An    *)
(* agent that was abandoned may still work (_finalize does not wait for     *)
(* it), but a writer only if its task is stored as failed or cancelled: a   *)
(* TeamRun is not called completed while a write of it may be under way.    *)
TerminalAccounts ==
    saved \in RunTerminal =>
        /\ \A t \in Tasks : runner[t] = "none" /\ record[t] # "running"
        /\ saved = "completed" => \A t \in Tasks : record[t] = "completed"
        /\ saved = "failed" => \E t \in Tasks : record[t] # "completed"
        /\ saved = "cancelled" => \A t \in Tasks : record[t] \in TaskTerminal
        /\ \A t \in abandoned \cap Writers : record[t] \in {"failed", "cancelled"}

(* A stored result is final, and so is a terminal run: no late save of a    *)
(* member or of a resumed coordinator replaces it.                          *)
ResultsAreKept == [][/\ saved \in RunTerminal => UNCHANGED <<saved, record>>
                     /\ \A t \in Tasks : record[t] \in TaskTerminal
                                            => record'[t] = record[t]]_<<saved, record>>

(* A TeamRun under way ends: stored as terminal, or left to be resumed by an *)
(* error or a crash.                                                         *)
TeamEnds == (coord # "off") ~> (coord = "off")
=============================================================================
