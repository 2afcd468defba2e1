-------------------------- MODULE AgentDelegation ---------------------------
(***************************************************************************)
(* Delegated executions of one Run, or of one team run: the execution tree *)
(* (runtime/agent_execution.py) and AgentDelegator.execute                 *)
(* (runtime/agent_delegation.py), which gives each execution a bounded     *)
(* number of child slots, queues the calls beyond it, and ends every child *)
(* that times out or is cancelled.                                         *)
(*                                                                         *)
(* A call is one execute(); it stands for its child execution as well.     *)
(* The delegator's and the registry's locks are never held across a        *)
(* suspension, so what runs between two awaits of a call is one step: in   *)
(* particular a free slot is taken and the child accepted and started at   *)
(* once.  The work of an execution (its agent's graph, or the team) is its *)
(* runner; it makes calls, and cancels those under way when one of its     *)
(* steps fails or it is cancelled itself.  Refusals that touch no state    *)
(* (target, policy, a completed call made again) are left out, and time is *)
(* not modelled: a deadline may pass at any moment.                        *)
(*                                                                         *)
(* Calls under way have idempotency keys of their own.  A second call with *)
(* the key of one under way is not modelled: accept raises                 *)
(* EXECUTION_ID_CONFLICT, and execute's except clause then ends the child  *)
(* of the first as failed while its runner goes on.                        *)
(***************************************************************************)
EXTENDS Naturals, FiniteSets, SequencesExt

CONSTANTS
    Calls,          \* calls of execute, and the child executions they start
    Root,           \* the root execution
    Parent,         \* the execution that makes a call
    Limit           \* effective_limit: calls of one parent at a time

Executions == Calls \cup {Root}

ASSUME DelegationAssumption ==
    /\ IsFiniteSet(Calls)
    /\ Root \notin Calls
    /\ Parent \in [Calls -> Executions]
    /\ Limit \in Nat \ {0}

VARIABLES
    kind,           \* whether the root is a Run of a Thread or a team run
    tree,           \* "gone" once the Run is sealed and discarded
    exec,           \* status in the registry; "none" before accept
    token,          \* the Run's cancellation token
    active,         \* _active_by_parent
    waiting,        \* _waiters_by_parent, by the calls whose futures they are
    granted,        \* the calls whose future has a result that none has used
    pc,             \* where a call is; see Phases
    cancelled,      \* the calls whose task was cancelled
    runner,         \* the work of an execution; see Runners
    stopped         \* the executions whose runner task was cancelled

slots == <<active, waiting, granted>>
vars == <<kind, tree, exec, token, slots, pc, cancelled, runner, stopped>>

(***************************************************************************)
(* queued      in _acquire_slot, also once it has its slot                 *)
(* running     asyncio.wait in _run_with_cancellation                      *)
(* expiring    the deadline passed: it gathers the cancelled runner        *)
(* stopping    the same, because of the token                              *)
(***************************************************************************)
WithChild == {"running", "expiring", "stopping"}
Underway == {"queued"} \cup WithChild
Phases == {"idle", "done"} \cup Underway

(* A stopping runner waits for the calls it cancelled. *)
Ended == {"returned", "failed", "stopped"}
Runners == {"none", "live", "stopping"} \cup Ended

Terminal == {"completed", "failed", "cancelled"}

TypeOK ==
    /\ kind \in {"run", "team"}
    /\ tree \in {"open", "gone"}
    /\ exec \in [Executions -> {"none", "running"} \cup Terminal]
    /\ token \in BOOLEAN
    /\ active \in [Executions -> Nat]
    /\ waiting \in [Executions -> Seq(Calls)]
    /\ granted \subseteq Calls
    /\ pc \in [Calls -> Phases]
    /\ cancelled \subseteq Calls
    /\ runner \in [Executions -> Runners]
    /\ stopped \subseteq Executions

Init ==
    /\ kind \in {"run", "team"}
    /\ tree = "open"
    /\ exec = [e \in Executions |-> IF e = Root THEN "running" ELSE "none"]
    /\ token = FALSE
    /\ active = [e \in Executions |-> 0]
    /\ waiting = [e \in Executions |-> <<>>]
    /\ granted = {}
    /\ pc = [c \in Calls |-> "idle"]
    /\ cancelled = {}
    /\ runner = [e \in Executions |-> IF e = Root THEN "live" ELSE "none"]
    /\ stopped = {}

ChildrenUnderway(e) == {c \in Calls : Parent[c] = e /\ pc[c] \in Underway}

(* AgentExecutionRegistry.accept, of a new child *)
Accepts(p) == tree = "open" /\ exec[p] = "running"

(* Mutant: a slot is freed even when someone queues for it *)
ReleaseToNobody(p, used) ==
    /\ active' = [active EXCEPT ![p] = @ - 1]
    /\ granted' = granted \ used
    /\ UNCHANGED waiting

(* Mutant: a slot that was handed over is freed as well *)
ReleaseTwice(p, used) ==
    /\ active' = [active EXCEPT ![p] = @ - 1]
    /\ IF waiting[p] # <<>>
       THEN /\ granted' = (granted \ used) \cup {Head(waiting[p])}
            /\ waiting' = [waiting EXCEPT ![p] = Tail(@)]
       ELSE granted' = granted \ used /\ UNCHANGED waiting

(* Mutant: the latest in the queue is served first *)
ReleaseToLast(p, used) ==
    IF waiting[p] # <<>>
    THEN /\ granted' = (granted \ used) \cup {Last(waiting[p])}
         /\ waiting' = [waiting EXCEPT ![p] = Front(@)]
         /\ UNCHANGED active
    ELSE /\ active' = [active EXCEPT ![p] = @ - 1]
         /\ granted' = granted \ used
         /\ UNCHANGED waiting

(* _release_slot: the slot goes to the first in the queue, or is free.  It
   may come from a grant, which is used up. *)
Release(p, used) ==
    IF waiting[p] # <<>>
    THEN /\ granted' = (granted \ used) \cup {Head(waiting[p])}
         /\ waiting' = [waiting EXCEPT ![p] = Tail(@)]
         /\ UNCHANGED active
    ELSE /\ active' = [active EXCEPT ![p] = @ - 1]
         /\ granted' = granted \ used
         /\ UNCHANGED waiting

(* Mutant: the last one to finalize wins *)
FinalizeAgain(e, status) == exec' = [exec EXCEPT ![e] = status]

(* _finalize_if_running: a status that is terminal, or gone, is kept. *)
Finalize(e, status) ==
    exec' = IF tree = "open" /\ exec[e] = "running"
            THEN [exec EXCEPT ![e] = status]
            ELSE exec

(* accept, start, and the runner's task *)
StartChild(c) ==
    /\ pc' = [pc EXCEPT ![c] = "running"]
    /\ exec' = [exec EXCEPT ![c] = "running"]
    /\ runner' = [runner EXCEPT ![c] = "live"]

-----------------------------------------------------------------------------
(* A call, up to its slot. *)

Calling(c) == pc[c] = "idle" /\ runner[Parent[c]] = "live"

(* execute raises at once: the parent is not registered any more, the token
   is set, or, with a slot, the parent has ended. *)
Refused(c) ==
    /\ Calling(c)
    /\ \/ tree = "gone"
       \/ token
       \/ active[Parent[c]] < Limit /\ ~Accepts(Parent[c])
    /\ pc' = [pc EXCEPT ![c] = "done"]
    /\ UNCHANGED <<kind, tree, exec, token, slots, cancelled, runner, stopped>>

Begin(c) ==
    /\ Calling(c)
    /\ ~token
    /\ active[Parent[c]] < Limit
    /\ Accepts(Parent[c])
    /\ active' = [active EXCEPT ![Parent[c]] = @ + 1]
    /\ StartChild(c)
    /\ UNCHANGED <<kind, tree, token, waiting, granted, cancelled, stopped>>

Enqueue(c) ==
    /\ Calling(c)
    /\ tree = "open"
    /\ ~token
    /\ active[Parent[c]] >= Limit
    /\ waiting' = [waiting EXCEPT ![Parent[c]] = Append(@, c)]
    /\ pc' = [pc EXCEPT ![c] = "queued"]
    /\ UNCHANGED <<kind, tree, exec, token, active, granted, cancelled, runner, stopped>>

(* The token or the deadline ends the wait, and the future leaves the queue. *)
LeaveQueue(c) ==
    /\ pc[c] = "queued"
    /\ c \notin granted
    /\ c \notin cancelled
    /\ \E i \in DOMAIN waiting[Parent[c]] :
         /\ waiting[Parent[c]][i] = c
         /\ waiting' = [waiting EXCEPT ![Parent[c]] = RemoveAt(@, i)]
    /\ pc' = [pc EXCEPT ![c] = "done"]
    /\ UNCHANGED <<kind, tree, exec, token, active, granted, cancelled, runner, stopped>>

(* It has got its slot. *)
Enter(c) ==
    /\ pc[c] = "queued"
    /\ c \in granted
    /\ c \notin cancelled
    /\ ~token
    /\ Accepts(Parent[c])
    /\ StartChild(c)
    /\ granted' = granted \ {c}
    /\ UNCHANGED <<kind, tree, token, active, waiting, cancelled, stopped>>

(* It has, but the token is set, the deadline has passed, or the registry
   refuses the child. *)
EnterFails(c) ==
    /\ pc[c] = "queued"
    /\ c \in granted
    /\ c \notin cancelled
    /\ pc' = [pc EXCEPT ![c] = "done"]
    /\ Release(Parent[c], {c})
    /\ UNCHANGED <<kind, tree, exec, token, cancelled, runner, stopped>>

(* CancelledError inside _acquire_slot, outside the try of execute: neither
   the future nor the slot is given back. *)
CancelledInQueue(c) ==
    /\ pc[c] = "queued"
    /\ c \in cancelled
    /\ pc' = [pc EXCEPT ![c] = "done"]
    /\ UNCHANGED <<kind, tree, exec, token, slots, cancelled, runner, stopped>>

-----------------------------------------------------------------------------
(* A call with its child running. *)

(* Mutant: the deadline waits for the runner without cancelling it *)
ExpireWaits(c) ==
    /\ pc[c] = "running"
    /\ c \notin cancelled
    /\ runner[c] \notin Ended
    /\ pc' = [pc EXCEPT ![c] = "expiring"]
    /\ UNCHANGED <<kind, tree, exec, token, slots, cancelled, runner, stopped>>

Expire(c) ==
    /\ pc[c] = "running"
    /\ c \notin cancelled
    /\ runner[c] \notin Ended
    /\ pc' = [pc EXCEPT ![c] = "expiring"]
    /\ stopped' = stopped \cup {c}
    /\ UNCHANGED <<kind, tree, exec, token, slots, cancelled, runner>>

SeeToken(c) ==
    /\ pc[c] = "running"
    /\ c \notin cancelled
    /\ token
    /\ pc' = [pc EXCEPT ![c] = "stopping"]
    /\ stopped' = stopped \cup {c}
    /\ UNCHANGED <<kind, tree, exec, token, slots, cancelled, runner>>

(* The status a call ends its child with.  A runner may itself raise
   CancelledError, which execute takes for a cancellation. *)
Outcomes(c) ==
    CASE pc[c] = "expiring" -> {"failed"}
      [] pc[c] = "stopping" -> {"cancelled"}
      [] pc[c] = "running" /\ runner[c] = "returned" -> {"completed"}
      [] OTHER -> {"failed", "cancelled"}

(* Mutant: the cancelled runner is not gathered *)
SettleAtOnce(c) ==
    /\ pc[c] \in WithChild
    /\ c \notin cancelled
    /\ pc[c] = "running" => runner[c] \in Ended
    /\ \E status \in Outcomes(c) : Finalize(c, status)
    /\ Release(Parent[c], {})
    /\ pc' = [pc EXCEPT ![c] = "done"]
    /\ UNCHANGED <<kind, tree, token, cancelled, runner, stopped>>

(* execute goes on after its runner has ended. *)
Settle(c) ==
    /\ pc[c] \in WithChild
    /\ c \notin cancelled
    /\ runner[c] \in Ended
    /\ \E status \in Outcomes(c) : Finalize(c, status)
    /\ Release(Parent[c], {})
    /\ pc' = [pc EXCEPT ![c] = "done"]
    /\ UNCHANGED <<kind, tree, token, cancelled, runner, stopped>>

(* CancelledError inside _run_with_cancellation, which leaves the runner
   task as it is. *)
CancelledWithChild(c) ==
    /\ pc[c] \in WithChild
    /\ c \in cancelled
    /\ Finalize(c, "cancelled")
    /\ Release(Parent[c], {})
    /\ pc' = [pc EXCEPT ![c] = "done"]
    /\ UNCHANGED <<kind, tree, token, cancelled, runner, stopped>>

-----------------------------------------------------------------------------
(* The runners, and the root. *)

(* A step of the runner fails, a team task fails fast, or the runner itself
   was cancelled: it cancels the tasks of its calls. *)
RunnerStops(e) ==
    /\ runner[e] = "live"
    /\ runner' = [runner EXCEPT ![e] = "stopping"]
    /\ cancelled' = cancelled \cup ChildrenUnderway(e)
    /\ UNCHANGED <<kind, tree, exec, token, slots, pc, stopped>>

(* The managed executor runs a failed round again, in the same execution. *)
RunnerRetries(e) ==
    /\ runner[e] = "stopping"
    /\ e \notin stopped
    /\ e = Root => kind = "run"
    /\ ChildrenUnderway(e) = {}
    /\ runner' = [runner EXCEPT ![e] = "live"]
    /\ UNCHANGED <<kind, tree, exec, token, slots, pc, cancelled, stopped>>

RunnerReturns(e) ==
    /\ runner[e] = "live"
    /\ ChildrenUnderway(e) = {}
    /\ runner' = [runner EXCEPT ![e] = "returned"]
    /\ UNCHANGED <<kind, tree, exec, token, slots, pc, cancelled, stopped>>

RunnerGivesUp(e) ==
    /\ runner[e] = "stopping"
    /\ ChildrenUnderway(e) = {}
    /\ runner' = [runner EXCEPT ![e] = IF e \in stopped THEN "stopped" ELSE "failed"]
    /\ UNCHANGED <<kind, tree, exec, token, slots, pc, cancelled, stopped>>

(* AgentExecutionRegistry.cancel_run *)
CancelTree == exec' = [e \in Executions |-> IF exec[e] = "running" THEN "cancelled" ELSE exec[e]]

(* RunCoordinator.cancel: the token, every execution, and the Run's task *)
CancelRun ==
    /\ kind = "run"
    /\ ~token
    /\ runner[Root] \notin Ended
    /\ token' = TRUE
    /\ CancelTree
    /\ stopped' = stopped \cup {Root}
    /\ UNCHANGED <<kind, tree, slots, pc, cancelled, runner>>

(* teams.cancel sets the token only. *)
CancelTeam ==
    /\ kind = "team"
    /\ ~token
    /\ runner[Root] \notin Ended
    /\ token' = TRUE
    /\ UNCHANGED <<kind, tree, exec, slots, pc, cancelled, runner, stopped>>

(* What _settle_root_execution or _execute_team_run ends the root with *)
RootOutcome ==
    CASE runner[Root] = "stopped" \/ token -> "cancelled"
      [] runner[Root] = "returned" -> "completed"
      [] OTHER -> "failed"

(* The root takes the status of its Run; the tree is sealed and discarded,
   unless an execution in it is not terminal. *)
SettleRoot ==
    /\ runner[Root] \in Ended
    /\ tree = "open"
    /\ Finalize(Root, RootOutcome)
    /\ tree' = IF \A e \in Executions : exec'[e] # "running" THEN "gone" ELSE "open"
    /\ UNCHANGED <<kind, token, slots, pc, cancelled, runner, stopped>>

(* A team run that failed outside its coordinator's state machine, such as
   on its store, cancels what is left of its tree. *)
TeamBreaks ==
    /\ kind = "team"
    /\ runner[Root] = "failed"
    /\ tree = "open"
    /\ CancelTree
    /\ tree' = "gone"
    /\ UNCHANGED <<kind, token, slots, pc, cancelled, runner, stopped>>

-----------------------------------------------------------------------------
CallStep(c) ==
    \/ Refused(c) \/ Begin(c) \/ Enqueue(c)
    \/ LeaveQueue(c) \/ Enter(c) \/ EnterFails(c) \/ CancelledInQueue(c)
    \/ Expire(c) \/ SeeToken(c) \/ Settle(c) \/ CancelledWithChild(c)

RunnerStep(e) ==
    \/ RunnerStops(e) \/ RunnerRetries(e) \/ RunnerReturns(e) \/ RunnerGivesUp(e)

Next ==
    \/ \E c \in Calls : CallStep(c)
    \/ \E e \in Executions : RunnerStep(e)
    \/ CancelRun \/ CancelTeam \/ SettleRoot \/ TeamBreaks

Spec == Init /\ [][Next]_vars

(* A task that may go on does; deadlines pass; a cancelled runner, and one
   that waits for what it cancelled, stops.  Nothing else has to happen. *)
FairSpec ==
    /\ Spec
    /\ \A c \in Calls :
         /\ WF_vars(LeaveQueue(c) \/ Enter(c) \/ EnterFails(c) \/ CancelledInQueue(c))
         /\ WF_vars(Expire(c))
         /\ WF_vars(Settle(c) \/ CancelledWithChild(c))
    /\ \A e \in Executions :
         /\ WF_vars(e \in stopped /\ RunnerStops(e))
         /\ WF_vars(e \in stopped /\ RunnerGivesUp(e))

-----------------------------------------------------------------------------
(* What the delegator promises. *)

Holders(p) == {c \in Calls : Parent[c] = p /\ (pc[c] \in WithChild \/ c \in granted)}

(* _active_by_parent counts the calls that run or were granted a slot, and
   stays within the limit, also when slots change hands while their new
   owners time out.  A grant is lost only on a call that was cancelled as a
   task while it queued. *)
SlotAccounting ==
    /\ \A p \in Executions : active[p] = Cardinality(Holders(p)) /\ active[p] <= Limit
    /\ \A c \in granted : pc[c] = "queued" \/ c \in cancelled

(* Nobody queues while a slot is free: a released slot goes to the queue
   before any later call. *)
QueuedMeansFull ==
    \A p \in Executions : waiting[p] # <<>> => active[p] = Limit

(* A queued call is in the queue until it is granted a slot: nothing that
   others do can make it miss its turn. *)
QueuedKeepsItsTurn ==
    \A c \in Calls : pc[c] = "queued" /\ c \notin granted =>
        \E i \in DOMAIN waiting[Parent[c]] : waiting[Parent[c]][i] = c

(* The docstring of execute: every success and failure path brings the child
   execution to an end. *)
SettledIsTerminal ==
    \A c \in Calls : pc[c] = "done" => exec[c] # "running"

(* An execution ends after its children, except one whose call was cancelled
   as a task. *)
ParentsEndLast ==
    \A c \in Calls :
        exec[c] = "running" /\ exec[Parent[c]] \in Terminal => Parent[c] \in cancelled

(* Only a call cancelled as a task leaves its runner at work: a deadline and
   the token wait for the runner to stop. *)
RunnersAreAwaited ==
    \A c \in Calls \ cancelled : pc[c] = "done" => runner[c] \in {"none"} \cup Ended

(* No step changes a terminal status: Run.cancel, deadlines and results race
   for it and the first one stands. *)
TerminalIsFinal ==
    [][\A e \in Executions : exec[e] \in Terminal => exec'[e] = exec[e]]_vars

(* No child begins under a cancelled Run, or under an execution that ended,
   not even one that was granted its slot before. *)
NoStartAfterEnd ==
    [][\A c \in Calls : runner[c] = "none" /\ runner'[c] # "none" =>
         ~token /\ exec[Parent[c]] = "running"]_vars

(* Every call comes to an end, whatever the runners do. *)
CallsEnd == \A c \in Calls : pc[c] \in Underway ~> pc[c] = "done"

(* The queue is served: without an idle slot, and to everyone in turn. *)
QueueIsServed == QueuedMeansFull /\ QueuedKeepsItsTurn

(* To its callers the delegator is FairSlots, whatever races a handover: slots
   go round in the order of arrival, and nobody is overtaken or passed over. *)
Holding == {c \in Calls : pc[c] \in WithChild \/ c \in granted}
Slots == INSTANCE FairSlots WITH holders <- Holding, line <- waiting, Size <- Limit
SlotsGoRound == Slots!Spec

(* execute leaves no child open, and executions end after their children, a
   cancelled task apart. *)
ExecutionsSettle == SettledIsTerminal /\ ParentsEndLast /\ RunnersAreAwaited

(* What has ended neither changes its status nor begets a child. *)
EndIsFinal == TerminalIsFinal /\ NoStartAfterEnd
=============================================================================
