----------------------------- MODULE GoalStore -----------------------------
(***************************************************************************)
(* The Goal of one Thread: goals/store.py, and what its callers do with it *)
(* in the order they do it: run.start binds a Run to the Goal, the Run is  *)
(* graded, may block the Goal and settles it before its terminal event,    *)
(* a proposal Run drafts and reviews a new Goal (host/goal_proposal.py),   *)
(* goal.request, goal.mutate and threads.undo change it, threads.open      *)
(* reconciles it (host/agent_host.py).                                     *)
(*                                                                         *)
(* Every method of the store is one transaction, one step here (module     *)
(* SharedConnection is about that).  The controlled requests, run.start    *)
(* included, are dispatched one after the other; threads.open may come     *)
(* from another Connection, and Runs go on beside them.                    *)
(***************************************************************************)
EXTENDS Naturals, FiniteSets

CONSTANTS MaxOps,       \* bound: request and operation identifiers of the clients
          MaxRuns,      \* bound: Runs of the Thread
          MaxRevision,  \* bound: revisions of one Goal
          MaxGoals      \* bound: Goals of the Thread

ASSUME GoalAssumption == {MaxOps, MaxRuns, MaxRevision, MaxGoals} \subseteq Nat

Ops == 1..MaxOps
NoOp == 0

VARIABLES
    goal,       \* the current Goal: id (0: none), revision, status, prior blocker
    goals,      \* how many Goals there were: their ids are unique
    pending,    \* the pending proposal: its request, kind, base, status, draft
    ledger,     \* harness_goal_operations: kind and parameters of each operation
    effects,    \* how often the intent of each operation took effect
    evals,      \* the latest evaluation of each Run
    run,        \* the Run under way, or the last one
    ctl,        \* the controlled request under way, and the activity it read
    opener      \* has threads.open found the Thread idle?

store == <<goal, goals, pending, ledger, effects, evals>>
vars == <<store, run, ctl, opener>>

NoGoal == [id |-> 0, rev |-> 0, status |-> "none", blocker |-> FALSE]
NoPending == [req |-> NoOp, kind |-> "none", id |-> 0, rev |-> 0,
              status |-> "none", draft |-> FALSE]
NoEval == [id |-> 0, rev |-> 0, ok |-> FALSE, stale |-> FALSE]
NewOp == [kind |-> "new", action |-> "none", id |-> 0, rev |-> 0]
NoRun == [n |-> 0, kind |-> "none", phase |-> "none", id |-> 0, rev |-> 0,
          backed |-> FALSE, blocker |-> FALSE, req |-> NoOp, cancelled |-> FALSE]
NoRequest == [op |-> NoOp, intent |-> NewOp, active |-> FALSE]

Init == /\ goal = NoGoal /\ goals = 0 /\ pending = NoPending
        /\ ledger = [o \in Ops |-> NewOp] /\ effects = [o \in Ops |-> 0]
        /\ evals = [n \in 1..MaxRuns |-> NoEval]
        /\ run = NoRun /\ ctl = NoRequest /\ opener = FALSE

-----------------------------------------------------------------------------
(* The store's own notions.                                                *)

IsCurrent(b) == goal.id = b.id /\ goal.rev = b.rev
(* Mutant: a change of status is not a revision. *)
Restate(status) == [goal EXCEPT !.status = status]
Revise(status) == [goal EXCEPT !.rev = @ + 1, !.status = status]
TakesEffect(o) == effects' = [effects EXCEPT ![o] = @ + 1]

QueuedOps == {o \in Ops : ledger[o].kind = "queued"}

(* _validate_mutation_base; m names the action and the identity it expects. *)
ValidBase(m) ==
    CASE m.action = "cancel_pending" -> pending # NoPending
      [] m.action = "clear" /\ goal = NoGoal -> pending # NoPending /\ m.id = 0
      [] OTHER -> goal # NoGoal /\ IsCurrent(m)

(* _apply_mutation_unlocked, of a mutation with a valid base. *)
Applicable(m) == m.action \in {"pause", "resume"} => goal.status # "complete"
Apply(m) ==
    /\ pending' = IF m.action \in {"clear", "cancel_pending"} THEN NoPending ELSE pending
    /\ goal' = CASE m.action = "clear" -> NoGoal
                 [] m.action = "pause" /\ goal.status # "paused" -> Revise("paused")
                 [] m.action = "resume" /\ goal.status # "active" ->
                      [Revise("active") EXCEPT !.blocker = @ \/ goal.status = "blocked"]
                 [] OTHER -> goal
    /\ goal'.rev <= MaxRevision

(* The states of a proposal that a Run has to take further. *)
(* Mutant: only the queued one is. *)
Waiting == {"queued"}
Unfinished == {"queued", "drafting", "clarifying"}

(* reconcile: the queued mutation is applied, or refused with an error, or  *)
(* an interrupted proposal is made ready again.                             *)
Reconcile ==
    IF QueuedOps # {}
    THEN \E o \in QueuedOps :
            IF ValidBase(ledger[o]) /\ Applicable(ledger[o])
            THEN /\ Apply(ledger[o]) /\ TakesEffect(o)
                 /\ ledger' = [ledger EXCEPT ![o].kind = "applied"]
                 /\ UNCHANGED <<goals, evals>>
            ELSE UNCHANGED store
    ELSE /\ pending' = IF pending.status \in Unfinished
                       THEN [pending EXCEPT !.status = "ready", !.draft = FALSE]
                       ELSE pending
         /\ UNCHANGED <<goal, goals, ledger, effects, evals>>

-----------------------------------------------------------------------------
(* goal.request and goal.mutate read the activity of the Thread, and then  *)
(* call the store.  A client repeats a request whose answer it has lost.   *)

Active == run.phase # "none"
Controllable == ctl = NoRequest /\ run.phase \notin {"starting", "unblocking"}

(* The client names the Goal it has read; it may change before the store is *)
(* called.                                                                  *)
Seen == {goal} \ {NoGoal}
Intent(kind, actions, bases) ==
    {[kind |-> kind, action |-> a, id |-> b.id, rev |-> b.rev] : a \in actions, b \in bases}

Intents == Intent("request", {"create"}, {NoGoal})
           \cup Intent("request", {"replace", "amend"}, Seen)
           \cup Intent("mutate", {"clear", "cancel_pending"}, {NoGoal})
           \cup Intent("mutate", {"pause", "resume", "clear"}, Seen)

BeginRequest(o, i) ==
    /\ Controllable
    /\ \/ ledger[o].kind = "new" /\ \A p \in 1..(o - 1) : ledger[p].kind # "new"
       \/ [ledger[o] EXCEPT !.kind = i.kind] = i   \* a repetition
    /\ ctl' = [op |-> o, intent |-> i, active |-> Active]
    /\ UNCHANGED <<store, run, opener>>

Replayed == ledger[ctl.op].kind # "new"

(* request *)
MayRequest(i) ==
    /\ ~Replayed /\ pending = NoPending /\ QueuedOps = {}
    /\ IF i.action = "create" THEN goal = NoGoal ELSE goal # NoGoal /\ IsCurrent(i)

Request ==
    LET i == ctl.intent
    IN /\ ctl.op # NoOp /\ i.kind = "request"
       /\ IF MayRequest(i)
          THEN /\ pending' = [req |-> ctl.op, kind |-> i.action, id |-> i.id, rev |-> goal.rev,
                              status |-> IF ctl.active THEN "queued" ELSE "ready",
                              draft |-> FALSE]
               /\ ledger' = [ledger EXCEPT ![ctl.op] = [i EXCEPT !.kind = "requested"]]
               /\ TakesEffect(ctl.op)
          ELSE UNCHANGED <<pending, ledger, effects>>
       /\ ctl' = NoRequest
       /\ UNCHANGED <<goal, goals, evals, run, opener>>

(* Mutant: a mutation may be queued beside a proposal. *)
MayMutateBeside(m) ==
    /\ ~Replayed /\ QueuedOps = {}
    /\ ValidBase(m)
    /\ ~ctl.active => Applicable(m)

(* mutate *)
MayMutate(m) ==
    /\ ~Replayed /\ QueuedOps = {}
    /\ pending # NoPending => m.action \in {"clear", "cancel_pending"} /\ ~ctl.active
    /\ ValidBase(m)
    /\ ~ctl.active => Applicable(m)

Mutate ==
    LET m == ctl.intent
    IN /\ ctl.op # NoOp /\ m.kind = "mutate"
       /\ IF ~MayMutate(m)
          THEN UNCHANGED <<goal, pending, ledger, effects>>
          ELSE /\ ledger' = [ledger EXCEPT ![ctl.op] =
                                [m EXCEPT !.kind = IF ctl.active THEN "queued" ELSE "applied"]]
               /\ IF ctl.active THEN UNCHANGED <<goal, pending, effects>>
                                ELSE Apply(m) /\ TakesEffect(ctl.op)
       /\ ctl' = NoRequest
       /\ UNCHANGED <<goals, evals, run, opener>>

(* Mutant: the evidence goes stale, the Goal stays complete. *)
UndoKeepsComplete(k) ==
    /\ Controllable /\ ~Active /\ k \in 1..run.n
    /\ evals' = [n \in 1..MaxRuns |->
                   IF n >= k /\ evals[n] # NoEval THEN [evals[n] EXCEPT !.stale = TRUE]
                                                  ELSE evals[n]]
    /\ UNCHANGED <<goal, goals, pending, ledger, effects, run, ctl, opener>>

(* threads.undo to the turn of Run k, on an idle Thread. *)
Undo(k) ==
    /\ Controllable /\ ~Active /\ k \in 1..run.n
    /\ evals' = [n \in 1..MaxRuns |->
                   IF n >= k /\ evals[n] # NoEval THEN [evals[n] EXCEPT !.stale = TRUE]
                                                  ELSE evals[n]]
    /\ goal' = IF goal.status = "complete" THEN [goal EXCEPT !.status = "active"] ELSE goal
    /\ UNCHANGED <<goals, pending, ledger, effects, run, ctl, opener>>

(* threads.open *)
OpenThread == /\ ~Active /\ ~opener /\ opener' = TRUE
              /\ UNCHANGED <<store, run, ctl>>

OpenReconciles == /\ opener /\ Reconcile /\ opener' = FALSE
                  /\ UNCHANGED <<run, ctl>>

-----------------------------------------------------------------------------
(* A Build Run and its Goal.                                               *)

Goes(phase) == run' = [run EXCEPT !.phase = phase]

(* run.start; a proposal Run names the request it is for. *)
StartRun(kind) ==
    /\ Controllable /\ ~Active /\ run.n < MaxRuns
    /\ run' = [NoRun EXCEPT !.n = run.n + 1, !.kind = kind,
                 !.phase = IF kind = "proposal" THEN "checking" ELSE "starting",
                 !.req = IF kind = "proposal" THEN pending.req ELSE NoOp]
    /\ UNCHANGED <<store, ctl, opener>>

Bind(g, graded) == run' = [run EXCEPT !.phase = "running", !.id = g.id, !.rev = g.rev,
                                      !.backed = graded /\ g.status = "active",
                                      !.blocker = g.blocker]

(* The Goal is read; a user's message takes it out of "blocked".  A Run that *)
(* is constrained to a plan is not graded.                                   *)
BindGoal(graded) ==
    /\ run.phase = "starting"
    /\ IF run.kind = "user" /\ goal.status = "blocked"
       THEN run' = [run EXCEPT !.phase = "unblocking", !.id = goal.id, !.rev = goal.rev]
       ELSE Bind(goal, graded)
    /\ UNCHANGED <<store, ctl, opener>>

ActivateFromBlocked(graded) ==
    /\ run.phase = "unblocking"
    /\ IF goal.status = "blocked" /\ IsCurrent(run)
       THEN /\ goal' = [Revise("active") EXCEPT !.blocker = TRUE]
            /\ goal'.rev <= MaxRevision
            /\ Bind(goal', graded)
       ELSE Goes("none") /\ UNCHANGED goal
    /\ UNCHANGED <<goals, pending, ledger, effects, evals, ctl, opener>>

(* record_evaluation *)
Evaluate(ok) ==
    /\ run.phase = "running" /\ run.backed
    /\ evals' = [evals EXCEPT ![run.n] = [id |-> run.id, rev |-> run.rev,
                                          ok |-> ok, stale |-> FALSE]]
    /\ UNCHANGED <<goal, goals, pending, ledger, effects, run, ctl, opener>>

(* update_goal("blocked") *)
BlockGoal ==
    /\ run.phase = "running" /\ run.id # 0
    /\ goal.status = "active" /\ IsCurrent(run) /\ goal.rev < MaxRevision
    /\ goal' = Revise("blocked")
    /\ UNCHANGED <<goals, pending, ledger, effects, evals, run, ctl, opener>>

RunEnds(completed) ==
    /\ run.phase = "running"
    /\ Goes(IF completed THEN "committing" ELSE "clearing")
    /\ UNCHANGED <<store, ctl, opener>>

CancelRun == /\ Active /\ ctl = NoRequest /\ ~run.cancelled
             /\ run' = [run EXCEPT !.cancelled = TRUE]
             /\ UNCHANGED <<store, ctl, opener>>

(* The CancelledError; a Run that was settling its Goal does not begin anew. *)
RunCancelled ==
    /\ run.cancelled /\ Active
    /\ Goes(IF run.phase \in {"committing", "clearing", "settling"} THEN "none"
            ELSE "clearing")
    /\ UNCHANGED <<store, ctl, opener>>

(* _reconcile_goal_terminal: commit_completion, *)
Completable ==
    LET e == evals[run.n]
    IN /\ run.backed /\ e.ok /\ ~e.stale /\ e.id = run.id /\ e.rev = run.rev
       /\ goal.status = "active" /\ IsCurrent(run)
       /\ pending = NoPending
       /\ \A o \in QueuedOps : ledger[o].action = "resume"

CommitCompletion ==
    /\ run.phase = "committing"
    /\ goal' = IF Completable THEN [goal EXCEPT !.status = "complete"] ELSE goal
    /\ Goes("clearing")
    /\ UNCHANGED <<goals, pending, ledger, effects, evals, ctl, opener>>

(* clear_prior_blocker, *)
ClearPriorBlocker ==
    /\ run.phase = "clearing"
    /\ goal' = IF run.blocker /\ IsCurrent(run) THEN [goal EXCEPT !.blocker = FALSE] ELSE goal
    /\ Goes("settling")
    /\ UNCHANGED <<goals, pending, ledger, effects, evals, ctl, opener>>

(* and cancel_proposal or reconcile. *)
SettleGoal ==
    /\ run.phase = "settling"
    /\ IF run.cancelled /\ run.kind = "proposal"
       THEN /\ pending' = IF pending.req = run.req THEN NoPending ELSE pending
            /\ UNCHANGED <<goal, goals, ledger, effects, evals>>
       ELSE Reconcile
    /\ Goes("none")
    /\ UNCHANGED <<ctl, opener>>

-----------------------------------------------------------------------------
(* A proposal Run.                                                         *)

SetProposal(status) == /\ pending' = [pending EXCEPT !.status = status]
                       /\ UNCHANGED <<goal, goals, ledger, effects, evals, ctl, opener>>

(* The request is pending, ready or already drafted and under review. *)
CheckProposal ==
    /\ run.phase = "checking"
    /\ IF run.req # NoOp /\ pending.req = run.req /\ pending.status \in {"ready", "reviewing"}
       THEN IF pending.status = "ready"
            THEN SetProposal("drafting") /\ Goes("drafting")
            ELSE UNCHANGED <<store, ctl, opener>> /\ Goes("reviewing")
       ELSE UNCHANGED <<store, ctl, opener>> /\ Goes("clearing")

(* The model drafts a Goal, fails or asks back; the client answers or does  *)
(* not, in which case the proposal is cancelled.                            *)
SaveProposal ==
    /\ run.phase = "drafting"
    /\ pending' = [pending EXCEPT !.status = "reviewing", !.draft = TRUE]
    /\ Goes("reviewing")
    /\ UNCHANGED <<goal, goals, ledger, effects, evals, ctl, opener>>

DraftFails == run.phase = "drafting" /\ SetProposal("failed") /\ Goes("clearing")

Clarify == run.phase = "drafting" /\ SetProposal("clarifying") /\ Goes("clarifying")

Clarified == run.phase = "clarifying" /\ SetProposal("drafting") /\ Goes("drafting")

CancelProposal ==
    /\ run.phase \in {"clarifying", "reviewing"}
    /\ pending' = NoPending
    /\ Goes("clearing")
    /\ UNCHANGED <<goal, goals, ledger, effects, evals, ctl, opener>>

RejectProposal == run.phase = "reviewing" /\ SetProposal("drafting") /\ Goes("drafting")

(* apply_proposal; an answer that cannot be used fails the Run as well. *)
Applies == /\ pending.draft
           /\ IF pending.kind = "create" THEN goal = NoGoal
                                         ELSE goal # NoGoal /\ IsCurrent(pending)

ApplyProposal(valid) ==
    /\ run.phase = "reviewing"
    /\ IF valid /\ Applies
       THEN /\ IF pending.kind = "amend"
               THEN goal' = [Revise("active") EXCEPT !.blocker = FALSE] /\ UNCHANGED goals
               ELSE /\ goals' = goals + 1
                    /\ goal' = [id |-> goals + 1, rev |-> 1, status |-> "active",
                                blocker |-> FALSE]
            /\ goal'.rev <= MaxRevision /\ goals' <= MaxGoals
            /\ pending' = NoPending
            /\ Goes("committing")
       ELSE UNCHANGED <<goal, goals, pending>> /\ Goes("clearing")
    /\ UNCHANGED <<ledger, effects, evals, ctl, opener>>

(* The Host dies; what is stored stays. *)
Crash == /\ run' = [run EXCEPT !.phase = "none"] /\ ctl' = NoRequest /\ opener' = FALSE
         /\ UNCHANGED store

-----------------------------------------------------------------------------
BuildSteps == \/ \E graded \in BOOLEAN : BindGoal(graded) \/ ActivateFromBlocked(graded)
              \/ \E completed \in BOOLEAN : RunEnds(completed)
              \/ CommitCompletion \/ ClearPriorBlocker \/ SettleGoal \/ RunCancelled

ProposalSteps == \/ CheckProposal \/ SaveProposal \/ DraftFails \/ Clarify \/ Clarified
                 \/ CancelProposal \/ RejectProposal
                 \/ \E valid \in BOOLEAN : ApplyProposal(valid)

Next == \/ \E o \in Ops : \E i \in Intents : BeginRequest(o, i)
        \/ Request \/ Mutate
        \/ \E k \in 1..MaxRuns : Undo(k)
        \/ OpenThread \/ OpenReconciles
        \/ \E kind \in {"user", "continuation", "proposal"} : StartRun(kind)
        \/ \E ok \in BOOLEAN : Evaluate(ok)
        \/ BlockGoal \/ CancelRun
        \/ BuildSteps \/ ProposalSteps \/ Crash

Spec == Init /\ [][Next]_vars

(* A request that was begun is carried out, a Run goes on, and the Thread   *)
(* is opened again and again; the Host does not die in every one of these.  *)
Fairness == /\ WF_vars(Request \/ Mutate) /\ SF_vars(OpenThread) /\ SF_vars(OpenReconciles)
            /\ WF_vars(BuildSteps \/ ProposalSteps)

FairSpec == Spec /\ Fairness

-----------------------------------------------------------------------------
(* Properties.                                                             *)

(* Every variable holds a value of its kind. *)
Ids == 0..MaxGoals
Revisions == 0..MaxRevision
Goals == [id : Ids, rev : Revisions, blocker : BOOLEAN,
          status : {"none", "active", "paused", "blocked", "complete"}]
Proposals == [req : Ops \cup {NoOp}, kind : {"none", "create", "replace", "amend"},
              id : Ids, rev : Revisions, draft : BOOLEAN,
              status : {"none", "queued", "ready", "drafting", "clarifying",
                        "reviewing", "failed"}]
Operations(kinds) == [kind : kinds, id : Ids, rev : Revisions,
                      action : {"none", "create", "replace", "amend", "clear",
                                "cancel_pending", "pause", "resume"}]
Phases == {"none", "starting", "unblocking", "running", "committing", "clearing",
           "settling", "checking", "drafting", "clarifying", "reviewing"}
Runs == [n : 0..MaxRuns, kind : {"none", "user", "continuation", "proposal"},
         phase : Phases, id : Ids, rev : Revisions, req : Ops \cup {NoOp},
         backed : BOOLEAN, blocker : BOOLEAN, cancelled : BOOLEAN]

TypeOK ==
    /\ goal \in Goals /\ goals \in Ids /\ pending \in Proposals
    /\ pending.req = NoOp <=> pending = NoPending
    /\ goal.id = 0 <=> goal = NoGoal
    /\ ledger \in [Ops -> Operations({"new", "requested", "queued", "applied"})]
    /\ effects \in [Ops -> Nat]
    /\ evals \in [1..MaxRuns -> [id : Ids, rev : Revisions, ok : BOOLEAN, stale : BOOLEAN]]
    /\ run \in Runs /\ opener \in BOOLEAN
    /\ ctl \in [op : Ops \cup {NoOp}, intent : Operations({"new", "request", "mutate"}),
                active : BOOLEAN]
    /\ ctl.intent.kind = "request" => ctl.intent.action \in {"create", "replace", "amend"}

(* A Goal is complete only on an evaluation of this very revision that is   *)
(* satisfied and that no undo has invalidated (commit_completion,           *)
(* invalidate_for_undo).                                                    *)
CompleteHasEvidence ==
    goal.status = "complete" =>
        \E n \in 1..MaxRuns : /\ evals[n].id = goal.id /\ evals[n].rev = goal.rev
                              /\ evals[n].ok /\ ~evals[n].stale

(* At most one change waits for the Run to end, and the intent of an        *)
(* operation takes effect at most once, however often it is repeated and    *)
(* whoever reconciles.                                                      *)
ChangesWaitAlone ==
    /\ Cardinality(QueuedOps) <= 1
    /\ QueuedOps # {} => pending = NoPending
    /\ \A o \in Ops : effects[o] <= 1 /\ (o \in QueuedOps => effects[o] = 0)

(* What a client has seen under an identity is what its next request finds  *)
(* there: every change has a revision of its own, but for the completion    *)
(* and its invalidation, and revisions only grow.                           *)
RevisionsIdentify ==
    [][/\ goal'.id = goal.id =>
            /\ goal'.rev >= goal.rev
            /\ goal'.rev = goal.rev =>
                  goal'.status = goal.status \/ {goal'.status, goal.status} = {"active", "complete"}
       /\ goal'.id # goal.id => goal'.id \in {0, goals'} /\ goal'.id # goals]_goal

(* A proposal that its Run left behind half-way, or that waits for a Run    *)
(* that has ended, is offered again (set_proposal_status, reconcile).       *)
ProposalsRecover ==
    (~Active /\ pending.status \in {"queued", "drafting", "clarifying"})
        ~> pending.status \in {"none", "ready", "reviewing", "failed"}
=============================================================================
