----------------------------- MODULE StoreProofs ----------------------------
(***************************************************************************)
(* What the Goal of a Thread keeps through queued changes, repetitions,    *)
(* interrupted proposals, undo and crashes, for any bounds; and below it,  *)
(* for any calls of the stores on the shared connection and any            *)
(* cancellations, what GoalStore's one-step mutations rest on: a call of a *)
(* store is atomic.                                                        *)
(***************************************************************************)
EXTENDS GoalStore, SharedConnection, FiniteSetTheorems, TLAPS

(* The ids of Goals are counted. *)
GoalsAreCounted == goal.id <= goals

(* Only a request that is alone with its Thread was told that it is idle,  *)
(* and a Run that works on a proposal finds it pending: whoever could      *)
(* remove it waits.                                                        *)
ProposalIsThere ==
    /\ ctl.op # NoOp /\ ~ctl.active => run.phase = "none"
    /\ run.phase \in {"drafting", "clarifying", "reviewing"}
          => run.req # NoOp /\ pending.req = run.req

(* One change waits at most, with no proposal beside it; an operation that *)
(* is new or waits has had no effect, and any other one at most.           *)
OneChangeWaits ==
    /\ \A o, p \in QueuedOps : o = p
    /\ QueuedOps # {} => pending = NoPending
    /\ \A o \in Ops : /\ effects[o] <= 1
                      /\ ledger[o].kind \in {"new", "queued"} => effects[o] = 0

(* The evidence of a complete Goal is not that of the Run that is still to *)
(* be graded: that one's may be replaced.                                  *)
Graded == run.phase \in {"starting", "unblocking", "running"}
EvidenceStays ==
    /\ run.phase # "none" => run.n >= 1
    /\ \A n \in 1..MaxRuns : evals[n].ok => n <= run.n
    /\ run.phase \in {"checking", "drafting", "clarifying", "reviewing"} => ~run.backed
    /\ Graded => \A n \in 1..MaxRuns : n = run.n /\ evals[n].ok => run.phase = "running"
    /\ goal.status = "complete" =>
          \E n \in 1..MaxRuns : /\ evals[n].id = goal.id /\ evals[n].rev = goal.rev
                                /\ evals[n].ok /\ ~evals[n].stale
                                /\ Graded => n # run.n

IInv ==
    /\ TypeOK
    /\ GoalsAreCounted
    /\ ProposalIsThere
    /\ OneChangeWaits
    /\ EvidenceStays

(* The bounds are numbers. *)
LEMMA Bounds ==
    MaxOps \in Nat /\ MaxRuns \in Nat /\ MaxRevision \in Nat /\ MaxGoals \in Nat
  BY GoalAssumption

(* A client names a Goal it has read. *)
LEMMA IntentsTyped ==
    ASSUME TypeOK
    PROVE  /\ Intents \subseteq Operations({"request", "mutate"})
           /\ \A i \in Intents : i.kind = "request"
                                    => i.action \in {"create", "replace", "amend"}
  <1>1. NoGoal \in Goals
    BY Bounds DEF NoGoal, Goals, Ids, Revisions
  <1>2. \A kind \in {"request", "mutate"} :
           \A actions \in SUBSET {"create", "replace", "amend", "clear", "cancel_pending",
                                  "pause", "resume"} :
              \A bases \in SUBSET Goals : \A i \in Intent(kind, actions, bases) :
                 /\ i \in Operations({"request", "mutate"})
                 /\ i.kind = kind /\ i.action \in actions
    BY DEF Intent, Goals, Operations
  <1>3. Seen \subseteq Goals /\ {NoGoal} \subseteq Goals
    BY <1>1 DEF TypeOK, Seen
  <1> DEFINE R1 == Intent("request", {"create"}, {NoGoal})
             R2 == Intent("request", {"replace", "amend"}, Seen)
             M1 == Intent("mutate", {"clear", "cancel_pending"}, {NoGoal})
             M2 == Intent("mutate", {"pause", "resume", "clear"}, Seen)
  <1>4. \A i \in R1 \cup R2 : /\ i \in Operations({"request", "mutate"})
                              /\ i.action \in {"create", "replace", "amend"}
    BY <1>2, <1>3
  <1>5. \A i \in M1 \cup M2 : i \in Operations({"request", "mutate"}) /\ i.kind = "mutate"
    BY <1>2, <1>3
  <1>6. Intents = (R1 \cup R2) \cup (M1 \cup M2)
    BY DEF Intents
  <1> HIDE DEF R1, R2, M1, M2
  <1> QED BY <1>4, <1>5, <1>6

(* A Goal with its next revision. *)
Revised(s, b) == [id |-> goal.id, rev |-> goal.rev + 1, blocker |-> b, status |-> s]

LEMMA ReviseIsRevised ==
    ASSUME goal \in Goals, NEW s \in {"active", "paused", "blocked"}, NEW b \in BOOLEAN
    PROVE  /\ [goal EXCEPT !.rev = goal.rev + 1, !.status = s] = Revised(s, goal.blocker)
           /\ [goal EXCEPT !.rev = goal.rev + 1, !.status = s, !.blocker = b] = Revised(s, b)
  <1>1. goal = [id |-> goal.id, rev |-> goal.rev, blocker |-> goal.blocker,
                status |-> goal.status]
    BY DEF Goals
  <1> DEFINE r == goal.rev + 1
  <1>2. /\ [goal EXCEPT !.rev = r, !.status = s]
              = [id |-> goal.id, rev |-> r, blocker |-> goal.blocker, status |-> s]
        /\ [goal EXCEPT !.rev = r, !.status = s, !.blocker = b]
              = [id |-> goal.id, rev |-> r, blocker |-> b, status |-> s]
    <2>1. r \in Nat
      BY Bounds DEF Goals, Revisions
    <2> HIDE DEF r
    <2> DEFINE h1 == [goal EXCEPT !.rev = r, !.status = s]
               h2 == [goal EXCEPT !.rev = r, !.status = s, !.blocker = b]
               Wide == [id : Ids, rev : Nat, blocker : BOOLEAN,
                        status : {"none", "active", "paused", "blocked", "complete"}]
    <2>2. /\ h1 \in Wide /\ h1.id = goal.id /\ h1.rev = r /\ h1.blocker = goal.blocker
          /\ h1.status = s
      BY <2>1, Bounds DEF Goals, Revisions
    <2>3. /\ h2 \in Wide /\ h2.id = goal.id /\ h2.rev = r /\ h2.blocker = b
          /\ h2.status = s
      BY <2>1, Bounds DEF Goals, Revisions
    <2> HIDE DEF h1, h2
    <2>4. \A h \in Wide : h = [id |-> h.id, rev |-> h.rev, blocker |-> h.blocker,
                              status |-> h.status]
      OBVIOUS
    <2> HIDE DEF Wide
    <2>5. /\ h1 = [id |-> goal.id, rev |-> r, blocker |-> goal.blocker, status |-> s]
          /\ h2 = [id |-> goal.id, rev |-> r, blocker |-> b, status |-> s]
      BY <2>2, <2>3, <2>4
    <2> QED BY <2>5 DEF h1, h2
  <1> QED BY <1>2 DEF Revised

LEMMA RevisedFields ==
    ASSUME goal \in Goals, NEW s \in {"active", "paused", "blocked"}, NEW b \in BOOLEAN,
           goal' = Revised(s, b), goal'.rev <= MaxRevision
    PROVE  /\ goal' \in Goals /\ goal'.id = goal.id /\ goal'.rev = goal.rev + 1
           /\ goal'.status = s /\ goal'.blocker = b
  <1>1. /\ goal'.id = goal.id /\ goal'.rev = goal.rev + 1
        /\ goal'.status = s /\ goal'.blocker = b
    BY DEF Revised
  <1>2. goal'.rev \in Revisions /\ goal.id \in Ids
    BY <1>1, Bounds DEF Goals, Revisions
  <1> QED BY <1>1, <1>2 DEF Revised, Goals

(* A mutation that applies leaves the Goal what it is, gives it a revision *)
(* of its own, or removes it.                                              *)
GoalMutates ==
    /\ goal' \in Goals /\ (goal'.id = 0 <=> goal' = NoGoal)
    /\ \/ goal' = goal
       \/ goal' = NoGoal
       \/ goal'.id = goal.id /\ goal'.rev = goal.rev + 1 /\ goal'.status # "complete"

LEMMA ApplyFacts ==
    ASSUME TypeOK, NEW m \in Operations({"request", "mutate", "new", "requested", "queued",
                                         "applied"}),
           ValidBase(m), Applicable(m), Apply(m)
    PROVE  GoalMutates /\ pending' \in {pending, NoPending}
  <1> USE Bounds DEF TypeOK, Goals, Operations, Ids, Revisions
  <1>1. pending' \in {pending, NoPending} /\ goal'.rev <= MaxRevision
    BY DEF Apply
  <1>2. CASE m.action = "clear"
    <2>1. goal' = NoGoal
      BY <1>2 DEF Apply
    <2> QED BY <1>1, <2>1 DEF GoalMutates, NoGoal
  <1>3. CASE m.action = "pause" /\ goal.status # "paused"
    <2>1. goal' = [goal EXCEPT !.rev = goal.rev + 1, !.status = "paused"]
      BY <1>3 DEF Apply, Revise
    <2>2. goal # NoGoal
      BY <1>3 DEF ValidBase
    <2>3. /\ goal' \in Goals /\ goal'.id = goal.id /\ goal'.rev = goal.rev + 1
          /\ goal'.status = "paused"
      <3>1. goal \in Goals /\ goal.blocker \in BOOLEAN
        OBVIOUS
      <3> HIDE DEF TypeOK, Goals, Revisions
      <3> QED BY <1>1, <2>1, <3>1, ReviseIsRevised, RevisedFields
    <2> QED BY <1>1, <2>2, <2>3 DEF GoalMutates, NoGoal
  <1>4. CASE m.action = "resume" /\ goal.status # "active"
    <2>1. goal' = [goal EXCEPT !.rev = goal.rev + 1, !.status = "active",
                               !.blocker = goal.blocker \/ goal.status = "blocked"]
      BY <1>4 DEF Apply, Revise
    <2>2. goal # NoGoal
      BY <1>4 DEF ValidBase
    <2>3. /\ goal' \in Goals /\ goal'.id = goal.id /\ goal'.rev = goal.rev + 1
          /\ goal'.status = "active"
      <3>1. goal \in Goals /\ goal.blocker \in BOOLEAN
        OBVIOUS
      <3> HIDE DEF TypeOK, Goals, Revisions
      <3> QED BY <1>1, <2>1, <3>1, ReviseIsRevised, RevisedFields
    <2> QED BY <1>1, <2>2, <2>3 DEF GoalMutates, NoGoal
  <1>5. CASE /\ m.action # "clear"
             /\ ~(m.action = "pause" /\ goal.status # "paused")
             /\ ~(m.action = "resume" /\ goal.status # "active")
    <2>1. goal' = goal
      BY <1>5 DEF Apply
    <2> QED BY <1>1, <2>1 DEF GoalMutates
  <1> QED BY <1>2, <1>3, <1>4, <1>5

(* What reconcile does to each part of the store. *)
LEMMA ReconcileFacts ==
    ASSUME TypeOK, Reconcile
    PROVE  /\ GoalMutates /\ UNCHANGED <<goals, evals>>
           /\ pending' \in Proposals
           /\ \/ /\ UNCHANGED <<ledger, effects>>
                 /\ \/ UNCHANGED pending
                    \/ QueuedOps = {} /\ pending'.req = pending.req /\ pending # NoPending
              \/ /\ pending' \in {pending, NoPending}
                 /\ \E o \in QueuedOps :
                       /\ ledger' = [ledger EXCEPT ![o].kind = "applied"]
                       /\ effects' = [effects EXCEPT ![o] = effects[o] + 1]
  <1> USE Bounds
  <1>1. CASE QueuedOps # {}
    <2>1. PICK o \in QueuedOps :
             IF ValidBase(ledger[o]) /\ Applicable(ledger[o])
             THEN /\ Apply(ledger[o]) /\ TakesEffect(o)
                  /\ ledger' = [ledger EXCEPT ![o].kind = "applied"]
                  /\ UNCHANGED <<goals, evals>>
             ELSE UNCHANGED store
      BY <1>1 DEF Reconcile
    <2>2. CASE ValidBase(ledger[o]) /\ Applicable(ledger[o])
      <3>1. ledger[o] \in Operations({"request", "mutate", "new", "requested", "queued",
                                      "applied"})
        BY DEF TypeOK, QueuedOps, Operations
      <3>2. GoalMutates /\ pending' \in {pending, NoPending}
        BY <2>1, <2>2, <3>1, ApplyFacts
      <3>3. NoPending \in Proposals
        BY DEF NoPending, Proposals, NoOp, Ids, Revisions
      <3> QED BY <2>1, <2>2, <3>2, <3>3 DEF TypeOK, TakesEffect
    <2>3. CASE ~(ValidBase(ledger[o]) /\ Applicable(ledger[o]))
      BY <2>1, <2>3 DEF TypeOK, store, GoalMutates
    <2> QED BY <2>2, <2>3
  <1>2. CASE QueuedOps = {}
    <2>1. /\ UNCHANGED <<goal, goals, ledger, effects, evals>>
          /\ pending' = IF pending.status \in Unfinished
                        THEN [pending EXCEPT !.status = "ready", !.draft = FALSE]
                        ELSE pending
      BY <1>2 DEF Reconcile
    <2>2. GoalMutates
      BY <2>1 DEF GoalMutates, TypeOK
    <2>3. CASE pending.status \in Unfinished
      <3>1. pending # NoPending
        BY <2>3 DEF NoPending, Unfinished
      <3>2. pending' = [pending EXCEPT !.status = "ready", !.draft = FALSE]
        BY <2>1, <2>3
      <3>3. pending' \in Proposals /\ pending'.req = pending.req
        BY <3>2 DEF TypeOK, Proposals
      <3> QED BY <1>2, <2>1, <2>2, <3>1, <3>3
    <2>4. CASE pending.status \notin Unfinished
      BY <2>1, <2>2, <2>4 DEF TypeOK
    <2> QED BY <2>3, <2>4
  <1> QED BY <1>1, <1>2

(* The parts of TypeOK. *)
GoalTyped == goal \in Goals /\ goals \in Ids /\ (goal.id = 0 <=> goal = NoGoal)
PendingTyped == pending \in Proposals /\ (pending.req = NoOp <=> pending = NoPending)
LedgerTyped == /\ ledger \in [Ops -> Operations({"new", "requested", "queued", "applied"})]
               /\ effects \in [Ops -> Nat]
EvalsTyped == evals \in [1..MaxRuns -> [id : Ids, rev : Revisions, ok : BOOLEAN,
                                        stale : BOOLEAN]]
CtlTyped == /\ ctl \in [op : Ops \cup {NoOp}, intent : Operations({"new", "request", "mutate"}),
                        active : BOOLEAN]
            /\ ctl.intent.kind = "request"
                  => ctl.intent.action \in {"create", "replace", "amend"}
            /\ opener \in BOOLEAN

LEMMA TypeParts ==
    TypeOK <=> GoalTyped /\ PendingTyped /\ LedgerTyped /\ EvalsTyped /\ run \in Runs /\ CtlTyped
  BY DEF TypeOK, GoalTyped, PendingTyped, LedgerTyped, EvalsTyped, CtlTyped

(* What a change of its phase leaves of a Run. *)
SameRun == /\ run'.n = run.n /\ run'.kind = run.kind /\ run'.id = run.id /\ run'.rev = run.rev
           /\ run'.req = run.req /\ run'.backed = run.backed /\ run'.blocker = run.blocker
           /\ run'.cancelled = run.cancelled
LEMMA GoesFacts ==
    ASSUME run \in Runs, NEW p \in Phases, Goes(p)
    PROVE  run' \in Runs /\ run'.phase = p /\ SameRun
  BY DEF Runs, Goes, SameRun

(* A change of status of the pending proposal. *)
LEMMA ProposalFacts ==
    ASSUME PendingTyped, pending # NoPending,
           NEW status \in {"queued", "ready", "drafting", "clarifying", "reviewing", "failed"},
           NEW draft \in BOOLEAN,
           pending' = [pending EXCEPT !.status = status, !.draft = draft]
    PROVE  PendingTyped' /\ pending'.req = pending.req
  BY DEF PendingTyped, Proposals, NoPending

LEMMA SetProposalFacts ==
    ASSUME PendingTyped, pending # NoPending,
           NEW status \in {"queued", "ready", "drafting", "clarifying", "reviewing", "failed"},
           SetProposal(status)
    PROVE  PendingTyped' /\ pending'.req = pending.req
  BY DEF PendingTyped, Proposals, NoPending, SetProposal

(* What a step does to the Goal: it keeps its type, identities only grow,   *)
(* and it becomes complete in CommitCompletion only.                        *)
Identified ==
    /\ goal'.id = goal.id =>
          /\ goal'.rev >= goal.rev
          /\ goal'.rev = goal.rev =>
                goal'.status = goal.status \/ {goal'.status, goal.status} = {"active", "complete"}
    /\ goal'.id # goal.id => goal'.id \in {0, goals'} /\ goal'.id # goals
GoalStep ==
    /\ GoalTyped' /\ GoalsAreCounted' /\ Identified
    /\ goal'.status = "complete" =>
          /\ goal'.id = goal.id /\ goal'.rev = goal.rev
          /\ goal.status = "complete" \/ run.phase = "committing"

LEMMA GoalStutters ==
    ASSUME IInv, UNCHANGED <<goal, goals>>
    PROVE  GoalStep
  <1>1. GoalTyped /\ GoalsAreCounted
    BY TypeParts DEF IInv
  <1>2. GoalTyped' /\ GoalsAreCounted'
    BY <1>1 DEF GoalTyped, GoalsAreCounted
  <1>3. goal.rev \in Int
    BY <1>1, Bounds DEF GoalTyped, Goals, Revisions
  <1> QED BY <1>2, <1>3 DEF GoalStep, Identified

LEMMA GoalMutatesSteps ==
    ASSUME IInv, GoalMutates, UNCHANGED goals
    PROVE  GoalStep
  <1>1. GoalTyped
    BY TypeParts DEF IInv
  <1>2. CASE goal' = goal
    BY <1>2, GoalStutters
  <1>3. CASE goal' = NoGoal
    BY <1>1, <1>3, Bounds DEF IInv, GoalMutates, GoalStep, GoalTyped, GoalsAreCounted,
       Identified, NoGoal, Goals, Revisions, Ids
  <1>4. CASE goal'.id = goal.id /\ goal'.rev = goal.rev + 1 /\ goal'.status # "complete"
    BY <1>1, <1>4, Bounds DEF IInv, GoalMutates, GoalStep, GoalTyped, GoalsAreCounted,
       Identified, Goals, Revisions, Ids
  <1> QED BY <1>2, <1>3, <1>4 DEF GoalMutates

(* The remaining ways to change a Goal keep its id. *)
LEMMA GoalRevisedSteps ==
    ASSUME IInv, goal.id # 0, goal' \in Goals, UNCHANGED goals, goal'.id = goal.id,
           \/ goal'.rev = goal.rev + 1 /\ goal'.status # "complete"
           \/ /\ goal'.rev = goal.rev
              /\ \/ goal'.status = goal.status
                 \/ goal'.status = "active" /\ goal.status = "complete"
                 \/ /\ goal'.status = "complete" /\ goal.status = "active"
                    /\ run.phase = "committing"
    PROVE  GoalStep
  <1>1. GoalTyped
    BY TypeParts DEF IInv
  <1>2. GoalTyped' /\ GoalsAreCounted'
    BY <1>1 DEF IInv, GoalTyped, GoalsAreCounted, NoGoal
  <1>3. Identified
    BY <1>1, Bounds DEF GoalTyped, Identified, Goals, Revisions
  <1>4. goal'.status = "complete" =>
          /\ goal'.id = goal.id /\ goal'.rev = goal.rev
          /\ goal.status = "complete" \/ run.phase = "committing"
    OBVIOUS
  <1> QED BY <1>2, <1>3, <1>4 DEF GoalStep

LEMMA UndoSteps ==
    ASSUME IInv, NEW k \in 1..MaxRuns, Undo(k)
    PROVE  GoalStep
  <1>1. GoalTyped /\ UNCHANGED goals
    BY TypeParts DEF IInv, Undo
  <1>2. CASE goal.status = "complete"
    <2>1. goal' = [goal EXCEPT !.status = "active"]
      BY <1>2 DEF Undo
    <2>2. goal' \in Goals /\ goal'.id = goal.id /\ goal'.rev = goal.rev /\ goal'.status = "active"
      BY <1>1, <2>1 DEF GoalTyped, Goals
    <2>3. goal.id # 0
      BY <1>1, <1>2 DEF GoalTyped, NoGoal
    <2> QED BY <1>1, <1>2, <2>2, <2>3, GoalRevisedSteps
  <1>3. CASE goal.status # "complete"
    BY <1>1, <1>3, GoalStutters DEF Undo
  <1> QED BY <1>2, <1>3

LEMMA ActivateFacts ==
    ASSUME IInv, NEW graded \in BOOLEAN, ActivateFromBlocked(graded)
    PROVE  /\ GoalStep /\ run' \in Runs /\ run'.n = run.n /\ run'.phase \in {"none", "running"}
           /\ run.phase = "unblocking"
  <1>1. GoalTyped /\ UNCHANGED goals /\ run.phase = "unblocking" /\ run \in Runs
    BY TypeParts DEF IInv, ActivateFromBlocked
  <1>2. CASE goal.status = "blocked" /\ IsCurrent(run)
    <2>1. /\ goal' = [goal EXCEPT !.rev = goal.rev + 1, !.status = "active", !.blocker = TRUE]
          /\ goal'.rev <= MaxRevision /\ Bind(goal', graded)
      BY <1>2 DEF ActivateFromBlocked, Revise
    <2>2. /\ goal' \in Goals /\ goal'.id = goal.id /\ goal'.rev = goal.rev + 1
          /\ goal'.status = "active"
      BY <1>1, <2>1, ReviseIsRevised, RevisedFields DEF GoalTyped
    <2>3. goal.id # 0
      BY <1>1, <1>2 DEF GoalTyped, NoGoal
    <2>4. GoalStep
      BY <1>1, <2>2, <2>3, GoalRevisedSteps
    <2>5. run' \in Runs /\ run'.n = run.n /\ run'.phase = "running"
      BY <1>1, <2>1, <2>2 DEF Bind, Runs, Goals, Phases
    <2> QED BY <1>1, <2>4, <2>5
  <1>3. CASE ~(goal.status = "blocked" /\ IsCurrent(run))
    <2>1. UNCHANGED goal /\ Goes("none")
      BY <1>3 DEF ActivateFromBlocked
    <2>2. run' \in Runs /\ run'.phase = "none" /\ run'.n = run.n
      BY <1>1, <2>1, GoesFacts DEF Phases, SameRun
    <2> QED BY <1>1, <2>1, <2>2, GoalStutters
  <1> QED BY <1>2, <1>3

LEMMA BlockGoalSteps ==
    ASSUME IInv, BlockGoal
    PROVE  GoalStep
  <1>1. GoalTyped /\ UNCHANGED goals /\ goal.status = "active" /\ goal.rev < MaxRevision
    BY TypeParts DEF IInv, BlockGoal
  <1>2. goal' = [goal EXCEPT !.rev = goal.rev + 1, !.status = "blocked"]
    BY DEF BlockGoal, Revise
  <1>3. /\ goal' \in Goals /\ goal'.id = goal.id /\ goal'.rev = goal.rev + 1
        /\ goal'.status = "blocked"
    <2>1. goal.blocker \in BOOLEAN /\ goal.rev + 1 <= MaxRevision
      BY <1>1, Bounds DEF GoalTyped, Goals, Revisions
    <2>2. goal' = Revised("blocked", goal.blocker) /\ goal'.rev = goal.rev + 1
      BY <1>1, <1>2, <2>1, ReviseIsRevised DEF GoalTyped, Revised
    <2> QED BY <1>1, <2>1, <2>2, RevisedFields DEF GoalTyped
  <1>4. goal.id # 0
    BY <1>1 DEF GoalTyped, NoGoal
  <1> QED BY <1>1, <1>3, <1>4, GoalRevisedSteps

LEMMA CommitFacts ==
    ASSUME IInv, CommitCompletion
    PROVE  GoalStep /\ run' \in Runs /\ run'.phase = "clearing" /\ SameRun
  <1>1. GoalTyped /\ UNCHANGED goals /\ run \in Runs /\ Goes("clearing")
    BY TypeParts DEF IInv, CommitCompletion
  <1>2. run' \in Runs /\ run'.phase = "clearing" /\ SameRun
    BY <1>1, GoesFacts DEF Phases
  <1>3. CASE Completable
    <2>1. /\ goal' = [goal EXCEPT !.status = "complete"] /\ goal.status = "active"
          /\ run.phase = "committing"
      BY <1>3 DEF CommitCompletion, Completable
    <2>2. /\ goal' \in Goals /\ goal'.id = goal.id /\ goal'.rev = goal.rev
          /\ goal'.status = "complete"
      BY <1>1, <2>1 DEF GoalTyped, Goals
    <2>3. goal.id # 0
      BY <1>1, <2>1 DEF GoalTyped, NoGoal
    <2> QED BY <1>1, <1>2, <1>3, <2>1, <2>2, <2>3, GoalRevisedSteps
  <1>4. CASE ~Completable
    BY <1>1, <1>2, <1>4, GoalStutters DEF CommitCompletion
  <1> QED BY <1>3, <1>4

LEMMA ClearFacts ==
    ASSUME IInv, ClearPriorBlocker
    PROVE  GoalStep /\ run' \in Runs /\ run'.phase = "settling" /\ SameRun
  <1>1. GoalTyped /\ UNCHANGED goals /\ run \in Runs /\ Goes("settling")
    BY TypeParts DEF IInv, ClearPriorBlocker
  <1>2. run' \in Runs /\ run'.phase = "settling" /\ SameRun
    BY <1>1, GoesFacts DEF Phases
  <1>3. CASE run.blocker /\ IsCurrent(run)
    <2>1. goal' = [goal EXCEPT !.blocker = FALSE]
      BY <1>3 DEF ClearPriorBlocker
    <2>2. CASE goal.id # 0
      <3>1. /\ goal' \in Goals /\ goal'.id = goal.id /\ goal'.rev = goal.rev
            /\ goal'.status = goal.status
        BY <1>1, <2>1 DEF GoalTyped, Goals
      <3> QED BY <1>1, <1>2, <2>2, <3>1, GoalRevisedSteps
    <2>3. CASE goal.id = 0
      <3>1. goal = NoGoal
        BY <1>1, <2>3 DEF GoalTyped
      <3>2. goal' = goal
        <4>1. /\ goal' \in Goals /\ goal'.id = goal.id /\ goal'.rev = goal.rev
              /\ goal'.status = goal.status /\ goal'.blocker = FALSE
          BY <1>1, <2>1 DEF GoalTyped, Goals
        <4>2. goal' = [id |-> goal'.id, rev |-> goal'.rev, blocker |-> goal'.blocker,
                       status |-> goal'.status]
          BY <4>1 DEF Goals
        <4> QED BY <3>1, <4>1, <4>2 DEF NoGoal
      <3> QED BY <1>1, <1>2, <3>2, GoalStutters
    <2> QED BY <2>2, <2>3
  <1>4. CASE ~(run.blocker /\ IsCurrent(run))
    BY <1>1, <1>2, <1>4, GoalStutters DEF ClearPriorBlocker
  <1> QED BY <1>3, <1>4

LEMMA ApplyProposalFacts ==
    ASSUME IInv, NEW valid \in BOOLEAN, ApplyProposal(valid)
    PROVE  /\ GoalStep /\ run' \in Runs /\ run'.phase \in {"committing", "clearing"} /\ SameRun
           /\ pending' \in {pending, NoPending} /\ run.phase = "reviewing"
  <1>1. GoalTyped /\ run \in Runs /\ GoalsAreCounted /\ run.phase = "reviewing"
    BY TypeParts DEF IInv, ApplyProposal
  <1>2. CASE valid /\ Applies
    <2>1. /\ goal'.rev <= MaxRevision /\ goals' <= MaxGoals
          /\ pending' = NoPending /\ Goes("committing")
      BY <1>2 DEF ApplyProposal
    <2>2. run' \in Runs /\ run'.phase = "committing" /\ SameRun
      BY <1>1, <2>1, GoesFacts DEF Phases
    <2>3. CASE pending.kind = "amend"
      <3>1. /\ goal' = [goal EXCEPT !.rev = goal.rev + 1, !.status = "active", !.blocker = FALSE]
            /\ UNCHANGED goals
        BY <1>2, <2>3 DEF ApplyProposal, Revise
      <3>2. /\ goal' \in Goals /\ goal'.id = goal.id /\ goal'.rev = goal.rev + 1
            /\ goal'.status = "active"
        BY <1>1, <2>1, <3>1, ReviseIsRevised, RevisedFields DEF GoalTyped
      <3>3. goal.id # 0
        BY <1>1, <1>2, <2>3 DEF GoalTyped, Applies
      <3> QED BY <1>1, <2>1, <2>2, <3>1, <3>2, <3>3, GoalRevisedSteps
    <2>4. CASE pending.kind # "amend"
      <3>1. /\ goals' = goals + 1
            /\ goal' = [id |-> goals + 1, rev |-> 1, status |-> "active", blocker |-> FALSE]
        BY <1>2, <2>4 DEF ApplyProposal
      <3>2. /\ goal' \in Goals /\ goals' \in Ids /\ goal'.id = goals + 1
            /\ goal'.status = "active"
        BY <1>1, <2>1, <3>1, Bounds DEF GoalTyped, Goals, Revisions, Ids
      <3>3. GoalStep
        BY <1>1, <3>1, <3>2, Bounds DEF GoalStep, GoalTyped, GoalsAreCounted, Identified,
           NoGoal, Goals, Ids
      <3> QED BY <1>1, <2>1, <2>2, <3>3
    <2> QED BY <2>3, <2>4
  <1>3. CASE ~(valid /\ Applies)
    <2>1. UNCHANGED <<goal, goals, pending>> /\ Goes("clearing")
      BY <1>3 DEF ApplyProposal
    <2>2. run' \in Runs /\ run'.phase = "clearing" /\ SameRun
      BY <1>1, <2>1, GoesFacts DEF Phases
    <2> QED BY <1>1, <2>1, <2>2, GoalStutters
  <1> QED BY <1>2, <1>3

(* What goal.mutate does: it is refused, queued while the Thread was active, *)
(* or applied.                                                               *)
LEMMA MutateFacts ==
    ASSUME IInv, Mutate
    PROVE  /\ GoalStep /\ UNCHANGED <<goals, evals, run, opener>> /\ ctl' = NoRequest
           /\ \/ UNCHANGED <<goal, pending, ledger, effects>>
              \/ /\ ctl.op \in Ops /\ ledger[ctl.op].kind = "new" /\ QueuedOps = {}
                 /\ \E kind \in {"queued", "applied"} :
                       /\ ledger' = [ledger EXCEPT ![ctl.op] = [ctl.intent EXCEPT !.kind = kind]]
                       /\ \/ /\ kind = "queued" /\ ctl.active
                             /\ pending = NoPending /\ UNCHANGED <<goal, pending, effects>>
                          \/ /\ kind = "applied" /\ ~ctl.active
                             /\ pending' \in {pending, NoPending}
                             /\ effects' = [effects EXCEPT ![ctl.op] = effects[ctl.op] + 1]
  <1>1. /\ UNCHANGED <<goals, evals, run, opener>> /\ ctl' = NoRequest
        /\ ctl.op # NoOp
    BY DEF Mutate
  <1>2. /\ ctl.op \in Ops /\ ctl.active \in BOOLEAN
        /\ ctl.intent \in Operations({"request", "mutate", "new", "requested", "queued",
                                      "applied"})
    BY <1>1, TypeParts DEF IInv, CtlTyped, Operations
  <1>3. CASE ~MayMutate(ctl.intent)
    BY <1>1, <1>3, GoalStutters DEF Mutate
  <1>4. CASE MayMutate(ctl.intent) /\ ctl.active
    <2>1. /\ ledger' = [ledger EXCEPT ![ctl.op] = [ctl.intent EXCEPT !.kind = "queued"]]
          /\ UNCHANGED <<goal, pending, effects>>
      BY <1>4 DEF Mutate
    <2>2. pending = NoPending /\ ledger[ctl.op].kind = "new" /\ QueuedOps = {}
      BY <1>4 DEF MayMutate, Replayed
    <2> QED BY <1>1, <1>2, <1>4, <2>1, <2>2, GoalStutters
  <1>5. CASE MayMutate(ctl.intent) /\ ~ctl.active
    <2>1. /\ ledger' = [ledger EXCEPT ![ctl.op] = [ctl.intent EXCEPT !.kind = "applied"]]
          /\ Apply(ctl.intent) /\ TakesEffect(ctl.op)
      BY <1>5 DEF Mutate
    <2>2. /\ ledger[ctl.op].kind = "new" /\ QueuedOps = {}
          /\ ValidBase(ctl.intent) /\ Applicable(ctl.intent)
      BY <1>5 DEF MayMutate, Replayed
    <2>3. GoalMutates /\ pending' \in {pending, NoPending}
      BY <1>2, <2>1, <2>2, ApplyFacts DEF IInv
    <2> QED BY <1>1, <1>2, <1>5, <2>1, <2>2, <2>3, GoalMutatesSteps DEF TakesEffect
  <1> QED BY <1>2, <1>3, <1>4, <1>5

LEMMA MutateWaits ==
    ASSUME IInv, Mutate
    PROVE  UNCHANGED <<goal, pending>> \/ ctl.active = FALSE
  <1>1. ctl.active \in BOOLEAN
    BY TypeParts DEF IInv, CtlTyped
  <1>2. CASE ctl.active = TRUE
    <2>1. UNCHANGED <<goal, pending, effects>> \/ ~MayMutate(ctl.intent)
      BY <1>2 DEF Mutate
    <2>2. ~MayMutate(ctl.intent) => UNCHANGED <<goal, pending, ledger, effects>>
      BY DEF Mutate
    <2> QED BY <2>1, <2>2
  <1> QED BY <1>1, <1>2

LEMMA SettleFacts ==
    ASSUME IInv, SettleGoal
    PROVE  /\ GoalStep /\ run' \in Runs /\ run'.phase = "none" /\ SameRun
           /\ \/ Reconcile
              \/ /\ pending' \in {pending, NoPending}
                 /\ UNCHANGED <<goal, goals, ledger, effects, evals>>
  <1>1. run \in Runs /\ Goes("none")
    BY TypeParts DEF IInv, SettleGoal
  <1>2. run' \in Runs /\ run'.phase = "none" /\ SameRun
    BY <1>1, GoesFacts DEF Phases
  <1>3. CASE run.cancelled /\ run.kind = "proposal"
    BY <1>2, <1>3, GoalStutters DEF SettleGoal
  <1>4. CASE ~(run.cancelled /\ run.kind = "proposal")
    BY <1>2, <1>4, ReconcileFacts, GoalMutatesSteps DEF SettleGoal, IInv
  <1> QED BY <1>3, <1>4

(* The empty values are typed. *)
LEMMA NoPendingTyped == NoPending \in Proposals /\ NoPending.req = NoOp
  BY Bounds DEF NoPending, Proposals, NoOp, Ids, Revisions

LEMMA NoRequestTyped ==
    /\ NoRequest \in [op : Ops \cup {NoOp}, intent : Operations({"new", "request", "mutate"}),
                      active : BOOLEAN]
    /\ NoRequest.intent.kind = "new" /\ NoRequest.op = NoOp
  <1>1. NewOp \in Operations({"new", "request", "mutate"}) /\ NewOp.kind = "new"
    BY Bounds DEF NewOp, Operations, Ids, Revisions
  <1> QED BY <1>1 DEF NoRequest

(* A proposal that reconcile makes ready stays what it was. *)
LEMMA ReconcileTyped ==
    ASSUME TypeOK, Reconcile
    PROVE  PendingTyped'
  BY ReconcileFacts, TypeParts, NoPendingTyped DEF PendingTyped

(* An operation enters the ledger, or reconcile marks it as applied. *)
LEMMA LedgerWritten ==
    ASSUME LedgerTyped, NEW o \in Ops, NEW i \in Operations({"new", "request", "mutate"}),
           NEW kind \in {"requested", "queued", "applied"},
           ledger' = [ledger EXCEPT ![o] = [i EXCEPT !.kind = kind]],
           effects' \in {effects, [effects EXCEPT ![o] = effects[o] + 1]}
    PROVE  LedgerTyped'
  <1>1. [i EXCEPT !.kind = kind] \in Operations({"new", "requested", "queued", "applied"})
    BY DEF Operations
  <1>2. ledger' \in [Ops -> Operations({"new", "requested", "queued", "applied"})]
    BY <1>1 DEF LedgerTyped
  <1>3. effects' \in [Ops -> Nat]
    BY DEF LedgerTyped
  <1> QED BY <1>2, <1>3 DEF LedgerTyped

LEMMA ReconcileLedger ==
    ASSUME TypeOK, Reconcile
    PROVE  LedgerTyped'
  <1>1. LedgerTyped
    BY TypeParts
  <1>2. CASE UNCHANGED <<ledger, effects>>
    BY <1>1, <1>2 DEF LedgerTyped
  <1>3. ASSUME NEW o \in QueuedOps, ledger' = [ledger EXCEPT ![o].kind = "applied"],
               effects' = [effects EXCEPT ![o] = effects[o] + 1]
        PROVE  LedgerTyped'
    <2>1. ledger' \in [Ops -> Operations({"new", "requested", "queued", "applied"})]
      BY <1>1, <1>3 DEF LedgerTyped, Operations, QueuedOps
    <2>2. effects' \in [Ops -> Nat]
      BY <1>1, <1>3 DEF LedgerTyped, QueuedOps
    <2> QED BY <2>1, <2>2 DEF LedgerTyped
  <1> QED BY <1>2, <1>3, ReconcileFacts

LEMMA ReconcileWaits ==
    ASSUME IInv, Reconcile
    PROVE  OneChangeWaits'
  <1>1. LedgerTyped
    BY TypeParts DEF IInv
  <1>2. CASE UNCHANGED <<ledger, effects>> /\ UNCHANGED pending
    BY <1>2 DEF IInv, OneChangeWaits, QueuedOps
  <1>3. CASE UNCHANGED <<ledger, effects>> /\ QueuedOps = {}
    BY <1>3 DEF IInv, OneChangeWaits, QueuedOps
  <1>4. ASSUME NEW p \in QueuedOps, ledger' = [ledger EXCEPT ![p].kind = "applied"],
               effects' = [effects EXCEPT ![p] = effects[p] + 1]
        PROVE  OneChangeWaits'
    <2>1. \A o \in Ops : IF o = p THEN ledger'[o].kind = "applied" ELSE ledger'[o] = ledger[o]
      BY <1>1, <1>4 DEF LedgerTyped, Operations, QueuedOps
    <2>2. QueuedOps' = {}
      BY <1>4, <2>1 DEF QueuedOps, IInv, OneChangeWaits
    <2>3. \A o \in Ops : effects'[o] = IF o = p THEN effects[o] + 1 ELSE effects[o]
      BY <1>1, <1>4 DEF LedgerTyped
    <2>4. p \in Ops /\ effects[p] = 0
      BY <1>4 DEF IInv, OneChangeWaits, QueuedOps
    <2> QED BY <1>1, <2>1, <2>2, <2>3, <2>4 DEF IInv, OneChangeWaits, LedgerTyped
  <1> QED BY <1>2, <1>3, <1>4, ReconcileFacts DEF IInv

(* Every step treats the Goal as one of its identities. *)
LEMMA GoalSteps ==
    ASSUME IInv, Next
    PROVE  GoalStep
  <1>1. ASSUME NEW o \in Ops, NEW i \in Intents, BeginRequest(o, i) PROVE GoalStep
    BY <1>1, GoalStutters DEF BeginRequest, store
  <1>2. ASSUME Request PROVE GoalStep
    BY <1>2, GoalStutters DEF Request
  <1>3. ASSUME Mutate PROVE GoalStep
    BY <1>3, MutateFacts
  <1>4. ASSUME NEW k \in 1..MaxRuns, Undo(k) PROVE GoalStep
    BY <1>4, UndoSteps
  <1>5. ASSUME OpenThread PROVE GoalStep
    BY <1>5, GoalStutters DEF OpenThread, store
  <1>6. ASSUME OpenReconciles PROVE GoalStep
    BY <1>6, ReconcileFacts, GoalMutatesSteps DEF OpenReconciles, IInv
  <1>7. ASSUME NEW kind \in {"user", "continuation", "proposal"}, StartRun(kind) PROVE
        GoalStep
    BY <1>7, GoalStutters DEF StartRun, store
  <1>8. ASSUME NEW ok \in BOOLEAN, Evaluate(ok) PROVE GoalStep
    BY <1>8, GoalStutters DEF Evaluate
  <1>9. ASSUME BlockGoal PROVE GoalStep
    BY <1>9, BlockGoalSteps
  <1>10. ASSUME CancelRun PROVE GoalStep
    BY <1>10, GoalStutters DEF CancelRun, store
  <1>11. ASSUME NEW graded \in BOOLEAN, BindGoal(graded) PROVE GoalStep
    BY <1>11, GoalStutters DEF BindGoal, store
  <1>12. ASSUME NEW graded \in BOOLEAN, ActivateFromBlocked(graded) PROVE GoalStep
    BY <1>12, ActivateFacts
  <1>13. ASSUME NEW completed \in BOOLEAN, RunEnds(completed) PROVE GoalStep
    BY <1>13, GoalStutters DEF RunEnds, store
  <1>14. ASSUME CommitCompletion PROVE GoalStep
    BY <1>14, CommitFacts
  <1>15. ASSUME ClearPriorBlocker PROVE GoalStep
    BY <1>15, ClearFacts
  <1>16. ASSUME SettleGoal PROVE GoalStep
    BY <1>16, SettleFacts
  <1>17. ASSUME RunCancelled PROVE GoalStep
    BY <1>17, GoalStutters DEF RunCancelled, store
  <1>18. ASSUME CheckProposal PROVE GoalStep
    BY <1>18, GoalStutters DEF CheckProposal, store, SetProposal
  <1>19. ASSUME SaveProposal PROVE GoalStep
    BY <1>19, GoalStutters DEF SaveProposal
  <1>20. ASSUME DraftFails PROVE GoalStep
    BY <1>20, GoalStutters DEF DraftFails, SetProposal
  <1>21. ASSUME Clarify PROVE GoalStep
    BY <1>21, GoalStutters DEF Clarify, SetProposal
  <1>22. ASSUME Clarified PROVE GoalStep
    BY <1>22, GoalStutters DEF Clarified, SetProposal
  <1>23. ASSUME CancelProposal PROVE GoalStep
    BY <1>23, GoalStutters DEF CancelProposal
  <1>24. ASSUME RejectProposal PROVE GoalStep
    BY <1>24, GoalStutters DEF RejectProposal, SetProposal
  <1>25. ASSUME NEW valid \in BOOLEAN, ApplyProposal(valid) PROVE GoalStep
    BY <1>25, ApplyProposalFacts
  <1>26. ASSUME Crash PROVE GoalStep
    BY <1>26, GoalStutters DEF Crash, store
  <1> QED BY <1>1, <1>2, <1>3, <1>4, <1>5, <1>6, <1>7, <1>8, <1>9, <1>10, <1>11, <1>12,
      <1>13, <1>14, <1>15, <1>16, <1>17, <1>18, <1>19, <1>20, <1>21, <1>22, <1>23,
      <1>24, <1>25, <1>26 DEF Next, BuildSteps, ProposalSteps

(* A Run is bound to a Goal that exists. *)
LEMMA RunSteps ==
    ASSUME IInv, Next
    PROVE  run' \in Runs
  <1> USE TypeParts DEF IInv
  <1>1. ASSUME NEW o \in Ops, NEW i \in Intents, BeginRequest(o, i) PROVE run' \in Runs
    BY <1>1 DEF BeginRequest
  <1>2. ASSUME Request PROVE run' \in Runs
    BY <1>2 DEF Request
  <1>3. ASSUME Mutate PROVE run' \in Runs
    BY <1>3, MutateFacts
  <1>4. ASSUME NEW k \in 1..MaxRuns, Undo(k) PROVE run' \in Runs
    BY <1>4 DEF Undo
  <1>5. ASSUME OpenThread PROVE run' \in Runs
    BY <1>5 DEF OpenThread
  <1>6. ASSUME OpenReconciles PROVE run' \in Runs
    BY <1>6 DEF OpenReconciles
  <1>7. ASSUME NEW kind \in {"user", "continuation", "proposal"}, StartRun(kind) PROVE
        run' \in Runs
    <2> DEFINE n == run.n + 1
               p == IF kind = "proposal" THEN "checking" ELSE "starting"
               r == IF kind = "proposal" THEN pending.req ELSE NoOp
    <2>1. run' = [NoRun EXCEPT !.n = n, !.kind = kind, !.phase = p, !.req = r]
      BY <1>7 DEF StartRun
    <2>2. n \in 0..MaxRuns /\ p \in Phases /\ r \in Ops \cup {NoOp}
      BY <1>7, Bounds DEF StartRun, Runs, Phases, PendingTyped, Proposals
    <2>3. 0 \in Ids /\ 0 \in Revisions
      BY Bounds DEF Ids, Revisions
    <2> HIDE DEF n, p, r
    <2> QED BY <2>1, <2>2, <2>3 DEF NoRun, Runs
  <1>8. ASSUME NEW ok \in BOOLEAN, Evaluate(ok) PROVE run' \in Runs
    BY <1>8 DEF Evaluate
  <1>9. ASSUME BlockGoal PROVE run' \in Runs
    BY <1>9 DEF BlockGoal
  <1>10. ASSUME CancelRun PROVE run' \in Runs
    BY <1>10 DEF CancelRun, Runs
  <1>11. ASSUME NEW graded \in BOOLEAN, BindGoal(graded) PROVE run' \in Runs
    <2>1. CASE Bind(goal, graded)
      <3> DEFINE b == graded /\ goal.status = "active"
      <3>1. run' = [run EXCEPT !.phase = "running", !.id = goal.id, !.rev = goal.rev,
                               !.backed = b, !.blocker = goal.blocker]
        BY <2>1 DEF Bind
      <3>2. b \in BOOLEAN /\ goal.id \in Ids /\ goal.rev \in Revisions /\ goal.blocker \in BOOLEAN
        BY DEF GoalTyped, Goals
      <3> HIDE DEF b
      <3> QED BY <3>1, <3>2 DEF Runs, Phases
    <2>2. CASE run' = [run EXCEPT !.phase = "unblocking", !.id = goal.id, !.rev = goal.rev]
      BY <2>2 DEF GoalTyped, Goals, Runs, Phases
    <2> QED BY <1>11, <2>1, <2>2 DEF BindGoal
  <1>12. ASSUME NEW graded \in BOOLEAN, ActivateFromBlocked(graded) PROVE run' \in Runs
    BY <1>12, ActivateFacts
  <1>13. ASSUME NEW completed \in BOOLEAN, RunEnds(completed) PROVE run' \in Runs
    BY <1>13, GoesFacts DEF RunEnds, Phases
  <1>14. ASSUME CommitCompletion PROVE run' \in Runs
    BY <1>14, CommitFacts
  <1>15. ASSUME ClearPriorBlocker PROVE run' \in Runs
    BY <1>15, ClearFacts
  <1>16. ASSUME SettleGoal PROVE run' \in Runs
    BY <1>16, SettleFacts
  <1>17. ASSUME RunCancelled PROVE run' \in Runs
    BY <1>17, GoesFacts DEF RunCancelled, Phases
  <1>18. ASSUME CheckProposal PROVE run' \in Runs
    BY <1>18, GoesFacts DEF CheckProposal, Phases
  <1>19. ASSUME SaveProposal PROVE run' \in Runs
    BY <1>19, GoesFacts DEF SaveProposal, Phases
  <1>20. ASSUME DraftFails PROVE run' \in Runs
    BY <1>20, GoesFacts DEF DraftFails, Phases
  <1>21. ASSUME Clarify PROVE run' \in Runs
    BY <1>21, GoesFacts DEF Clarify, Phases
  <1>22. ASSUME Clarified PROVE run' \in Runs
    BY <1>22, GoesFacts DEF Clarified, Phases
  <1>23. ASSUME CancelProposal PROVE run' \in Runs
    BY <1>23, GoesFacts DEF CancelProposal, Phases
  <1>24. ASSUME RejectProposal PROVE run' \in Runs
    BY <1>24, GoesFacts DEF RejectProposal, Phases
  <1>25. ASSUME NEW valid \in BOOLEAN, ApplyProposal(valid) PROVE run' \in Runs
    BY <1>25, ApplyProposalFacts
  <1>26. ASSUME Crash PROVE run' \in Runs
    BY <1>26 DEF Crash, Runs, Phases
  <1> QED BY <1>1, <1>2, <1>3, <1>4, <1>5, <1>6, <1>7, <1>8, <1>9, <1>10, <1>11, <1>12,
      <1>13, <1>14, <1>15, <1>16, <1>17, <1>18, <1>19, <1>20, <1>21, <1>22, <1>23,
      <1>24, <1>25, <1>26 DEF Next, BuildSteps, ProposalSteps

(* The pending proposal is there when a Run writes its status. *)
LEMMA PendingSteps ==
    ASSUME IInv, Next
    PROVE  PendingTyped'
  <1> USE TypeParts DEF IInv
  <1>1. ASSUME NEW o \in Ops, NEW i \in Intents, BeginRequest(o, i) PROVE PendingTyped'
    BY <1>1 DEF BeginRequest, store, PendingTyped
  <1>2. ASSUME Request PROVE PendingTyped'
    <2>1. CASE UNCHANGED pending
      BY <2>1 DEF PendingTyped
    <2>2. CASE MayRequest(ctl.intent)
      <3> DEFINE i == ctl.intent
                 s == IF ctl.active THEN "queued" ELSE "ready"
                 o == ctl.op
                 r == goal.rev
      <3>1. pending' = [req |-> o, kind |-> i.action, id |-> i.id, rev |-> r, status |-> s,
                        draft |-> FALSE]
        BY <1>2, <2>2 DEF Request
      <3>2. /\ o \in Ops \cup {NoOp} /\ o # NoOp /\ i.action \in {"create", "replace", "amend"}
            /\ i.id \in Ids /\ r \in Revisions /\ s \in {"queued", "ready"}
        BY <1>2 DEF Request, CtlTyped, Operations, GoalTyped, Goals
      <3> HIDE DEF o, i, r, s
      <3>3. pending' \in Proposals /\ pending'.req # NoOp
        BY <3>1, <3>2 DEF Proposals
      <3> QED BY <3>3, NoPendingTyped DEF PendingTyped
    <2> QED BY <1>2, <2>1, <2>2 DEF Request
  <1>3. ASSUME Mutate PROVE PendingTyped'
    BY <1>3, MutateFacts, NoPendingTyped DEF PendingTyped
  <1>4. ASSUME NEW k \in 1..MaxRuns, Undo(k) PROVE PendingTyped'
    BY <1>4 DEF Undo, PendingTyped
  <1>5. ASSUME OpenThread PROVE PendingTyped'
    BY <1>5 DEF OpenThread, store, PendingTyped
  <1>6. ASSUME OpenReconciles PROVE PendingTyped'
    BY <1>6, ReconcileTyped DEF OpenReconciles
  <1>7. ASSUME NEW kind \in {"user", "continuation", "proposal"}, StartRun(kind) PROVE
        PendingTyped'
    BY <1>7 DEF StartRun, store, PendingTyped
  <1>8. ASSUME NEW ok \in BOOLEAN, Evaluate(ok) PROVE PendingTyped'
    BY <1>8 DEF Evaluate, PendingTyped
  <1>9. ASSUME BlockGoal PROVE PendingTyped'
    BY <1>9 DEF BlockGoal, PendingTyped
  <1>10. ASSUME CancelRun PROVE PendingTyped'
    BY <1>10 DEF CancelRun, store, PendingTyped
  <1>11. ASSUME NEW graded \in BOOLEAN, BindGoal(graded) PROVE PendingTyped'
    BY <1>11 DEF BindGoal, store, PendingTyped
  <1>12. ASSUME NEW graded \in BOOLEAN, ActivateFromBlocked(graded) PROVE PendingTyped'
    BY <1>12 DEF ActivateFromBlocked, PendingTyped
  <1>13. ASSUME NEW completed \in BOOLEAN, RunEnds(completed) PROVE PendingTyped'
    BY <1>13 DEF RunEnds, store, PendingTyped
  <1>14. ASSUME CommitCompletion PROVE PendingTyped'
    BY <1>14 DEF CommitCompletion, PendingTyped
  <1>15. ASSUME ClearPriorBlocker PROVE PendingTyped'
    BY <1>15 DEF ClearPriorBlocker, PendingTyped
  <1>16. ASSUME SettleGoal PROVE PendingTyped'
    <2>1. CASE Reconcile
      BY <2>1, ReconcileTyped
    <2>2. CASE pending' \in {pending, NoPending}
      BY <2>2, NoPendingTyped DEF PendingTyped
    <2> QED BY <1>16, <2>1, <2>2, SettleFacts
  <1>17. ASSUME RunCancelled PROVE PendingTyped'
    BY <1>17 DEF RunCancelled, store, PendingTyped
  <1>18. ASSUME CheckProposal PROVE PendingTyped'
    <2>1. CASE UNCHANGED pending
      BY <2>1 DEF PendingTyped
    <2>2. CASE SetProposal("drafting") /\ run.req # NoOp /\ pending.req = run.req
      BY <2>2, SetProposalFacts, NoPendingTyped
    <2> QED BY <1>18, <2>1, <2>2 DEF CheckProposal, store
  <1>19. ASSUME SaveProposal PROVE PendingTyped'
    <2>1. pending # NoPending
      BY <1>19, NoPendingTyped DEF SaveProposal, ProposalIsThere
    <2> QED BY <1>19, <2>1, ProposalFacts DEF SaveProposal
  <1>20. ASSUME DraftFails PROVE PendingTyped'
    <2>1. pending # NoPending
      BY <1>20, NoPendingTyped DEF DraftFails, ProposalIsThere
    <2> QED BY <1>20, <2>1, SetProposalFacts DEF DraftFails
  <1>21. ASSUME Clarify PROVE PendingTyped'
    <2>1. pending # NoPending
      BY <1>21, NoPendingTyped DEF Clarify, ProposalIsThere
    <2> QED BY <1>21, <2>1, SetProposalFacts DEF Clarify
  <1>22. ASSUME Clarified PROVE PendingTyped'
    <2>1. pending # NoPending
      BY <1>22, NoPendingTyped DEF Clarified, ProposalIsThere
    <2> QED BY <1>22, <2>1, SetProposalFacts DEF Clarified
  <1>23. ASSUME CancelProposal PROVE PendingTyped'
    BY <1>23, NoPendingTyped DEF CancelProposal, PendingTyped
  <1>24. ASSUME RejectProposal PROVE PendingTyped'
    <2>1. pending # NoPending
      BY <1>24, NoPendingTyped DEF RejectProposal, ProposalIsThere
    <2> QED BY <1>24, <2>1, SetProposalFacts DEF RejectProposal
  <1>25. ASSUME NEW valid \in BOOLEAN, ApplyProposal(valid) PROVE PendingTyped'
    BY <1>25, ApplyProposalFacts, NoPendingTyped DEF PendingTyped
  <1>26. ASSUME Crash PROVE PendingTyped'
    BY <1>26 DEF Crash, store, PendingTyped
  <1> QED BY <1>1, <1>2, <1>3, <1>4, <1>5, <1>6, <1>7, <1>8, <1>9, <1>10, <1>11, <1>12,
      <1>13, <1>14, <1>15, <1>16, <1>17, <1>18, <1>19, <1>20, <1>21, <1>22, <1>23,
      <1>24, <1>25, <1>26 DEF Next, BuildSteps, ProposalSteps

(* An operation is stored as it was intended. *)
LEMMA LedgerSteps ==
    ASSUME IInv, Next
    PROVE  LedgerTyped'
  <1> USE TypeParts DEF IInv
  <1>1. ASSUME NEW o \in Ops, NEW i \in Intents, BeginRequest(o, i) PROVE LedgerTyped'
    BY <1>1 DEF BeginRequest, store, LedgerTyped
  <1>2. ASSUME Request PROVE LedgerTyped'
    <2>1. CASE UNCHANGED <<ledger, effects>>
      BY <2>1 DEF LedgerTyped
    <2>2. CASE MayRequest(ctl.intent)
      BY <1>2, <2>2, LedgerWritten DEF Request, TakesEffect, CtlTyped
    <2> QED BY <1>2, <2>1, <2>2 DEF Request
  <1>3. ASSUME Mutate PROVE LedgerTyped'
    <2>1. CASE UNCHANGED <<ledger, effects>>
      BY <2>1 DEF LedgerTyped
    <2>2. ASSUME ctl.op \in Ops, NEW kind \in {"queued", "applied"},
                 ledger' = [ledger EXCEPT ![ctl.op] = [ctl.intent EXCEPT !.kind = kind]],
                 effects' \in {effects, [effects EXCEPT ![ctl.op] = effects[ctl.op] + 1]}
          PROVE  LedgerTyped'
      BY <2>2, LedgerWritten DEF CtlTyped
    <2> QED BY <1>3, <2>1, <2>2, MutateFacts
  <1>4. ASSUME NEW k \in 1..MaxRuns, Undo(k) PROVE LedgerTyped'
    BY <1>4 DEF Undo, LedgerTyped
  <1>5. ASSUME OpenThread PROVE LedgerTyped'
    BY <1>5 DEF OpenThread, store, LedgerTyped
  <1>6. ASSUME OpenReconciles PROVE LedgerTyped'
    BY <1>6, ReconcileLedger DEF OpenReconciles
  <1>7. ASSUME NEW kind \in {"user", "continuation", "proposal"}, StartRun(kind) PROVE
        LedgerTyped'
    BY <1>7 DEF StartRun, store, LedgerTyped
  <1>8. ASSUME NEW ok \in BOOLEAN, Evaluate(ok) PROVE LedgerTyped'
    BY <1>8 DEF Evaluate, LedgerTyped
  <1>9. ASSUME BlockGoal PROVE LedgerTyped'
    BY <1>9 DEF BlockGoal, LedgerTyped
  <1>10. ASSUME CancelRun PROVE LedgerTyped'
    BY <1>10 DEF CancelRun, store, LedgerTyped
  <1>11. ASSUME NEW graded \in BOOLEAN, BindGoal(graded) PROVE LedgerTyped'
    BY <1>11 DEF BindGoal, store, LedgerTyped
  <1>12. ASSUME NEW graded \in BOOLEAN, ActivateFromBlocked(graded) PROVE LedgerTyped'
    BY <1>12 DEF ActivateFromBlocked, LedgerTyped
  <1>13. ASSUME NEW completed \in BOOLEAN, RunEnds(completed) PROVE LedgerTyped'
    BY <1>13 DEF RunEnds, store, LedgerTyped
  <1>14. ASSUME CommitCompletion PROVE LedgerTyped'
    BY <1>14 DEF CommitCompletion, LedgerTyped
  <1>15. ASSUME ClearPriorBlocker PROVE LedgerTyped'
    BY <1>15 DEF ClearPriorBlocker, LedgerTyped
  <1>16. ASSUME SettleGoal PROVE LedgerTyped'
    BY <1>16, SettleFacts, ReconcileLedger DEF LedgerTyped
  <1>17. ASSUME RunCancelled PROVE LedgerTyped'
    BY <1>17 DEF RunCancelled, store, LedgerTyped
  <1>18. ASSUME CheckProposal PROVE LedgerTyped'
    BY <1>18 DEF CheckProposal, SetProposal, store, LedgerTyped
  <1>19. ASSUME SaveProposal PROVE LedgerTyped'
    BY <1>19 DEF SaveProposal, LedgerTyped
  <1>20. ASSUME DraftFails PROVE LedgerTyped'
    BY <1>20 DEF DraftFails, SetProposal, LedgerTyped
  <1>21. ASSUME Clarify PROVE LedgerTyped'
    BY <1>21 DEF Clarify, SetProposal, LedgerTyped
  <1>22. ASSUME Clarified PROVE LedgerTyped'
    BY <1>22 DEF Clarified, SetProposal, LedgerTyped
  <1>23. ASSUME CancelProposal PROVE LedgerTyped'
    BY <1>23 DEF CancelProposal, LedgerTyped
  <1>24. ASSUME RejectProposal PROVE LedgerTyped'
    BY <1>24 DEF RejectProposal, SetProposal, LedgerTyped
  <1>25. ASSUME NEW valid \in BOOLEAN, ApplyProposal(valid) PROVE LedgerTyped'
    BY <1>25 DEF ApplyProposal, LedgerTyped
  <1>26. ASSUME Crash PROVE LedgerTyped'
    BY <1>26 DEF Crash, store, LedgerTyped
  <1> QED BY <1>1, <1>2, <1>3, <1>4, <1>5, <1>6, <1>7, <1>8, <1>9, <1>10, <1>11, <1>12,
      <1>13, <1>14, <1>15, <1>16, <1>17, <1>18, <1>19, <1>20, <1>21, <1>22, <1>23,
      <1>24, <1>25, <1>26 DEF Next, BuildSteps, ProposalSteps

(* An evaluation names the Goal of its Run. *)
LEMMA EvalsSteps ==
    ASSUME IInv, Next
    PROVE  EvalsTyped'
  <1> USE TypeParts DEF IInv
  <1>1. ASSUME NEW o \in Ops, NEW i \in Intents, BeginRequest(o, i) PROVE EvalsTyped'
    BY <1>1 DEF BeginRequest, store, EvalsTyped
  <1>2. ASSUME Request PROVE EvalsTyped'
    BY <1>2 DEF Request, EvalsTyped
  <1>3. ASSUME Mutate PROVE EvalsTyped'
    BY <1>3 DEF Mutate, EvalsTyped
  <1>4. ASSUME NEW k \in 1..MaxRuns, Undo(k) PROVE EvalsTyped'
    BY <1>4 DEF Undo, EvalsTyped
  <1>5. ASSUME OpenThread PROVE EvalsTyped'
    BY <1>5 DEF OpenThread, store, EvalsTyped
  <1>6. ASSUME OpenReconciles PROVE EvalsTyped'
    BY <1>6, ReconcileFacts DEF OpenReconciles, EvalsTyped
  <1>7. ASSUME NEW kind \in {"user", "continuation", "proposal"}, StartRun(kind) PROVE
        EvalsTyped'
    BY <1>7 DEF StartRun, store, EvalsTyped
  <1>8. ASSUME NEW ok \in BOOLEAN, Evaluate(ok) PROVE EvalsTyped'
    BY <1>8 DEF Evaluate, EvalsTyped, Runs
  <1>9. ASSUME BlockGoal PROVE EvalsTyped'
    BY <1>9 DEF BlockGoal, EvalsTyped
  <1>10. ASSUME CancelRun PROVE EvalsTyped'
    BY <1>10 DEF CancelRun, store, EvalsTyped
  <1>11. ASSUME NEW graded \in BOOLEAN, BindGoal(graded) PROVE EvalsTyped'
    BY <1>11 DEF BindGoal, store, EvalsTyped
  <1>12. ASSUME NEW graded \in BOOLEAN, ActivateFromBlocked(graded) PROVE EvalsTyped'
    BY <1>12 DEF ActivateFromBlocked, EvalsTyped
  <1>13. ASSUME NEW completed \in BOOLEAN, RunEnds(completed) PROVE EvalsTyped'
    BY <1>13 DEF RunEnds, store, EvalsTyped
  <1>14. ASSUME CommitCompletion PROVE EvalsTyped'
    BY <1>14 DEF CommitCompletion, EvalsTyped
  <1>15. ASSUME ClearPriorBlocker PROVE EvalsTyped'
    BY <1>15 DEF ClearPriorBlocker, EvalsTyped
  <1>16. ASSUME SettleGoal PROVE EvalsTyped'
    BY <1>16, SettleFacts, ReconcileFacts DEF EvalsTyped
  <1>17. ASSUME RunCancelled PROVE EvalsTyped'
    BY <1>17 DEF RunCancelled, store, EvalsTyped
  <1>18. ASSUME CheckProposal PROVE EvalsTyped'
    BY <1>18 DEF CheckProposal, SetProposal, store, EvalsTyped
  <1>19. ASSUME SaveProposal PROVE EvalsTyped'
    BY <1>19 DEF SaveProposal, EvalsTyped
  <1>20. ASSUME DraftFails PROVE EvalsTyped'
    BY <1>20 DEF DraftFails, SetProposal, EvalsTyped
  <1>21. ASSUME Clarify PROVE EvalsTyped'
    BY <1>21 DEF Clarify, SetProposal, EvalsTyped
  <1>22. ASSUME Clarified PROVE EvalsTyped'
    BY <1>22 DEF Clarified, SetProposal, EvalsTyped
  <1>23. ASSUME CancelProposal PROVE EvalsTyped'
    BY <1>23 DEF CancelProposal, EvalsTyped
  <1>24. ASSUME RejectProposal PROVE EvalsTyped'
    BY <1>24 DEF RejectProposal, SetProposal, EvalsTyped
  <1>25. ASSUME NEW valid \in BOOLEAN, ApplyProposal(valid) PROVE EvalsTyped'
    BY <1>25 DEF ApplyProposal, EvalsTyped
  <1>26. ASSUME Crash PROVE EvalsTyped'
    BY <1>26 DEF Crash, store, EvalsTyped
  <1> QED BY <1>1, <1>2, <1>3, <1>4, <1>5, <1>6, <1>7, <1>8, <1>9, <1>10, <1>11, <1>12,
      <1>13, <1>14, <1>15, <1>16, <1>17, <1>18, <1>19, <1>20, <1>21, <1>22, <1>23,
      <1>24, <1>25, <1>26 DEF Next, BuildSteps, ProposalSteps

(* A request is an intent of a client. *)
LEMMA CtlSteps ==
    ASSUME IInv, Next
    PROVE  CtlTyped'
  <1> USE TypeParts DEF IInv
  <1>1. ASSUME NEW o \in Ops, NEW i \in Intents, BeginRequest(o, i) PROVE CtlTyped'
    <2>1. i \in Operations({"request", "mutate"})
          /\ (i.kind = "request" => i.action \in {"create", "replace", "amend"})
      BY IntentsTyped DEF IInv
    <2>2. i \in Operations({"new", "request", "mutate"}) /\ Active \in BOOLEAN
      BY <2>1 DEF Operations, Active
    <2>3. ctl' = [op |-> o, intent |-> i, active |-> Active] /\ UNCHANGED opener
      BY <1>1 DEF BeginRequest
    <2> QED BY <2>1, <2>2, <2>3 DEF CtlTyped
  <1>2. ASSUME Request PROVE CtlTyped'
    BY <1>2, NoRequestTyped DEF Request, CtlTyped
  <1>3. ASSUME Mutate PROVE CtlTyped'
    BY <1>3, NoRequestTyped DEF Mutate, CtlTyped
  <1>4. ASSUME NEW k \in 1..MaxRuns, Undo(k) PROVE CtlTyped'
    BY <1>4 DEF Undo, CtlTyped
  <1>5. ASSUME OpenThread PROVE CtlTyped'
    BY <1>5 DEF OpenThread, store, CtlTyped
  <1>6. ASSUME OpenReconciles PROVE CtlTyped'
    BY <1>6 DEF OpenReconciles, CtlTyped
  <1>7. ASSUME NEW kind \in {"user", "continuation", "proposal"}, StartRun(kind) PROVE
        CtlTyped'
    BY <1>7 DEF StartRun, store, CtlTyped
  <1>8. ASSUME NEW ok \in BOOLEAN, Evaluate(ok) PROVE CtlTyped'
    BY <1>8 DEF Evaluate, CtlTyped
  <1>9. ASSUME BlockGoal PROVE CtlTyped'
    BY <1>9 DEF BlockGoal, CtlTyped
  <1>10. ASSUME CancelRun PROVE CtlTyped'
    BY <1>10 DEF CancelRun, store, CtlTyped
  <1>11. ASSUME NEW graded \in BOOLEAN, BindGoal(graded) PROVE CtlTyped'
    BY <1>11 DEF BindGoal, store, CtlTyped
  <1>12. ASSUME NEW graded \in BOOLEAN, ActivateFromBlocked(graded) PROVE CtlTyped'
    BY <1>12 DEF ActivateFromBlocked, CtlTyped
  <1>13. ASSUME NEW completed \in BOOLEAN, RunEnds(completed) PROVE CtlTyped'
    BY <1>13 DEF RunEnds, store, CtlTyped
  <1>14. ASSUME CommitCompletion PROVE CtlTyped'
    BY <1>14 DEF CommitCompletion, CtlTyped
  <1>15. ASSUME ClearPriorBlocker PROVE CtlTyped'
    BY <1>15 DEF ClearPriorBlocker, CtlTyped
  <1>16. ASSUME SettleGoal PROVE CtlTyped'
    BY <1>16 DEF SettleGoal, CtlTyped
  <1>17. ASSUME RunCancelled PROVE CtlTyped'
    BY <1>17 DEF RunCancelled, store, CtlTyped
  <1>18. ASSUME CheckProposal PROVE CtlTyped'
    BY <1>18 DEF CheckProposal, SetProposal, store, CtlTyped
  <1>19. ASSUME SaveProposal PROVE CtlTyped'
    BY <1>19 DEF SaveProposal, CtlTyped
  <1>20. ASSUME DraftFails PROVE CtlTyped'
    BY <1>20 DEF DraftFails, SetProposal, CtlTyped
  <1>21. ASSUME Clarify PROVE CtlTyped'
    BY <1>21 DEF Clarify, SetProposal, CtlTyped
  <1>22. ASSUME Clarified PROVE CtlTyped'
    BY <1>22 DEF Clarified, SetProposal, CtlTyped
  <1>23. ASSUME CancelProposal PROVE CtlTyped'
    BY <1>23 DEF CancelProposal, CtlTyped
  <1>24. ASSUME RejectProposal PROVE CtlTyped'
    BY <1>24 DEF RejectProposal, SetProposal, CtlTyped
  <1>25. ASSUME NEW valid \in BOOLEAN, ApplyProposal(valid) PROVE CtlTyped'
    BY <1>25 DEF ApplyProposal, CtlTyped
  <1>26. ASSUME Crash PROVE CtlTyped'
    BY <1>26, NoRequestTyped DEF Crash, CtlTyped
  <1> QED BY <1>1, <1>2, <1>3, <1>4, <1>5, <1>6, <1>7, <1>8, <1>9, <1>10, <1>11, <1>12,
      <1>13, <1>14, <1>15, <1>16, <1>17, <1>18, <1>19, <1>20, <1>21, <1>22, <1>23,
      <1>24, <1>25, <1>26 DEF Next, BuildSteps, ProposalSteps

(* Nobody removes a proposal under a Run that works on it. *)
LEMMA TherePreserved ==
    ASSUME IInv, Next
    PROVE  ProposalIsThere'
  <1> USE TypeParts DEF IInv
  <1>1. ASSUME NEW o \in Ops, NEW i \in Intents, BeginRequest(o, i) PROVE
        ProposalIsThere'
    BY <1>1 DEF BeginRequest, Active, ProposalIsThere, store
  <1>2. ASSUME Request PROVE ProposalIsThere'
    <2>1. ctl'.op = NoOp /\ UNCHANGED run
      BY <1>2, NoRequestTyped DEF Request
    <2>2. UNCHANGED pending \/ pending = NoPending
      BY <1>2 DEF Request, MayRequest
    <2> QED BY <2>1, <2>2, NoPendingTyped DEF ProposalIsThere
  <1>3. ASSUME Mutate PROVE ProposalIsThere'
    <2>1. ctl'.op = NoOp /\ UNCHANGED run
      BY <1>3, NoRequestTyped, MutateFacts
    <2>2. ctl.op # NoOp
      BY <1>3 DEF Mutate
    <2>3. CASE UNCHANGED pending
      BY <2>1, <2>3 DEF ProposalIsThere
    <2>4. CASE ctl.active = FALSE
      BY <2>1, <2>2, <2>4 DEF ProposalIsThere
    <2> QED BY <1>3, <2>3, <2>4, MutateWaits DEF IInv
  <1>4. ASSUME NEW k \in 1..MaxRuns, Undo(k) PROVE ProposalIsThere'
    BY <1>4 DEF Undo, ProposalIsThere
  <1>5. ASSUME OpenThread PROVE ProposalIsThere'
    BY <1>5 DEF OpenThread, store, ProposalIsThere
  <1>6. ASSUME OpenReconciles PROVE ProposalIsThere'
    <2>1. UNCHANGED <<run, ctl>> /\ Reconcile
      BY <1>6 DEF OpenReconciles
    <2>2. pending'.req = pending.req \/ QueuedOps # {}
      BY <2>1, ReconcileFacts
    <2> QED BY <2>1, <2>2, NoPendingTyped DEF ProposalIsThere, OneChangeWaits
  <1>7. ASSUME NEW kind \in {"user", "continuation", "proposal"}, StartRun(kind) PROVE
        ProposalIsThere'
    <2>1. ctl.op = NoOp /\ UNCHANGED ctl
      BY <1>7, NoRequestTyped DEF StartRun, Controllable
    <2>2. run'.phase \in {"checking", "starting"}
      BY <1>7 DEF StartRun, NoRun
    <2> QED BY <2>1, <2>2 DEF ProposalIsThere
  <1>8. ASSUME NEW ok \in BOOLEAN, Evaluate(ok) PROVE ProposalIsThere'
    BY <1>8 DEF Evaluate, ProposalIsThere
  <1>9. ASSUME BlockGoal PROVE ProposalIsThere'
    BY <1>9 DEF BlockGoal, ProposalIsThere
  <1>10. ASSUME CancelRun PROVE ProposalIsThere'
    <2>1. run'.phase = run.phase /\ run'.req = run.req /\ UNCHANGED <<ctl, pending>>
      BY <1>10 DEF CancelRun, Runs, store
    <2> QED BY <2>1 DEF ProposalIsThere
  <1>11. ASSUME NEW graded \in BOOLEAN, BindGoal(graded) PROVE ProposalIsThere'
    <2>1. run'.phase \in {"running", "unblocking"} /\ UNCHANGED ctl /\ run.phase = "starting"
      BY <1>11 DEF BindGoal, Bind, Runs
    <2> QED BY <2>1 DEF ProposalIsThere
  <1>12. ASSUME NEW graded \in BOOLEAN, ActivateFromBlocked(graded) PROVE
        ProposalIsThere'
    BY <1>12, ActivateFacts DEF ActivateFromBlocked, ProposalIsThere
  <1>13. ASSUME NEW completed \in BOOLEAN, RunEnds(completed) PROVE ProposalIsThere'
    BY <1>13, GoesFacts DEF RunEnds, Phases, Active, ProposalIsThere
  <1>14. ASSUME CommitCompletion PROVE ProposalIsThere'
    BY <1>14, CommitFacts DEF CommitCompletion, ProposalIsThere
  <1>15. ASSUME ClearPriorBlocker PROVE ProposalIsThere'
    BY <1>15, ClearFacts DEF ClearPriorBlocker, ProposalIsThere
  <1>16. ASSUME SettleGoal PROVE ProposalIsThere'
    BY <1>16, SettleFacts DEF SettleGoal, ProposalIsThere
  <1>17. ASSUME RunCancelled PROVE ProposalIsThere'
    BY <1>17, GoesFacts DEF RunCancelled, Phases, Active, ProposalIsThere
  <1>18. ASSUME CheckProposal PROVE ProposalIsThere'
    <2>1. UNCHANGED ctl /\ run.phase = "checking"
      BY <1>18 DEF CheckProposal, SetProposal
    <2>2. CASE Goes("drafting") /\ SetProposal("drafting") /\ run.req # NoOp /\ pending.req = run.req
      BY <2>1, <2>2, GoesFacts, SetProposalFacts, NoPendingTyped DEF Phases, SameRun, ProposalIsThere
    <2>3. CASE Goes("reviewing") /\ UNCHANGED store /\ run.req # NoOp /\ pending.req = run.req
      BY <2>1, <2>3, GoesFacts DEF Phases, SameRun, ProposalIsThere, store
    <2>4. CASE Goes("clearing")
      BY <2>1, <2>4, GoesFacts DEF Phases, ProposalIsThere
    <2> QED BY <1>18, <2>2, <2>3, <2>4 DEF CheckProposal
  <1>19. ASSUME SaveProposal PROVE ProposalIsThere'
    <2>1. pending'.req = pending.req
      BY <1>19, ProposalFacts, NoPendingTyped DEF SaveProposal, ProposalIsThere
    <2> QED BY <1>19, <2>1, GoesFacts DEF SaveProposal, Phases, SameRun, ProposalIsThere
  <1>20. ASSUME DraftFails PROVE ProposalIsThere'
    <2>1. pending'.req = pending.req
      BY <1>20, SetProposalFacts, NoPendingTyped DEF DraftFails, ProposalIsThere
    <2> QED BY <1>20, <2>1, GoesFacts DEF DraftFails, Phases, SameRun, SetProposal, ProposalIsThere
  <1>21. ASSUME Clarify PROVE ProposalIsThere'
    <2>1. pending'.req = pending.req
      BY <1>21, SetProposalFacts, NoPendingTyped DEF Clarify, ProposalIsThere
    <2> QED BY <1>21, <2>1, GoesFacts DEF Clarify, Phases, SameRun, SetProposal, ProposalIsThere
  <1>22. ASSUME Clarified PROVE ProposalIsThere'
    <2>1. pending'.req = pending.req
      BY <1>22, SetProposalFacts, NoPendingTyped DEF Clarified, ProposalIsThere
    <2> QED BY <1>22, <2>1, GoesFacts DEF Clarified, Phases, SameRun, SetProposal, ProposalIsThere
  <1>23. ASSUME CancelProposal PROVE ProposalIsThere'
    BY <1>23, GoesFacts DEF CancelProposal, Phases, Active, ProposalIsThere
  <1>24. ASSUME RejectProposal PROVE ProposalIsThere'
    <2>1. pending'.req = pending.req
      BY <1>24, SetProposalFacts, NoPendingTyped DEF RejectProposal, ProposalIsThere
    <2> QED BY <1>24, <2>1, GoesFacts DEF RejectProposal, Phases, SameRun, SetProposal, ProposalIsThere
  <1>25. ASSUME NEW valid \in BOOLEAN, ApplyProposal(valid) PROVE ProposalIsThere'
    BY <1>25, ApplyProposalFacts DEF ApplyProposal, ProposalIsThere
  <1>26. ASSUME Crash PROVE ProposalIsThere'
    <2>1. run'.phase = "none"
      BY <1>26 DEF Crash, Runs
    <2> QED BY <2>1 DEF ProposalIsThere
  <1> QED BY <1>1, <1>2, <1>3, <1>4, <1>5, <1>6, <1>7, <1>8, <1>9, <1>10, <1>11, <1>12,
      <1>13, <1>14, <1>15, <1>16, <1>17, <1>18, <1>19, <1>20, <1>21, <1>22, <1>23,
      <1>24, <1>25, <1>26 DEF Next, BuildSteps, ProposalSteps

(* A change is queued only when nothing else waits. *)
LEMMA WaitPreserved ==
    ASSUME IInv, Next
    PROVE  OneChangeWaits'
  <1> USE TypeParts DEF IInv
  <1>1. ASSUME NEW o \in Ops, NEW i \in Intents, BeginRequest(o, i) PROVE
        OneChangeWaits'
    BY <1>1 DEF BeginRequest, store, OneChangeWaits, QueuedOps
  <1>2. ASSUME Request PROVE OneChangeWaits'
    <2>1. CASE UNCHANGED <<pending, ledger, effects>>
      BY <2>1 DEF OneChangeWaits, QueuedOps
    <2>2. CASE MayRequest(ctl.intent)
      <3>1. /\ ctl.op \in Ops /\ ledger[ctl.op].kind = "new" /\ QueuedOps = {}
            /\ effects' = [effects EXCEPT ![ctl.op] = effects[ctl.op] + 1]
            /\ ledger' = [ledger EXCEPT ![ctl.op] = [ctl.intent EXCEPT !.kind = "requested"]]
        BY <1>2, <2>2 DEF Request, MayRequest, Replayed, TakesEffect, CtlTyped
      <3>2. \A o \in Ops : IF o = ctl.op THEN ledger'[o].kind = "requested"
                                         ELSE ledger'[o] = ledger[o]
        BY <3>1 DEF LedgerTyped, CtlTyped, Operations
      <3>3. QueuedOps' = {}
        BY <3>1, <3>2 DEF QueuedOps
      <3>4. \A o \in Ops : effects'[o] = IF o = ctl.op THEN effects[o] + 1 ELSE effects[o]
        BY <3>1 DEF LedgerTyped
      <3> QED BY <3>1, <3>2, <3>3, <3>4 DEF OneChangeWaits, LedgerTyped
    <2> QED BY <1>2, <2>1, <2>2 DEF Request
  <1>3. ASSUME Mutate PROVE OneChangeWaits'
    <2>1. CASE UNCHANGED <<pending, ledger, effects>>
      BY <2>1 DEF OneChangeWaits, QueuedOps
    <2>2. ASSUME ctl.op \in Ops, ledger[ctl.op].kind = "new", QueuedOps = {},
                 NEW kind \in {"queued", "applied"},
                 ledger' = [ledger EXCEPT ![ctl.op] = [ctl.intent EXCEPT !.kind = kind]],
                 \/ kind = "queued" /\ pending = NoPending /\ UNCHANGED <<pending, effects>>
                 \/ /\ kind = "applied"
                    /\ effects' = [effects EXCEPT ![ctl.op] = effects[ctl.op] + 1]
          PROVE  OneChangeWaits'
      <3>1. \A o \in Ops : IF o = ctl.op THEN ledger'[o].kind = kind
                                         ELSE ledger'[o] = ledger[o]
        BY <2>2 DEF LedgerTyped, CtlTyped, Operations
      <3>2. QueuedOps' = IF kind = "queued" THEN {ctl.op} ELSE {}
        BY <2>2, <3>1 DEF QueuedOps
      <3>3. \A o \in Ops : effects'[o] = IF o = ctl.op /\ kind = "applied" THEN effects[o] + 1
                                                                      ELSE effects[o]
        BY <2>2 DEF LedgerTyped
      <3> QED BY <2>2, <3>1, <3>2, <3>3 DEF OneChangeWaits, LedgerTyped
    <2>3. \/ UNCHANGED <<pending, ledger, effects>>
          \/ /\ ctl.op \in Ops /\ ledger[ctl.op].kind = "new" /\ QueuedOps = {}
             /\ \E kind \in {"queued", "applied"} :
                   /\ ledger' = [ledger EXCEPT ![ctl.op] = [ctl.intent EXCEPT !.kind = kind]]
                   /\ \/ kind = "queued" /\ pending = NoPending /\ UNCHANGED <<pending, effects>>
                      \/ /\ kind = "applied"
                         /\ effects' = [effects EXCEPT ![ctl.op] = effects[ctl.op] + 1]
      BY <1>3, MutateFacts
    <2> QED BY <2>1, <2>2, <2>3
  <1>4. ASSUME NEW k \in 1..MaxRuns, Undo(k) PROVE OneChangeWaits'
    BY <1>4 DEF Undo, OneChangeWaits, QueuedOps
  <1>5. ASSUME OpenThread PROVE OneChangeWaits'
    BY <1>5 DEF OpenThread, store, OneChangeWaits, QueuedOps
  <1>6. ASSUME OpenReconciles PROVE OneChangeWaits'
    BY <1>6, ReconcileWaits DEF OpenReconciles
  <1>7. ASSUME NEW kind \in {"user", "continuation", "proposal"}, StartRun(kind) PROVE
        OneChangeWaits'
    BY <1>7 DEF StartRun, store, OneChangeWaits, QueuedOps
  <1>8. ASSUME NEW ok \in BOOLEAN, Evaluate(ok) PROVE OneChangeWaits'
    BY <1>8 DEF Evaluate, OneChangeWaits, QueuedOps
  <1>9. ASSUME BlockGoal PROVE OneChangeWaits'
    BY <1>9 DEF BlockGoal, OneChangeWaits, QueuedOps
  <1>10. ASSUME CancelRun PROVE OneChangeWaits'
    BY <1>10 DEF CancelRun, store, OneChangeWaits, QueuedOps
  <1>11. ASSUME NEW graded \in BOOLEAN, BindGoal(graded) PROVE OneChangeWaits'
    BY <1>11 DEF BindGoal, store, OneChangeWaits, QueuedOps
  <1>12. ASSUME NEW graded \in BOOLEAN, ActivateFromBlocked(graded) PROVE
        OneChangeWaits'
    BY <1>12 DEF ActivateFromBlocked, OneChangeWaits, QueuedOps
  <1>13. ASSUME NEW completed \in BOOLEAN, RunEnds(completed) PROVE OneChangeWaits'
    BY <1>13 DEF RunEnds, store, OneChangeWaits, QueuedOps
  <1>14. ASSUME CommitCompletion PROVE OneChangeWaits'
    BY <1>14 DEF CommitCompletion, OneChangeWaits, QueuedOps
  <1>15. ASSUME ClearPriorBlocker PROVE OneChangeWaits'
    BY <1>15 DEF ClearPriorBlocker, OneChangeWaits, QueuedOps
  <1>16. ASSUME SettleGoal PROVE OneChangeWaits'
    <2>1. CASE Reconcile
      BY <2>1, ReconcileWaits
    <2>2. CASE pending' \in {pending, NoPending} /\ UNCHANGED <<ledger, effects>>
      BY <2>2 DEF OneChangeWaits, QueuedOps
    <2> QED BY <1>16, <2>1, <2>2, SettleFacts
  <1>17. ASSUME RunCancelled PROVE OneChangeWaits'
    BY <1>17 DEF RunCancelled, store, OneChangeWaits, QueuedOps
  <1>18. ASSUME CheckProposal PROVE OneChangeWaits'
    BY <1>18, NoPendingTyped DEF CheckProposal, store, SetProposal, OneChangeWaits, QueuedOps
  <1>19. ASSUME SaveProposal PROVE OneChangeWaits'
    BY <1>19, NoPendingTyped DEF SaveProposal, SetProposal, ProposalIsThere, OneChangeWaits, QueuedOps
  <1>20. ASSUME DraftFails PROVE OneChangeWaits'
    BY <1>20, NoPendingTyped DEF DraftFails, SetProposal, ProposalIsThere, OneChangeWaits, QueuedOps
  <1>21. ASSUME Clarify PROVE OneChangeWaits'
    BY <1>21, NoPendingTyped DEF Clarify, SetProposal, ProposalIsThere, OneChangeWaits, QueuedOps
  <1>22. ASSUME Clarified PROVE OneChangeWaits'
    BY <1>22, NoPendingTyped DEF Clarified, SetProposal, ProposalIsThere, OneChangeWaits, QueuedOps
  <1>23. ASSUME CancelProposal PROVE OneChangeWaits'
    BY <1>23 DEF CancelProposal, OneChangeWaits, QueuedOps
  <1>24. ASSUME RejectProposal PROVE OneChangeWaits'
    BY <1>24, NoPendingTyped DEF RejectProposal, SetProposal, ProposalIsThere, OneChangeWaits, QueuedOps
  <1>25. ASSUME NEW valid \in BOOLEAN, ApplyProposal(valid) PROVE OneChangeWaits'
    BY <1>25 DEF ApplyProposal, OneChangeWaits, QueuedOps
  <1>26. ASSUME Crash PROVE OneChangeWaits'
    BY <1>26 DEF Crash, store, OneChangeWaits, QueuedOps
  <1> QED BY <1>1, <1>2, <1>3, <1>4, <1>5, <1>6, <1>7, <1>8, <1>9, <1>10, <1>11, <1>12,
      <1>13, <1>14, <1>15, <1>16, <1>17, <1>18, <1>19, <1>20, <1>21, <1>22, <1>23,
      <1>24, <1>25, <1>26 DEF Next, BuildSteps, ProposalSteps

(* A step that changes no evaluation and no phase from outside a graded Run *)
(* into it leaves the evidence where it is.                                 *)
RunAdvances ==
    /\ run'.n = run.n /\ (run'.phase # "none" => run.phase # "none")
    /\ run'.phase \in {"checking", "drafting", "clarifying", "reviewing"} => ~run'.backed
    /\ Graded' => Graded /\ (run.phase = "running" => run'.phase = "running")

LEMMA EvidenceKept ==
    ASSUME IInv, Next, RunAdvances, UNCHANGED evals,
           goal'.status = "complete" => goal.status = "complete"
    PROVE  EvidenceStays'
  <1>1. goal'.status = "complete" => goal'.id = goal.id /\ goal'.rev = goal.rev
    BY GoalSteps DEF GoalStep
  <1> QED BY <1>1 DEF EvidenceStays, RunAdvances, Graded, IInv

(* A Goal that is complete stays so on the evidence of an earlier Run. *)
LEMMA EvidencePreserved ==
    ASSUME IInv, Next
    PROVE  EvidenceStays'
  <1> USE TypeParts DEF IInv
  <1>1. ASSUME NEW o \in Ops, NEW i \in Intents, BeginRequest(o, i) PROVE EvidenceStays'
    <2>1. RunAdvances
      BY <1>1 DEF BeginRequest, EvidenceStays, RunAdvances, Graded
    <2>2. UNCHANGED evals /\ (goal'.status = "complete" => goal.status = "complete")
      BY <1>1 DEF BeginRequest, store
    <2> QED BY <1>1, <2>1, <2>2, EvidenceKept
  <1>2. ASSUME Request PROVE EvidenceStays'
    <2>1. RunAdvances
      BY <1>2 DEF Request, EvidenceStays, RunAdvances, Graded
    <2>2. UNCHANGED evals /\ (goal'.status = "complete" => goal.status = "complete")
      BY <1>2 DEF Request
    <2> QED BY <1>2, <2>1, <2>2, EvidenceKept
  <1>3. ASSUME Mutate PROVE EvidenceStays'
    <2>1. RunAdvances /\ UNCHANGED evals
      BY <1>3, MutateFacts DEF RunAdvances, Graded, EvidenceStays
    <2>2. goal'.status = "complete" => goal.status = "complete"
      <3>1. CASE UNCHANGED goal
        BY <3>1
      <3>2. CASE ctl.active = FALSE
        <4>1. run.phase = "none" /\ GoalStep
          BY <1>3, <3>2, MutateFacts DEF Mutate, ProposalIsThere, IInv
        <4> QED BY <4>1 DEF GoalStep
      <3> QED BY <1>3, <3>1, <3>2, MutateWaits DEF IInv
    <2> QED BY <2>1, <2>2, <1>3, EvidenceKept
  <1>4. ASSUME NEW k \in 1..MaxRuns, Undo(k) PROVE EvidenceStays'
    <2>1. run.phase = "none" /\ UNCHANGED run
      BY <1>4 DEF Undo, Active
    <2>2. goal'.status # "complete"
      BY <1>4 DEF Undo, GoalTyped, Goals
    <2>3. \A n \in 1..MaxRuns : evals'[n].ok = evals[n].ok
      BY <1>4 DEF Undo, EvalsTyped
    <2> QED BY <2>1, <2>2, <2>3 DEF EvidenceStays, Graded
  <1>5. ASSUME OpenThread PROVE EvidenceStays'
    <2>1. RunAdvances
      BY <1>5 DEF OpenThread, EvidenceStays, RunAdvances, Graded
    <2>2. UNCHANGED evals /\ (goal'.status = "complete" => goal.status = "complete")
      BY <1>5 DEF OpenThread, store
    <2> QED BY <1>5, <2>1, <2>2, EvidenceKept
  <1>6. ASSUME OpenReconciles PROVE EvidenceStays'
    <2>1. RunAdvances
      BY <1>6 DEF OpenReconciles, RunAdvances, Graded, EvidenceStays
    <2>2. GoalMutates /\ UNCHANGED evals
      BY <1>6, ReconcileFacts DEF OpenReconciles
    <2>3. goal'.status = "complete" => goal.status = "complete"
      BY <2>2 DEF GoalMutates, NoGoal
    <2> QED BY <2>1, <2>2, <2>3, <1>6, EvidenceKept
  <1>7. ASSUME NEW kind \in {"user", "continuation", "proposal"}, StartRun(kind) PROVE
        EvidenceStays'
    <2>1. /\ run.phase = "none" /\ run.n \in 0..MaxRuns /\ run'.n = run.n + 1
          /\ run'.phase \in {"checking", "starting"} /\ run'.backed = FALSE
      BY <1>7 DEF StartRun, Active, NoRun, Runs
    <2>2. UNCHANGED <<goal, evals>>
      BY <1>7 DEF StartRun, store
    <2>3. \A n \in 1..MaxRuns : evals[n].ok => n <= run.n
      BY DEF EvidenceStays
    <2>4. goal.status = "complete" =>
             \E n \in 1..MaxRuns : /\ evals[n].id = goal.id /\ evals[n].rev = goal.rev
                                   /\ evals[n].ok /\ ~evals[n].stale
      BY DEF EvidenceStays
    <2> QED BY <2>1, <2>2, <2>3, <2>4, Bounds DEF EvidenceStays, Graded
  <1>8. ASSUME NEW ok \in BOOLEAN, Evaluate(ok) PROVE EvidenceStays'
    <2>1. run.phase = "running" /\ UNCHANGED <<goal, run>>
      BY <1>8 DEF Evaluate
    <2>2. \A n \in 1..MaxRuns : n # run.n => evals'[n] = evals[n]
      BY <1>8 DEF Evaluate, EvalsTyped
    <2>3. run.n \in 0..MaxRuns
      BY DEF Runs
    <2> QED BY <2>1, <2>2, <2>3, Bounds DEF EvidenceStays, Graded
  <1>9. ASSUME BlockGoal PROVE EvidenceStays'
    <2>1. RunAdvances /\ run.phase = "running"
      BY <1>9 DEF BlockGoal, RunAdvances, Graded, EvidenceStays
    <2>2. UNCHANGED evals
      BY <1>9 DEF BlockGoal
    <2>3. GoalStep
      BY <1>9, BlockGoalSteps DEF IInv
    <2>4. goal'.status = "complete" => goal.status = "complete"
      BY <2>1, <2>3 DEF GoalStep
    <2> QED BY <2>1, <2>2, <2>4, EvidenceKept
  <1>10. ASSUME CancelRun PROVE EvidenceStays'
    <2>1. run'.phase = run.phase /\ run'.n = run.n /\ run'.backed = run.backed
      BY <1>10 DEF CancelRun, Runs
    <2>2. UNCHANGED <<goal, evals>>
      BY <1>10 DEF CancelRun, store
    <2>3. RunAdvances
      BY <2>1 DEF RunAdvances, Graded, EvidenceStays
    <2> QED BY <1>10, <2>2, <2>3, EvidenceKept
  <1>11. ASSUME NEW graded \in BOOLEAN, BindGoal(graded) PROVE EvidenceStays'
    <2>1. run'.phase \in {"running", "unblocking"} /\ run'.n = run.n /\ run.phase = "starting"
      BY <1>11 DEF BindGoal, Bind, Runs
    <2>2. UNCHANGED <<goal, evals>>
      BY <1>11 DEF BindGoal, store
    <2>3. RunAdvances
      BY <2>1 DEF RunAdvances, Graded
    <2> QED BY <1>11, <2>2, <2>3, EvidenceKept
  <1>12. ASSUME NEW graded \in BOOLEAN, ActivateFromBlocked(graded) PROVE EvidenceStays'
    <2>1. GoalStep /\ run.phase # "committing" /\ UNCHANGED evals
      BY <1>12, ActivateFacts DEF ActivateFromBlocked, IInv
    <2>2. RunAdvances
      BY <1>12, ActivateFacts DEF ActivateFromBlocked, SameRun, RunAdvances, Graded, EvidenceStays, IInv
    <2>3. goal'.status = "complete" => goal.status = "complete"
      BY <2>1 DEF GoalStep
    <2> QED BY <2>1, <2>2, <2>3, EvidenceKept
  <1>13. ASSUME NEW completed \in BOOLEAN, RunEnds(completed) PROVE EvidenceStays'
    <2>1. RunAdvances
      BY <1>13, GoesFacts DEF RunEnds, Phases, SameRun, EvidenceStays, Active, RunAdvances, Graded
    <2>2. UNCHANGED evals /\ (goal'.status = "complete" => goal.status = "complete")
      BY <1>13 DEF RunEnds, store
    <2> QED BY <1>13, <2>1, <2>2, EvidenceKept
  <1>14. ASSUME CommitCompletion PROVE EvidenceStays'
    <2>1. /\ GoalStep /\ run'.phase = "clearing" /\ run'.n = run.n /\ run.phase = "committing"
          /\ UNCHANGED evals
      BY <1>14, CommitFacts DEF CommitCompletion, SameRun, IInv
    <2>2. RunAdvances
      BY <2>1 DEF RunAdvances, Graded
    <2>3. CASE ~Completable
      BY <1>14, <2>1, <2>2, <2>3, EvidenceKept DEF CommitCompletion
    <2>4. CASE Completable
      <3>1. /\ evals[run.n].id = goal.id /\ evals[run.n].rev = goal.rev
            /\ evals[run.n].ok /\ ~evals[run.n].stale
        BY <2>4 DEF Completable, IsCurrent
      <3>2. goal'.id = goal.id /\ goal'.rev = goal.rev
        <4>1. goal' = [goal EXCEPT !.status = "complete"]
          BY <1>14, <2>4 DEF CommitCompletion
        <4> QED BY <4>1 DEF GoalTyped, Goals
      <3>3. run.n \in 1..MaxRuns
        BY <2>1, Bounds DEF EvidenceStays, Runs
      <3> QED BY <2>1, <3>1, <3>2, <3>3 DEF EvidenceStays, Graded
    <2> QED BY <2>3, <2>4
  <1>15. ASSUME ClearPriorBlocker PROVE EvidenceStays'
    <2>1. GoalStep /\ run.phase # "committing" /\ UNCHANGED evals
      BY <1>15, ClearFacts DEF ClearPriorBlocker, IInv
    <2>2. RunAdvances
      BY <1>15, ClearFacts DEF ClearPriorBlocker, SameRun, RunAdvances, Graded, EvidenceStays, IInv
    <2>3. goal'.status = "complete" => goal.status = "complete"
      BY <2>1 DEF GoalStep
    <2> QED BY <2>1, <2>2, <2>3, EvidenceKept
  <1>16. ASSUME SettleGoal PROVE EvidenceStays'
    <2>1. GoalStep /\ run.phase = "settling" /\ UNCHANGED evals
      BY <1>16, SettleFacts, ReconcileFacts DEF SettleGoal, IInv
    <2>2. RunAdvances
      BY <1>16, SettleFacts DEF SameRun, RunAdvances, Graded, IInv
    <2>3. goal'.status = "complete" => goal.status = "complete"
      BY <2>1 DEF GoalStep
    <2> QED BY <2>1, <2>2, <2>3, EvidenceKept
  <1>17. ASSUME RunCancelled PROVE EvidenceStays'
    <2>1. RunAdvances
      BY <1>17, GoesFacts DEF RunCancelled, Phases, SameRun, EvidenceStays, Active, RunAdvances, Graded
    <2>2. UNCHANGED evals /\ (goal'.status = "complete" => goal.status = "complete")
      BY <1>17 DEF RunCancelled, store
    <2> QED BY <1>17, <2>1, <2>2, EvidenceKept
  <1>18. ASSUME CheckProposal PROVE EvidenceStays'
    <2>1. RunAdvances
      BY <1>18, GoesFacts DEF CheckProposal, Phases, SameRun, EvidenceStays, RunAdvances, Graded
    <2>2. UNCHANGED evals /\ (goal'.status = "complete" => goal.status = "complete")
      BY <1>18 DEF CheckProposal, store, SetProposal
    <2> QED BY <1>18, <2>1, <2>2, EvidenceKept
  <1>19. ASSUME SaveProposal PROVE EvidenceStays'
    <2>1. RunAdvances
      BY <1>19, GoesFacts DEF SaveProposal, Phases, SameRun, EvidenceStays, Active, RunAdvances, Graded
    <2>2. UNCHANGED evals /\ (goal'.status = "complete" => goal.status = "complete")
      BY <1>19 DEF SaveProposal
    <2> QED BY <1>19, <2>1, <2>2, EvidenceKept
  <1>20. ASSUME DraftFails PROVE EvidenceStays'
    <2>1. RunAdvances
      BY <1>20, GoesFacts DEF DraftFails, Phases, SameRun, EvidenceStays, Active, RunAdvances, Graded
    <2>2. UNCHANGED evals /\ (goal'.status = "complete" => goal.status = "complete")
      BY <1>20 DEF DraftFails, SetProposal
    <2> QED BY <1>20, <2>1, <2>2, EvidenceKept
  <1>21. ASSUME Clarify PROVE EvidenceStays'
    <2>1. RunAdvances
      BY <1>21, GoesFacts DEF Clarify, Phases, SameRun, EvidenceStays, Active, RunAdvances, Graded
    <2>2. UNCHANGED evals /\ (goal'.status = "complete" => goal.status = "complete")
      BY <1>21 DEF Clarify, SetProposal
    <2> QED BY <1>21, <2>1, <2>2, EvidenceKept
  <1>22. ASSUME Clarified PROVE EvidenceStays'
    <2>1. RunAdvances
      BY <1>22, GoesFacts DEF Clarified, Phases, SameRun, EvidenceStays, Active, RunAdvances, Graded
    <2>2. UNCHANGED evals /\ (goal'.status = "complete" => goal.status = "complete")
      BY <1>22 DEF Clarified, SetProposal
    <2> QED BY <1>22, <2>1, <2>2, EvidenceKept
  <1>23. ASSUME CancelProposal PROVE EvidenceStays'
    <2>1. RunAdvances
      BY <1>23, GoesFacts DEF CancelProposal, Phases, SameRun, EvidenceStays, Active, RunAdvances, Graded
    <2>2. UNCHANGED evals /\ (goal'.status = "complete" => goal.status = "complete")
      BY <1>23 DEF CancelProposal
    <2> QED BY <1>23, <2>1, <2>2, EvidenceKept
  <1>24. ASSUME RejectProposal PROVE EvidenceStays'
    <2>1. RunAdvances
      BY <1>24, GoesFacts DEF RejectProposal, Phases, SameRun, EvidenceStays, Active, RunAdvances, Graded
    <2>2. UNCHANGED evals /\ (goal'.status = "complete" => goal.status = "complete")
      BY <1>24 DEF RejectProposal, SetProposal
    <2> QED BY <1>24, <2>1, <2>2, EvidenceKept
  <1>25. ASSUME NEW valid \in BOOLEAN, ApplyProposal(valid) PROVE EvidenceStays'
    <2>1. GoalStep /\ run.phase # "committing" /\ UNCHANGED evals
      BY <1>25, ApplyProposalFacts DEF ApplyProposal, IInv
    <2>2. RunAdvances
      BY <1>25, ApplyProposalFacts DEF ApplyProposal, SameRun, RunAdvances, Graded, EvidenceStays, IInv
    <2>3. goal'.status = "complete" => goal.status = "complete"
      BY <2>1 DEF GoalStep
    <2> QED BY <2>1, <2>2, <2>3, EvidenceKept
  <1>26. ASSUME Crash PROVE EvidenceStays'
    <2>1. run'.phase = "none" /\ run'.n = run.n
      BY <1>26 DEF Crash, Runs
    <2>2. UNCHANGED <<goal, evals>>
      BY <1>26 DEF Crash, store
    <2>3. RunAdvances
      BY <2>1 DEF RunAdvances, Graded
    <2> QED BY <1>26, <2>2, <2>3, EvidenceKept
  <1> QED BY <1>1, <1>2, <1>3, <1>4, <1>5, <1>6, <1>7, <1>8, <1>9, <1>10, <1>11, <1>12,
      <1>13, <1>14, <1>15, <1>16, <1>17, <1>18, <1>19, <1>20, <1>21, <1>22, <1>23,
      <1>24, <1>25, <1>26 DEF Next, BuildSteps, ProposalSteps

(* What TLC finds on one Thread holds for all bounds: the invariant is      *)
(* inductive.                                                              *)
LEMMA InvariantHolds == Spec => []IInv
  <1>1. Init => IInv
    <2> SUFFICES ASSUME Init PROVE IInv
      OBVIOUS
    <2>1. /\ NoGoal \in Goals /\ NoGoal.id = 0 /\ NoGoal.status = "none"
          /\ NoEval \in [id : Ids, rev : Revisions, ok : BOOLEAN, stale : BOOLEAN]
          /\ NewOp \in Operations({"new", "requested", "queued", "applied"})
          /\ NewOp.kind = "new" /\ ~NoEval.ok
      BY Bounds DEF NoGoal, Goals, NoEval, NewOp, Operations, Ids, Revisions
    <2>2. NoRun \in Runs /\ NoRun.phase = "none" /\ NoRun.n = 0
      BY Bounds DEF NoRun, Runs, Ids, Revisions, Phases
    <2>3. GoalTyped /\ GoalsAreCounted
      BY <2>1, Bounds DEF Init, GoalTyped, GoalsAreCounted, Ids
    <2>4. PendingTyped
      BY NoPendingTyped DEF Init, PendingTyped
    <2>5. LedgerTyped /\ EvalsTyped
      BY <2>1 DEF Init, LedgerTyped, EvalsTyped
    <2>6. CtlTyped
      BY NoRequestTyped DEF Init, CtlTyped
    <2>7. ProposalIsThere
      BY <2>2, NoRequestTyped DEF Init, ProposalIsThere
    <2>8. OneChangeWaits
      BY <2>1 DEF Init, OneChangeWaits, QueuedOps
    <2>9. EvidenceStays
      BY <2>1, <2>2 DEF Init, EvidenceStays, Graded
    <2>10. TypeOK
      BY <2>2, <2>3, <2>4, <2>5, <2>6, TypeParts DEF Init
    <2> QED BY <2>3, <2>7, <2>8, <2>9, <2>10 DEF IInv
  <1>2. IInv /\ [Next]_vars => IInv'
    <2>1. ASSUME IInv, Next PROVE IInv'
      <3>1. GoalTyped' /\ GoalsAreCounted'
        BY <2>1, GoalSteps DEF GoalStep
      <3>2. TypeOK'
        <4>1. PendingTyped' /\ LedgerTyped' /\ EvalsTyped' /\ run' \in Runs /\ CtlTyped'
          BY <2>1, RunSteps, PendingSteps, LedgerSteps, EvalsSteps, CtlSteps
        <4> QED BY <3>1, <4>1 DEF TypeOK, GoalTyped, PendingTyped, LedgerTyped, EvalsTyped,
               CtlTyped, Goals, Runs, Proposals, Operations
      <3> QED BY <2>1, <3>1, <3>2, TherePreserved, WaitPreserved, EvidencePreserved DEF IInv
    <2>2. ASSUME IInv, UNCHANGED vars PROVE IInv'
      BY <2>2 DEF IInv, vars, store, TypeOK, GoalsAreCounted, ProposalIsThere, OneChangeWaits,
         QueuedOps, EvidenceStays, Graded
    <2> QED BY <2>1, <2>2
  <1> QED BY <1>1, <1>2, PTL DEF Spec

(* Every variable of the Goal of a Thread holds a value of its kind. *)
THEOREM TypeCorrect == Spec => []TypeOK
  BY InvariantHolds, PTL DEF IInv

(* A Goal is complete only on an evaluation of this revision that is        *)
(* satisfied and not invalidated (commit_completion, invalidate_for_undo).  *)
THEOREM CompletionIsEvident == Spec => []CompleteHasEvidence
  <1>1. IInv => CompleteHasEvidence
    BY DEF IInv, EvidenceStays, CompleteHasEvidence
  <1> QED BY <1>1, InvariantHolds, PTL

(* One change waits at most, and every intent takes effect at most once,    *)
(* through repetitions, reconciliation by several callers and crashes       *)
(* (request, mutate, reconcile).                                            *)
THEOREM OneChangeAtATime == Spec => []ChangesWaitAlone
  <1>1. ASSUME IInv PROVE ChangesWaitAlone
    <2>1. Cardinality(QueuedOps) <= 1
      <3>1. CASE QueuedOps = {}
        BY <3>1, FS_EmptySet
      <3>2. CASE QueuedOps # {}
        <4>1. \A o, p \in QueuedOps : o = p
          BY <1>1 DEF IInv, OneChangeWaits
        <4>2. PICK o \in QueuedOps : TRUE
          BY <3>2
        <4>3. QueuedOps = {o}
          BY <4>1, <4>2
        <4>4. Cardinality({o}) = 1
          BY FS_Singleton
        <4> QED BY <4>3, <4>4
      <3> QED BY <3>1, <3>2
    <2>2. \A o \in QueuedOps : o \in Ops /\ ledger[o].kind = "queued"
      BY DEF QueuedOps
    <2> QED BY <1>1, <2>1, <2>2 DEF IInv, OneChangeWaits, ChangesWaitAlone
  <1> QED BY <1>1, InvariantHolds, PTL

(* An identity and a revision name one state of the Goal: what a client     *)
(* read under them is what its request meets (IsCurrent, Revise).           *)
THEOREM IdentitiesName == Spec => RevisionsIdentify
  <1>1. IInv /\ [Next]_vars => [Identified]_goal
    BY GoalSteps DEF GoalStep, vars, store
  <1> QED BY <1>1, InvariantHolds, PTL DEF Spec, RevisionsIdentify, Identified

-----------------------------------------------------------------------------
(***************************************************************************)
(* The shared connection.                                                  *)
(***************************************************************************)

(* commit_context is the one store method that rolls back without the lock: *)
(* none has met an exception.                                               *)
RollbacksKeepTheLock ==
    \A c \in Calls : Idiom[c] = "whole" => at[c] # "rollback" /\ ended[c] # "raised"

(* A write of a transaction, which a later statement is to commit or undo. *)
Partial(c, s) == Idiom[c] # "plain" /\ s \in {"write1", "write2"}

WaitersWait ==
    /\ \A i \in DOMAIN waiters : at[waiters[i]] = "waiting"
    /\ IsInjective(waiters)

(* An operation of one statement does that and commits. *)
PlainIsPlain ==
    /\ \A c \in Calls : Idiom[c] = "plain" => at[c] \notin {"begin", "write1", "rollback"}
    /\ \A i \in DOMAIN queue : Idiom[queue[i][1]] = "plain" => queue[i][2] \in {"write2", "commit"}

(* Whoever awaits a statement holds the lock, and its statement is the last
   in the queue; once that is executed the queue is empty. *)
Holding ==
    \A c \in Calls : at[c] \in Statements =>
        /\ lock = c
        /\ IF result[c] = "none" THEN queue # <<>> /\ queue[Len(queue)] = <<c, at[c]>>
                                 ELSE queue = <<>>

(* What may stand in the queue for a statement s of c at its place i. *)
QueueFits ==
    \A i \in DOMAIN queue : LET c == queue[i][1]
                                s == queue[i][2]
                            IN
        /\ at[c] \notin {"idle", "waiting"}
        /\ s = "rollback" => at[c] \in {"rollback", "done"}
        /\ at[c] = s => i = Len(queue)
        /\ s = "commit" \/ Partial(c, s) => i = 1
        /\ Partial(c, s) => \/ Len(queue) = 1 /\ at[c] = s
                            \/ Len(queue) > 1 /\ queue[2] = <<c, "rollback">>
        /\ s = "commit" => WritesOf(c) \subseteq written

(* What the statement that c awaits, or has the result of, says of the
   transaction. *)
Fits(c) ==
    /\ at[c] = "begin" /\ result[c] = "ok" => inTx /\ written = {}
    /\ Partial(c, at[c]) => inTx /\ written \subseteq WritesOf(c)
    /\ at[c] = "write2" /\ Idiom[c] # "plain" => <<c, "write1">> \in written
    /\ result[c] = "ok" /\ at[c] \in {"write1", "write2"} => <<c, at[c]>> \in written
    /\ at[c] = "commit" =>
         IF result[c] = "ok" THEN WritesOf(c) \subseteq durable
         ELSE /\ WritesOf(c) \subseteq written
              /\ Idiom[c] # "plain" => inTx /\ written \subseteq WritesOf(c)

TransactionFits ==
    /\ ~inTx => written = {}
    /\ \A c \in Calls : at[c] \in Statements => Fits(c)

WrittenByCalls == \A w \in written : at[w[1]] \notin {"idle", "waiting"}

Whole(W) == \A c \in Calls : WritesOf(c) \subseteq W \/ WritesOf(c) \cap W = {}

(* The next statement is one of a transaction that is half done. *)
HalfDone ==
    IF queue = <<>> THEN \E c \in Calls : Partial(c, at[c])
    ELSE queue[1][2] = "rollback" \/ Partial(queue[1][1], queue[1][2])

WritesAreWhole == Whole(written) \/ HalfDone

EndedAreDone == \A c \in Calls : at[c] = "done" <=> ended[c] # "none"

(* All of it but the types and the waiters. *)
Core == /\ EndedAreDone /\ Holding /\ QueueFits /\ TransactionFits
        /\ WrittenByCalls /\ WritesAreWhole /\ AllOrNothing

ConnectionInv == ConnectionTypeOK /\ WaitersWait /\ PlainIsPlain /\ Core

-----------------------------------------------------------------------------
(* Sequences: a statement more, and one less. *)

LEMMA AppendFacts ==
    ASSUME NEW S, NEW q \in Seq(S), NEW e \in S
    PROVE  /\ Append(q, e) \in Seq(S)
           /\ Len(Append(q, e)) = Len(q) + 1 /\ Len(q) \in Nat
           /\ Append(q, e) # <<>>
           /\ \A i \in DOMAIN q : i \in 1..Len(q) /\ Append(q, e)[i] = q[i]
           /\ Append(q, e)[Len(q) + 1] = e
           /\ DOMAIN Append(q, e) = DOMAIN q \cup {Len(q) + 1}
  OBVIOUS

LEMMA NotEmpty ==
    ASSUME NEW S, NEW q \in Seq(S)
    PROVE  /\ q = <<>> <=> DOMAIN q = {}
           /\ q # <<>> => 1 \in DOMAIN q /\ Len(q) \in DOMAIN q
           /\ Len(q) \in Nat /\ DOMAIN q = 1..Len(q) /\ (q = <<>> <=> Len(q) = 0)
  OBVIOUS

LEMMA TailFacts ==
    ASSUME NEW S, NEW q \in Seq(S), q # <<>>
    PROVE  /\ Tail(q) \in Seq(S)
           /\ Head(q) = q[1] /\ 1 \in DOMAIN q /\ Len(q) \in DOMAIN q /\ q[1] \in S
           /\ Len(Tail(q)) = Len(q) - 1 /\ Len(q) \in Nat
           /\ \A i \in DOMAIN Tail(q) : /\ i \in Nat /\ i >= 1 /\ i + 1 \in DOMAIN q
                                      /\ Tail(q)[i] = q[i + 1]
           /\ Tail(q) = <<>> <=> Len(q) = 1
  <1>1. Tail(q) \in Seq(S) /\ Len(Tail(q)) = Len(q) - 1 /\ Len(q) \in Nat /\ Len(q) # 0
    OBVIOUS
  <1>2. \A i \in 1..Len(q) - 1 : Tail(q)[i] = q[i + 1]
    OBVIOUS
  <1>3. DOMAIN Tail(q) = 1..Len(q) - 1 /\ DOMAIN q = 1..Len(q)
    BY <1>1
  <1>4. Tail(q) = <<>> <=> Len(Tail(q)) = 0
    <2> DEFINE t == Tail(q)
    <2>1. t \in Seq(S)
      BY <1>1
    <2> HIDE DEF t
    <2>2. t = <<>> <=> Len(t) = 0
      BY <2>1, NotEmpty
    <2> QED BY <2>2 DEF t
  <1>5. Head(q) = q[1] /\ 1 \in DOMAIN q /\ Len(q) \in DOMAIN q /\ q[1] \in S
    BY <1>1, <1>3
  <1> QED BY <1>1, <1>2, <1>3, <1>4, <1>5

(* The writes of different calls are different, and every call has some. *)
LEMMA WritesApart ==
    ASSUME NEW c \in Calls, NEW w \in WritesOf(c)
    PROVE  w[1] = c
  BY DEF WritesOf

LEMMA WritesFacts ==
    ASSUME NEW c \in Calls
    PROVE  /\ <<c, "write2">> \in WritesOf(c)
           /\ Idiom[c] # "plain" => WritesOf(c) = {<<c, "write1">>, <<c, "write2">>}
           /\ Idiom[c] = "plain" => WritesOf(c) = {<<c, "write2">>}
           /\ \A d \in Calls : d # c => WritesOf(c) \cap WritesOf(d) = {}
  BY DEF WritesOf

LEMMA WholeUnion ==
    ASSUME NEW V, NEW W, Whole(V), Whole(W)
    PROVE  Whole(V \cup W)
  BY DEF Whole

LEMMA WholeOwn ==
    ASSUME NEW c \in Calls
    PROVE  Whole(WritesOf(c)) /\ Whole({})
  BY WritesFacts DEF Whole

LEMMA WrittenFacts ==
    ASSUME ConnectionInv, NEW w \in written
    PROVE  w[1] \in Calls /\ at[w[1]] \notin {"idle", "waiting"}
  BY DEF ConnectionInv, Core, WrittenByCalls, ConnectionTypeOK, Writes, WritesOf

-----------------------------------------------------------------------------
(* A call issues a statement. *)

LEMMA IssueKeeps ==
    ASSUME ConnectionInv, NEW o \in Calls, NEW s \in Statements,
           Awaits(o, s), lock' = o, UNCHANGED <<inTx, written, durable, ended>>,
           at[o] # "done",
           \A c \in Calls \ {o} : at[c] \notin Statements,
           \A i \in DOMAIN queue : queue[i][1] = o => queue[i][2] \notin {s, "rollback"},
           s = "commit" \/ Partial(o, s) => queue = <<>>,
           Partial(o, at[o]) /\ queue # <<>> => s = "rollback",
           s = "commit" => WritesOf(o) \subseteq written,
           (s = "commit" \/ Partial(o, s)) /\ Idiom[o] # "plain" =>
               inTx /\ written \subseteq WritesOf(o),
           Partial(o, s) /\ s = "write2" => <<o, "write1">> \in written,
           queue = <<>> => s = "rollback" \/ Partial(o, s) \/ Whole(written)
    PROVE  Core'
  <1> USE DEF ConnectionInv, Core
  <1>1. /\ at' = [at EXCEPT ![o] = s] /\ result' = [result EXCEPT ![o] = "none"]
        /\ queue' = Append(queue, <<o, s>>)
        /\ at \in [Calls -> {"idle", "waiting", "done"} \cup Statements]
        /\ result \in [Calls -> {"none", "ok", "error"}]
        /\ queue \in Seq(Calls \X Statements) /\ <<o, s>> \in Calls \X Statements
    BY DEF Awaits, ConnectionTypeOK
  <1>2. /\ queue' \in Seq(Calls \X Statements)
        /\ Len(queue') = Len(queue) + 1 /\ Len(queue) \in Nat
        /\ queue' # <<>>
        /\ \A i \in DOMAIN queue : i \in 1..Len(queue) /\ queue'[i] = queue[i] /\ queue[i] \in Calls \X Statements
        /\ queue'[Len(queue) + 1] = <<o, s>>
        /\ DOMAIN queue' = DOMAIN queue \cup {Len(queue) + 1}
    BY <1>1, AppendFacts
  <1>3. /\ at'[o] = s /\ result'[o] = "none"
        /\ \A c \in Calls \ {o} : at'[c] = at[c] /\ result'[c] = result[c]
    BY <1>1
  <1>4. EndedAreDone'
    BY <1>3 DEF EndedAreDone, Statements
  <1>5. Holding'
    BY <1>2, <1>3 DEF Holding
  <1>6. QueueFits'
    <2> SUFFICES ASSUME NEW i \in DOMAIN queue',
                        NEW c \in Calls, NEW t \in Statements, queue'[i] = <<c, t>>
                 PROVE  /\ at'[c] \notin {"idle", "waiting"}
                        /\ t = "rollback" => at'[c] \in {"rollback", "done"}
                        /\ at'[c] = t => i = Len(queue')
                        /\ t = "commit" \/ Partial(c, t) => i = 1
                        /\ Partial(c, t) => \/ Len(queue') = 1 /\ at'[c] = t
                                            \/ Len(queue') > 1 /\ queue'[2] = <<c, "rollback">>
                        /\ t = "commit" => WritesOf(c) \subseteq written'
      <3>1. \A i \in DOMAIN queue' : queue'[i] \in Calls \X Statements
        BY <1>2
      <3> QED BY <3>1 DEF QueueFits, Partial, WritesOf
    <2>1. CASE i = Len(queue) + 1
      <3>1. c = o /\ t = s
        BY <2>1, <1>2
      <3>2. s = "commit" \/ Partial(o, s) => Len(queue) = 0
        BY <1>1, NotEmpty
      <3> QED BY <3>1, <3>2, <2>1, <1>2, <1>3 DEF Statements
    <2>2. CASE i \in DOMAIN queue
      <3>1. queue[i] = <<c, t>> /\ i \in 1..Len(queue) /\ i # Len(queue')
        BY <2>2, <1>2
      <3>2. /\ at[c] \notin {"idle", "waiting"}
            /\ t = "rollback" => at[c] \in {"rollback", "done"}
            /\ at[c] = t => i = Len(queue)
            /\ t = "commit" \/ Partial(c, t) => i = 1
            /\ Partial(c, t) => \/ Len(queue) = 1 /\ at[c] = t
                                \/ Len(queue) > 1 /\ queue[2] = <<c, "rollback">>
            /\ t = "commit" => WritesOf(c) \subseteq written
        BY <3>1, <2>2 DEF QueueFits
      <3>3. c = o => t # s /\ t # "rollback"
        BY <3>1, <2>2
      <3>4. at'[c] # t
        <4>1. CASE c = o BY <4>1, <3>3, <1>3
        <4>2. CASE c # o BY <4>2, <1>3
        <4> QED BY <4>1, <4>2
      <3>5. Partial(c, t) => Len(queue') > 1 /\ queue'[2] = <<c, "rollback">>
        <4> SUFFICES ASSUME Partial(c, t) PROVE Len(queue') > 1 /\ queue'[2] = <<c, "rollback">>
          OBVIOUS
        <4>1. CASE Len(queue) = 1 /\ at[c] = t
          <5>1. c = o
            BY <4>1
          <5>2. s = "rollback"
            BY <4>1, <5>1, <1>1, NotEmpty, <2>2
          <5> QED BY <5>1, <5>2, <4>1, <1>2
        <4>2. CASE Len(queue) > 1 /\ queue[2] = <<c, "rollback">>
          <5>1. 2 \in DOMAIN queue
            BY <4>2, <1>1, NotEmpty
          <5> QED BY <5>1, <4>2, <1>2
        <4> QED BY <4>1, <4>2, <3>2
      <3>6. at'[c] \notin {"idle", "waiting"} /\ (t = "rollback" => at'[c] \in {"rollback", "done"})
        <4>1. CASE c = o BY <4>1, <3>3, <1>3 DEF Statements
        <4>2. CASE c # o BY <4>2, <1>3, <3>2
        <4> QED BY <4>1, <4>2
      <3> QED BY <3>2, <3>4, <3>5, <3>6
    <2> QED BY <2>1, <2>2, <1>2
  <1>7. TransactionFits'
    <2>1. Fits(o)'
      <3>1. Partial(o, s) => /\ inTx /\ written \subseteq WritesOf(o)
                             /\ s = "write2" => <<o, "write1">> \in written
        BY DEF Partial
      <3> QED BY <1>3, <3>1 DEF Fits, Partial, Statements, WritesOf
    <2>2. \A c \in Calls : at'[c] \in Statements => c = o
      BY <1>3
    <2> QED BY <2>1, <2>2 DEF TransactionFits
  <1>8. WrittenByCalls'
    <2> SUFFICES ASSUME NEW w \in written PROVE at'[w[1]] \notin {"idle", "waiting"}
      BY DEF WrittenByCalls
    <2>1. w[1] \in Calls /\ at[w[1]] \notin {"idle", "waiting"}
      BY WrittenFacts
    <2> QED BY <2>1, <1>3 DEF Statements
  <1>9. WritesAreWhole'
    <2>1. CASE queue = <<>>
      <3>1. queue'[1] = <<o, s>>
        BY <2>1, <1>2, <1>1, NotEmpty
      <3> QED BY <2>1, <3>1, <1>2 DEF WritesAreWhole, HalfDone, Partial, Whole, WritesOf
    <2>2. CASE queue # <<>>
      <3>1. queue'[1] = queue[1]
        BY <2>2, <1>2, <1>1, NotEmpty
      <3> QED BY <2>2, <3>1, <1>2 DEF WritesAreWhole, HalfDone, Partial, Whole, WritesOf
    <2> QED BY <2>1, <2>2
  <1>10. AllOrNothing'
    BY DEF AllOrNothing, WritesOf
  <1> QED BY <1>4, <1>5, <1>6, <1>7, <1>8, <1>9, <1>10

(* A call ends, or queues for the lock. *)
LEMMA LeaveKeeps ==
    ASSUME ConnectionInv, NEW o \in Calls, NEW x \in {"waiting", "done"},
           at' = [at EXCEPT ![o] = x], UNCHANGED <<result, queue, inTx, written, durable>>,
           x = "waiting" => at[o] = "idle",
           x = "done" => at[o] # "idle" /\ ~Partial(o, at[o]),
           \A c \in Calls \ {o} : at[c] \in Statements => lock' = lock,
           EndedAreDone', AllOrNothing'
    PROVE  Core'
  <1> USE DEF ConnectionInv, Core
  <1>1. /\ UNCHANGED <<result, queue>>
        /\ at \in [Calls -> {"idle", "waiting", "done"} \cup Statements]
        /\ queue \in Seq(Calls \X Statements)
    BY DEF ConnectionTypeOK
  <1>2. /\ at'[o] = x
        /\ \A c \in Calls \ {o} : at'[c] = at[c]
    BY <1>1
  <1>4. Holding'
    BY <1>1, <1>2 DEF Holding, Statements
  <1>5. QueueFits'
    <2> SUFFICES ASSUME NEW i \in DOMAIN queue,
                        NEW c \in Calls, NEW t \in Statements, queue[i] = <<c, t>>
                 PROVE  /\ at'[c] \notin {"idle", "waiting"}
                        /\ t = "rollback" => at'[c] \in {"rollback", "done"}
                        /\ at'[c] = t => i = Len(queue)
                        /\ t = "commit" \/ Partial(c, t) => i = 1
                        /\ Partial(c, t) => \/ Len(queue) = 1 /\ at'[c] = t
                                            \/ Len(queue) > 1 /\ queue[2] = <<c, "rollback">>
                        /\ t = "commit" => WritesOf(c) \subseteq written
      <3>1. \A i \in DOMAIN queue : queue[i] \in Calls \X Statements
        BY <1>1
      <3> QED BY <3>1, <1>1 DEF QueueFits, Partial, WritesOf
    <2>1. /\ at[c] \notin {"idle", "waiting"}
          /\ t = "rollback" => at[c] \in {"rollback", "done"}
          /\ at[c] = t => i = Len(queue)
          /\ t = "commit" \/ Partial(c, t) => i = 1
          /\ Partial(c, t) => \/ Len(queue) = 1 /\ at[c] = t
                              \/ Len(queue) > 1 /\ queue[2] = <<c, "rollback">>
          /\ t = "commit" => WritesOf(c) \subseteq written
      BY DEF QueueFits
    <2>2. CASE c = o
      <3>1. x = "done" /\ (Partial(c, t) => at[c] # t)
        BY <2>1, <2>2
      <3> QED BY <2>1, <2>2, <3>1, <1>2 DEF Statements
    <2>3. CASE c # o
      BY <2>1, <2>3, <1>2
    <2> QED BY <2>2, <2>3
  <1>6. TransactionFits'
    <2>1. \A c \in Calls : at'[c] \in Statements => c # o /\ at[c] \in Statements
      BY <1>2 DEF Statements
    <2>2. ASSUME NEW c \in Calls, at'[c] \in Statements PROVE Fits(c)'
      <3>1. Fits(c) /\ at'[c] = at[c] /\ result'[c] = result[c]
        BY <2>1, <2>2, <1>1, <1>2 DEF TransactionFits
      <3> QED BY <3>1 DEF Fits, Partial, WritesOf
    <2> QED BY <2>2 DEF TransactionFits
  <1>7. WrittenByCalls'
    <2> SUFFICES ASSUME NEW w \in written PROVE at'[w[1]] \notin {"idle", "waiting"}
      BY DEF WrittenByCalls
    <2>1. w[1] \in Calls /\ at[w[1]] \notin {"idle", "waiting"}
      BY WrittenFacts
    <2> QED BY <2>1, <1>2 DEF Statements
  <1>8. WritesAreWhole'
    <2>1. CASE queue = <<>> /\ \E c \in Calls : Partial(c, at[c])
      <3>1. PICK c \in Calls : Partial(c, at[c])
        BY <2>1
      <3>2. c # o /\ at'[c] = at[c]
        BY <3>1, <1>2 DEF Partial
      <3>3. Partial(c, at'[c])
        BY <3>1, <3>2
      <3> QED BY <2>1, <3>3, <1>1 DEF WritesAreWhole, HalfDone, Partial
    <2>2. CASE queue # <<>> \/ Whole(written)
      BY <2>2, <1>1 DEF WritesAreWhole, HalfDone, Partial, Whole, WritesOf
    <2> QED BY <2>1, <2>2 DEF WritesAreWhole, HalfDone
  <1> QED BY <1>4, <1>5, <1>6, <1>7, <1>8

LEMMA EndKeeps ==
    ASSUME ConnectionInv, NEW o \in Calls, NEW how \in {"returned", "raised"}, Ends(o, how),
           UNCHANGED <<inTx, written, durable>>,
           at[o] \notin {"idle", "done"}, ~Partial(o, at[o]),
           \A c \in Calls \ {o} : at[c] \in Statements => lock' = lock,
           how = "returned" => WritesOf(o) \subseteq durable
    PROVE  Core'
  <1>1. /\ at' = [at EXCEPT ![o] = "done"] /\ ended' = [ended EXCEPT ![o] = how]
        /\ UNCHANGED <<result, queue>>
        /\ at \in [Calls -> {"idle", "waiting", "done"} \cup Statements]
        /\ ended \in [Calls -> {"none", "returned", "raised"}]
    BY DEF Ends, ConnectionInv, ConnectionTypeOK
  <1>2. /\ at'[o] = "done" /\ ended'[o] = how
        /\ \A c \in Calls \ {o} : at'[c] = at[c] /\ ended'[c] = ended[c]
    BY <1>1
  <1>3. EndedAreDone'
    BY <1>2 DEF EndedAreDone, ConnectionInv, Core
  <1>4. AllOrNothing'
    BY <1>2 DEF AllOrNothing, WritesOf, ConnectionInv, Core
  <1> QED BY <1>1, <1>3, <1>4, LeaveKeeps

(* Of the holder of the lock. *)
LEMMA HolderFacts ==
    ASSUME ConnectionInv, NEW o \in Calls, at[o] \in Statements
    PROVE  /\ lock = o /\ o # None /\ Fits(o)
           /\ \A c \in Calls \ {o} : at[c] \notin Statements
           /\ result[o] # "none" => queue = <<>>
           /\ \A i \in DOMAIN queue :
                queue[i][1] = o /\ queue[i][2] = "rollback" => at[o] = "rollback"
           /\ queue = <<>> /\ ~Whole(written) => Partial(o, at[o])
  <1> USE DEF ConnectionInv, Core
  <1>1. \A c \in Calls : at[c] \in Statements => lock = c
    BY DEF Holding
  <1>2. lock = o /\ o # None /\ Fits(o)
    BY <1>1, SharedAssumption DEF TransactionFits
  <1>3. \A i \in DOMAIN queue : queue[i][1] = o /\ queue[i][2] = "rollback" => at[o] = "rollback"
    BY DEF QueueFits, Statements
  <1>4. result[o] # "none" => queue = <<>>
    BY DEF Holding
  <1>5. queue = <<>> /\ ~Whole(written) => Partial(o, at[o])
    BY <1>1 DEF WritesAreWhole, HalfDone, Partial, Statements
  <1> QED BY <1>1, <1>2, <1>3, <1>4, <1>5

(* A call that gets the lock issues its first statement. *)
LEMMA StartKeeps ==
    ASSUME ConnectionInv, NEW o \in Calls, at[o] \in {"idle", "waiting"}, lock = None,
           lock' = o, Awaits(o, First(o)), UNCHANGED <<inTx, written, durable, ended>>
    PROVE  Core'
  <1> USE DEF ConnectionInv, Core
  <1>1. \A c \in Calls : at[c] \notin Statements
    BY HolderFacts
  <1>2. \A i \in DOMAIN queue : queue[i][1] # o
    BY DEF QueueFits
  <1>3. First(o) \in {"begin", "write2"} /\ (Idiom[o] = "plain" <=> First(o) = "write2")
    BY DEF First
  <1>4. queue = <<>> => Whole(written)
    BY <1>1 DEF WritesAreWhole, HalfDone, Partial, Statements
  <1> DEFINE s == First(o)
  <1>5. /\ s \in Statements /\ s \notin {"commit", "rollback"}
        /\ ~Partial(o, s) /\ ~Partial(o, at[o]) /\ at[o] # "done"
    BY <1>3 DEF Partial, Statements
  <1> HIDE DEF s, Core, ConnectionInv
  <1> QED BY <1>1, <1>2, <1>4, <1>5, IssueKeeps DEF s

LEMMA ProceedKeeps ==
    ASSUME ConnectionInv, NEW o \in Calls, Proceed(o)
    PROVE  Core'
  <1> USE DEF ConnectionInv, Core
  <1>1. /\ at[o] \in {"begin", "write1", "write2"} /\ result[o] = "ok" /\ at[o] \in Statements
        /\ Awaits(o, After[at[o]]) /\ UNCHANGED <<lock, inTx, written, durable, ended>>
    BY DEF Proceed, After, Statements
  <1>2. /\ lock = o /\ Fits(o) /\ queue = <<>> /\ at[o] # "done"
        /\ \A c \in Calls \ {o} : at[c] \notin Statements
        /\ ~Whole(written) => Partial(o, at[o])
    BY <1>1, HolderFacts DEF Statements
  <1>3. CASE at[o] = "begin"
    <2>1. After[at[o]] = "write1" /\ Idiom[o] # "plain" /\ inTx /\ written = {}
      BY <1>1, <1>2, <1>3 DEF After, Fits, PlainIsPlain
    <2>2. Partial(o, "write1") /\ "write1" \in Statements
      BY <2>1 DEF Partial, Statements
    <2> QED BY <1>1, <1>2, <2>1, <2>2, IssueKeeps
  <1>4. CASE at[o] = "write1"
    <2>1. /\ After[at[o]] = "write2" /\ Idiom[o] # "plain" /\ inTx /\ written \subseteq WritesOf(o)
          /\ <<o, "write1">> \in written
      BY <1>1, <1>2, <1>4 DEF After, Fits, Partial, PlainIsPlain
    <2>2. Partial(o, "write2") /\ "write2" \in Statements
      BY <2>1 DEF Partial, Statements
    <2> QED BY <1>1, <1>2, <2>1, <2>2, IssueKeeps
  <1>5. CASE at[o] = "write2"
    <2>1. After[at[o]] = "commit" /\ <<o, "write2">> \in written
      BY <1>1, <1>2, <1>5 DEF After, Fits
    <2>2. Idiom[o] # "plain" => inTx /\ written \subseteq WritesOf(o) /\ <<o, "write1">> \in written
      BY <1>2, <1>5 DEF Fits, Partial
    <2>3. WritesOf(o) \subseteq written
      BY <2>1, <2>2, WritesFacts
    <2>4. Whole(written)
      <3>1. CASE Idiom[o] = "plain"
        BY <1>2, <3>1 DEF Partial
      <3>2. CASE Idiom[o] # "plain"
        <4>1. written = WritesOf(o)
          BY <2>2, <2>3, <3>2
        <4> QED BY <4>1, WholeOwn
      <3> QED BY <3>1, <3>2
    <2>5. ~Partial(o, "commit") /\ "commit" \in Statements
      BY DEF Partial, Statements
    <2> QED BY <1>1, <1>2, <2>1, <2>2, <2>3, <2>4, <2>5, IssueKeeps
  <1> QED BY <1>1, <1>3, <1>4, <1>5

(* A call meets an exception at a statement. *)
LEMMA RaiseKeeps ==
    ASSUME ConnectionInv, RollbacksKeepTheLock, RollbacksKeepTheLock',
           NEW o \in Calls, at[o] \in Statements, Raises(o), UNCHANGED <<inTx, written, durable>>
    PROVE  Core'
  <1> USE DEF ConnectionInv, Core
  <1>1. /\ lock = o /\ Fits(o) /\ at[o] # "done"
        /\ \A c \in Calls \ {o} : at[c] \notin Statements
        /\ \A i \in DOMAIN queue :
                queue[i][1] = o /\ queue[i][2] = "rollback" => at[o] = "rollback"
    BY HolderFacts DEF Statements
  <1>2. at[o] \notin {"idle", "waiting", "done"} /\ Idiom[o] \in Idioms \ {"whole"}
    <2>1. ASSUME Idiom[o] = "whole" PROVE FALSE
      <3>1. at[o] # "rollback" /\ at'[o] # "rollback"
        BY <2>1 DEF RollbacksKeepTheLock
      <3>2. Awaits(o, "rollback")
        BY <2>1, <3>1 DEF Raises, RollsBack
      <3> QED BY <3>1, <3>2 DEF Awaits, ConnectionTypeOK
    <2> QED BY <2>1, SharedAssumption DEF Statements
  <1>3. CASE at[o] = "rollback"
    <2>1. Ends(o, "raised") /\ ~Partial(o, at[o])
      BY <1>3 DEF Raises, Partial
    <2> QED BY <2>1, <1>1, <1>2, EndKeeps
  <1>4. CASE at[o] # "rollback" /\ RollsBack(o)
    <2>1. Awaits(o, "rollback") /\ UNCHANGED <<lock, ended>>
      BY <1>4 DEF Raises
    <2>2. Idiom[o] # "plain" /\ "rollback" \in Statements /\ ~Partial(o, "rollback")
      BY <1>4 DEF RollsBack, Statements, Partial
    <2>3. \A i \in DOMAIN queue : queue[i][1] = o => queue[i][2] # "rollback"
      BY <1>1, <1>4
    <2> QED BY <2>1, <2>2, <2>3, <1>1, IssueKeeps
  <1>5. CASE at[o] # "rollback" /\ ~RollsBack(o)
    <2>1. Ends(o, "raised")
      BY <1>2, <1>5 DEF Raises
    <2>2. ~Partial(o, at[o])
      BY <1>2, <1>5 DEF RollsBack, Partial, Idioms
    <2> QED BY <2>1, <2>2, <1>1, <1>2, EndKeeps
  <1> QED BY <1>3, <1>4, <1>5

LEMMA TaskKeeps ==
    ASSUME ConnectionInv, RollbacksKeepTheLock, RollbacksKeepTheLock', NEW o \in Calls,
           Call(o) \/ TaskStep(o) \/ Cancel(o) \/ CancelWaiting(o)
    PROVE  Core'
  <1> USE DEF ConnectionInv
  <1>1. CASE Call(o) /\ lock' = o /\ lock = None /\ Awaits(o, First(o))
    BY <1>1, StartKeeps DEF Call
  <1>2. CASE Call(o) /\ ~(lock = None /\ waiters = <<>>)
    <2>1. /\ at[o] = "idle" /\ at' = [at EXCEPT ![o] = "waiting"]
          /\ UNCHANGED <<lock, result, queue, inTx, written, durable, ended>>
      BY <1>2 DEF Call
    <2>2. EndedAreDone'
      BY <2>1 DEF Core, EndedAreDone, ConnectionTypeOK
    <2>3. AllOrNothing'
      BY <2>1 DEF Core, AllOrNothing, WritesOf
    <2> QED BY <2>1, <2>2, <2>3, LeaveKeeps
  <1>3. CASE Acquire(o)
    <2>1. waiters # <<>> /\ waiters \in Seq(Calls) /\ Head(waiters) = o
      BY <1>3 DEF Acquire, ConnectionTypeOK
    <2>2. 1 \in DOMAIN waiters /\ waiters[1] = o
      BY <2>1, TailFacts
    <2>3. at[o] = "waiting"
      BY <2>2 DEF WaitersWait
    <2> QED BY <1>3, <2>3, StartKeeps DEF Acquire
  <1>4. CASE Proceed(o)
    BY <1>4, ProceedKeeps
  <1>5. CASE Return(o)
    <2>1. /\ at[o] = "commit" /\ result[o] = "ok" /\ lock' = None /\ Ends(o, "returned")
          /\ UNCHANGED <<inTx, written, durable>> /\ at[o] \in Statements /\ ~Partial(o, at[o])
      BY <1>5 DEF Return, Statements, Partial
    <2>2. WritesOf(o) \subseteq durable /\ \A c \in Calls \ {o} : at[c] \notin Statements
      BY <2>1, HolderFacts DEF Fits
    <2> QED BY <2>1, <2>2, EndKeeps
  <1>6. CASE Fail(o)
    <2>1. at[o] \in Statements
      BY <1>6 DEF Fail, Statements
    <2> QED BY <1>6, <2>1, RaiseKeeps DEF Fail
  <1>7. CASE Cancel(o)
    BY <1>7, RaiseKeeps DEF Cancel
  <1>8. CASE CancelWaiting(o)
    <2>1. /\ at[o] = "waiting" /\ UNCHANGED <<lock, inTx, written, durable>>
          /\ ~Partial(o, at[o])
      BY <1>8 DEF CancelWaiting, Partial
    <2>2. Idiom[o] # "whole"
      <3>1. ASSUME Idiom[o] = "whole" PROVE FALSE
        <4>1. Awaits(o, "rollback")
          BY <1>8, <3>1 DEF CancelWaiting
        <4> QED BY <3>1, <4>1 DEF Awaits, ConnectionTypeOK, RollbacksKeepTheLock
      <3> QED BY <3>1
    <2>3. Ends(o, "raised")
      BY <1>8, <2>2 DEF CancelWaiting
    <2> QED BY <2>1, <2>3, EndKeeps
  <1>9. Call(o) => \/ lock' = o /\ lock = None /\ Awaits(o, First(o))
                   \/ ~(lock = None /\ waiters = <<>>)
    BY DEF Call
  <1> QED BY <1>1, <1>2, <1>3, <1>4, <1>5, <1>6, <1>7, <1>8, <1>9 DEF TaskStep

-----------------------------------------------------------------------------
(* The worker takes a statement from the queue. *)

(* Of a place of the queue. *)
LEMMA FitsAt ==
    ASSUME QueueFits, NEW i \in DOMAIN queue, NEW c, NEW s, queue[i] = <<c, s>>
    PROVE  /\ at[c] \notin {"idle", "waiting"}
           /\ s = "rollback" => at[c] \in {"rollback", "done"}
           /\ at[c] = s => i = Len(queue)
           /\ s = "commit" \/ Partial(c, s) => i = 1
           /\ Partial(c, s) => \/ Len(queue) = 1 /\ at[c] = s
                               \/ Len(queue) > 1 /\ queue[2] = <<c, "rollback">>
           /\ s = "commit" => WritesOf(c) \subseteq written
  <1>1. queue[i][1] = c /\ queue[i][2] = s
    OBVIOUS
  <1> QED BY <1>1 DEF QueueFits

(* Of the head of the queue, and of what is behind it. *)
LEMMA WorkFacts ==
    ASSUME ConnectionInv, NEW o, NEW s, queue # <<>>, queue[1] = <<o, s>>
    PROVE  /\ o \in Calls /\ s \in Statements /\ at[o] \notin {"idle", "waiting"}
           /\ \A c \in Calls : at[c] \in Statements =>
                /\ result[c] = "none" /\ Fits(c)
                /\ IF Len(queue) = 1 THEN c = o /\ at[o] = s
                   ELSE at[c] # "commit" /\ ~Partial(c, at[c])
           /\ at[o] = s => Len(queue) = 1
           /\ Partial(o, s) => IF Len(queue) = 1 THEN at[o] = s ELSE queue[2] = <<o, "rollback">>
           /\ s = "commit" => WritesOf(o) \subseteq written
           /\ s # "rollback" /\ ~Partial(o, s) => Whole(written)
           /\ Idiom[o] = "plain" => s \in {"write2", "commit"}
  <1> USE DEF ConnectionInv, Core
  <1>1. queue \in Seq(Calls \X Statements) /\ 1 \in DOMAIN queue /\ Len(queue) \in DOMAIN queue
        /\ Len(queue) \in Nat
    BY NotEmpty DEF ConnectionTypeOK
  <1>2. o \in Calls /\ s \in Statements
    BY <1>1
  <1>3. /\ at[o] \notin {"idle", "waiting"}
        /\ at[o] = s => 1 = Len(queue)
        /\ Partial(o, s) => \/ Len(queue) = 1 /\ at[o] = s
                            \/ Len(queue) > 1 /\ queue[2] = <<o, "rollback">>
        /\ s = "commit" => WritesOf(o) \subseteq written
    <2> DEFINE n == 1
    <2>1. QueueFits
      OBVIOUS
    <2> HIDE DEF ConnectionInv, Core
    <2>2. n \in DOMAIN queue /\ queue[n] = <<o, s>>
      BY <1>1
    <2> HIDE DEF n
    <2>3. /\ at[o] \notin {"idle", "waiting"}
          /\ at[o] = s => n = Len(queue)
          /\ Partial(o, s) => \/ Len(queue) = 1 /\ at[o] = s
                              \/ Len(queue) > 1 /\ queue[2] = <<o, "rollback">>
          /\ s = "commit" => WritesOf(o) \subseteq written
      BY <2>1, <2>2, FitsAt
    <2> QED BY <2>3 DEF n
  <1>4. ASSUME NEW c \in Calls, at[c] \in Statements
        PROVE  /\ result[c] = "none" /\ Fits(c)
               /\ IF Len(queue) = 1 THEN c = o /\ at[o] = s
                  ELSE at[c] # "commit" /\ ~Partial(c, at[c])
    <2>1. result[c] = "none" /\ Fits(c) /\ queue[Len(queue)] = <<c, at[c]>>
      BY <1>4 DEF Holding, TransactionFits
    <2>2. at[c] = "commit" \/ Partial(c, at[c]) => Len(queue) = 1
      BY <2>1, <1>1, FitsAt
    <2> QED BY <2>1, <2>2
  <1>5. s # "rollback" /\ ~Partial(o, s) => Whole(written)
    BY DEF WritesAreWhole, HalfDone
  <1>6. Idiom[o] = "plain" => s \in {"write2", "commit"}
    <2>1. queue[1][1] = o /\ queue[1][2] = s
      OBVIOUS
    <2> QED BY <1>1, <2>1 DEF PlainIsPlain
  <1> QED BY <1>2, <1>3, <1>4, <1>5, <1>6

LEMMA WorkKeeps ==
    ASSUME ConnectionInv, Work
    PROVE  Core'
  <1> DEFINE o == queue[1][1]
             s == queue[1][2]
  <1>1. /\ queue # <<>> /\ queue' = Tail(queue)
        /\ Head(queue) = queue[1] /\ queue \in Seq(Calls \X Statements)
        /\ queue[1] = <<o, s>> /\ o \in Calls /\ s \in Statements
        /\ UNCHANGED <<lock, waiters, at, ended>>
    BY TailFacts DEF Work, ConnectionInv, ConnectionTypeOK
  <1>2. Executes(o, s) \/ Rejects(o, s)
    BY <1>1 DEF Work
  <1> HIDE DEF o, s
  <1>3. /\ at[o] \notin {"idle", "waiting"}
        /\ \A c \in Calls : at[c] \in Statements =>
             /\ result[c] = "none" /\ Fits(c)
             /\ IF Len(queue) = 1 THEN c = o /\ at[o] = s
                ELSE at[c] # "commit" /\ ~Partial(c, at[c])
        /\ at[o] = s => Len(queue) = 1
        /\ Partial(o, s) => IF Len(queue) = 1 THEN at[o] = s ELSE queue[2] = <<o, "rollback">>
        /\ s = "commit" => WritesOf(o) \subseteq written
        /\ s # "rollback" /\ ~Partial(o, s) => Whole(written)
        /\ Idiom[o] = "plain" => s \in {"write2", "commit"}
    BY <1>1, WorkFacts
  <1>4. /\ Len(queue') = Len(queue) - 1 /\ Len(queue) \in Nat /\ 1 \in DOMAIN queue
        /\ \A i \in DOMAIN queue' : /\ i \in Nat /\ i >= 1 /\ i + 1 \in DOMAIN queue
                                    /\ queue'[i] = queue[i + 1]
        /\ queue' = <<>> <=> Len(queue) = 1
        /\ queue' # <<>> => /\ 1 \in DOMAIN queue' /\ Len(queue') \in DOMAIN queue'
                            /\ Len(queue) > 1
        /\ \A i \in DOMAIN queue : queue[i][1] \in Calls /\ queue[i][2] \in Statements
    <2>1. /\ Len(queue') = Len(queue) - 1 /\ Len(queue) \in Nat /\ 1 \in DOMAIN queue
          /\ \A i \in DOMAIN queue' : /\ i \in Nat /\ i >= 1 /\ i + 1 \in DOMAIN queue
                                      /\ queue'[i] = queue[i + 1]
          /\ queue' = <<>> <=> Len(queue) = 1
          /\ queue' \in Seq(Calls \X Statements)
      BY <1>1, TailFacts
    <2>2. /\ queue' # <<>> => 1 \in DOMAIN queue' /\ Len(queue') \in DOMAIN queue'
          /\ queue' = <<>> <=> Len(queue') = 0
      BY <2>1, NotEmpty
    <2>3. \A i \in DOMAIN queue : queue[i][1] \in Calls /\ queue[i][2] \in Statements
      BY <1>1
    <2>4. queue' # <<>> => Len(queue) > 1
      <3> DEFINE n == Len(queue)
      <3>1. n \in Nat /\ (queue' = <<>> <=> n = 1) /\ n # 0
        BY <2>1, <1>1, NotEmpty
      <3> HIDE DEF n
      <3>2. queue' # <<>> => n > 1
        BY <3>1
      <3> QED BY <3>2 DEF n
    <2> QED BY <2>1, <2>2, <2>3, <2>4
  <1>5. \E r \in {"ok", "error"} : Answers(o, s, r)
    BY <1>2 DEF Executes, Rejects
  <1>6. /\ result \in [Calls -> {"none", "ok", "error"}]
        /\ at[o] = s => result'[o] \in {"ok", "error"}
        /\ \A c \in Calls : c # o \/ at[o] # s => result'[c] = result[c]
    BY <1>5, <1>1 DEF Answers, ConnectionInv, ConnectionTypeOK
  <1>7. EndedAreDone'
    BY <1>1 DEF EndedAreDone, ConnectionInv, Core
  <1>8. Holding'
    <2> SUFFICES ASSUME NEW c \in Calls, at[c] \in Statements
                 PROVE  /\ lock = c
                        /\ IF result'[c] = "none"
                           THEN queue' # <<>> /\ queue'[Len(queue')] = <<c, at[c]>>
                           ELSE queue' = <<>>
      BY <1>1 DEF Holding
    <2>1. lock = c /\ result[c] = "none" /\ queue[Len(queue)] = <<c, at[c]>>
      BY <1>3 DEF Holding, ConnectionInv, Core
    <2>2. CASE Len(queue) = 1
      <3>1. c = o /\ at[o] = s
        BY <2>2, <1>3
      <3> QED BY <2>1, <2>2, <3>1, <1>4, <1>6
    <2>3. CASE Len(queue) # 1
      <3>1. result'[c] = "none"
        BY <2>1, <2>3, <1>3, <1>6
      <3> QED BY <2>1, <2>3, <3>1, <1>4
    <2> QED BY <2>2, <2>3
  <1>9. QueueFits'
    <2> SUFFICES ASSUME NEW i \in DOMAIN queue', NEW c, NEW t, queue'[i] = <<c, t>>, c \in Calls
                 PROVE  /\ at[c] \notin {"idle", "waiting"}
                        /\ t = "rollback" => at[c] \in {"rollback", "done"}
                        /\ at[c] = t => i = Len(queue')
                        /\ ~(t = "commit" \/ Partial(c, t))
      <3>1. \A i \in DOMAIN queue' : queue'[i] = <<queue'[i][1], queue'[i][2]>> /\ queue'[i][1] \in Calls
        BY <1>1, <1>4
      <3> QED BY <3>1, <1>1 DEF QueueFits, Partial
    <2>1. i + 1 \in DOMAIN queue /\ queue[i + 1] = <<c, t>> /\ i + 1 # 1
      <3>1. i \in Nat /\ i >= 1 /\ i + 1 \in DOMAIN queue /\ queue'[i] = queue[i + 1]
        BY <1>4
      <3> QED BY <3>1
    <2>2. /\ at[c] \notin {"idle", "waiting"}
          /\ t = "rollback" => at[c] \in {"rollback", "done"}
          /\ at[c] = t => i + 1 = Len(queue)
          /\ t = "commit" \/ Partial(c, t) => i + 1 = 1
      BY <2>1, FitsAt DEF ConnectionInv, Core
    <2> QED BY <2>1, <2>2, <1>4
  <1>10. /\ inTx' \in BOOLEAN
         /\ ~inTx => written = {}
         /\ ~inTx' => written' = {}
    <2>1. inTx \in BOOLEAN /\ (~inTx => written = {})
      BY DEF ConnectionInv, ConnectionTypeOK, Core, TransactionFits
    <2>2. CASE Rejects(o, s)
      BY <2>1, <2>2 DEF Rejects
    <2>3. CASE Executes(o, s)
      <3>1. /\ inTx' = (s \in {"begin", "write1", "write2"})
            /\ written' = IF s \in {"write1", "write2"} THEN written \cup {<<o, s>>}
                          ELSE IF s = "begin" THEN written ELSE {}
        BY <2>3 DEF Executes
      <3>2. inTx' \in BOOLEAN
        BY <3>1
      <3>3. s \notin {"begin", "write1", "write2"} => written' = {}
        BY <3>1
      <3> QED BY <2>1, <3>1, <3>2, <3>3
    <2> QED BY <2>2, <2>3, <1>2
  <1>11. TransactionFits'
    <2> SUFFICES ASSUME NEW c \in Calls, at[c] \in Statements PROVE Fits(c)'
      BY <1>1, <1>10 DEF TransactionFits
    <2>1. Fits(c) /\ result[c] = "none"
      BY <1>3
    <2>2. CASE Len(queue) # 1
      <3>1. result'[c] = "none" /\ at[c] # "commit" /\ ~Partial(c, at[c])
        BY <2>1, <2>2, <1>3, <1>6
      <3> QED BY <2>1, <3>1, <1>1 DEF Fits, Partial
    <2>3. CASE Len(queue) = 1
      <3>1. c = o /\ at[o] = s /\ at'[o] = s /\ result'[o] \in {"ok", "error"}
        BY <2>3, <1>1, <1>3, <1>6
      <3>2. CASE Rejects(o, s)
        <4>1. (inTx => inTx') /\ UNCHANGED <<written, durable>> /\ result'[o] = "error"
          BY <3>1, <3>2, <1>1 DEF Rejects, Answers, ConnectionInv, ConnectionTypeOK
        <4> QED BY <2>1, <3>1, <4>1 DEF Fits, Partial, WritesOf
      <3>3. CASE Executes(o, s)
        <4>1. /\ s = "begin" => ~inTx
              /\ inTx' = (s \in {"begin", "write1", "write2"})
              /\ written' = IF s \in {"write1", "write2"} THEN written \cup {<<o, s>>}
                            ELSE IF s = "begin" THEN written ELSE {}
              /\ durable' = IF s = "commit" THEN durable \cup written ELSE durable
              /\ result'[o] = "ok"
          BY <3>1, <3>3, <1>1 DEF Executes, Answers, ConnectionInv, ConnectionTypeOK
        <4>2. CASE s = "begin"
          BY <2>1, <3>1, <4>1, <4>2, <1>10 DEF Fits, Partial
        <4>3. CASE s \in {"write1", "write2"}
          <5>1. Idiom[o] # "plain" => written' \subseteq WritesOf(o)
            <6>1. Idiom[o] # "plain" => <<o, s>> \in WritesOf(o)
              BY <4>3, <1>1, WritesFacts
            <6>2. Idiom[o] # "plain" => written \subseteq WritesOf(o)
              BY <2>1, <3>1, <4>3 DEF Fits, Partial
            <6>3. written' = written \cup {<<o, s>>}
              BY <4>1, <4>3
            <6> QED BY <6>1, <6>2, <6>3
          <5> QED BY <2>1, <3>1, <4>1, <4>3, <5>1 DEF Fits, Partial, WritesOf
        <4>4. CASE s = "commit"
          BY <2>1, <3>1, <4>1, <4>4, <1>3 DEF Fits, Partial, WritesOf
        <4>5. CASE s = "rollback"
          BY <2>1, <3>1, <4>1, <4>5 DEF Fits, Partial
        <4> QED BY <4>2, <4>3, <4>4, <4>5, <1>1 DEF Statements
      <3> QED BY <3>2, <3>3, <1>2
    <2> QED BY <2>2, <2>3
  <1>12. written' \subseteq written \cup {<<o, s>>}
    BY <1>2 DEF Executes, Rejects
  <1>13. WrittenByCalls'
    <2> SUFFICES ASSUME NEW w \in written' PROVE at[w[1]] \notin {"idle", "waiting"}
      BY <1>1 DEF WrittenByCalls
    <2>1. CASE w \in written BY <2>1, WrittenFacts
    <2>2. CASE w = <<o, s>> BY <2>2, <1>3
    <2> QED BY <2>1, <2>2, <1>12
  <1>14. WritesAreWhole'
    <2>1. CASE Partial(o, s)
      <3>1. CASE Len(queue) = 1
        <4>1. at'[o] = s /\ queue' = <<>>
          BY <2>1, <3>1, <1>1, <1>3, <1>4
        <4> QED BY <2>1, <4>1, <1>1 DEF WritesAreWhole, HalfDone, Partial
      <3>2. CASE Len(queue) # 1
        <4>1. queue' # <<>> /\ queue'[1] = <<o, "rollback">>
          BY <2>1, <3>2, <1>3, <1>4
        <4> QED BY <4>1 DEF WritesAreWhole, HalfDone
      <3> QED BY <3>1, <3>2
    <2>2. CASE s = "rollback"
      <3>1. written' = {}
        BY <2>2, <1>2 DEF Executes, Rejects
      <3> QED BY <3>1, <1>1, WholeOwn DEF WritesAreWhole
    <2>3. CASE ~Partial(o, s) /\ s # "rollback"
      <3>1. Whole(written)
        BY <2>3, <1>3
      <3>2. written' \in {written, {}, written \cup WritesOf(o)}
        <4>1. s \in {"write1", "write2"} => WritesOf(o) = {<<o, s>>}
          BY <2>3, <1>1, <1>3, WritesFacts DEF Partial
        <4> QED BY <4>1, <1>2 DEF Executes, Rejects
      <3>3. Whole(written')
        BY <3>1, <3>2, <1>1, WholeOwn, WholeUnion
      <3> QED BY <3>3 DEF WritesAreWhole, Whole, WritesOf
    <2> QED BY <2>1, <2>2, <2>3
  <1>15. AllOrNothing'
    <2>1. AllOrNothing
      BY DEF ConnectionInv, Core
    <2>2. CASE durable' = durable
      BY <2>1, <2>2, <1>1 DEF AllOrNothing, WritesOf
    <2>3. CASE s = "commit" /\ durable' = durable \cup written
      <3>1. Whole(written)
        BY <2>3, <1>3 DEF Partial
      <3>2. Whole(durable)
        <4>1. ASSUME NEW c \in Calls
              PROVE  WritesOf(c) \subseteq durable \/ WritesOf(c) \cap durable = {}
          BY <2>1 DEF AllOrNothing
        <4> QED BY <4>1 DEF Whole
      <3>3. Whole(durable \cup written)
        BY <3>1, <3>2, WholeUnion
      <3> QED BY <2>1, <2>3, <3>3, <1>1 DEF AllOrNothing, Whole, WritesOf
    <2> QED BY <2>2, <2>3, <1>2 DEF Executes, Rejects
  <1> QED BY <1>7, <1>8, <1>9, <1>11, <1>13, <1>14, <1>15 DEF Core

-----------------------------------------------------------------------------
(* Types, and the calls that wait for the lock. *)

(* A sequence that leaves out a place of one without repetitions. *)
LEMMA LeavesOut ==
    ASSUME NEW S, NEW q \in Seq(S), NEW t \in Seq(S), IsInjective(q),
           NEW k \in DOMAIN q, NEW f \in [DOMAIN t -> DOMAIN q \ {k}],
           \A i, j \in DOMAIN t : f[i] = f[j] => i = j,
           \A i \in DOMAIN t : t[i] = q[f[i]]
    PROVE  /\ IsInjective(t)
           /\ \A i \in DOMAIN t : t[i] # q[k] /\ \E j \in DOMAIN q : t[i] = q[j]
  <1>1. \A i \in DOMAIN t : f[i] \in DOMAIN q /\ f[i] # k
    OBVIOUS
  <1>2. IsInjective(t)
    BY <1>1 DEF IsInjective
  <1>3. \A i \in DOMAIN t : t[i] # q[k]
    BY <1>1 DEF IsInjective
  <1> QED BY <1>1, <1>2, <1>3

LEMMA TailLeavesOut ==
    ASSUME NEW S, NEW q \in Seq(S), q # <<>>, IsInjective(q)
    PROVE  /\ Tail(q) \in Seq(S) /\ IsInjective(Tail(q))
           /\ \A i \in DOMAIN Tail(q) : /\ Tail(q)[i] # Head(q)
                                        /\ \E j \in DOMAIN q : Tail(q)[i] = q[j]
  <1> DEFINE t == Tail(q)
             f == [i \in DOMAIN t |-> i + 1]
  <1>1. /\ t \in Seq(S) /\ Head(q) = q[1] /\ 1 \in DOMAIN q
        /\ \A i \in DOMAIN t : i \in Nat /\ i >= 1 /\ i + 1 \in DOMAIN q /\ t[i] = q[i + 1]
    BY TailFacts
  <1> HIDE DEF t
  <1>2. f \in [DOMAIN t -> DOMAIN q \ {1}]
    BY <1>1
  <1>3. \A i, j \in DOMAIN t : f[i] = f[j] => i = j
    BY <1>1
  <1>4. \A i \in DOMAIN t : t[i] = q[f[i]]
    BY <1>1
  <1> HIDE DEF f
  <1>5. /\ IsInjective(t)
        /\ \A i \in DOMAIN t : t[i] # q[1] /\ \E j \in DOMAIN q : t[i] = q[j]
    BY <1>1, <1>2, <1>3, <1>4, LeavesOut
  <1> QED BY <1>1, <1>5 DEF t

LEMMA RemoveAtLeavesOut ==
    ASSUME NEW S, NEW q \in Seq(S), NEW k \in DOMAIN q, IsInjective(q)
    PROVE  /\ RemoveAt(q, k) \in Seq(S) /\ IsInjective(RemoveAt(q, k))
           /\ \A i \in DOMAIN RemoveAt(q, k) : /\ RemoveAt(q, k)[i] # q[k]
                                               /\ \E j \in DOMAIN q : RemoveAt(q, k)[i] = q[j]
  <1> DEFINE a == SubSeq(q, 1, k - 1)
             b == SubSeq(q, k + 1, Len(q))
             t == RemoveAt(q, k)
             f == [i \in DOMAIN t |-> IF i < k THEN i ELSE i + 1]
  <1>1. Len(q) \in Nat /\ DOMAIN q = 1 .. Len(q) /\ k \in 1 .. Len(q)
    OBVIOUS
  <1>2. a \in Seq(S) /\ Len(a) = k - 1 /\ \A j \in 1 .. k - 1 : a[j] = q[j]
    OBVIOUS
  <1>3. b \in Seq(S) /\ Len(b) = Len(q) - k /\ \A j \in 1 .. Len(q) - k : b[j] = q[k + j]
    OBVIOUS
  <1>4. t = a \o b
    BY DEF RemoveAt
  <1> HIDE DEF a, b, t
  <1>5. a \o b \in Seq(S) /\ Len(a \o b) = Len(q) - 1
    BY <1>2, <1>3
  <1>6. \A j \in 1 .. Len(q) - 1 : (a \o b)[j] = IF j < k THEN q[j] ELSE q[j + 1]
    <2> TAKE j \in 1 .. Len(q) - 1
    <2>1. CASE j < k
      BY <2>1, <1>1, <1>2, <1>3
    <2>2. CASE j >= k
      <3>1. (a \o b)[j] = b[j - (k - 1)] /\ j - (k - 1) \in 1 .. Len(q) - k
        BY <2>2, <1>1, <1>2, <1>3
      <3>2. b[j - (k - 1)] = q[k + (j - (k - 1))] /\ k + (j - (k - 1)) = j + 1
        BY <3>1, <1>1, <1>3
      <3> QED BY <2>2, <3>1, <3>2, <1>1
    <2>3. j < k \/ j >= k
      BY <1>1
    <2> QED BY <2>1, <2>2, <2>3
  <1>7. /\ t \in Seq(S) /\ DOMAIN t = 1 .. Len(q) - 1
        /\ \A j \in 1 .. Len(q) - 1 : t[j] = IF j < k THEN q[j] ELSE q[j + 1]
    BY <1>4, <1>5, <1>6
  <1>8. f \in [DOMAIN t -> DOMAIN q \ {k}]
    BY <1>1, <1>7
  <1>9. \A i, j \in DOMAIN t : f[i] = f[j] => i = j
    BY <1>1, <1>7
  <1>10. \A i \in DOMAIN t : t[i] = q[f[i]]
    BY <1>1, <1>7
  <1> HIDE DEF f
  <1>11. /\ IsInjective(t)
         /\ \A i \in DOMAIN t : t[i] # q[k] /\ \E j \in DOMAIN q : t[i] = q[j]
    <2>1. t \in Seq(S)
      BY <1>7
    <2> QED BY <2>1, <1>8, <1>9, <1>10, LeavesOut
  <1> QED BY <1>7, <1>11 DEF t

(* A call issues a statement, and the types of what it changes. *)
LEMMA AwaitsTypes ==
    ASSUME ConnectionTypeOK, NEW o \in Calls, NEW s \in Statements, Awaits(o, s)
    PROVE  /\ at' = [at EXCEPT ![o] = s]
           /\ at' \in [Calls -> {"idle", "waiting", "done"} \cup Statements]
           /\ result' \in [Calls -> {"none", "ok", "error"}]
           /\ queue' \in Seq(Calls \X Statements)
  <1>1. <<o, s>> \in Calls \X Statements /\ queue \in Seq(Calls \X Statements)
    BY DEF ConnectionTypeOK
  <1>2. queue' \in Seq(Calls \X Statements)
    BY <1>1, AppendFacts DEF Awaits
  <1> QED BY <1>2 DEF Awaits, ConnectionTypeOK

LEMMA EndsTypes ==
    ASSUME ConnectionTypeOK, NEW o \in Calls, NEW how \in {"returned", "raised"}, Ends(o, how)
    PROVE  /\ at' = [at EXCEPT ![o] = "done"]
           /\ at' \in [Calls -> {"idle", "waiting", "done"} \cup Statements]
           /\ result' \in [Calls -> {"none", "ok", "error"}]
           /\ queue' \in Seq(Calls \X Statements)
           /\ ended' \in [Calls -> {"none", "returned", "raised"}]
  BY DEF Ends, ConnectionTypeOK

LEMMA RaisesTypes ==
    ASSUME ConnectionTypeOK, NEW o \in Calls, at[o] \in Statements, Raises(o)
    PROVE  /\ lock' \in Calls \cup {None}
           /\ \E x \in {"rollback", "done"} : at' = [at EXCEPT ![o] = x]
           /\ at' \in [Calls -> {"idle", "waiting", "done"} \cup Statements]
           /\ result' \in [Calls -> {"none", "ok", "error"}]
           /\ queue' \in Seq(Calls \X Statements)
           /\ ended' \in [Calls -> {"none", "returned", "raised"}]
  <1>1. /\ lock' \in {lock, None} /\ lock \in Calls \cup {None}
        /\ \/ Ends(o, "raised")
           \/ Awaits(o, "rollback") /\ UNCHANGED ended
    BY DEF Raises, ConnectionTypeOK
  <1>2. CASE Ends(o, "raised")
    BY <1>1, <1>2, EndsTypes
  <1>3. CASE Awaits(o, "rollback") /\ UNCHANGED ended
    <2>1. "rollback" \in Statements
      BY DEF Statements
    <2>2. ended' \in [Calls -> {"none", "returned", "raised"}]
      BY <1>3 DEF ConnectionTypeOK
    <2> QED BY <1>1, <1>3, <2>1, <2>2, AwaitsTypes
  <1> QED BY <1>1, <1>2, <1>3

LEMMA SpendTypes ==
    ASSUME faults \in 0 .. MaxFaults, Spend \/ UNCHANGED faults
    PROVE  faults' \in 0 .. MaxFaults
  BY SharedAssumption DEF Spend

(* The calls that wait are those of waiters, each once. *)
LEMMA WaitersKept ==
    ASSUME ConnectionTypeOK, WaitersWait, NEW o \in Calls, NEW x, UNCHANGED waiters,
           at' = [at EXCEPT ![o] = x], at[o] # "waiting"
    PROVE  WaitersWait'
  BY DEF WaitersWait, ConnectionTypeOK, IsInjective

LEMMA WaiterLeaves ==
    ASSUME ConnectionTypeOK, WaitersWait, NEW o \in Calls, NEW x,
           at' = [at EXCEPT ![o] = x], waiters' \in Seq(Calls), IsInjective(waiters'),
           \A i \in DOMAIN waiters' : waiters'[i] # o /\ \E j \in DOMAIN waiters : waiters'[i] = waiters[j]
    PROVE  WaitersWait'
  <1>1. \A i \in DOMAIN waiters' : at'[waiters'[i]] = "waiting"
    <2> TAKE i \in DOMAIN waiters'
    <2>1. PICK j \in DOMAIN waiters : waiters'[i] = waiters[j]
      OBVIOUS
    <2>2. at[waiters[j]] = "waiting" /\ waiters[j] \in Calls /\ waiters[j] # o
      BY <2>1 DEF WaitersWait, ConnectionTypeOK
    <2> QED BY <2>1, <2>2 DEF ConnectionTypeOK
  <1> QED BY <1>1 DEF WaitersWait, IsInjective

LEMMA CallTypes ==
    ASSUME ConnectionTypeOK, WaitersWait, NEW o \in Calls, Call(o)
    PROVE  ConnectionTypeOK' /\ WaitersWait'
  <1>1. /\ at[o] = "idle" /\ UNCHANGED <<inTx, written, durable, ended, faults>>
        /\ First(o) \in Statements
    BY DEF Call, First, Statements
  <1>2. CASE lock' = o /\ Awaits(o, First(o)) /\ UNCHANGED waiters
    <2>1. /\ at' = [at EXCEPT ![o] = First(o)]
          /\ at' \in [Calls -> {"idle", "waiting", "done"} \cup Statements]
          /\ result' \in [Calls -> {"none", "ok", "error"}]
          /\ queue' \in Seq(Calls \X Statements)
      BY <1>1, <1>2, AwaitsTypes
    <2>2. WaitersWait'
      BY <1>1, <1>2, <2>1, WaitersKept
    <2> QED BY <1>1, <1>2, <2>1, <2>2 DEF ConnectionTypeOK, Writes, WritesOf
  <1>3. CASE /\ waiters' = Append(waiters, o)
             /\ at' = [at EXCEPT ![o] = "waiting"]
             /\ UNCHANGED <<lock, result, queue>>
    <2>1. /\ waiters \in Seq(Calls) /\ waiters' \in Seq(Calls) /\ Len(waiters) \in Nat
          /\ \A i \in DOMAIN waiters : i \in 1..Len(waiters) /\ waiters'[i] = waiters[i]
          /\ waiters'[Len(waiters) + 1] = o
          /\ DOMAIN waiters' = DOMAIN waiters \cup {Len(waiters) + 1}
      BY <1>3, AppendFacts DEF ConnectionTypeOK
    <2>2. \A i \in DOMAIN waiters : waiters[i] \in Calls /\ waiters[i] # o /\ at[waiters[i]] = "waiting"
      BY <1>1, <2>1 DEF WaitersWait
    <2>3. \A i \in DOMAIN waiters' : at'[waiters'[i]] = "waiting"
      BY <1>3, <2>1, <2>2 DEF ConnectionTypeOK
    <2>4. IsInjective(waiters')
      BY <2>1, <2>2 DEF WaitersWait, IsInjective
    <2>5. at' \in [Calls -> {"idle", "waiting", "done"} \cup Statements]
      BY <1>3 DEF ConnectionTypeOK
    <2>6. WaitersWait'
      BY <2>3, <2>4 DEF WaitersWait, IsInjective
    <2> QED BY <1>1, <1>3, <2>1, <2>5, <2>6 DEF ConnectionTypeOK, Writes, WritesOf
  <1> QED BY <1>2, <1>3 DEF Call

LEMMA AcquireTypes ==
    ASSUME ConnectionTypeOK, WaitersWait, NEW o \in Calls, Acquire(o)
    PROVE  ConnectionTypeOK' /\ WaitersWait'
  <1>1. /\ waiters # <<>> /\ Head(waiters) = o /\ waiters' = Tail(waiters) /\ lock' = o
        /\ Awaits(o, First(o)) /\ UNCHANGED <<inTx, written, durable, ended, faults>>
        /\ First(o) \in Statements
    BY DEF Acquire, First, Statements
  <1>2. /\ at' = [at EXCEPT ![o] = First(o)]
        /\ at' \in [Calls -> {"idle", "waiting", "done"} \cup Statements]
        /\ result' \in [Calls -> {"none", "ok", "error"}]
        /\ queue' \in Seq(Calls \X Statements)
    BY <1>1, AwaitsTypes
  <1>3. waiters \in Seq(Calls) /\ IsInjective(waiters)
    BY DEF ConnectionTypeOK, WaitersWait
  <1>4. /\ waiters' \in Seq(Calls) /\ IsInjective(waiters')
        /\ \A i \in DOMAIN waiters' : waiters'[i] # o /\ \E j \in DOMAIN waiters : waiters'[i] = waiters[j]
    BY <1>1, <1>3, TailLeavesOut
  <1>5. WaitersWait'
    BY <1>2, <1>4, WaiterLeaves
  <1> QED BY <1>1, <1>2, <1>4, <1>5 DEF ConnectionTypeOK, Writes, WritesOf

LEMMA CancelWaitingTypes ==
    ASSUME ConnectionTypeOK, WaitersWait, NEW o \in Calls, CancelWaiting(o)
    PROVE  ConnectionTypeOK' /\ WaitersWait'
  <1>1. /\ UNCHANGED <<lock, inTx, written, durable>> /\ Spend
        /\ \/ Awaits(o, "rollback") /\ UNCHANGED ended
           \/ Ends(o, "raised")
    BY DEF CancelWaiting
  <1>2. PICK k \in DOMAIN waiters : waiters[k] = o /\ waiters' = RemoveAt(waiters, k)
    BY DEF CancelWaiting
  <1>3. waiters \in Seq(Calls) /\ IsInjective(waiters)
    BY DEF ConnectionTypeOK, WaitersWait
  <1>4. /\ waiters' \in Seq(Calls) /\ IsInjective(waiters')
        /\ \A i \in DOMAIN waiters' : waiters'[i] # o /\ \E j \in DOMAIN waiters : waiters'[i] = waiters[j]
    BY <1>2, <1>3, RemoveAtLeavesOut
  <1>5. /\ \E x \in {"rollback", "done"} : at' = [at EXCEPT ![o] = x]
        /\ at' \in [Calls -> {"idle", "waiting", "done"} \cup Statements]
        /\ result' \in [Calls -> {"none", "ok", "error"}]
        /\ queue' \in Seq(Calls \X Statements)
        /\ ended' \in [Calls -> {"none", "returned", "raised"}]
    <2>1. "rollback" \in Statements /\ ended \in [Calls -> {"none", "returned", "raised"}]
      BY DEF Statements, ConnectionTypeOK
    <2> QED BY <1>1, <2>1, AwaitsTypes, EndsTypes
  <1>6. WaitersWait'
    BY <1>4, <1>5, WaiterLeaves
  <1>7. faults' \in 0 .. MaxFaults
    BY <1>1, SpendTypes DEF ConnectionTypeOK
  <1> QED BY <1>1, <1>4, <1>5, <1>6, <1>7 DEF ConnectionTypeOK, Writes, WritesOf

(* Proceed, Return, Fail and Cancel. *)
LEMMA HolderTypes ==
    ASSUME ConnectionTypeOK, WaitersWait, NEW o \in Calls,
           Proceed(o) \/ Return(o) \/ Fail(o) \/ Cancel(o)
    PROVE  ConnectionTypeOK' /\ WaitersWait'
  <1>1. /\ at[o] \in Statements /\ UNCHANGED <<waiters, inTx, written, durable>>
        /\ Spend \/ UNCHANGED faults
    BY DEF Proceed, Return, Fail, Cancel, After, Statements
  <1>2. /\ lock' \in Calls \cup {None}
        /\ \E x \in Statements \cup {"done"} : at' = [at EXCEPT ![o] = x]
        /\ at' \in [Calls -> {"idle", "waiting", "done"} \cup Statements]
        /\ result' \in [Calls -> {"none", "ok", "error"}]
        /\ queue' \in Seq(Calls \X Statements)
        /\ ended' \in [Calls -> {"none", "returned", "raised"}]
    <2>1. CASE Proceed(o)
      <3>1. /\ After[at[o]] \in Statements /\ Awaits(o, After[at[o]])
            /\ UNCHANGED <<lock, ended>>
        BY <2>1 DEF Proceed, After, Statements
      <3>2. lock' \in Calls \cup {None} /\ ended' \in [Calls -> {"none", "returned", "raised"}]
        BY <3>1 DEF ConnectionTypeOK
      <3> QED BY <3>1, <3>2, AwaitsTypes
    <2>2. CASE Return(o)
      <3>1. lock' = None /\ Ends(o, "returned")
        BY <2>2 DEF Return
      <3> QED BY <3>1, EndsTypes
    <2>3. CASE Fail(o) \/ Cancel(o)
      <3>1. Raises(o) /\ "rollback" \in Statements
        BY <2>3 DEF Fail, Cancel, Statements
      <3> QED BY <1>1, <3>1, RaisesTypes
    <2> QED BY <2>1, <2>2, <2>3
  <1>3. WaitersWait'
    BY <1>1, <1>2, WaitersKept DEF Statements
  <1>4. faults' \in 0 .. MaxFaults
    BY <1>1, SpendTypes DEF ConnectionTypeOK
  <1>5. waiters' \in Seq(Calls)
    BY <1>1 DEF ConnectionTypeOK
  <1> QED BY <1>1, <1>2, <1>3, <1>4, <1>5 DEF ConnectionTypeOK, Writes, WritesOf

LEMMA WorkTypes ==
    ASSUME ConnectionTypeOK, WaitersWait, PlainIsPlain, Work
    PROVE  ConnectionTypeOK' /\ WaitersWait'
  <1> DEFINE o == queue[1][1]
             s == queue[1][2]
  <1>1. /\ queue # <<>> /\ queue' = Tail(queue) /\ queue' \in Seq(Calls \X Statements)
        /\ Head(queue) = queue[1] /\ 1 \in DOMAIN queue /\ o \in Calls /\ s \in Statements
        /\ UNCHANGED <<lock, waiters, at, ended>>
    BY TailFacts DEF Work, ConnectionTypeOK
  <1>2. Executes(o, s) \/ Rejects(o, s)
    BY <1>1 DEF Work
  <1>3. Idiom[o] = "plain" => s \in {"write2", "commit"}
    BY <1>1 DEF PlainIsPlain
  <1> HIDE DEF o, s
  <1>4. s \in {"write1", "write2"} => <<o, s>> \in Writes
    <2>1. s \in {"write1", "write2"} => <<o, s>> \in WritesOf(o)
      BY <1>1, <1>3, WritesFacts
    <2> QED BY <1>1, <2>1 DEF Writes
  <1>5. written' \subseteq Writes /\ durable' \subseteq Writes /\ inTx' \in BOOLEAN
    <2> USE DEF ConnectionTypeOK
    <2>1. CASE Executes(o, s)
      <3>1. inTx' \in BOOLEAN
        BY <2>1 DEF Executes
      <3>2. IF s \in {"write1", "write2"} THEN written' = written \cup {<<o, s>>}
            ELSE written' \in {written, {}}
        BY <2>1 DEF Executes
      <3>3. durable' \in {durable, durable \cup written}
        BY <2>1 DEF Executes
      <3> QED BY <1>4, <3>1, <3>2, <3>3
    <2>2. CASE Rejects(o, s)
      BY <2>2 DEF Rejects
    <2> QED BY <1>2, <2>1, <2>2
  <1>6. result' \in [Calls -> {"none", "ok", "error"}]
    <2>1. \E r \in {"ok", "error"} : Answers(o, s, r)
      BY <1>2 DEF Executes, Rejects
    <2> QED BY <2>1 DEF Answers, ConnectionTypeOK
  <1>7. faults' \in 0 .. MaxFaults
    <2>1. Spend \/ UNCHANGED faults
      BY <1>2 DEF Executes, Rejects
    <2> QED BY <2>1, SpendTypes DEF ConnectionTypeOK
  <1>8. ConnectionTypeOK'
    BY <1>1, <1>5, <1>6, <1>7 DEF ConnectionTypeOK, Writes, WritesOf
  <1>9. WaitersWait'
    BY <1>1 DEF WaitersWait, IsInjective
  <1> QED BY <1>8, <1>9

(* An operation of one statement begins no transaction and rolls none back. *)

LEMMA PlainAwaits ==
    ASSUME ConnectionTypeOK, PlainIsPlain, NEW o \in Calls, NEW s \in Statements, Awaits(o, s),
           Idiom[o] = "plain" => s \in {"write2", "commit"}
    PROVE  PlainIsPlain'
  <1>1. queue \in Seq(Calls \X Statements) /\ <<o, s>> \in Calls \X Statements
    BY DEF ConnectionTypeOK
  <1>2. \A i \in DOMAIN queue' : \/ i \in DOMAIN queue /\ queue'[i] = queue[i]
                                \/ queue'[i] = <<o, s>>
    BY <1>1, AppendFacts DEF Awaits
  <1>3. ASSUME NEW i \in DOMAIN queue', Idiom[queue'[i][1]] = "plain"
        PROVE  queue'[i][2] \in {"write2", "commit"}
    <2>1. CASE i \in DOMAIN queue /\ queue'[i] = queue[i]
      BY <1>3, <2>1 DEF PlainIsPlain
    <2>2. CASE queue'[i] = <<o, s>>
      BY <1>3, <2>2
    <2> QED BY <1>2, <2>1, <2>2
  <1>4. \A c \in Calls : Idiom[c] = "plain" => at'[c] \notin {"begin", "write1", "rollback"}
    BY DEF Awaits, PlainIsPlain, ConnectionTypeOK
  <1> QED BY <1>3, <1>4 DEF PlainIsPlain

LEMMA PlainMoves ==
    ASSUME ConnectionTypeOK, PlainIsPlain, NEW o \in Calls, NEW x \in {"waiting", "done"},
           at' = [at EXCEPT ![o] = x], UNCHANGED queue
    PROVE  PlainIsPlain'
  BY DEF PlainIsPlain, ConnectionTypeOK

LEMMA PlainKept ==
    ASSUME ConnectionTypeOK, PlainIsPlain, [ConnectionNext]_connectionVars
    PROVE  PlainIsPlain'
  <1>1. ASSUME NEW o \in Calls, Call(o) \/ Acquire(o) PROVE PlainIsPlain'
    <2>1. First(o) \in Statements /\ (Idiom[o] = "plain" => First(o) = "write2")
      BY DEF First, Statements
    <2>2. \/ Awaits(o, First(o))
          \/ at' = [at EXCEPT ![o] = "waiting"] /\ UNCHANGED queue
      BY <1>1 DEF Call, Acquire
    <2> QED BY <2>1, <2>2, PlainAwaits, PlainMoves
  <1>2. ASSUME NEW o \in Calls, Proceed(o) PROVE PlainIsPlain'
    <2>1. /\ Awaits(o, After[at[o]]) /\ After[at[o]] \in Statements
          /\ Idiom[o] = "plain" => After[at[o]] = "commit"
      BY <1>2 DEF Proceed, After, Statements, PlainIsPlain
    <2> QED BY <2>1, PlainAwaits
  <1>3. ASSUME NEW o \in Calls, Return(o) \/ Fail(o) \/ Cancel(o) \/ CancelWaiting(o)
        PROVE  PlainIsPlain'
    <2>1. \/ \E how \in {"returned", "raised"} : Ends(o, how)
          \/ Awaits(o, "rollback") /\ Idiom[o] # "plain"
      BY <1>3 DEF Return, Fail, Cancel, CancelWaiting, Raises, RollsBack
    <2>2. "rollback" \in Statements
      BY DEF Statements
    <2> QED BY <2>1, <2>2, PlainAwaits, PlainMoves DEF Ends
  <1>4. CASE Work
    <2>1. queue # <<>> /\ queue' = Tail(queue) /\ UNCHANGED at /\ queue \in Seq(Calls \X Statements)
      BY <1>4 DEF Work, ConnectionTypeOK
    <2>2. \A i \in DOMAIN queue' : i + 1 \in DOMAIN queue /\ queue'[i] = queue[i + 1]
      BY <2>1, TailFacts
    <2> QED BY <2>1, <2>2 DEF PlainIsPlain
  <1>5. CASE UNCHANGED connectionVars
    BY <1>5 DEF connectionVars, connection, PlainIsPlain
  <1> QED BY <1>1, <1>2, <1>3, <1>4, <1>5 DEF ConnectionNext, TaskStep

LEMMA TypesKept ==
    ASSUME ConnectionTypeOK, WaitersWait, PlainIsPlain, [ConnectionNext]_connectionVars
    PROVE  ConnectionTypeOK' /\ WaitersWait' /\ PlainIsPlain'
  <1>1. CASE UNCHANGED connectionVars
    BY <1>1, PlainKept DEF connectionVars, connection, ConnectionTypeOK, WaitersWait,
        IsInjective, WritesOf, Writes
  <1> QED BY <1>1, PlainKept, CallTypes, AcquireTypes, CancelWaitingTypes, HolderTypes, WorkTypes
          DEF ConnectionNext, TaskStep

LEMMA TypesInit == ConnectionInit => ConnectionTypeOK /\ WaitersWait /\ PlainIsPlain
  <1> SUFFICES ASSUME ConnectionInit PROVE ConnectionTypeOK /\ WaitersWait /\ PlainIsPlain
    OBVIOUS
  <1>1. waiters \in Seq(Calls) /\ queue \in Seq(Calls \X Statements)
    BY DEF ConnectionInit
  <1>2. faults \in 0 .. MaxFaults
    BY SharedAssumption DEF ConnectionInit
  <1>3. /\ lock = None /\ inTx = FALSE /\ written = {} /\ durable = {}
        /\ at \in [Calls -> {"idle"}] /\ result \in [Calls -> {"none"}]
        /\ ended \in [Calls -> {"none"}]
    BY DEF ConnectionInit
  <1>4. ConnectionTypeOK
    BY <1>1, <1>2, <1>3 DEF ConnectionTypeOK
  <1> QED BY <1>4 DEF ConnectionInit, WaitersWait, IsInjective, PlainIsPlain

(* Every variable holds a value of its kind, commit_context or not. *)
THEOREM ConnectionTypeCorrect == ConnectionSpec => []ConnectionTypeOK
  <1>1. ConnectionInit => ConnectionTypeOK /\ WaitersWait /\ PlainIsPlain
    BY TypesInit
  <1>2. /\ ConnectionTypeOK /\ WaitersWait /\ PlainIsPlain
        /\ [ConnectionNext]_connectionVars
        => ConnectionTypeOK' /\ WaitersWait' /\ PlainIsPlain'
    BY TypesKept
  <1> QED BY <1>1, <1>2, PTL DEF ConnectionSpec

-----------------------------------------------------------------------------
(* The invariant. *)

LEMMA ConnectionInvInit == ConnectionInit => ConnectionInv
  <1> SUFFICES ASSUME ConnectionInit PROVE ConnectionInv
    OBVIOUS
  <1>1. Holding /\ QueueFits /\ TransactionFits
    BY DEF ConnectionInit, Holding, QueueFits, TransactionFits, Statements
  <1>2. WrittenByCalls /\ WritesAreWhole
    BY DEF ConnectionInit, WrittenByCalls, WritesAreWhole, Whole
  <1>3. AllOrNothing /\ EndedAreDone
    BY DEF ConnectionInit, AllOrNothing, EndedAreDone
  <1> QED BY <1>1, <1>2, <1>3, TypesInit DEF ConnectionInv, Core

LEMMA ConnectionInvStep ==
    ASSUME RollbacksKeepTheLock, RollbacksKeepTheLock', ConnectionInv,
           [ConnectionNext]_connectionVars
    PROVE  ConnectionInv'
  <1> SUFFICES Core'
    BY TypesKept DEF ConnectionInv
  <1>1. ASSUME NEW o \in Calls, Call(o) \/ TaskStep(o) \/ Cancel(o) \/ CancelWaiting(o)
        PROVE  Core'
    BY <1>1, TaskKeeps
  <1>2. CASE Work
    BY <1>2, WorkKeeps
  <1>3. CASE UNCHANGED connectionVars
    BY <1>3 DEF connectionVars, connection, ConnectionInv, Core, EndedAreDone, Holding,
        QueueFits, TransactionFits, Fits, Partial, WrittenByCalls, WritesAreWhole, Whole,
        HalfDone, AllOrNothing, WritesOf
  <1> QED BY <1>1, <1>2, <1>3 DEF ConnectionNext

LEMMA ConnectionInvariant == ConnectionSpec /\ []RollbacksKeepTheLock => []ConnectionInv
  <1>1. ConnectionInit => ConnectionInv
    BY ConnectionInvInit
  <1>2. /\ RollbacksKeepTheLock /\ RollbacksKeepTheLock' /\ ConnectionInv
        /\ [ConnectionNext]_connectionVars
        => ConnectionInv'
    BY ConnectionInvStep
  <1> QED BY <1>1, <1>2, PTL DEF ConnectionSpec

(* Whatever is cancelled or fails, and however the statements left in the   *)
(* queue run on, the writes of a call (append_transcript_batch, say) are    *)
(* durable together or not at all, and are when it returns.                 *)
THEOREM CallsAreAtomic == ConnectionSpec /\ []RollbacksKeepTheLock => []AllOrNothing
  <1>1. ConnectionInv => AllOrNothing
    BY DEF ConnectionInv, Core
  <1> QED BY <1>1, ConnectionInvariant, PTL

LEMMA OwnTransaction == ConnectionInv => TransactionsAreNotShared
  <1> SUFFICES ASSUME ConnectionInv, NEW o \in Calls, InTransaction(o),
                      ~(at[o] = "commit" /\ result[o] # "none")
               PROVE  /\ inTx /\ written \subseteq WritesOf(o)
                      /\ \A i \in DOMAIN queue : queue[i][1] = o
    BY DEF TransactionsAreNotShared
  <1>1. /\ at[o] \in Statements /\ Idiom[o] # "plain" /\ (at[o] = "commit" \/ Partial(o, at[o]))
        /\ at[o] = "commit" => result[o] = "none"
    BY DEF InTransaction, Statements, Partial
  <1>2. inTx /\ written \subseteq WritesOf(o)
    BY <1>1, HolderFacts DEF Fits
  <1>3. CASE result[o] # "none"
    BY <1>1, <1>2, <1>3, HolderFacts
  <1>4. CASE result[o] = "none"
    <2>1. queue # <<>> /\ queue[Len(queue)] = <<o, at[o]>> /\ QueueFits
      BY <1>1, <1>4 DEF ConnectionInv, Core, Holding
    <2>2. queue \in Seq(Calls \X Statements)
      BY DEF ConnectionInv, ConnectionTypeOK
    <2>3. Len(queue) \in DOMAIN queue /\ DOMAIN queue = 1..Len(queue)
      BY <2>1, <2>2, NotEmpty
    <2>4. Len(queue) = 1
      BY <1>1, <2>1, <2>3, FitsAt
    <2>5. \A i \in DOMAIN queue : i = Len(queue)
      BY <2>3, <2>4
    <2> QED BY <1>2, <2>1, <2>5
  <1> QED BY <1>3, <1>4

(* A transaction that a call has begun holds its own writes only: what a    *)
(* cancelled one left in the queue is executed before the next BEGIN.       *)
THEOREM TransactionsApart ==
    ConnectionSpec /\ []RollbacksKeepTheLock => []TransactionsAreNotShared
  <1> QED BY OwnTransaction, ConnectionInvariant, PTL

-----------------------------------------------------------------------------
(* The connection implements AtomicStore. *)

(* The calls whose writes the next commit makes durable. *)
Committing == {c \in Calls : WritesOf(c) \subseteq written /\ ~(WritesOf(c) \subseteq durable)}

LEMMA EndsIsSeen ==
    ASSUME ConnectionTypeOK, EndedAreDone, NEW o \in Calls, NEW how, Ends(o, how),
           at[o] \notin {"idle", "done"}
    PROVE  Answer[o] = "none" /\ Answer' = [Answer EXCEPT ![o] = how]
  BY DEF Ends, Answer, EndedAreDone, ConnectionTypeOK

LEMMA AwaitsIsSeen ==
    ASSUME ConnectionTypeOK, NEW o \in Calls, NEW s \in Statements, Awaits(o, s),
           at[o] # "idle", UNCHANGED ended
    PROVE  Answer' = Answer
  BY DEF Awaits, Answer, ConnectionTypeOK, Statements

LEMMA RaisesIsSeen ==
    ASSUME ConnectionInv, NEW o \in Calls, at[o] \in Statements, Raises(o)
    PROVE  \/ Answer' = Answer
           \/ Answer[o] = "none" /\ Answer' = [Answer EXCEPT ![o] = "raised"]
  <1>1. \/ Ends(o, "raised")
        \/ Awaits(o, "rollback") /\ UNCHANGED ended
    BY DEF Raises
  <1>2. at[o] \notin {"idle", "done"} /\ "rollback" \in Statements
    BY DEF Statements
  <1> QED BY <1>1, <1>2, EndsIsSeen, AwaitsIsSeen DEF ConnectionInv, Core

LEMMA CommitIsSeen ==
    ASSUME ConnectionInv, Whole(written)
    PROVE  /\ durable \cup written = durable \cup UNION {WritesOf(c) : c \in Committing}
           /\ Committing = {} => durable \cup written = durable
           /\ \A c \in Committing : Answer[c] \in {"none", "raised"}
           /\ \A c, d \in Committing : c # d => "raised" \in {Answer[c], Answer[d]}
  <1> USE DEF ConnectionInv, Core
  <1>1. \A w \in written \ durable : \E c \in Committing : w \in WritesOf(c)
    <2> TAKE w \in written \ durable
    <2>1. PICK c \in Calls : w \in WritesOf(c)
      BY DEF ConnectionTypeOK, Writes
    <2>2. c \in Committing
      BY <2>1 DEF Whole, Committing
    <2> QED BY <2>1, <2>2
  <1>2. durable \cup written = durable \cup UNION {WritesOf(c) : c \in Committing}
    BY <1>1 DEF Committing
  <1>3. Committing = {} => durable \cup written = durable
    BY <1>1
  <1>4. ASSUME NEW c \in Committing
        PROVE  /\ at[c] \notin {"idle", "waiting"} /\ ended[c] \in {"none", "raised"}
               /\ c \in Calls /\ Answer[c] = ended[c]
    <2>1. c \in Calls /\ <<c, "write2">> \in written /\ ~(WritesOf(c) \subseteq durable)
      BY WritesFacts DEF Committing
    <2>2. at[c] \notin {"idle", "waiting"}
      <3>1. <<c, "write2">>[1] = c
        OBVIOUS
      <3> QED BY <2>1, <3>1 DEF WrittenByCalls
    <2>3. ended[c] # "returned"
      BY <2>1 DEF AllOrNothing
    <2>4. ended[c] \in {"none", "raised"}
      BY <2>1, <2>3 DEF ConnectionTypeOK
    <2> QED BY <2>1, <2>2, <2>4 DEF Answer
  <1>5. ASSUME NEW c \in Committing, NEW d \in Committing, c # d
        PROVE  "raised" \in {Answer[c], Answer[d]}
    <2>1. ASSUME NEW e \in Committing, ended[e] = "none" PROVE lock = e
      <3>1. at[e] \in Statements
        BY <1>4, <2>1 DEF EndedAreDone, ConnectionTypeOK
      <3> QED BY <1>4, <3>1 DEF Holding
    <2> QED BY <1>4, <1>5, <2>1
  <1> QED BY <1>2, <1>3, <1>4, <1>5

(* What a step looks like to AtomicStore. *)
Hidden == Answer' = Answer /\ durable' = durable

LEMMA ConnectionStepIsSeen ==
    ASSUME ConnectionInv, [ConnectionNext]_connectionVars
    PROVE  \/ Hidden
           \/ \E o \in Calls : /\ Answer[o] = "idle" /\ durable' = durable
                               /\ Answer' = [Answer EXCEPT ![o] = "none"]
           \/ \E o \in Calls : /\ Answer[o] = "none" /\ durable' = durable
                               /\ \/ Answer' = [Answer EXCEPT ![o] = "raised"]
                                  \/ /\ Answer' = [Answer EXCEPT ![o] = "returned"]
                                     /\ WritesOf(o) \subseteq durable
           \/ Answer' = Answer /\ durable' = durable \cup written /\ Whole(written)
  <1> USE DEF Hidden
  <1>1. ASSUME NEW o \in Calls, Call(o)
        PROVE  /\ Answer[o] = "idle" /\ durable' = durable
               /\ Answer' = [Answer EXCEPT ![o] = "none"]
    <2>1. /\ at[o] = "idle" /\ durable' = durable /\ ended' = ended /\ ended[o] = "none"
          /\ at \in [Calls -> {"idle", "waiting", "done"} \cup Statements]
      BY <1>1 DEF Call, ConnectionInv, ConnectionTypeOK, Core, EndedAreDone
    <2>2. \E x \in {"waiting", First(o)} : at' = [at EXCEPT ![o] = x]
      BY <1>1 DEF Call, Awaits
    <2>3. \E x \in {"waiting", "begin", "write2"} : at' = [at EXCEPT ![o] = x]
      BY <2>2 DEF First
    <2> QED BY <2>1, <2>3 DEF Answer
  <1>2. ASSUME NEW o \in Calls, Acquire(o) PROVE Hidden
    <2>1. waiters # <<>> /\ waiters \in Seq(Calls) /\ Head(waiters) = o
      BY <1>2 DEF Acquire, ConnectionInv, ConnectionTypeOK
    <2>2. 1 \in DOMAIN waiters /\ waiters[1] = o
      BY <2>1, TailFacts
    <2>3. at[o] = "waiting" /\ First(o) \in Statements
      BY <2>2 DEF ConnectionInv, WaitersWait, First, Statements
    <2> QED BY <1>2, <2>3, AwaitsIsSeen DEF Acquire, ConnectionInv
  <1>3. ASSUME NEW o \in Calls, Proceed(o) PROVE Hidden
    <2>1. at[o] # "idle" /\ After[at[o]] \in Statements
      BY <1>3 DEF Proceed, After, Statements
    <2> QED BY <1>3, <2>1, AwaitsIsSeen DEF Proceed, ConnectionInv
  <1>4. ASSUME NEW o \in Calls, Return(o)
        PROVE  /\ Answer[o] = "none" /\ durable' = durable
               /\ Answer' = [Answer EXCEPT ![o] = "returned"]
               /\ WritesOf(o) \subseteq durable
    <2>1. /\ at[o] = "commit" /\ result[o] = "ok" /\ Ends(o, "returned") /\ durable' = durable
          /\ at[o] \in Statements
      BY <1>4 DEF Return, Statements
    <2>2. WritesOf(o) \subseteq durable
      BY <2>1, HolderFacts DEF Fits
    <2> QED BY <2>1, <2>2, EndsIsSeen DEF ConnectionInv, Core
  <1>5. ASSUME NEW o \in Calls, Fail(o) \/ Cancel(o) \/ CancelWaiting(o)
        PROVE  \/ Hidden
               \/ /\ Answer[o] = "none" /\ durable' = durable
                  /\ Answer' = [Answer EXCEPT ![o] = "raised"]
    <2>1. CASE Fail(o) \/ Cancel(o)
      <3>1. at[o] \in Statements /\ Raises(o) /\ durable' = durable
        BY <2>1 DEF Fail, Cancel, Statements
      <3> QED BY <3>1, RaisesIsSeen
    <2>2. CASE CancelWaiting(o)
      <3>1. /\ at[o] \notin {"idle", "done"} /\ durable' = durable /\ "rollback" \in Statements
            /\ Ends(o, "raised") \/ (Awaits(o, "rollback") /\ UNCHANGED ended)
        BY <2>2 DEF CancelWaiting, Statements
      <3> QED BY <3>1, EndsIsSeen, AwaitsIsSeen DEF ConnectionInv, Core
    <2> QED BY <1>5, <2>1, <2>2
  <1>6. CASE Work
    <2> DEFINE o == queue[1][1]
               s == queue[1][2]
    <2>1. /\ queue # <<>> /\ queue[1] = <<o, s>> /\ Head(queue) = queue[1]
          /\ UNCHANGED <<at, ended>>
      BY <1>6, TailFacts DEF Work, ConnectionInv, ConnectionTypeOK
    <2>2. Executes(o, s) \/ Rejects(o, s)
      BY <1>6, <2>1 DEF Work
    <2> HIDE DEF o, s
    <2>3. Answer' = Answer
      BY <2>1 DEF Answer
    <2>4. s = "commit" => Whole(written)
      BY <2>1, WorkFacts DEF Partial
    <2>5. durable' = durable \/ (s = "commit" /\ durable' = durable \cup written)
      BY <2>2 DEF Executes, Rejects
    <2> QED BY <2>3, <2>4, <2>5
  <1>7. CASE UNCHANGED connectionVars
    BY <1>7 DEF connectionVars, connection, Answer
  <1> QED BY <1>1, <1>2, <1>3, <1>4, <1>5, <1>6, <1>7 DEF ConnectionNext, TaskStep

(* To their callers the stores on one connection and one lock are a store  *)
(* of atomic calls, though each is half a dozen awaits that a cancellation *)
(* may hit, and whose statements then run on under the next transaction.   *)
THEOREM ImplementsAtomicCalls ==
    ConnectionSpec /\ []RollbacksKeepTheLock => ImplementsAtomicStore
  <1>1. ConnectionInit => Atomic!Init
    BY DEF ConnectionInit, Atomic!Init, Answer
  <1>2. ConnectionInv /\ [ConnectionNext]_connectionVars => [Atomic!Next]_(Atomic!vars)
    <2> SUFFICES ASSUME ConnectionInv, [ConnectionNext]_connectionVars
                 PROVE  [Atomic!Next]_(Atomic!vars)
      OBVIOUS
    <2>1. CASE Hidden
      BY <2>1 DEF Hidden, Atomic!vars
    <2>2. ASSUME NEW o \in Calls, Answer[o] = "idle", durable' = durable,
                 Answer' = [Answer EXCEPT ![o] = "none"]
          PROVE  Atomic!Next
      BY <2>2 DEF Atomic!Next, Atomic!Begin
    <2>3. ASSUME NEW o \in Calls, Answer[o] = "none", durable' = durable,
                 Answer' = [Answer EXCEPT ![o] = "raised"]
          PROVE  Atomic!Next
      BY <2>3 DEF Atomic!Next, Atomic!Raise
    <2>4. ASSUME NEW o \in Calls, Answer[o] = "none", durable' = durable,
                 Answer' = [Answer EXCEPT ![o] = "returned"], WritesOf(o) \subseteq durable
          PROVE  Atomic!Next
      BY <2>4 DEF Atomic!Next, Atomic!Return, Atomic!Effective
    <2>5. ASSUME Answer' = Answer, durable' = durable \cup written, Whole(written)
          PROVE  [Atomic!Next]_(Atomic!vars)
      <3> DEFINE S == Committing
      <3>1. /\ durable' = durable \cup UNION {WritesOf(c) : c \in S}
            /\ S = {} => durable' = durable
            /\ \A c \in S : Answer[c] \in {"none", "raised"}
            /\ \A c, d \in S : c # d => "raised" \in {Answer[c], Answer[d]}
        BY <2>5, CommitIsSeen
      <3>2. S \in SUBSET Calls /\ S \cap Atomic!Effective = {}
        BY DEF Committing, Atomic!Effective
      <3> HIDE DEF S
      <3>3. UNION {WritesOf(c) : c \in S} = UNION {[o \in Calls |-> WritesOf(o)][c] : c \in S}
        BY <3>2
      <3>4. CASE S = {}
        BY <2>5, <3>1, <3>4 DEF Atomic!vars
      <3>5. CASE S # {}
        <4>1. Atomic!TakeEffect(S)
          BY <2>5, <3>1, <3>2, <3>3, <3>5 DEF Atomic!TakeEffect
        <4> QED BY <3>2, <4>1 DEF Atomic!Next
      <3> QED BY <3>4, <3>5
    <2> QED BY <2>1, <2>2, <2>3, <2>4, <2>5, ConnectionStepIsSeen
  <1> QED BY <1>1, <1>2, ConnectionInvariant, PTL
      DEF ConnectionSpec, ImplementsAtomicStore, Atomic!Spec
=============================================================================
