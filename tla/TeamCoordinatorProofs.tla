----------------------- MODULE TeamCoordinatorProofs ------------------------
(***************************************************************************)
(* What a TeamRun keeps through crashes, failed saves and resumptions, for *)
(* any finite DAG of member tasks, any order of its definition and any     *)
(* parallelism.                                                            *)
(***************************************************************************)
EXTENDS TeamCoordinator, FiniteSetTheorems, TLAPS

(* Is TeamCoordinator.run beyond _load_or_create and not yet leaving? *)
Scheduling == coord \in {"loop", "wait", "collect", "close", "final"}

(* Runners exist only while the loop runs; what is collected has returned, *)
(* and a runner that has returned has done something.                      *)
RunnersAreLooped ==
    /\ coord \in {"off", "load", "final", "end"} => \A t \in Tasks : runner[t] = "none"
    /\ \A t \in batch : runner[t] = "returned"
    /\ coord # "collect" => batch = {}
    /\ \A t \in Tasks : runner[t] = "returned" => outcome[t] # "none"
    /\ broken => coord \in {"off", "load", "close", "end"}

(* The coordinator's status of a task follows its runner. *)
Working == {"saving", "queued", "admitted", "executing", "returned"}
StatesFollowRunners ==
    \A t \in Tasks :
        /\ runner[t] = "created" => states[t] = "pending"
        /\ runner[t] \in Working => states[t] = "running"
        /\ Scheduling /\ ~broken /\ states[t] = "running" => runner[t] \in Working

(* A stored result is the coordinator's, and a task on its way to the agent *)
(* is stored as running, in a run that is stored as running.                *)
RecordFollowsStates ==
    /\ coord \notin {"off", "end"} => saved = "running"
    /\ \A t \in Tasks :
          /\ Scheduling /\ record[t] \in TaskTerminal => states[t] = record[t]
          /\ runner[t] \in {"queued", "admitted", "executing"} => record[t] = "running"

(* A task that has a runner has its dependencies. *)
RunnersAreReady ==
    \A t \in Tasks :
        /\ runner[t] \in {"created", "saving", "queued", "admitted", "executing"}
              => DependenciesReady(t, states)
        /\ runner[t] \in {"queued", "admitted", "executing"} => DependenciesReady(t, record)

(* A write that was handed to its agent is not scheduled again: the record *)
(* never calls it pending, nor does the coordinator.                       *)
BegunIsNotPending ==
    \A t \in Writers :
        /\ begun[t] <= 1
        /\ begun[t] = 1 => /\ record[t] # "pending"
                           /\ runner[t] \in {"none", "executing", "returned"}
                           /\ Scheduling => states[t] # "pending"

(* The semaphore and the write lock. *)
InSemaphore == {t \in Tasks : runner[t] \in {"admitted", "executing"}}
WithinParallelism ==
    /\ Cardinality(InSemaphore) <= MaxParallelism
    /\ \A t, u \in Writers : runner[t] = "executing" /\ runner[u] = "executing" => t = u

(* The loop stops early because of the token or of a failure. *)
StopsForAReason ==
    Scheduling /\ stopping /\ ~token => \E t \in Tasks : states[t] = "failed"

(* A write that goes on without its coordinator is on record as running    *)
(* until a coordinator has looked at it, as failed while one schedules, and *)
(* at last as failed or cancelled.                                          *)
AbandonedAreOnRecord ==
    \A t \in abandoned \cap Writers :
        /\ saved \in RunTerminal => record[t] \in {"failed", "cancelled"}
        /\ saved \notin RunTerminal => record[t] \in {"running", "failed"}
        /\ coord \in {"loop", "wait", "collect", "close"} => record[t] = "failed"
        /\ coord = "final" => states[t] \in {"failed", "cancelled"}

IInv ==
    /\ TypeOK
    /\ RunnersAreLooped
    /\ StatesFollowRunners
    /\ RecordFollowsStates
    /\ RunnersAreReady
    /\ BegunIsNotPending
    /\ WithinParallelism
    /\ StopsForAReason
    /\ AbandonedAreOnRecord
    /\ TerminalAccounts

(* What the proofs use of the constants. *)
LEMMA Constants ==
    MaxFaults \in Nat /\ Writers \subseteq Tasks /\ Depends \in [Tasks -> SUBSET Tasks]
  BY TeamAssumption

(* A failure under way is one of the injected ones. *)
LEMMA FaultsCounted ==
    ASSUME TypeOK, Spend
    PROVE  faults' \in 0..MaxFaults
  BY Constants DEF TypeOK, Spend

(* A step of the scheduler blocks pending tasks that are not ready, and      *)
(* creates runners for pending tasks that are.                               *)
LEMMA ScheduleFacts ==
    ASSUME TypeOK, NEW B \in SUBSET Tasks, Schedule(B)
    PROVE  /\ coord = "loop" /\ coord' \in {"wait", "close"}
           /\ stopping' \in BOOLEAN /\ (stopping' => stopping \/ token)
           /\ states' \in [Tasks -> TaskStatus]
           /\ \A t \in Tasks : states'[t] # states[t]
                 => /\ states[t] = "pending" /\ states'[t] = "blocked"
                    /\ ~DependenciesReady(t, states)
           /\ runner' \in [Tasks -> {"none", "created", "saving", "queued", "admitted",
                                     "executing", "returned"}]
           /\ \A t \in Tasks : runner'[t] # runner[t]
                 => /\ runner[t] = "none" /\ runner'[t] = "created"
                    /\ states'[t] = "pending" /\ DependenciesReady(t, states')
           /\ UNCHANGED <<policy, saved, record, entry, outcome, batch, token,
                          broken, begun, faults, abandoned>>
  <1> DEFINE s == [t \in Tasks |-> IF t \in B THEN "blocked" ELSE states[t]]
             ready == {t \in Tasks : s[t] = "pending" /\ runner[t] = "none"
                                     /\ DependenciesReady(t, s)}
  <1>2. CASE token
    BY <1>2 DEF Schedule, TypeOK
  <1>3. CASE ~token
    <2>1. /\ BlockUnreachable(B) /\ states' = s
          /\ runner' = [t \in Tasks |-> IF t \in ready THEN "created" ELSE runner[t]]
      BY <1>3 DEF Schedule
    <2>2. /\ coord = "loop" /\ coord' \in {"wait", "close"}
          /\ UNCHANGED <<policy, saved, record, entry, outcome, batch, token,
                         broken, begun, faults, stopping, abandoned>>
      BY <1>3 DEF Schedule
    <2>3. \A t \in ready : /\ runner[t] = "none" /\ s[t] = "pending"
                           /\ DependenciesReady(t, s)
      OBVIOUS
    <2>4. runner' \in [Tasks -> {"none", "created", "saving", "queued", "admitted",
                                 "executing", "returned"}]
      BY <2>1 DEF TypeOK
    <2>5. \A t \in Tasks : runner'[t] # runner[t] => t \in ready /\ runner'[t] = "created"
      BY <2>1
    <2>6. /\ s \in [Tasks -> TaskStatus]
          /\ \A t \in Tasks : s[t] # states[t] => t \in B /\ s[t] = "blocked"
      BY DEF TypeOK, TaskStatus, TaskTerminal
    <2>7. ASSUME NEW t \in B PROVE states[t] = "pending" /\ ~DependenciesReady(t, states)
      <3>1. policy # "continue-to-synthesis" /\ \A d \in B : Unreachable(d, B)
        BY <2>1 DEF BlockUnreachable
      <3>2. PICK d \in Depends[t] : states[d] \in TaskTerminal \ {"completed"} \/ d \in B
        BY <3>1 DEF Unreachable
      <3>3. states[d] # "completed"
        BY <3>1, <3>2 DEF Unreachable, TaskTerminal
      <3> QED BY <3>1, <3>3 DEF DependenciesReady, Unreachable
    <2> HIDE DEF s, ready
    <2> QED BY <2>1, <2>2, <2>3, <2>4, <2>5, <2>6, <2>7 DEF TypeOK
  <1> QED BY <1>2, <1>3

(* A step of the collector takes over the result of one returned runner. *)
LEMMA CollectFacts ==
    ASSUME TypeOK, RunnersAreLooped, NEW t \in Tasks, Collect(t)
    PROVE  /\ coord = "collect" /\ runner[t] = "returned"
           /\ outcome[t] \in {"completed", "failed", "cancelled", "broken"}
           /\ runner' = [runner EXCEPT ![t] = "none"]
           /\ coord' \in {"close", "loop", "collect"} /\ (broken' => coord' = "close")
           /\ broken' \in BOOLEAN /\ stopping' \in BOOLEAN
           /\ batch' \subseteq batch \ {t} /\ (coord' # "collect" => batch' = {})
           /\ \/ outcome[t] = "broken" /\ broken' /\ UNCHANGED <<states, record, stopping>>
              \/ /\ outcome[t] # "broken" /\ states' = [states EXCEPT ![t] = outcome[t]]
                 /\ \/ /\ record' = states' /\ UNCHANGED broken
                       /\ stopping' => outcome[t] = "failed"
                    \/ broken' /\ UNCHANGED <<record, stopping>>
           /\ faults' \in 0..MaxFaults
           /\ UNCHANGED <<policy, saved, entry, outcome, token, begun, abandoned>>
  <1>1. /\ coord = "collect" /\ runner[t] = "returned"
        /\ outcome[t] \in {"completed", "failed", "cancelled", "broken"}
        /\ runner' = [runner EXCEPT ![t] = "none"]
        /\ UNCHANGED <<policy, saved, entry, outcome, token, begun, abandoned>>
        /\ faults' \in 0..MaxFaults
    BY Constants DEF TypeOK, RunnersAreLooped, Collect, Spend
  <1>2. /\ coord' \in {"close", "loop", "collect"}
        /\ batch' \subseteq batch \ {t} /\ (coord' # "collect" => batch' = {})
        /\ broken' => coord' = "close"
    BY DEF Collect
  <1>3. /\ broken' \in BOOLEAN /\ stopping' \in BOOLEAN
        /\ \/ outcome[t] = "broken" /\ broken' /\ UNCHANGED <<states, record, stopping>>
           \/ /\ outcome[t] # "broken" /\ states' = [states EXCEPT ![t] = outcome[t]]
              /\ \/ /\ record' = states' /\ UNCHANGED broken
                    /\ stopping' => outcome[t] = "failed"
                 \/ broken' /\ UNCHANGED <<record, stopping>>
    BY DEF Collect, TypeOK
  <1> QED BY <1>1, <1>2, <1>3

(* A save either stores what the coordinator knows or breaks the runner. *)
LEMMA SaveFacts ==
    ASSUME TypeOK, NEW t \in Tasks, SaveTaskState(t)
    PROVE  /\ coord # "close" /\ runner[t] = "saving"
           /\ \/ /\ runner' = [runner EXCEPT ![t] = "queued"] /\ record' = states
                 /\ UNCHANGED outcome
              \/ /\ runner' = [runner EXCEPT ![t] = "returned"] /\ UNCHANGED record
                 /\ outcome' = [outcome EXCEPT ![t] = "broken"]
           /\ faults' \in 0..MaxFaults
           /\ UNCHANGED <<policy, saved, entry, coord, states, batch, token,
                          stopping, broken, begun, abandoned>>
  BY Constants DEF TypeOK, SaveTaskState, Steps, Returns, Spend

(* Who leaves the semaphore keeps the limit. *)
LEMMA SemaphoreBounded ==
    ASSUME WithinParallelism, InSemaphore' \subseteq InSemaphore
    PROVE  Cardinality(InSemaphore') <= MaxParallelism
  <1>1. IsFiniteSet(InSemaphore)
    BY TeamAssumption, FS_Subset DEF InSemaphore
  <1>2. Cardinality(InSemaphore') <= Cardinality(InSemaphore)
    BY <1>1, FS_Subset
  <1>3. /\ IsFiniteSet(InSemaphore')
        /\ Cardinality(InSemaphore) \in Nat /\ Cardinality(InSemaphore') \in Nat
    BY <1>1, FS_Subset, FS_CardinalityType
  <1> QED BY <1>2, <1>3, TeamAssumption DEF WithinParallelism

(* Types: a status that is taken over from a runner is a terminal one. *)
LEMMA TypePreserved ==
    ASSUME IInv, Next
    PROVE  TypeOK'
  <1> USE Constants DEF IInv, TypeOK, TaskStatus, TaskTerminal, RunTerminal,
      RunnersAreLooped, RecordFollowsStates
  <1>1. ASSUME TeamsRun PROVE TypeOK'
    BY <1>1, FaultsCounted DEF TeamsRun, MayRun
  <1>2. ASSUME TeamsCancel PROVE TypeOK'
    BY <1>2 DEF TeamsCancel
  <1>3. ASSUME LoadOrCreate PROVE TypeOK'
    <2>1. Recovered \in [Tasks -> TaskStatus]
      BY DEF Recovered
    <2>2. faults' \in 0..MaxFaults
      BY <1>3, FaultsCounted DEF LoadOrCreate
    <2>3. /\ record' \in {record, Recovered} /\ states' \in {states, Recovered}
          /\ stopping' \in BOOLEAN /\ broken' \in BOOLEAN /\ coord' \in {"loop", "end"}
          /\ UNCHANGED <<policy, saved, entry, runner, outcome, batch, token, begun,
                         abandoned>>
      BY <1>3 DEF LoadOrCreate
    <2> QED BY <2>1, <2>2, <2>3
  <1>4. ASSUME NEW B \in SUBSET Tasks, Schedule(B) PROVE TypeOK'
    BY <1>4, ScheduleFacts
  <1>5. ASSUME Wake PROVE TypeOK'
    BY <1>5 DEF Wake
  <1>6. ASSUME NEW t \in Tasks, Collect(t) PROVE TypeOK'
    BY <1>6, CollectFacts
  <1>7. ASSUME Close PROVE TypeOK'
    BY <1>7 DEF Close, Executing
  <1>8. ASSUME Finalize PROVE TypeOK'
    <2>1. Finalized \in [Tasks -> TaskStatus]
      BY DEF Finalized
    <2>2. faults' \in 0..MaxFaults
      BY <1>8, FaultsCounted DEF Finalize
    <2>3. saved' \in {"none", "running"} \cup RunTerminal /\ broken' \in BOOLEAN
      BY <1>8 DEF Finalize
    <2>4. states' = Finalized /\ record' \in {record, Finalized} /\ coord' = "end"
      BY <1>8 DEF Finalize
    <2>5. UNCHANGED <<policy, entry, runner, outcome, batch, token, stopping, begun,
                      abandoned>>
      BY <1>8 DEF Finalize
    <2> QED BY <2>1, <2>2, <2>3, <2>4, <2>5
  <1>9. ASSUME EndTeamRun PROVE TypeOK'
    BY <1>9, FaultsCounted DEF EndTeamRun
  <1>10. ASSUME Crash PROVE TypeOK'
    BY <1>10, FaultsCounted DEF Crash
  <1>11. ASSUME NEW t \in Tasks, Register(t) PROVE TypeOK'
    BY <1>11 DEF Register, Steps
  <1>12. ASSUME NEW t \in Tasks, SaveTaskState(t) PROVE TypeOK'
    BY <1>12, SaveFacts
  <1>13. ASSUME NEW t \in Tasks, Admit(t) PROVE TypeOK'
    BY <1>13 DEF Admit, Steps
  <1>14. ASSUME NEW t \in Tasks, Delegate(t) PROVE TypeOK'
    BY <1>14 DEF Delegate, Steps, Returns
  <1>15. ASSUME NEW t \in Tasks, NEW o \in {"completed", "failed", "cancelled",
        "broken"}, MemberReturns(t, o) PROVE TypeOK'
    BY <1>15, FaultsCounted DEF MemberReturns, Steps, Returns
  <1>16. ASSUME NEW t \in Tasks, AgentEnds(t) PROVE TypeOK'
    BY <1>16 DEF AgentEnds
  <1> QED BY <1>1, <1>2, <1>3, <1>4, <1>5, <1>6, <1>7, <1>8, <1>9, <1>10, <1>11, <1>12,
      <1>13, <1>14, <1>15, <1>16 DEF Next, Coordinate, Member

(* Runners come with Schedule and go with Collect and Close. *)
LEMMA LoopPreserved ==
    ASSUME IInv, Next
    PROVE  RunnersAreLooped'
  <1> USE Constants DEF IInv, TypeOK, TaskStatus, TaskTerminal, RunTerminal,
      RunnersAreLooped, StatesFollowRunners
  <1>1. ASSUME TeamsRun PROVE RunnersAreLooped'
    BY <1>1 DEF TeamsRun, MayRun
  <1>2. ASSUME TeamsCancel PROVE RunnersAreLooped'
    BY <1>2 DEF TeamsCancel
  <1>3. ASSUME LoadOrCreate PROVE RunnersAreLooped'
    BY <1>3 DEF LoadOrCreate, Recovered
  <1>4. ASSUME NEW B \in SUBSET Tasks, Schedule(B) PROVE RunnersAreLooped'
    BY <1>4, ScheduleFacts
  <1>5. ASSUME Wake PROVE RunnersAreLooped'
    BY <1>5 DEF Wake
  <1>6. ASSUME NEW t \in Tasks, Collect(t) PROVE RunnersAreLooped'
    BY <1>6, CollectFacts
  <1>7. ASSUME Close PROVE RunnersAreLooped'
    BY <1>7 DEF Close
  <1>8. ASSUME Finalize PROVE RunnersAreLooped'
    BY <1>8 DEF Finalize, Finalized
  <1>9. ASSUME EndTeamRun PROVE RunnersAreLooped'
    BY <1>9 DEF EndTeamRun
  <1>10. ASSUME Crash PROVE RunnersAreLooped'
    BY <1>10 DEF Crash
  <1>11. ASSUME NEW t \in Tasks, Register(t) PROVE RunnersAreLooped'
    BY <1>11 DEF Register, Steps
  <1>12. ASSUME NEW t \in Tasks, SaveTaskState(t) PROVE RunnersAreLooped'
    BY <1>12, SaveFacts
  <1>13. ASSUME NEW t \in Tasks, Admit(t) PROVE RunnersAreLooped'
    BY <1>13 DEF Admit, Steps
  <1>14. ASSUME NEW t \in Tasks, Delegate(t) PROVE RunnersAreLooped'
    BY <1>14 DEF Delegate, Steps, Returns
  <1>15. ASSUME NEW t \in Tasks, NEW o \in {"completed", "failed", "cancelled",
        "broken"}, MemberReturns(t, o) PROVE RunnersAreLooped'
    BY <1>15 DEF MemberReturns, Steps, Returns
  <1>16. ASSUME NEW t \in Tasks, AgentEnds(t) PROVE RunnersAreLooped'
    BY <1>16 DEF AgentEnds
  <1> QED BY <1>1, <1>2, <1>3, <1>4, <1>5, <1>6, <1>7, <1>8, <1>9, <1>10, <1>11, <1>12,
      <1>13, <1>14, <1>15, <1>16 DEF Next, Coordinate, Member

(* The coordinator's status of a task follows its runner. *)
LEMMA StatesPreserved ==
    ASSUME IInv, Next
    PROVE  StatesFollowRunners'
  <1> USE Constants DEF IInv, TypeOK, TaskStatus, TaskTerminal, RunTerminal,
      Scheduling, Working, RunnersAreLooped, StatesFollowRunners, RunnersAreReady
  <1>1. ASSUME TeamsRun PROVE StatesFollowRunners'
    BY <1>1 DEF TeamsRun, MayRun
  <1>2. ASSUME TeamsCancel PROVE StatesFollowRunners'
    BY <1>2 DEF TeamsCancel
  <1>3. ASSUME LoadOrCreate PROVE StatesFollowRunners'
    BY <1>3 DEF LoadOrCreate, Recovered
  <1>4. ASSUME NEW B \in SUBSET Tasks, Schedule(B) PROVE StatesFollowRunners'
    BY <1>4, ScheduleFacts
  <1>5. ASSUME Wake PROVE StatesFollowRunners'
    BY <1>5 DEF Wake
  <1>6. ASSUME NEW t \in Tasks, Collect(t) PROVE StatesFollowRunners'
    BY <1>6, CollectFacts
  <1>7. ASSUME Close PROVE StatesFollowRunners'
    BY <1>7 DEF Close
  <1>8. ASSUME Finalize PROVE StatesFollowRunners'
    BY <1>8 DEF Finalize, Finalized
  <1>9. ASSUME EndTeamRun PROVE StatesFollowRunners'
    BY <1>9 DEF EndTeamRun
  <1>10. ASSUME Crash PROVE StatesFollowRunners'
    BY <1>10 DEF Crash
  <1>11. ASSUME NEW t \in Tasks, Register(t) PROVE StatesFollowRunners'
    BY <1>11 DEF Register, Steps
  <1>12. ASSUME NEW t \in Tasks, SaveTaskState(t) PROVE StatesFollowRunners'
    BY <1>12, SaveFacts
  <1>13. ASSUME NEW t \in Tasks, Admit(t) PROVE StatesFollowRunners'
    BY <1>13 DEF Admit, Steps
  <1>14. ASSUME NEW t \in Tasks, Delegate(t) PROVE StatesFollowRunners'
    BY <1>14 DEF Delegate, Steps, Returns
  <1>15. ASSUME NEW t \in Tasks, NEW o \in {"completed", "failed", "cancelled",
        "broken"}, MemberReturns(t, o) PROVE StatesFollowRunners'
    BY <1>15 DEF MemberReturns, Steps, Returns
  <1>16. ASSUME NEW t \in Tasks, AgentEnds(t) PROVE StatesFollowRunners'
    BY <1>16 DEF AgentEnds
  <1> QED BY <1>1, <1>2, <1>3, <1>4, <1>5, <1>6, <1>7, <1>8, <1>9, <1>10, <1>11, <1>12,
      <1>13, <1>14, <1>15, <1>16 DEF Next, Coordinate, Member

(* Every save stores what the coordinator knows. *)
LEMMA RecordPreserved ==
    ASSUME IInv, Next
    PROVE  RecordFollowsStates'
  <1> USE Constants DEF IInv, TypeOK, TaskStatus, TaskTerminal, RunTerminal,
      Scheduling, Working, RunnersAreLooped, StatesFollowRunners, RecordFollowsStates
  <1>1. ASSUME TeamsRun PROVE RecordFollowsStates'
    BY <1>1 DEF TeamsRun, MayRun
  <1>2. ASSUME TeamsCancel PROVE RecordFollowsStates'
    BY <1>2 DEF TeamsCancel
  <1>3. ASSUME LoadOrCreate PROVE RecordFollowsStates'
    BY <1>3 DEF LoadOrCreate, Recovered
  <1>4. ASSUME NEW B \in SUBSET Tasks, Schedule(B) PROVE RecordFollowsStates'
    BY <1>4, ScheduleFacts
  <1>5. ASSUME Wake PROVE RecordFollowsStates'
    BY <1>5 DEF Wake
  <1>6. ASSUME NEW t \in Tasks, Collect(t) PROVE RecordFollowsStates'
    BY <1>6, CollectFacts
  <1>7. ASSUME Close PROVE RecordFollowsStates'
    BY <1>7 DEF Close
  <1>8. ASSUME Finalize PROVE RecordFollowsStates'
    BY <1>8 DEF Finalize, Finalized
  <1>9. ASSUME EndTeamRun PROVE RecordFollowsStates'
    BY <1>9 DEF EndTeamRun
  <1>10. ASSUME Crash PROVE RecordFollowsStates'
    BY <1>10 DEF Crash
  <1>11. ASSUME NEW t \in Tasks, Register(t) PROVE RecordFollowsStates'
    BY <1>11 DEF Register, Steps
  <1>12. ASSUME NEW t \in Tasks, SaveTaskState(t) PROVE RecordFollowsStates'
    BY <1>12, SaveFacts
  <1>13. ASSUME NEW t \in Tasks, Admit(t) PROVE RecordFollowsStates'
    BY <1>13 DEF Admit, Steps
  <1>14. ASSUME NEW t \in Tasks, Delegate(t) PROVE RecordFollowsStates'
    BY <1>14 DEF Delegate, Steps, Returns
  <1>15. ASSUME NEW t \in Tasks, NEW o \in {"completed", "failed", "cancelled",
        "broken"}, MemberReturns(t, o) PROVE RecordFollowsStates'
    BY <1>15 DEF MemberReturns, Steps, Returns
  <1>16. ASSUME NEW t \in Tasks, AgentEnds(t) PROVE RecordFollowsStates'
    BY <1>16 DEF AgentEnds
  <1> QED BY <1>1, <1>2, <1>3, <1>4, <1>5, <1>6, <1>7, <1>8, <1>9, <1>10, <1>11, <1>12,
      <1>13, <1>14, <1>15, <1>16 DEF Next, Coordinate, Member

(* A dependency that has ended stays as it ended. *)
LEMMA ReadyPreserved ==
    ASSUME IInv, Next
    PROVE  RunnersAreReady'
  <1> USE Constants DEF IInv, TypeOK, TaskStatus, TaskTerminal, RunTerminal,
      Scheduling, Working, RunnersAreLooped, StatesFollowRunners, RecordFollowsStates,
      RunnersAreReady, DependenciesReady
  <1>1. ASSUME TeamsRun PROVE RunnersAreReady'
    BY <1>1 DEF TeamsRun, MayRun
  <1>2. ASSUME TeamsCancel PROVE RunnersAreReady'
    BY <1>2 DEF TeamsCancel
  <1>3. ASSUME LoadOrCreate PROVE RunnersAreReady'
    BY <1>3 DEF LoadOrCreate, Recovered
  <1>4. ASSUME NEW B \in SUBSET Tasks, Schedule(B) PROVE RunnersAreReady'
    BY <1>4, ScheduleFacts
  <1>5. ASSUME Wake PROVE RunnersAreReady'
    BY <1>5 DEF Wake
  <1>6. ASSUME NEW t \in Tasks, Collect(t) PROVE RunnersAreReady'
    BY <1>6, CollectFacts
  <1>7. ASSUME Close PROVE RunnersAreReady'
    BY <1>7 DEF Close
  <1>8. ASSUME Finalize PROVE RunnersAreReady'
    BY <1>8 DEF Finalize, Finalized
  <1>9. ASSUME EndTeamRun PROVE RunnersAreReady'
    BY <1>9 DEF EndTeamRun
  <1>10. ASSUME Crash PROVE RunnersAreReady'
    BY <1>10 DEF Crash
  <1>11. ASSUME NEW t \in Tasks, Register(t) PROVE RunnersAreReady'
    BY <1>11 DEF Register, Steps
  <1>12. ASSUME NEW t \in Tasks, SaveTaskState(t) PROVE RunnersAreReady'
    BY <1>12, SaveFacts
  <1>13. ASSUME NEW t \in Tasks, Admit(t) PROVE RunnersAreReady'
    BY <1>13 DEF Admit, Steps
  <1>14. ASSUME NEW t \in Tasks, Delegate(t) PROVE RunnersAreReady'
    BY <1>14 DEF Delegate, Steps, Returns
  <1>15. ASSUME NEW t \in Tasks, NEW o \in {"completed", "failed", "cancelled",
        "broken"}, MemberReturns(t, o) PROVE RunnersAreReady'
    BY <1>15 DEF MemberReturns, Steps, Returns
  <1>16. ASSUME NEW t \in Tasks, AgentEnds(t) PROVE RunnersAreReady'
    BY <1>16 DEF AgentEnds
  <1> QED BY <1>1, <1>2, <1>3, <1>4, <1>5, <1>6, <1>7, <1>8, <1>9, <1>10, <1>11, <1>12,
      <1>13, <1>14, <1>15, <1>16 DEF Next, Coordinate, Member

(* A write begins once: it is running on record then, and recovery fails it. *)
LEMMA BegunPreserved ==
    ASSUME IInv, Next
    PROVE  BegunIsNotPending'
  <1> USE Constants DEF IInv, TypeOK, TaskStatus, TaskTerminal, RunTerminal,
      Scheduling, Working, RunnersAreLooped, StatesFollowRunners, RecordFollowsStates,
      BegunIsNotPending
  <1>1. ASSUME TeamsRun PROVE BegunIsNotPending'
    BY <1>1 DEF TeamsRun, MayRun
  <1>2. ASSUME TeamsCancel PROVE BegunIsNotPending'
    BY <1>2 DEF TeamsCancel
  <1>3. ASSUME LoadOrCreate PROVE BegunIsNotPending'
    BY <1>3 DEF LoadOrCreate, Recovered
  <1>4. ASSUME NEW B \in SUBSET Tasks, Schedule(B) PROVE BegunIsNotPending'
    BY <1>4, ScheduleFacts
  <1>5. ASSUME Wake PROVE BegunIsNotPending'
    BY <1>5 DEF Wake
  <1>6. ASSUME NEW t \in Tasks, Collect(t) PROVE BegunIsNotPending'
    BY <1>6, CollectFacts
  <1>7. ASSUME Close PROVE BegunIsNotPending'
    BY <1>7 DEF Close
  <1>8. ASSUME Finalize PROVE BegunIsNotPending'
    BY <1>8 DEF Finalize, Finalized
  <1>9. ASSUME EndTeamRun PROVE BegunIsNotPending'
    BY <1>9 DEF EndTeamRun
  <1>10. ASSUME Crash PROVE BegunIsNotPending'
    BY <1>10 DEF Crash
  <1>11. ASSUME NEW t \in Tasks, Register(t) PROVE BegunIsNotPending'
    BY <1>11 DEF Register, Steps
  <1>12. ASSUME NEW t \in Tasks, SaveTaskState(t) PROVE BegunIsNotPending'
    BY <1>12, SaveFacts
  <1>13. ASSUME NEW t \in Tasks, Admit(t) PROVE BegunIsNotPending'
    BY <1>13 DEF Admit, Steps
  <1>14. ASSUME NEW t \in Tasks, Delegate(t) PROVE BegunIsNotPending'
    BY <1>14 DEF Delegate, Steps, Returns
  <1>15. ASSUME NEW t \in Tasks, NEW o \in {"completed", "failed", "cancelled",
        "broken"}, MemberReturns(t, o) PROVE BegunIsNotPending'
    BY <1>15 DEF MemberReturns, Steps, Returns
  <1>16. ASSUME NEW t \in Tasks, AgentEnds(t) PROVE BegunIsNotPending'
    BY <1>16 DEF AgentEnds
  <1> QED BY <1>1, <1>2, <1>3, <1>4, <1>5, <1>6, <1>7, <1>8, <1>9, <1>10, <1>11, <1>12,
      <1>13, <1>14, <1>15, <1>16 DEF Next, Coordinate, Member

(* A failed task stays failed until the run has ended. *)
LEMMA StopPreserved ==
    ASSUME IInv, Next
    PROVE  StopsForAReason'
  <1> USE Constants DEF IInv, TypeOK, TaskStatus, TaskTerminal, RunTerminal,
      Scheduling, Working, RunnersAreLooped, StatesFollowRunners, StopsForAReason
  <1>1. ASSUME TeamsRun PROVE StopsForAReason'
    BY <1>1 DEF TeamsRun, MayRun
  <1>2. ASSUME TeamsCancel PROVE StopsForAReason'
    BY <1>2 DEF TeamsCancel
  <1>3. ASSUME LoadOrCreate PROVE StopsForAReason'
    BY <1>3 DEF LoadOrCreate, Recovered
  <1>4. ASSUME NEW B \in SUBSET Tasks, Schedule(B) PROVE StopsForAReason'
    BY <1>4, ScheduleFacts
  <1>5. ASSUME Wake PROVE StopsForAReason'
    BY <1>5 DEF Wake
  <1>6. ASSUME NEW t \in Tasks, Collect(t) PROVE StopsForAReason'
    <2> SUFFICES ASSUME Scheduling', stopping', ~token' PROVE \E u \in Tasks : states'[u] = "failed"
      OBVIOUS
    <2>1. /\ states[t] = "running" /\ ~token /\ Scheduling
          /\ \/ UNCHANGED states
             \/ states' = [states EXCEPT ![t] = outcome[t]]
          /\ stopping \/ (outcome[t] = "failed" /\ states' = [states EXCEPT ![t] = outcome[t]])
      BY <1>6, CollectFacts
    <2>2. CASE stopping
      <3>1. PICK u \in Tasks : states[u] = "failed"
        BY <2>1, <2>2
      <3> QED BY <2>1, <3>1
    <2>3. CASE ~stopping
      BY <2>1, <2>3
    <2> QED BY <2>2, <2>3
  <1>7. ASSUME Close PROVE StopsForAReason'
    BY <1>7 DEF Close
  <1>8. ASSUME Finalize PROVE StopsForAReason'
    BY <1>8 DEF Finalize, Finalized
  <1>9. ASSUME EndTeamRun PROVE StopsForAReason'
    BY <1>9 DEF EndTeamRun
  <1>10. ASSUME Crash PROVE StopsForAReason'
    BY <1>10 DEF Crash
  <1>11. ASSUME NEW t \in Tasks, Register(t) PROVE StopsForAReason'
    BY <1>11 DEF Register, Steps
  <1>12. ASSUME NEW t \in Tasks, SaveTaskState(t) PROVE StopsForAReason'
    BY <1>12, SaveFacts
  <1>13. ASSUME NEW t \in Tasks, Admit(t) PROVE StopsForAReason'
    BY <1>13 DEF Admit, Steps
  <1>14. ASSUME NEW t \in Tasks, Delegate(t) PROVE StopsForAReason'
    BY <1>14 DEF Delegate, Steps, Returns
  <1>15. ASSUME NEW t \in Tasks, NEW o \in {"completed", "failed", "cancelled",
        "broken"}, MemberReturns(t, o) PROVE StopsForAReason'
    BY <1>15 DEF MemberReturns, Steps, Returns
  <1>16. ASSUME NEW t \in Tasks, AgentEnds(t) PROVE StopsForAReason'
    BY <1>16 DEF AgentEnds
  <1> QED BY <1>1, <1>2, <1>3, <1>4, <1>5, <1>6, <1>7, <1>8, <1>9, <1>10, <1>11, <1>12,
      <1>13, <1>14, <1>15, <1>16 DEF Next, Coordinate, Member

(* Whoever schedules has looked at the writes that were abandoned before. *)
LEMMA AbandonedPreserved ==
    ASSUME IInv, Next
    PROVE  AbandonedAreOnRecord'
  <1> USE Constants DEF IInv, TypeOK, TaskStatus, TaskTerminal, RunTerminal,
      Scheduling, Working, RunnersAreLooped, StatesFollowRunners, RecordFollowsStates,
      AbandonedAreOnRecord
  <1>1. ASSUME TeamsRun PROVE AbandonedAreOnRecord'
    BY <1>1 DEF TeamsRun, MayRun
  <1>2. ASSUME TeamsCancel PROVE AbandonedAreOnRecord'
    BY <1>2 DEF TeamsCancel
  <1>3. ASSUME LoadOrCreate PROVE AbandonedAreOnRecord'
    BY <1>3 DEF LoadOrCreate, Recovered
  <1>4. ASSUME NEW B \in SUBSET Tasks, Schedule(B) PROVE AbandonedAreOnRecord'
    BY <1>4, ScheduleFacts
  <1>5. ASSUME Wake PROVE AbandonedAreOnRecord'
    BY <1>5 DEF Wake
  <1>6. ASSUME NEW t \in Tasks, Collect(t) PROVE AbandonedAreOnRecord'
    BY <1>6, CollectFacts
  <1>7. ASSUME Close PROVE AbandonedAreOnRecord'
    BY <1>7 DEF Close, Executing
  <1>8. ASSUME Finalize PROVE AbandonedAreOnRecord'
    BY <1>8 DEF Finalize, Finalized
  <1>9. ASSUME EndTeamRun PROVE AbandonedAreOnRecord'
    BY <1>9 DEF EndTeamRun
  <1>10. ASSUME Crash PROVE AbandonedAreOnRecord'
    BY <1>10 DEF Crash
  <1>11. ASSUME NEW t \in Tasks, Register(t) PROVE AbandonedAreOnRecord'
    BY <1>11 DEF Register, Steps
  <1>12. ASSUME NEW t \in Tasks, SaveTaskState(t) PROVE AbandonedAreOnRecord'
    BY <1>12, SaveFacts
  <1>13. ASSUME NEW t \in Tasks, Admit(t) PROVE AbandonedAreOnRecord'
    BY <1>13 DEF Admit, Steps
  <1>14. ASSUME NEW t \in Tasks, Delegate(t) PROVE AbandonedAreOnRecord'
    BY <1>14 DEF Delegate, Steps, Returns
  <1>15. ASSUME NEW t \in Tasks, NEW o \in {"completed", "failed", "cancelled",
        "broken"}, MemberReturns(t, o) PROVE AbandonedAreOnRecord'
    BY <1>15 DEF MemberReturns, Steps, Returns
  <1>16. ASSUME NEW t \in Tasks, AgentEnds(t) PROVE AbandonedAreOnRecord'
    BY <1>16 DEF AgentEnds
  <1> QED BY <1>1, <1>2, <1>3, <1>4, <1>5, <1>6, <1>7, <1>8, <1>9, <1>10, <1>11, <1>12,
      <1>13, <1>14, <1>15, <1>16 DEF Next, Coordinate, Member

(* The final state is stored when every runner is gone. *)
LEMMA AccountsPreserved ==
    ASSUME IInv, Next
    PROVE  TerminalAccounts'
  <1> USE Constants DEF IInv, TypeOK, TaskStatus, TaskTerminal, RunTerminal,
      Scheduling, Working, RunnersAreLooped, StatesFollowRunners, RecordFollowsStates,
      StopsForAReason, AbandonedAreOnRecord, TerminalAccounts
  <1>1. ASSUME TeamsRun PROVE TerminalAccounts'
    BY <1>1 DEF TeamsRun, MayRun
  <1>2. ASSUME TeamsCancel PROVE TerminalAccounts'
    BY <1>2 DEF TeamsCancel
  <1>3. ASSUME LoadOrCreate PROVE TerminalAccounts'
    BY <1>3 DEF LoadOrCreate, Recovered
  <1>4. ASSUME NEW B \in SUBSET Tasks, Schedule(B) PROVE TerminalAccounts'
    BY <1>4, ScheduleFacts
  <1>5. ASSUME Wake PROVE TerminalAccounts'
    BY <1>5 DEF Wake
  <1>6. ASSUME NEW t \in Tasks, Collect(t) PROVE TerminalAccounts'
    BY <1>6, CollectFacts
  <1>7. ASSUME Close PROVE TerminalAccounts'
    BY <1>7 DEF Close
  <1>8. ASSUME Finalize PROVE TerminalAccounts'
    BY <1>8 DEF Finalize, Finalized
  <1>9. ASSUME EndTeamRun PROVE TerminalAccounts'
    BY <1>9 DEF EndTeamRun
  <1>10. ASSUME Crash PROVE TerminalAccounts'
    BY <1>10 DEF Crash
  <1>11. ASSUME NEW t \in Tasks, Register(t) PROVE TerminalAccounts'
    BY <1>11 DEF Register, Steps
  <1>12. ASSUME NEW t \in Tasks, SaveTaskState(t) PROVE TerminalAccounts'
    BY <1>12, SaveFacts
  <1>13. ASSUME NEW t \in Tasks, Admit(t) PROVE TerminalAccounts'
    BY <1>13 DEF Admit, Steps
  <1>14. ASSUME NEW t \in Tasks, Delegate(t) PROVE TerminalAccounts'
    BY <1>14 DEF Delegate, Steps, Returns
  <1>15. ASSUME NEW t \in Tasks, NEW o \in {"completed", "failed", "cancelled",
        "broken"}, MemberReturns(t, o) PROVE TerminalAccounts'
    BY <1>15 DEF MemberReturns, Steps, Returns
  <1>16. ASSUME NEW t \in Tasks, AgentEnds(t) PROVE TerminalAccounts'
    BY <1>16 DEF AgentEnds
  <1> QED BY <1>1, <1>2, <1>3, <1>4, <1>5, <1>6, <1>7, <1>8, <1>9, <1>10, <1>11, <1>12,
      <1>13, <1>14, <1>15, <1>16 DEF Next, Coordinate, Member

(* Only Admit adds a runner to the semaphore, and only Delegate a writer. *)
LEMMA ParallelismPreserved ==
    ASSUME IInv, Next
    PROVE  WithinParallelism'
  <1> USE Constants DEF IInv, TypeOK, TaskStatus, TaskTerminal, RunTerminal,
      InSemaphore, WithinParallelism
  <1>1. ASSUME TeamsRun PROVE WithinParallelism'
    <2>1. InSemaphore' \subseteq InSemaphore
      BY <1>1 DEF TeamsRun
    <2>2. \A u \in Writers : runner'[u] = "executing" => runner[u] = "executing"
      BY <1>1 DEF TeamsRun
    <2> QED BY <2>1, <2>2, SemaphoreBounded
  <1>2. ASSUME TeamsCancel PROVE WithinParallelism'
    <2>1. InSemaphore' \subseteq InSemaphore
      BY <1>2 DEF TeamsCancel
    <2>2. \A u \in Writers : runner'[u] = "executing" => runner[u] = "executing"
      BY <1>2 DEF TeamsCancel
    <2> QED BY <2>1, <2>2, SemaphoreBounded
  <1>3. ASSUME LoadOrCreate PROVE WithinParallelism'
    <2>1. InSemaphore' \subseteq InSemaphore
      BY <1>3 DEF LoadOrCreate
    <2>2. \A u \in Writers : runner'[u] = "executing" => runner[u] = "executing"
      BY <1>3 DEF LoadOrCreate
    <2> QED BY <2>1, <2>2, SemaphoreBounded
  <1>4. ASSUME NEW B \in SUBSET Tasks, Schedule(B) PROVE WithinParallelism'
    <2>1. InSemaphore' \subseteq InSemaphore
      BY <1>4, ScheduleFacts DEF IInv
    <2>2. \A u \in Writers : runner'[u] = "executing" => runner[u] = "executing"
      BY <1>4, ScheduleFacts DEF IInv
    <2> QED BY <2>1, <2>2, SemaphoreBounded
  <1>5. ASSUME Wake PROVE WithinParallelism'
    <2>1. InSemaphore' \subseteq InSemaphore
      BY <1>5 DEF Wake
    <2>2. \A u \in Writers : runner'[u] = "executing" => runner[u] = "executing"
      BY <1>5 DEF Wake
    <2> QED BY <2>1, <2>2, SemaphoreBounded
  <1>6. ASSUME NEW t \in Tasks, Collect(t) PROVE WithinParallelism'
    <2>1. InSemaphore' \subseteq InSemaphore
      BY <1>6, CollectFacts DEF IInv
    <2>2. \A u \in Writers : runner'[u] = "executing" => runner[u] = "executing"
      BY <1>6, CollectFacts DEF IInv
    <2> QED BY <2>1, <2>2, SemaphoreBounded
  <1>7. ASSUME Close PROVE WithinParallelism'
    <2>1. InSemaphore' \subseteq InSemaphore
      BY <1>7 DEF Close
    <2>2. \A u \in Writers : runner'[u] = "executing" => runner[u] = "executing"
      BY <1>7 DEF Close
    <2> QED BY <2>1, <2>2, SemaphoreBounded
  <1>8. ASSUME Finalize PROVE WithinParallelism'
    <2>1. InSemaphore' \subseteq InSemaphore
      BY <1>8 DEF Finalize
    <2>2. \A u \in Writers : runner'[u] = "executing" => runner[u] = "executing"
      BY <1>8 DEF Finalize
    <2> QED BY <2>1, <2>2, SemaphoreBounded
  <1>9. ASSUME EndTeamRun PROVE WithinParallelism'
    <2>1. InSemaphore' \subseteq InSemaphore
      BY <1>9 DEF EndTeamRun
    <2>2. \A u \in Writers : runner'[u] = "executing" => runner[u] = "executing"
      BY <1>9 DEF EndTeamRun
    <2> QED BY <2>1, <2>2, SemaphoreBounded
  <1>10. ASSUME Crash PROVE WithinParallelism'
    <2>1. InSemaphore' \subseteq InSemaphore
      BY <1>10 DEF Crash
    <2>2. \A u \in Writers : runner'[u] = "executing" => runner[u] = "executing"
      BY <1>10 DEF Crash
    <2> QED BY <2>1, <2>2, SemaphoreBounded
  <1>11. ASSUME NEW t \in Tasks, Register(t) PROVE WithinParallelism'
    <2>1. InSemaphore' \subseteq InSemaphore
      BY <1>11 DEF Register, Steps
    <2>2. \A u \in Writers : runner'[u] = "executing" => runner[u] = "executing"
      BY <1>11 DEF Register, Steps
    <2> QED BY <2>1, <2>2, SemaphoreBounded
  <1>12. ASSUME NEW t \in Tasks, SaveTaskState(t) PROVE WithinParallelism'
    <2>1. InSemaphore' \subseteq InSemaphore
      BY <1>12, SaveFacts DEF IInv
    <2>2. \A u \in Writers : runner'[u] = "executing" => runner[u] = "executing"
      BY <1>12, SaveFacts DEF IInv
    <2> QED BY <2>1, <2>2, SemaphoreBounded
  <1>13. ASSUME NEW t \in Tasks, Admit(t) PROVE WithinParallelism'
    <2>1. InSemaphore' = InSemaphore \cup {t} /\ Cardinality(InSemaphore) < MaxParallelism
      BY <1>13 DEF Admit, Steps
    <2> HIDE DEF InSemaphore, TypeOK, IInv, WithinParallelism
    <2>2. /\ IsFiniteSet(InSemaphore) /\ Cardinality(InSemaphore) \in Nat
      BY TeamAssumption, FS_Subset, FS_CardinalityType DEF InSemaphore
    <2>3. Cardinality(InSemaphore \cup {t}) \in {Cardinality(InSemaphore), Cardinality(InSemaphore) + 1}
      <3>1. Cardinality(InSemaphore \cup {t})
               = IF t \in InSemaphore THEN Cardinality(InSemaphore) ELSE Cardinality(InSemaphore) + 1
        BY <2>2, FS_AddElement
      <3> QED BY <3>1
    <2>4. Cardinality(InSemaphore') <= MaxParallelism
      <3> MaxParallelism \in Nat
        BY TeamAssumption
      <3> QED BY <2>1, <2>2, <2>3
    <2>5. \A u, w \in Writers : runner'[u] = "executing" /\ runner'[w] = "executing" => u = w
      BY <1>13 DEF Admit, Steps, TypeOK, IInv, WithinParallelism
    <2> QED BY <2>4, <2>5 DEF WithinParallelism
  <1>14. ASSUME NEW t \in Tasks, Delegate(t) PROVE WithinParallelism'
    <2>1. InSemaphore' \subseteq InSemaphore
      BY <1>14 DEF Delegate, Steps
    <2>2. \A u, w \in Writers : runner'[u] = "executing" /\ runner'[w] = "executing" => u = w
      BY <1>14 DEF Delegate, Steps, WriteLockFree
    <2> QED BY <2>1, <2>2, SemaphoreBounded
  <1>15. ASSUME NEW t \in Tasks, NEW o \in {"completed", "failed", "cancelled",
        "broken"}, MemberReturns(t, o) PROVE WithinParallelism'
    <2>1. InSemaphore' \subseteq InSemaphore
      BY <1>15 DEF MemberReturns, Steps
    <2>2. \A u \in Writers : runner'[u] = "executing" => runner[u] = "executing"
      BY <1>15 DEF MemberReturns, Steps
    <2> QED BY <2>1, <2>2, SemaphoreBounded
  <1>16. ASSUME NEW t \in Tasks, AgentEnds(t) PROVE WithinParallelism'
    <2>1. InSemaphore' \subseteq InSemaphore
      BY <1>16 DEF AgentEnds
    <2>2. \A u \in Writers : runner'[u] = "executing" => runner[u] = "executing"
      BY <1>16 DEF AgentEnds
    <2> QED BY <2>1, <2>2, SemaphoreBounded
  <1> QED BY <1>1, <1>2, <1>3, <1>4, <1>5, <1>6, <1>7, <1>8, <1>9, <1>10, <1>11, <1>12,
      <1>13, <1>14, <1>15, <1>16 DEF Next, Coordinate, Member

(* What TLC finds on one team holds for all: the invariant is inductive. *)
LEMMA InvariantHolds == Spec => []IInv
  <1>1. Init => IInv
    <2> SUFFICES ASSUME Init PROVE IInv
      OBVIOUS
    <2> USE Constants DEF Init, TypeOK, TaskStatus, TaskTerminal, RunTerminal
    <2>1. TypeOK
      <3>1. faults \in 0..MaxFaults /\ batch \subseteq Tasks /\ policy \in Policies
        OBVIOUS
      <3>2. /\ record \in [Tasks -> TaskStatus] /\ states \in [Tasks -> TaskStatus]
            /\ begun \in [Tasks -> Nat]
            /\ runner \in [Tasks -> {"none", "created", "saving", "queued", "admitted",
                                     "executing", "returned"}]
            /\ outcome \in [Tasks -> {"none", "completed", "failed", "cancelled", "broken"}]
        OBVIOUS
      <3> QED BY <3>1, <3>2
    <2>2. RunnersAreLooped /\ StatesFollowRunners /\ RecordFollowsStates /\ RunnersAreReady
      BY DEF RunnersAreLooped, StatesFollowRunners, RecordFollowsStates, RunnersAreReady,
             Working, Scheduling
    <2>3. BegunIsNotPending /\ StopsForAReason /\ AbandonedAreOnRecord /\ TerminalAccounts
      BY DEF BegunIsNotPending, StopsForAReason, TerminalAccounts, AbandonedAreOnRecord, Scheduling
    <2>4. WithinParallelism
      <3>1. InSemaphore = {}
        BY DEF InSemaphore
      <3> QED BY <3>1, FS_EmptySet, TeamAssumption DEF WithinParallelism
    <2> QED BY <2>1, <2>2, <2>3, <2>4 DEF IInv
  <1>2. IInv /\ [Next]_vars => IInv'
    <2>1. ASSUME IInv, Next PROVE IInv'
      BY <2>1, TypePreserved, LoopPreserved, StatesPreserved, RecordPreserved, ReadyPreserved,
         BegunPreserved, StopPreserved, AbandonedPreserved, AccountsPreserved,
         ParallelismPreserved DEF IInv
    <2>2. ASSUME IInv, UNCHANGED vars PROVE IInv'
      BY <2>2 DEF IInv, vars, TypeOK, RunnersAreLooped, StatesFollowRunners, RecordFollowsStates,
         RunnersAreReady, DependenciesReady, BegunIsNotPending, WithinParallelism, InSemaphore,
         StopsForAReason, AbandonedAreOnRecord, TerminalAccounts, Scheduling
    <2> QED BY <2>1, <2>2
  <1> QED BY <1>1, <1>2, PTL DEF Spec

(* Every variable of a TeamRun holds a value of its kind. *)
THEOREM TypeCorrect == Spec => []TypeOK
  BY InvariantHolds, PTL DEF IInv

(* A task that may write is handed to its agent at most once, through every *)
(* crash, failed save and resumption (_load_or_create).                     *)
THEOREM WritesBeginOnce == Spec => []WritesRunOnce
  <1>1. IInv => WritesRunOnce
    BY DEF IInv, BegunIsNotPending, WritesRunOnce
  <1> QED BY <1>1, InvariantHolds, PTL

(* A member that works for the coordinator is on record as running in a    *)
(* running TeamRun, its dependencies are stored, the limits hold, and a     *)
(* write abandoned by an earlier attempt is on record as failed             *)
(* (_execute_task, _load_or_create).                                        *)
THEOREM MembersAreOnRecord == Spec => []WorksOnRecord
  <1>1. ASSUME IInv PROVE WorksOnRecord
    <2>1. \A t \in Executing : /\ saved = "running" /\ record[t] = "running"
                               /\ DependenciesReady(t, record)
      BY <1>1 DEF IInv, Executing, RecordFollowsStates, RunnersAreReady, RunnersAreLooped
    <2>2. /\ Executing \subseteq InSemaphore /\ IsFiniteSet(InSemaphore) /\ IsFiniteSet(Executing)
      <3>1. IsFiniteSet(Tasks) /\ Executing \subseteq InSemaphore /\ InSemaphore \subseteq Tasks
        BY TeamAssumption DEF Executing, InSemaphore
      <3> QED BY <3>1, FS_Subset
    <2>3. Cardinality(Executing) <= MaxParallelism
      <3>1. /\ Cardinality(Executing) <= Cardinality(InSemaphore)
            /\ Cardinality(Executing) \in Nat /\ Cardinality(InSemaphore) \in Nat
        BY <2>2, FS_Subset, FS_CardinalityType
      <3> QED BY <1>1, <3>1, TeamAssumption DEF IInv, WithinParallelism
    <2>4. Cardinality(Executing \cap Writers) <= 1
      <3>1. \A t, u \in Executing \cap Writers : t = u
        BY <1>1 DEF IInv, WithinParallelism, Executing
      <3>2. CASE Executing \cap Writers = {}
        BY <3>2, FS_EmptySet
      <3>3. CASE Executing \cap Writers # {}
        <4>1. PICK t : Executing \cap Writers = {t}
          BY <3>1, <3>3
        <4> QED BY <4>1, FS_Singleton
      <3> QED BY <3>2, <3>3
    <2>5. Executing # {} => \A t \in abandoned \cap Writers : record[t] = "failed"
      BY <1>1 DEF IInv, TypeOK, Executing, RunnersAreLooped, AbandonedAreOnRecord
    <2> QED BY <2>1, <2>3, <2>4, <2>5 DEF WorksOnRecord
  <1> QED BY <1>1, InvariantHolds, PTL

(* The terminal state of a TeamRun accounts for its tasks, also for a write *)
(* whose agent still works (_finalize).                                     *)
THEOREM TerminalStateAccounts == Spec => []TerminalAccounts
  BY InvariantHolds, PTL DEF IInv

(* No save of a member, of _finalize or of a resumed coordinator replaces a *)
(* stored result or a terminal state.                                       *)
THEOREM ResultsStay == Spec => ResultsAreKept
  <1>1. ASSUME IInv, Next
        PROVE  /\ saved \in RunTerminal => UNCHANGED <<saved, record>>
               /\ \A t \in Tasks : record[t] \in TaskTerminal => record'[t] = record[t]
    <2> USE Constants DEF IInv, TypeOK, TaskStatus, TaskTerminal, RunTerminal,
        Scheduling, Working, RunnersAreLooped, StatesFollowRunners, RecordFollowsStates
    <2> DEFINE Keeps == /\ saved \in RunTerminal => UNCHANGED <<saved, record>>
                        /\ \A t \in Tasks : record[t] \in TaskTerminal => record'[t] = record[t]
    <2>1. ASSUME TeamsRun PROVE Keeps
      BY <1>1, <2>1 DEF TeamsRun, MayRun
    <2>2. ASSUME TeamsCancel PROVE Keeps
      BY <1>1, <2>2 DEF TeamsCancel
    <2>3. ASSUME LoadOrCreate PROVE Keeps
      BY <1>1, <2>3 DEF LoadOrCreate, Recovered
    <2>4. ASSUME NEW B \in SUBSET Tasks, Schedule(B) PROVE Keeps
      BY <1>1, <2>4, ScheduleFacts
    <2>5. ASSUME Wake PROVE Keeps
      BY <1>1, <2>5 DEF Wake
    <2>6. ASSUME NEW u \in Tasks, Collect(u) PROVE Keeps
      BY <1>1, <2>6, CollectFacts
    <2>7. ASSUME Close PROVE Keeps
      BY <1>1, <2>7 DEF Close
    <2>8. ASSUME Finalize PROVE Keeps
      BY <1>1, <2>8 DEF Finalize, Finalized
    <2>9. ASSUME EndTeamRun PROVE Keeps
      BY <1>1, <2>9 DEF EndTeamRun
    <2>10. ASSUME Crash PROVE Keeps
      BY <1>1, <2>10 DEF Crash
    <2>11. ASSUME NEW u \in Tasks, Register(u) PROVE Keeps
      BY <1>1, <2>11 DEF Register, Steps
    <2>12. ASSUME NEW u \in Tasks, SaveTaskState(u) PROVE Keeps
      BY <1>1, <2>12, SaveFacts
    <2>13. ASSUME NEW u \in Tasks, Admit(u) PROVE Keeps
      BY <1>1, <2>13 DEF Admit, Steps
    <2>14. ASSUME NEW u \in Tasks, Delegate(u) PROVE Keeps
      BY <1>1, <2>14 DEF Delegate, Steps, Returns
    <2>15. ASSUME NEW u \in Tasks, NEW o \in {"completed", "failed", "cancelled",
          "broken"}, MemberReturns(u, o) PROVE Keeps
      BY <1>1, <2>15 DEF MemberReturns, Steps, Returns
    <2>16. ASSUME NEW u \in Tasks, AgentEnds(u) PROVE Keeps
      BY <1>1, <2>16 DEF AgentEnds
    <2> QED BY <1>1, <2>1, <2>2, <2>3, <2>4, <2>5, <2>6, <2>7, <2>8, <2>9, <2>10,
        <2>11, <2>12, <2>13, <2>14, <2>15, <2>16 DEF Next, Coordinate, Member
  <1>2. ASSUME IInv, UNCHANGED vars
        PROVE  /\ saved \in RunTerminal => UNCHANGED <<saved, record>>
               /\ \A t \in Tasks : record[t] \in TaskTerminal => record'[t] = record[t]
    BY <1>2 DEF vars
  <1>3. IInv /\ [Next]_vars => [/\ saved \in RunTerminal => UNCHANGED <<saved, record>>
                                /\ \A t \in Tasks : record[t] \in TaskTerminal
                                      => record'[t] = record[t]]_<<saved, record>>
    BY <1>1, <1>2
  <1> QED BY <1>3, InvariantHolds, PTL DEF Spec, ResultsAreKept
=============================================================================
