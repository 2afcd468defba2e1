------------------------ MODULE RunCoordinatorProofs ------------------------
(***************************************************************************)
(* Admission is exclusive, a terminal status is final and every Run has    *)
(* the life that RunLifecycle describes, for any number of Runs, Threads,  *)
(* Connections and concurrent sweeps.                                      *)
(***************************************************************************)
EXTENDS RunCoordinator, TLAPS

BeforeTask == {"new", "waiting", "preparing"}

(* What start() reserved stays reserved until Register or StartFails. *)
Reservations ==
    \A r \in Starting :
        /\ starting[thread[r]] = owner[r]
        /\ ~IsActive(thread[r])
        /\ thread[r] \notin maintenance
        /\ \A q \in Starting : thread[q] = thread[r] => q = r

(* _runs holds, for its own Thread, every Run that a task has yet to finish,
   and none that was not registered. *)
Registration ==
    /\ \A r \in TaskAlive \ Completed : current[thread[r]] = r
    /\ \A t \in Threads : current[t] # NoRun =>
         thread[current[t]] = t /\ pc[current[t]] \notin BeforeTask
    /\ \A t \in maintenance : ~IsActive(t)

(* Only a task in its cleanup, or one that ended, has a completed Run. *)
CompletedLate ==
    \A r \in Completed : pc[r] \in {"cleanup", "done", "dead"}

(* A sweep looks at its Runs again once their tasks have ended. *)
SweepsFollowTasks ==
    \A s \in Sweepers :
        /\ left[s] \subseteq targets[s]
        /\ \A r \in targets[s] : pc[r] \notin BeforeTask
        /\ sweep[s] \notin {"none", "gather"} => targets[s] \cap TaskAlive = {}
        /\ sweep[s] = "reconcile" => forcing[s] \in left[s]
        /\ targets[s] \ left[s] \subseteq Completed
        /\ sweep[s] = "done" => left[s] = {}

IInv ==
    /\ TypeOK
    /\ Reservations
    /\ Registration
    /\ CompletedLate
    /\ SweepsFollowTasks
    /\ OneActiveRunPerConnection
    /\ SnapshotHolderIsUnderWay

(* Types; the sets a step adds to are sets of Runs, Threads or Connections. *)
LEMMA TypePreserved ==
    ASSUME IInv, Next
    PROVE  TypeOK'
  <1> USE CoordinatorAssumption DEF IInv, TypeOK, Phases, Sweepers, Starting, TaskAlive,
        Completed, TerminalStatus, Active, IsActive, ReleaseSnapshot, SweepsFollowTasks,
        vars, registry, identity, task, sweeps
  <1>1. ASSUME NEW r \in Runs, Start(r) PROVE TypeOK'
    BY <1>1 DEF Start, MayStart, ConnectionHasActiveRun
  <1>2. ASSUME NEW r \in Runs, ReserveSnapshot(r) PROVE TypeOK'
    BY <1>2 DEF ReserveSnapshot
  <1>3. ASSUME NEW r \in Runs, StartFails(r) PROVE TypeOK'
    BY <1>3 DEF StartFails
  <1>4. ASSUME NEW r \in Runs, Register(r) PROVE TypeOK'
    BY <1>4 DEF Register
  <1>5. ASSUME NEW r \in Runs, BeginTask(r) PROVE TypeOK'
    BY <1>5 DEF BeginTask, ToReconcile
  <1>6. ASSUME NEW r \in Runs, CancelledBeforeFirstStep(r) PROVE TypeOK'
    BY <1>6 DEF CancelledBeforeFirstStep
  <1>7. ASSUME NEW r \in Runs, Adapted(r) PROVE TypeOK'
    <2>1. \/ /\ pc' = [pc EXCEPT ![r] = "executing"]
             /\ UNCHANGED <<outcome, reconciled>>
          \/ \E at \in {"reconcile", "handling"}, st \in TerminalStatus :
                ToReconcile(r, at, st)
      BY <1>7 DEF Adapted
    <2>2. /\ pc' \in [Runs -> Phases]
          /\ outcome' \in [Runs -> TerminalStatus]
          /\ reconciled' \subseteq Runs
      BY <2>1 DEF ToReconcile
    <2>3. status' \in [Runs -> {"accepted", "running", "interacting"} \cup TerminalStatus]
      BY <1>7 DEF Adapted
    <2> QED BY <1>7, <2>2, <2>3 DEF Adapted
  <1>8. ASSUME NEW r \in Runs, EngineAcquired(r) PROVE TypeOK'
    BY <1>8 DEF EngineAcquired
  <1>9. ASSUME NEW r \in Runs, RequestInteraction(r) PROVE TypeOK'
    BY <1>9 DEF RequestInteraction
  <1>10. ASSUME NEW r \in Runs, ExecutionEnds(r) PROVE TypeOK'
    <2>1. \E at \in {"reconcile", "handling"}, st \in TerminalStatus : ToReconcile(r, at,
            st)
      BY <1>10 DEF ExecutionEnds
    <2>2. /\ pc' \in [Runs -> Phases]
          /\ outcome' \in [Runs -> TerminalStatus]
          /\ reconciled' \subseteq Runs
      BY <2>1 DEF ToReconcile
    <2> QED BY <1>10, <2>2 DEF ExecutionEnds
  <1>11. ASSUME NEW r \in Runs, ExecutionCancelled(r) PROVE TypeOK'
    BY <1>11 DEF ExecutionCancelled, ToReconcile
  <1>12. ASSUME NEW r \in Runs, RunCompletes(r) PROVE TypeOK'
    BY <1>12 DEF RunCompletes, Settle
  <1>13. ASSUME NEW r \in Runs, ReconcileCompletes(r) PROVE TypeOK'
    BY <1>13 DEF ReconcileCompletes, Finish
  <1>14. ASSUME NEW r \in Runs, ReconcileAborts(r) PROVE TypeOK'
    BY <1>14 DEF ReconcileAborts, Finish
  <1>15. ASSUME NEW r \in Runs, HandlerCompletes(r) PROVE TypeOK'
    BY <1>15 DEF HandlerCompletes, Finish
  <1>16. ASSUME NEW r \in Runs, HandlerAborts(r) PROVE TypeOK'
    BY <1>16 DEF HandlerAborts
  <1>17. ASSUME NEW r \in Runs, CleanupCompletes(r) PROVE TypeOK'
    BY <1>17 DEF CleanupCompletes, Settle, EndOfStream
  <1>18. ASSUME NEW r \in Runs, CleanupCancelled(r) PROVE TypeOK'
    BY <1>18 DEF CleanupCancelled
  <1>19. ASSUME NEW r \in Runs, InteractionEnds(r) PROVE TypeOK'
    BY <1>19 DEF InteractionEnds
  <1>20. ASSUME NEW r \in Runs, Cancel(r) PROVE TypeOK'
    BY <1>20 DEF Cancel
  <1>21. ASSUME NEW t \in Threads, BeginMaintenance(t) PROVE TypeOK'
    BY <1>21 DEF BeginMaintenance
  <1>22. ASSUME NEW t \in Threads, EndMaintenance(t) PROVE TypeOK'
    BY <1>22 DEF EndMaintenance
  <1>23. ASSUME NEW c \in Conns, OwnerDisconnected(c) PROVE TypeOK'
    BY <1>23 DEF OwnerDisconnected, BeginSweep
  <1>24. ASSUME Close PROVE TypeOK'
    BY <1>24 DEF Close, BeginSweep
  <1>25. ASSUME NEW s \in Sweepers, SweepGathers(s) PROVE TypeOK'
    BY <1>25 DEF SweepGathers
  <1>26. ASSUME NEW s \in Sweepers, NEW r \in Runs, SweepSkips(s, r) PROVE TypeOK'
    BY <1>26 DEF SweepSkips
  <1>27. ASSUME NEW s \in Sweepers, NEW r \in Runs, SweepForces(s, r) PROVE TypeOK'
    BY <1>27 DEF SweepForces, ForceFinish, Settle, EndOfStream
  <1>28. ASSUME NEW s \in Sweepers, NEW r \in Runs, SweepReconciles(s, r) PROVE TypeOK'
    BY <1>28 DEF SweepReconciles
  <1>29. ASSUME NEW s \in Sweepers, ForceReconciles(s) PROVE TypeOK'
    BY <1>29 DEF ForceReconciles, ForceFinish, Settle, EndOfStream
  <1>30. ASSUME NEW s \in Sweepers, ForceFails(s) PROVE TypeOK'
    BY <1>30 DEF ForceFails
  <1>31. ASSUME NEW s \in Sweepers, SweepEnds(s) PROVE TypeOK'
    BY <1>31 DEF SweepEnds
  <1> QED
    BY <1>1, <1>2, <1>3, <1>4, <1>5, <1>6, <1>7, <1>8, <1>9, <1>10, <1>11, <1>12, <1>13,
          <1>14, <1>15, <1>16, <1>17, <1>18, <1>19, <1>20, <1>21, <1>22, <1>23, <1>24,
          <1>25, <1>26, <1>27, <1>28, <1>29, <1>30, <1>31 DEF Next, TaskStep, SweepStep

(* Reservations: start() reserves only what is free, and BeginMaintenance
   respects a reservation. *)
LEMMA ReservationsPreserved ==
    ASSUME IInv, Next
    PROVE  Reservations'
  <1> USE CoordinatorAssumption DEF IInv, TypeOK, Phases, Sweepers, Starting, TaskAlive,
        Completed, TerminalStatus, Active, IsActive, ReleaseSnapshot, BeforeTask, vars,
        registry, identity, task, sweeps, Reservations, Registration, CompletedLate,
        SweepsFollowTasks
  <1>1. ASSUME NEW r \in Runs, Start(r) PROVE Reservations'
    BY <1>1 DEF Start, MayStart, ConnectionHasActiveRun
  <1>2. ASSUME NEW r \in Runs, ReserveSnapshot(r) PROVE Reservations'
    BY <1>2 DEF ReserveSnapshot
  <1>3. ASSUME NEW r \in Runs, StartFails(r) PROVE Reservations'
    BY <1>3 DEF StartFails
  <1>4. ASSUME NEW r \in Runs, Register(r) PROVE Reservations'
    BY <1>4 DEF Register
  <1>5. ASSUME NEW r \in Runs, BeginTask(r) PROVE Reservations'
    BY <1>5 DEF BeginTask, ToReconcile
  <1>6. ASSUME NEW r \in Runs, CancelledBeforeFirstStep(r) PROVE Reservations'
    BY <1>6 DEF CancelledBeforeFirstStep
  <1>7. ASSUME NEW r \in Runs, Adapted(r) PROVE Reservations'
    BY <1>7 DEF Adapted, ToReconcile
  <1>8. ASSUME NEW r \in Runs, EngineAcquired(r) PROVE Reservations'
    BY <1>8 DEF EngineAcquired
  <1>9. ASSUME NEW r \in Runs, RequestInteraction(r) PROVE Reservations'
    BY <1>9 DEF RequestInteraction
  <1>10. ASSUME NEW r \in Runs, ExecutionEnds(r) PROVE Reservations'
    BY <1>10 DEF ExecutionEnds, ToReconcile
  <1>11. ASSUME NEW r \in Runs, ExecutionCancelled(r) PROVE Reservations'
    BY <1>11 DEF ExecutionCancelled, ToReconcile
  <1>12. ASSUME NEW r \in Runs, RunCompletes(r) PROVE Reservations'
    BY <1>12 DEF RunCompletes, Settle
  <1>13. ASSUME NEW r \in Runs, ReconcileCompletes(r) PROVE Reservations'
    BY <1>13 DEF ReconcileCompletes, Finish
  <1>14. ASSUME NEW r \in Runs, ReconcileAborts(r) PROVE Reservations'
    BY <1>14 DEF ReconcileAborts, Finish
  <1>15. ASSUME NEW r \in Runs, HandlerCompletes(r) PROVE Reservations'
    BY <1>15 DEF HandlerCompletes, Finish
  <1>16. ASSUME NEW r \in Runs, HandlerAborts(r) PROVE Reservations'
    BY <1>16 DEF HandlerAborts
  <1>17. ASSUME NEW r \in Runs, CleanupCompletes(r) PROVE Reservations'
    BY <1>17 DEF CleanupCompletes, Settle, EndOfStream
  <1>18. ASSUME NEW r \in Runs, CleanupCancelled(r) PROVE Reservations'
    BY <1>18 DEF CleanupCancelled
  <1>19. ASSUME NEW r \in Runs, InteractionEnds(r) PROVE Reservations'
    BY <1>19 DEF InteractionEnds
  <1>20. ASSUME NEW r \in Runs, Cancel(r) PROVE Reservations'
    BY <1>20 DEF Cancel
  <1>21. ASSUME NEW t \in Threads, BeginMaintenance(t) PROVE Reservations'
    BY <1>21 DEF BeginMaintenance
  <1>22. ASSUME NEW t \in Threads, EndMaintenance(t) PROVE Reservations'
    BY <1>22 DEF EndMaintenance
  <1>23. ASSUME NEW c \in Conns, OwnerDisconnected(c) PROVE Reservations'
    BY <1>23 DEF OwnerDisconnected, BeginSweep
  <1>24. ASSUME Close PROVE Reservations'
    BY <1>24 DEF Close, BeginSweep
  <1>25. ASSUME NEW s \in Sweepers, SweepGathers(s) PROVE Reservations'
    BY <1>25 DEF SweepGathers
  <1>26. ASSUME NEW s \in Sweepers, NEW r \in Runs, SweepSkips(s, r) PROVE Reservations'
    BY <1>26 DEF SweepSkips
  <1>27. ASSUME NEW s \in Sweepers, NEW r \in Runs, SweepForces(s, r) PROVE Reservations'
    BY <1>27 DEF SweepForces, ForceFinish, Settle, EndOfStream
  <1>28. ASSUME NEW s \in Sweepers, NEW r \in Runs, SweepReconciles(s, r)
        PROVE Reservations'
    BY <1>28 DEF SweepReconciles
  <1>29. ASSUME NEW s \in Sweepers, ForceReconciles(s) PROVE Reservations'
    BY <1>29 DEF ForceReconciles, ForceFinish, Settle, EndOfStream
  <1>30. ASSUME NEW s \in Sweepers, ForceFails(s) PROVE Reservations'
    BY <1>30 DEF ForceFails
  <1>31. ASSUME NEW s \in Sweepers, SweepEnds(s) PROVE Reservations'
    BY <1>31 DEF SweepEnds
  <1> QED
    BY <1>1, <1>2, <1>3, <1>4, <1>5, <1>6, <1>7, <1>8, <1>9, <1>10, <1>11, <1>12, <1>13,
          <1>14, <1>15, <1>16, <1>17, <1>18, <1>19, <1>20, <1>21, <1>22, <1>23, <1>24,
          <1>25, <1>26, <1>27, <1>28, <1>29, <1>30, <1>31 DEF Next, TaskStep, SweepStep

(* Registration: a Run is unregistered only when its task is over. *)
LEMMA RegistrationPreserved ==
    ASSUME IInv, Next
    PROVE  Registration'
  <1> USE CoordinatorAssumption DEF IInv, TypeOK, Phases, Sweepers, Starting, TaskAlive,
        Completed, TerminalStatus, Active, IsActive, ReleaseSnapshot, BeforeTask, vars,
        registry, identity, task, sweeps, Reservations, Registration, CompletedLate,
        SweepsFollowTasks
  <1>1. ASSUME NEW r \in Runs, Start(r) PROVE Registration'
    BY <1>1 DEF Start, MayStart, ConnectionHasActiveRun
  <1>2. ASSUME NEW r \in Runs, ReserveSnapshot(r) PROVE Registration'
    BY <1>2 DEF ReserveSnapshot
  <1>3. ASSUME NEW r \in Runs, StartFails(r) PROVE Registration'
    BY <1>3 DEF StartFails
  <1>4. ASSUME NEW r \in Runs, Register(r) PROVE Registration'
    BY <1>4 DEF Register
  <1>5. ASSUME NEW r \in Runs, BeginTask(r) PROVE Registration'
    BY <1>5 DEF BeginTask, ToReconcile
  <1>6. ASSUME NEW r \in Runs, CancelledBeforeFirstStep(r) PROVE Registration'
    BY <1>6 DEF CancelledBeforeFirstStep
  <1>7. ASSUME NEW r \in Runs, Adapted(r) PROVE Registration'
    <2>1. \E at \in {"executing", "reconcile", "handling"} : pc' = [pc EXCEPT ![r] = at]
      BY <1>7 DEF Adapted, ToReconcile
    <2>2. pc[r] = "adapting" /\
            (status' = status \/ status' = [status EXCEPT ![r] = "running"])
      BY <1>7 DEF Adapted
    <2>3. UNCHANGED registry
      BY <1>7 DEF Adapted
    <2>4. UNCHANGED identity
      BY <1>7 DEF Adapted
    <2>5. TaskAlive' = TaskAlive /\ Completed' = Completed
      BY <2>1, <2>2
    <2>6. \A q \in Runs : pc[q] \notin BeforeTask => pc'[q] \notin BeforeTask
      BY <2>1
    <2>7. \A t \in Threads : current[t] # NoRun => current[t] \in Runs
      OBVIOUS
    <2> HIDE DEF TaskAlive, Completed, BeforeTask, TypeOK
    <2> QED BY <2>3, <2>4, <2>5, <2>6, <2>7
  <1>8. ASSUME NEW r \in Runs, EngineAcquired(r) PROVE Registration'
    BY <1>8 DEF EngineAcquired
  <1>9. ASSUME NEW r \in Runs, RequestInteraction(r) PROVE Registration'
    BY <1>9 DEF RequestInteraction
  <1>10. ASSUME NEW r \in Runs, ExecutionEnds(r) PROVE Registration'
    BY <1>10 DEF ExecutionEnds, ToReconcile
  <1>11. ASSUME NEW r \in Runs, ExecutionCancelled(r) PROVE Registration'
    BY <1>11 DEF ExecutionCancelled, ToReconcile
  <1>12. ASSUME NEW r \in Runs, RunCompletes(r) PROVE Registration'
    BY <1>12 DEF RunCompletes, Settle
  <1>13. ASSUME NEW r \in Runs, ReconcileCompletes(r) PROVE Registration'
    BY <1>13 DEF ReconcileCompletes, Finish
  <1>14. ASSUME NEW r \in Runs, ReconcileAborts(r) PROVE Registration'
    BY <1>14 DEF ReconcileAborts, Finish
  <1>15. ASSUME NEW r \in Runs, HandlerCompletes(r) PROVE Registration'
    BY <1>15 DEF HandlerCompletes, Finish
  <1>16. ASSUME NEW r \in Runs, HandlerAborts(r) PROVE Registration'
    BY <1>16 DEF HandlerAborts
  <1>17. ASSUME NEW r \in Runs, CleanupCompletes(r) PROVE Registration'
    BY <1>17 DEF CleanupCompletes, Settle, EndOfStream
  <1>18. ASSUME NEW r \in Runs, CleanupCancelled(r) PROVE Registration'
    BY <1>18 DEF CleanupCancelled
  <1>19. ASSUME NEW r \in Runs, InteractionEnds(r) PROVE Registration'
    BY <1>19 DEF InteractionEnds
  <1>20. ASSUME NEW r \in Runs, Cancel(r) PROVE Registration'
    BY <1>20 DEF Cancel
  <1>21. ASSUME NEW t \in Threads, BeginMaintenance(t) PROVE Registration'
    BY <1>21 DEF BeginMaintenance
  <1>22. ASSUME NEW t \in Threads, EndMaintenance(t) PROVE Registration'
    BY <1>22 DEF EndMaintenance
  <1>23. ASSUME NEW c \in Conns, OwnerDisconnected(c) PROVE Registration'
    BY <1>23 DEF OwnerDisconnected, BeginSweep
  <1>24. ASSUME Close PROVE Registration'
    BY <1>24 DEF Close, BeginSweep
  <1>25. ASSUME NEW s \in Sweepers, SweepGathers(s) PROVE Registration'
    BY <1>25 DEF SweepGathers
  <1>26. ASSUME NEW s \in Sweepers, NEW r \in Runs, SweepSkips(s, r) PROVE Registration'
    BY <1>26 DEF SweepSkips
  <1>27. ASSUME NEW s \in Sweepers, NEW r \in Runs, SweepForces(s, r) PROVE Registration'
    BY <1>27 DEF SweepForces, ForceFinish, Settle, EndOfStream
  <1>28. ASSUME NEW s \in Sweepers, NEW r \in Runs, SweepReconciles(s, r)
        PROVE Registration'
    BY <1>28 DEF SweepReconciles
  <1>29. ASSUME NEW s \in Sweepers, ForceReconciles(s) PROVE Registration'
    <2> DEFINE r == forcing[s]
    <2>1. r \in Runs /\ r \notin TaskAlive /\ ForceFinish(s, r)
      BY <1>29 DEF ForceReconciles
    <2>2. /\ current' = [current EXCEPT ![thread[r]] = IF @ = r THEN NoRun ELSE @]
          /\ UNCHANGED <<pc, thread, maintenance>>
          /\ status' = IF r \in Completed THEN status ELSE [status EXCEPT ![r] = "cancelled"]
      BY <2>1 DEF ForceFinish, Settle
    <2>3. TaskAlive' = TaskAlive /\ Completed' = Completed \cup {r}
      BY <2>1, <2>2
    <2>4. /\ \A t \in Threads : current'[t] = current[t] \/ (t = thread[r] /\
               current'[t] = NoRun)
          /\ \A t \in Threads : current'[t] = current[t] \/ current[t] = r
          /\ \A q \in Runs : thread[q] \in Threads
      BY <2>1, <2>2
    <2> HIDE DEF TaskAlive, Completed, BeforeTask, TypeOK
    <2>5. \A q \in (TaskAlive \ Completed)' : current'[thread'[q]] = q
      <3> TAKE q \in (TaskAlive \ Completed)'
      <3>1. q \in TaskAlive \ Completed /\ q # r /\ current[thread[q]] = q /\ q \in Runs
        BY <2>1, <2>3 DEF TaskAlive
      <3> QED BY <2>2, <2>4, <3>1
    <2>6. \A t \in Threads : current'[t] # NoRun =>
             thread'[current'[t]] = t /\ pc'[current'[t]] \notin BeforeTask
      BY <2>2, <2>4
    <2>7. \A t \in maintenance' : ~IsActive(t)'
      BY <2>2, <2>3, <2>4 DEF TypeOK
    <2> QED BY <2>5, <2>6, <2>7
  <1>30. ASSUME NEW s \in Sweepers, ForceFails(s) PROVE Registration'
    BY <1>30 DEF ForceFails
  <1>31. ASSUME NEW s \in Sweepers, SweepEnds(s) PROVE Registration'
    BY <1>31 DEF SweepEnds
  <1> QED
    BY <1>1, <1>2, <1>3, <1>4, <1>5, <1>6, <1>7, <1>8, <1>9, <1>10, <1>11, <1>12, <1>13,
          <1>14, <1>15, <1>16, <1>17, <1>18, <1>19, <1>20, <1>21, <1>22, <1>23, <1>24,
          <1>25, <1>26, <1>27, <1>28, <1>29, <1>30, <1>31 DEF Next, TaskStep, SweepStep

(* Completion: _finish is called by a task on its way to its finally, or by
   a sweep whose tasks have ended. *)
LEMMA CompletedLatePreserved ==
    ASSUME IInv, Next
    PROVE  CompletedLate'
  <1> USE CoordinatorAssumption DEF IInv, TypeOK, Phases, Sweepers, Starting, TaskAlive,
        Completed, TerminalStatus, Active, IsActive, ReleaseSnapshot, BeforeTask, vars,
        registry, identity, task, sweeps, Reservations, Registration, CompletedLate,
        SweepsFollowTasks
  <1>1. ASSUME NEW r \in Runs, Start(r) PROVE CompletedLate'
    BY <1>1 DEF Start, MayStart, ConnectionHasActiveRun
  <1>2. ASSUME NEW r \in Runs, ReserveSnapshot(r) PROVE CompletedLate'
    BY <1>2 DEF ReserveSnapshot
  <1>3. ASSUME NEW r \in Runs, StartFails(r) PROVE CompletedLate'
    BY <1>3 DEF StartFails
  <1>4. ASSUME NEW r \in Runs, Register(r) PROVE CompletedLate'
    BY <1>4 DEF Register
  <1>5. ASSUME NEW r \in Runs, BeginTask(r) PROVE CompletedLate'
    BY <1>5 DEF BeginTask, ToReconcile
  <1>6. ASSUME NEW r \in Runs, CancelledBeforeFirstStep(r) PROVE CompletedLate'
    BY <1>6 DEF CancelledBeforeFirstStep
  <1>7. ASSUME NEW r \in Runs, Adapted(r) PROVE CompletedLate'
    BY <1>7 DEF Adapted, ToReconcile
  <1>8. ASSUME NEW r \in Runs, EngineAcquired(r) PROVE CompletedLate'
    BY <1>8 DEF EngineAcquired
  <1>9. ASSUME NEW r \in Runs, RequestInteraction(r) PROVE CompletedLate'
    BY <1>9 DEF RequestInteraction
  <1>10. ASSUME NEW r \in Runs, ExecutionEnds(r) PROVE CompletedLate'
    BY <1>10 DEF ExecutionEnds, ToReconcile
  <1>11. ASSUME NEW r \in Runs, ExecutionCancelled(r) PROVE CompletedLate'
    BY <1>11 DEF ExecutionCancelled, ToReconcile
  <1>12. ASSUME NEW r \in Runs, RunCompletes(r) PROVE CompletedLate'
    BY <1>12 DEF RunCompletes, Settle
  <1>13. ASSUME NEW r \in Runs, ReconcileCompletes(r) PROVE CompletedLate'
    BY <1>13 DEF ReconcileCompletes, Finish
  <1>14. ASSUME NEW r \in Runs, ReconcileAborts(r) PROVE CompletedLate'
    BY <1>14 DEF ReconcileAborts, Finish
  <1>15. ASSUME NEW r \in Runs, HandlerCompletes(r) PROVE CompletedLate'
    BY <1>15 DEF HandlerCompletes, Finish
  <1>16. ASSUME NEW r \in Runs, HandlerAborts(r) PROVE CompletedLate'
    BY <1>16 DEF HandlerAborts
  <1>17. ASSUME NEW r \in Runs, CleanupCompletes(r) PROVE CompletedLate'
    BY <1>17 DEF CleanupCompletes, Settle, EndOfStream
  <1>18. ASSUME NEW r \in Runs, CleanupCancelled(r) PROVE CompletedLate'
    BY <1>18 DEF CleanupCancelled
  <1>19. ASSUME NEW r \in Runs, InteractionEnds(r) PROVE CompletedLate'
    BY <1>19 DEF InteractionEnds
  <1>20. ASSUME NEW r \in Runs, Cancel(r) PROVE CompletedLate'
    BY <1>20 DEF Cancel
  <1>21. ASSUME NEW t \in Threads, BeginMaintenance(t) PROVE CompletedLate'
    BY <1>21 DEF BeginMaintenance
  <1>22. ASSUME NEW t \in Threads, EndMaintenance(t) PROVE CompletedLate'
    BY <1>22 DEF EndMaintenance
  <1>23. ASSUME NEW c \in Conns, OwnerDisconnected(c) PROVE CompletedLate'
    BY <1>23 DEF OwnerDisconnected, BeginSweep
  <1>24. ASSUME Close PROVE CompletedLate'
    BY <1>24 DEF Close, BeginSweep
  <1>25. ASSUME NEW s \in Sweepers, SweepGathers(s) PROVE CompletedLate'
    BY <1>25 DEF SweepGathers
  <1>26. ASSUME NEW s \in Sweepers, NEW r \in Runs, SweepSkips(s, r) PROVE CompletedLate'
    BY <1>26 DEF SweepSkips
  <1>27. ASSUME NEW s \in Sweepers, NEW r \in Runs, SweepForces(s, r) PROVE CompletedLate'
    BY <1>27 DEF SweepForces, ForceFinish, Settle, EndOfStream
  <1>28. ASSUME NEW s \in Sweepers, NEW r \in Runs, SweepReconciles(s, r)
        PROVE CompletedLate'
    BY <1>28 DEF SweepReconciles
  <1>29. ASSUME NEW s \in Sweepers, ForceReconciles(s) PROVE CompletedLate'
    BY <1>29 DEF ForceReconciles, ForceFinish, Settle, EndOfStream
  <1>30. ASSUME NEW s \in Sweepers, ForceFails(s) PROVE CompletedLate'
    BY <1>30 DEF ForceFails
  <1>31. ASSUME NEW s \in Sweepers, SweepEnds(s) PROVE CompletedLate'
    BY <1>31 DEF SweepEnds
  <1> QED
    BY <1>1, <1>2, <1>3, <1>4, <1>5, <1>6, <1>7, <1>8, <1>9, <1>10, <1>11, <1>12, <1>13,
          <1>14, <1>15, <1>16, <1>17, <1>18, <1>19, <1>20, <1>21, <1>22, <1>23, <1>24,
          <1>25, <1>26, <1>27, <1>28, <1>29, <1>30, <1>31 DEF Next, TaskStep, SweepStep

(* Sweeps: a task that ended does not come back. *)
LEMMA SweepsPreserved ==
    ASSUME IInv, Next
    PROVE  SweepsFollowTasks'
  <1> USE CoordinatorAssumption DEF IInv, TypeOK, Phases, Sweepers, Starting, TaskAlive,
        Completed, TerminalStatus, Active, IsActive, ReleaseSnapshot, BeforeTask, vars,
        registry, identity, task, sweeps, Reservations, Registration, CompletedLate,
        SweepsFollowTasks
  <1>1. ASSUME NEW r \in Runs, Start(r) PROVE SweepsFollowTasks'
    BY <1>1 DEF Start, MayStart, ConnectionHasActiveRun
  <1>2. ASSUME NEW r \in Runs, ReserveSnapshot(r) PROVE SweepsFollowTasks'
    BY <1>2 DEF ReserveSnapshot
  <1>3. ASSUME NEW r \in Runs, StartFails(r) PROVE SweepsFollowTasks'
    BY <1>3 DEF StartFails
  <1>4. ASSUME NEW r \in Runs, Register(r) PROVE SweepsFollowTasks'
    BY <1>4 DEF Register
  <1>5. ASSUME NEW r \in Runs, BeginTask(r) PROVE SweepsFollowTasks'
    BY <1>5 DEF BeginTask, ToReconcile
  <1>6. ASSUME NEW r \in Runs, CancelledBeforeFirstStep(r) PROVE SweepsFollowTasks'
    BY <1>6 DEF CancelledBeforeFirstStep
  <1>7. ASSUME NEW r \in Runs, Adapted(r) PROVE SweepsFollowTasks'
    BY <1>7 DEF Adapted, ToReconcile
  <1>8. ASSUME NEW r \in Runs, EngineAcquired(r) PROVE SweepsFollowTasks'
    BY <1>8 DEF EngineAcquired
  <1>9. ASSUME NEW r \in Runs, RequestInteraction(r) PROVE SweepsFollowTasks'
    BY <1>9 DEF RequestInteraction
  <1>10. ASSUME NEW r \in Runs, ExecutionEnds(r) PROVE SweepsFollowTasks'
    BY <1>10 DEF ExecutionEnds, ToReconcile
  <1>11. ASSUME NEW r \in Runs, ExecutionCancelled(r) PROVE SweepsFollowTasks'
    BY <1>11 DEF ExecutionCancelled, ToReconcile
  <1>12. ASSUME NEW r \in Runs, RunCompletes(r) PROVE SweepsFollowTasks'
    BY <1>12 DEF RunCompletes, Settle
  <1>13. ASSUME NEW r \in Runs, ReconcileCompletes(r) PROVE SweepsFollowTasks'
    BY <1>13 DEF ReconcileCompletes, Finish
  <1>14. ASSUME NEW r \in Runs, ReconcileAborts(r) PROVE SweepsFollowTasks'
    BY <1>14 DEF ReconcileAborts, Finish
  <1>15. ASSUME NEW r \in Runs, HandlerCompletes(r) PROVE SweepsFollowTasks'
    BY <1>15 DEF HandlerCompletes, Finish
  <1>16. ASSUME NEW r \in Runs, HandlerAborts(r) PROVE SweepsFollowTasks'
    BY <1>16 DEF HandlerAborts
  <1>17. ASSUME NEW r \in Runs, CleanupCompletes(r) PROVE SweepsFollowTasks'
    BY <1>17 DEF CleanupCompletes, Settle, EndOfStream
  <1>18. ASSUME NEW r \in Runs, CleanupCancelled(r) PROVE SweepsFollowTasks'
    BY <1>18 DEF CleanupCancelled
  <1>19. ASSUME NEW r \in Runs, InteractionEnds(r) PROVE SweepsFollowTasks'
    BY <1>19 DEF InteractionEnds
  <1>20. ASSUME NEW r \in Runs, Cancel(r) PROVE SweepsFollowTasks'
    BY <1>20 DEF Cancel
  <1>21. ASSUME NEW t \in Threads, BeginMaintenance(t) PROVE SweepsFollowTasks'
    BY <1>21 DEF BeginMaintenance
  <1>22. ASSUME NEW t \in Threads, EndMaintenance(t) PROVE SweepsFollowTasks'
    BY <1>22 DEF EndMaintenance
  <1>23. ASSUME NEW c \in Conns, OwnerDisconnected(c) PROVE SweepsFollowTasks'
    BY <1>23 DEF OwnerDisconnected, BeginSweep
  <1>24. ASSUME Close PROVE SweepsFollowTasks'
    BY <1>24 DEF Close, BeginSweep
  <1>25. ASSUME NEW s \in Sweepers, SweepGathers(s) PROVE SweepsFollowTasks'
    BY <1>25 DEF SweepGathers
  <1>26. ASSUME NEW s \in Sweepers, NEW r \in Runs, SweepSkips(s, r)
        PROVE SweepsFollowTasks'
    BY <1>26 DEF SweepSkips
  <1>27. ASSUME NEW s \in Sweepers, NEW r \in Runs, SweepForces(s, r)
        PROVE SweepsFollowTasks'
    BY <1>27 DEF SweepForces, ForceFinish, Settle, EndOfStream
  <1>28. ASSUME NEW s \in Sweepers, NEW r \in Runs, SweepReconciles(s, r)
        PROVE SweepsFollowTasks'
    BY <1>28 DEF SweepReconciles
  <1>29. ASSUME NEW s \in Sweepers, ForceReconciles(s) PROVE SweepsFollowTasks'
    BY <1>29 DEF ForceReconciles, ForceFinish, Settle, EndOfStream
  <1>30. ASSUME NEW s \in Sweepers, ForceFails(s) PROVE SweepsFollowTasks'
    BY <1>30 DEF ForceFails
  <1>31. ASSUME NEW s \in Sweepers, SweepEnds(s) PROVE SweepsFollowTasks'
    BY <1>31 DEF SweepEnds
  <1> QED
    BY <1>1, <1>2, <1>3, <1>4, <1>5, <1>6, <1>7, <1>8, <1>9, <1>10, <1>11, <1>12, <1>13,
          <1>14, <1>15, <1>16, <1>17, <1>18, <1>19, <1>20, <1>21, <1>22, <1>23, <1>24,
          <1>25, <1>26, <1>27, <1>28, <1>29, <1>30, <1>31 DEF Next, TaskStep, SweepStep

(* The snapshot lock. *)
LEMMA SnapshotPreserved ==
    ASSUME IInv, Next
    PROVE  SnapshotHolderIsUnderWay'
  <1> USE CoordinatorAssumption DEF IInv, TypeOK, Phases, Sweepers, Starting, TaskAlive,
        Completed, TerminalStatus, Active, IsActive, ReleaseSnapshot, BeforeTask, vars,
        registry, identity, task, sweeps, Reservations, Registration, CompletedLate,
        SweepsFollowTasks, SnapshotHolderIsUnderWay
  <1>1. ASSUME NEW r \in Runs, Start(r) PROVE SnapshotHolderIsUnderWay'
    BY <1>1 DEF Start, MayStart, ConnectionHasActiveRun
  <1>2. ASSUME NEW r \in Runs, ReserveSnapshot(r) PROVE SnapshotHolderIsUnderWay'
    BY <1>2 DEF ReserveSnapshot
  <1>3. ASSUME NEW r \in Runs, StartFails(r) PROVE SnapshotHolderIsUnderWay'
    BY <1>3 DEF StartFails
  <1>4. ASSUME NEW r \in Runs, Register(r) PROVE SnapshotHolderIsUnderWay'
    BY <1>4 DEF Register
  <1>5. ASSUME NEW r \in Runs, BeginTask(r) PROVE SnapshotHolderIsUnderWay'
    BY <1>5 DEF BeginTask, ToReconcile
  <1>6. ASSUME NEW r \in Runs, CancelledBeforeFirstStep(r) PROVE SnapshotHolderIsUnderWay'
    BY <1>6 DEF CancelledBeforeFirstStep
  <1>7. ASSUME NEW r \in Runs, Adapted(r) PROVE SnapshotHolderIsUnderWay'
    BY <1>7 DEF Adapted, ToReconcile
  <1>8. ASSUME NEW r \in Runs, EngineAcquired(r) PROVE SnapshotHolderIsUnderWay'
    BY <1>8 DEF EngineAcquired
  <1>9. ASSUME NEW r \in Runs, RequestInteraction(r) PROVE SnapshotHolderIsUnderWay'
    BY <1>9 DEF RequestInteraction
  <1>10. ASSUME NEW r \in Runs, ExecutionEnds(r) PROVE SnapshotHolderIsUnderWay'
    BY <1>10 DEF ExecutionEnds, ToReconcile
  <1>11. ASSUME NEW r \in Runs, ExecutionCancelled(r) PROVE SnapshotHolderIsUnderWay'
    BY <1>11 DEF ExecutionCancelled, ToReconcile
  <1>12. ASSUME NEW r \in Runs, RunCompletes(r) PROVE SnapshotHolderIsUnderWay'
    BY <1>12 DEF RunCompletes, Settle
  <1>13. ASSUME NEW r \in Runs, ReconcileCompletes(r) PROVE SnapshotHolderIsUnderWay'
    BY <1>13 DEF ReconcileCompletes, Finish
  <1>14. ASSUME NEW r \in Runs, ReconcileAborts(r) PROVE SnapshotHolderIsUnderWay'
    BY <1>14 DEF ReconcileAborts, Finish
  <1>15. ASSUME NEW r \in Runs, HandlerCompletes(r) PROVE SnapshotHolderIsUnderWay'
    BY <1>15 DEF HandlerCompletes, Finish
  <1>16. ASSUME NEW r \in Runs, HandlerAborts(r) PROVE SnapshotHolderIsUnderWay'
    BY <1>16 DEF HandlerAborts
  <1>17. ASSUME NEW r \in Runs, CleanupCompletes(r) PROVE SnapshotHolderIsUnderWay'
    BY <1>17 DEF CleanupCompletes, Settle, EndOfStream
  <1>18. ASSUME NEW r \in Runs, CleanupCancelled(r) PROVE SnapshotHolderIsUnderWay'
    BY <1>18 DEF CleanupCancelled
  <1>19. ASSUME NEW r \in Runs, InteractionEnds(r) PROVE SnapshotHolderIsUnderWay'
    BY <1>19 DEF InteractionEnds
  <1>20. ASSUME NEW r \in Runs, Cancel(r) PROVE SnapshotHolderIsUnderWay'
    BY <1>20 DEF Cancel
  <1>21. ASSUME NEW t \in Threads, BeginMaintenance(t) PROVE SnapshotHolderIsUnderWay'
    BY <1>21 DEF BeginMaintenance
  <1>22. ASSUME NEW t \in Threads, EndMaintenance(t) PROVE SnapshotHolderIsUnderWay'
    BY <1>22 DEF EndMaintenance
  <1>23. ASSUME NEW c \in Conns, OwnerDisconnected(c) PROVE SnapshotHolderIsUnderWay'
    BY <1>23 DEF OwnerDisconnected, BeginSweep
  <1>24. ASSUME Close PROVE SnapshotHolderIsUnderWay'
    BY <1>24 DEF Close, BeginSweep
  <1>25. ASSUME NEW s \in Sweepers, SweepGathers(s) PROVE SnapshotHolderIsUnderWay'
    BY <1>25 DEF SweepGathers
  <1>26. ASSUME NEW s \in Sweepers, NEW r \in Runs, SweepSkips(s, r)
        PROVE SnapshotHolderIsUnderWay'
    BY <1>26 DEF SweepSkips
  <1>27. ASSUME NEW s \in Sweepers, NEW r \in Runs, SweepForces(s, r)
        PROVE SnapshotHolderIsUnderWay'
    BY <1>27 DEF SweepForces, ForceFinish, Settle, EndOfStream
  <1>28. ASSUME NEW s \in Sweepers, NEW r \in Runs, SweepReconciles(s, r)
        PROVE SnapshotHolderIsUnderWay'
    BY <1>28 DEF SweepReconciles
  <1>29. ASSUME NEW s \in Sweepers, ForceReconciles(s) PROVE SnapshotHolderIsUnderWay'
    BY <1>29 DEF ForceReconciles, ForceFinish, Settle, EndOfStream
  <1>30. ASSUME NEW s \in Sweepers, ForceFails(s) PROVE SnapshotHolderIsUnderWay'
    BY <1>30 DEF ForceFails
  <1>31. ASSUME NEW s \in Sweepers, SweepEnds(s) PROVE SnapshotHolderIsUnderWay'
    BY <1>31 DEF SweepEnds
  <1> QED
    BY <1>1, <1>2, <1>3, <1>4, <1>5, <1>6, <1>7, <1>8, <1>9, <1>10, <1>11, <1>12, <1>13,
          <1>14, <1>15, <1>16, <1>17, <1>18, <1>19, <1>20, <1>21, <1>22, <1>23, <1>24,
          <1>25, <1>26, <1>27, <1>28, <1>29, <1>30, <1>31 DEF Next, TaskStep, SweepStep

(* One Run per Connection. *)
LEMMA ConnectionPreserved ==
    ASSUME IInv, Next
    PROVE  OneActiveRunPerConnection'
  <1> USE CoordinatorAssumption DEF IInv, TypeOK, Phases, Sweepers, Starting, TaskAlive,
        Completed, TerminalStatus, Active, IsActive, ReleaseSnapshot, BeforeTask, vars,
        registry, identity, task, sweeps, Reservations, Registration, CompletedLate,
        SweepsFollowTasks, OneActiveRunPerConnection
  <1>1. ASSUME NEW r \in Runs, Start(r) PROVE OneActiveRunPerConnection'
    BY <1>1 DEF Start, MayStart, ConnectionHasActiveRun
  <1>2. ASSUME NEW r \in Runs, ReserveSnapshot(r) PROVE OneActiveRunPerConnection'
    BY <1>2 DEF ReserveSnapshot
  <1>3. ASSUME NEW r \in Runs, StartFails(r) PROVE OneActiveRunPerConnection'
    BY <1>3 DEF StartFails
  <1>4. ASSUME NEW r \in Runs, Register(r) PROVE OneActiveRunPerConnection'
    BY <1>4 DEF Register
  <1>5. ASSUME NEW r \in Runs, BeginTask(r) PROVE OneActiveRunPerConnection'
    BY <1>5 DEF BeginTask, ToReconcile
  <1>6. ASSUME NEW r \in Runs, CancelledBeforeFirstStep(r) PROVE OneActiveRunPerConnection'
    BY <1>6 DEF CancelledBeforeFirstStep
  <1>7. ASSUME NEW r \in Runs, Adapted(r) PROVE OneActiveRunPerConnection'
    BY <1>7 DEF Adapted, ToReconcile
  <1>8. ASSUME NEW r \in Runs, EngineAcquired(r) PROVE OneActiveRunPerConnection'
    BY <1>8 DEF EngineAcquired
  <1>9. ASSUME NEW r \in Runs, RequestInteraction(r) PROVE OneActiveRunPerConnection'
    BY <1>9 DEF RequestInteraction
  <1>10. ASSUME NEW r \in Runs, ExecutionEnds(r) PROVE OneActiveRunPerConnection'
    BY <1>10 DEF ExecutionEnds, ToReconcile
  <1>11. ASSUME NEW r \in Runs, ExecutionCancelled(r) PROVE OneActiveRunPerConnection'
    BY <1>11 DEF ExecutionCancelled, ToReconcile
  <1>12. ASSUME NEW r \in Runs, RunCompletes(r) PROVE OneActiveRunPerConnection'
    BY <1>12 DEF RunCompletes, Settle
  <1>13. ASSUME NEW r \in Runs, ReconcileCompletes(r) PROVE OneActiveRunPerConnection'
    BY <1>13 DEF ReconcileCompletes, Finish
  <1>14. ASSUME NEW r \in Runs, ReconcileAborts(r) PROVE OneActiveRunPerConnection'
    BY <1>14 DEF ReconcileAborts, Finish
  <1>15. ASSUME NEW r \in Runs, HandlerCompletes(r) PROVE OneActiveRunPerConnection'
    BY <1>15 DEF HandlerCompletes, Finish
  <1>16. ASSUME NEW r \in Runs, HandlerAborts(r) PROVE OneActiveRunPerConnection'
    BY <1>16 DEF HandlerAborts
  <1>17. ASSUME NEW r \in Runs, CleanupCompletes(r) PROVE OneActiveRunPerConnection'
    BY <1>17 DEF CleanupCompletes, Settle, EndOfStream
  <1>18. ASSUME NEW r \in Runs, CleanupCancelled(r) PROVE OneActiveRunPerConnection'
    BY <1>18 DEF CleanupCancelled
  <1>19. ASSUME NEW r \in Runs, InteractionEnds(r) PROVE OneActiveRunPerConnection'
    BY <1>19 DEF InteractionEnds
  <1>20. ASSUME NEW r \in Runs, Cancel(r) PROVE OneActiveRunPerConnection'
    BY <1>20 DEF Cancel
  <1>21. ASSUME NEW t \in Threads, BeginMaintenance(t) PROVE OneActiveRunPerConnection'
    BY <1>21 DEF BeginMaintenance
  <1>22. ASSUME NEW t \in Threads, EndMaintenance(t) PROVE OneActiveRunPerConnection'
    BY <1>22 DEF EndMaintenance
  <1>23. ASSUME NEW c \in Conns, OwnerDisconnected(c) PROVE OneActiveRunPerConnection'
    BY <1>23 DEF OwnerDisconnected, BeginSweep
  <1>24. ASSUME Close PROVE OneActiveRunPerConnection'
    BY <1>24 DEF Close, BeginSweep
  <1>25. ASSUME NEW s \in Sweepers, SweepGathers(s) PROVE OneActiveRunPerConnection'
    BY <1>25 DEF SweepGathers
  <1>26. ASSUME NEW s \in Sweepers, NEW r \in Runs, SweepSkips(s, r)
        PROVE OneActiveRunPerConnection'
    BY <1>26 DEF SweepSkips
  <1>27. ASSUME NEW s \in Sweepers, NEW r \in Runs, SweepForces(s, r)
        PROVE OneActiveRunPerConnection'
    BY <1>27 DEF SweepForces, ForceFinish, Settle, EndOfStream
  <1>28. ASSUME NEW s \in Sweepers, NEW r \in Runs, SweepReconciles(s, r)
        PROVE OneActiveRunPerConnection'
    BY <1>28 DEF SweepReconciles
  <1>29. ASSUME NEW s \in Sweepers, ForceReconciles(s) PROVE OneActiveRunPerConnection'
    BY <1>29 DEF ForceReconciles, ForceFinish, Settle, EndOfStream
  <1>30. ASSUME NEW s \in Sweepers, ForceFails(s) PROVE OneActiveRunPerConnection'
    BY <1>30 DEF ForceFails
  <1>31. ASSUME NEW s \in Sweepers, SweepEnds(s) PROVE OneActiveRunPerConnection'
    BY <1>31 DEF SweepEnds
  <1> QED
    BY <1>1, <1>2, <1>3, <1>4, <1>5, <1>6, <1>7, <1>8, <1>9, <1>10, <1>11, <1>12, <1>13,
          <1>14, <1>15, <1>16, <1>17, <1>18, <1>19, <1>20, <1>21, <1>22, <1>23, <1>24,
          <1>25, <1>26, <1>27, <1>28, <1>29, <1>30, <1>31 DEF Next, TaskStep, SweepStep

LEMMA InitEstablishes == Init => IInv
  <1> SUFFICES ASSUME Init PROVE IInv
    OBVIOUS
  <1> USE CoordinatorAssumption
      DEF Init, TypeOK, Phases, Sweepers, Starting, TaskAlive, Completed, TerminalStatus
  <1>1. TypeOK
    <2>1. asking \in [Runs -> 0 .. MaxAsking]
      OBVIOUS
    <2>2. /\ pc \in [Runs -> {"new"}]
          /\ status \in [Runs -> {"accepted"}]
          /\ outcome \in [Runs -> {"completed"}]
          /\ stream \in [Runs -> {"open"}]
      OBVIOUS
    <2>3. /\ sweep \in [Sweepers -> {"none"}]
          /\ targets \in [Sweepers -> {{}}]
          /\ left \in [Sweepers -> {{}}]
          /\ forcing \in [Sweepers -> {NoRun}]
      OBVIOUS
    <2> QED BY <2>1, <2>2, <2>3
  <1>2. Starting = {} /\ TaskAlive = {} /\ Completed = {}
    OBVIOUS
  <1>3. Reservations /\ CompletedLate
    BY <1>2 DEF Reservations, CompletedLate
  <1>4. Registration
    BY <1>2 DEF Registration
  <1>5. SweepsFollowTasks
    BY <1>2 DEF SweepsFollowTasks
  <1>6. OneActiveRunPerConnection /\ SnapshotHolderIsUnderWay
    BY <1>2 DEF OneActiveRunPerConnection, Active, SnapshotHolderIsUnderWay
  <1> QED BY <1>1, <1>3, <1>4, <1>5, <1>6 DEF IInv

LEMMA StutterPreserves ==
    ASSUME IInv, UNCHANGED vars
    PROVE  IInv'
  BY DEF vars, registry, identity, task, sweeps, IInv, TypeOK, Phases, Sweepers, Starting,
        TaskAlive,
      Completed, TerminalStatus, Active, IsActive, BeforeTask, Reservations, Registration,
      CompletedLate, SweepsFollowTasks, OneActiveRunPerConnection, SnapshotHolderIsUnderWay

(* The inductive invariant holds in every reachable state. *)
THEOREM Inductive == Spec => []IInv
  <1>1. IInv /\ [Next]_vars => IInv'
    <2>1. ASSUME IInv, Next PROVE IInv'
      BY <2>1, TypePreserved, ReservationsPreserved, RegistrationPreserved,
            CompletedLatePreserved,
         SweepsPreserved, SnapshotPreserved, ConnectionPreserved DEF IInv
    <2> QED BY <2>1, StutterPreserves
  <1> QED BY InitEstablishes, <1>1, PTL DEF Spec

(* Type correctness of the coordinator. *)
THEOREM TypeCorrect == Spec => []TypeOK
  <1>1. IInv => TypeOK
    BY DEF IInv
  <1> QED BY <1>1, Inductive, PTL

(* A Thread never has two active Runs, whatever else start(), the tasks, the
   cancellations and the sweeps are in the middle of. *)
THEOREM ThreadExclusion == Spec => []OneActiveRunPerThread
  <1>1. IInv => OneActiveRunPerThread
    BY CoordinatorAssumption
    DEF IInv, TypeOK, Reservations, Registration, OneActiveRunPerThread, Active, IsActive,
        Starting, TaskAlive, Completed
  <1> QED BY <1>1, Inductive, PTL

(* Nor has a Connection, unless it negotiated concurrent Runs. *)
THEOREM ConnectionExclusion == Spec => []OneActiveRunPerConnection
  <1>1. IInv => OneActiveRunPerConnection
    BY DEF IInv
  <1> QED BY <1>1, Inductive, PTL

(* The engine snapshot lock is held by nobody but a Run whose preparation or
   task is under way: a start() that fails returns it. *)
THEOREM SnapshotHolding == Spec => []SnapshotHolderIsUnderWay
  <1>1. IInv => SnapshotHolderIsUnderWay
    BY DEF IInv
  <1> QED BY <1>1, Inductive, PTL

(* Maintenance of a Thread and an active Run on it exclude each other. *)
THEOREM MaintenanceExclusion == Spec => []MaintenanceExcludesRuns
  <1>1. IInv => MaintenanceExcludesRuns
    BY CoordinatorAssumption
    DEF IInv, TypeOK, Reservations, Registration, MaintenanceExcludesRuns, Active, IsActive,
        Starting, TaskAlive, Completed
  <1> QED BY <1>1, Inductive, PTL

(* All that the admission of start() and idle_thread keep apart. *)
THEOREM Exclusion == Spec => []RunsExclude
  <1>1. OneActiveRunPerThread /\ OneActiveRunPerConnection /\ MaintenanceExcludesRuns
          => RunsExclude
    BY DEF RunsExclude
  <1> QED BY <1>1, ThreadExclusion, ConnectionExclusion, MaintenanceExclusion, PTL

(* When owner_disconnected or close returns, every Run it cancelled has a
   terminal status. *)
THEOREM SweepsConverge == Spec => []SweptRunsAreTerminal
  <1>1. IInv => SweptRunsAreTerminal
    BY DEF IInv, SweepsFollowTasks, SweptRunsAreTerminal
  <1> QED BY <1>1, Inductive, PTL

(* No action changes the status of a completed Run. *)
LEMMA StatusKept ==
    ASSUME IInv, Next
    PROVE  \A q \in Completed : status'[q] = status[q]
  <1> USE CoordinatorAssumption DEF IInv, TypeOK, Phases, Sweepers, Starting, TaskAlive,
        Completed, TerminalStatus, Active, IsActive, CompletedLate, vars, registry,
        identity, task, sweeps
  <1>1. ASSUME NEW r \in Runs, Start(r) PROVE \A q \in Completed : status'[q] = status[q]
    BY <1>1 DEF Start, MayStart, ConnectionHasActiveRun
  <1>2. ASSUME NEW r \in Runs, ReserveSnapshot(r)
        PROVE \A q \in Completed : status'[q] = status[q]
    BY <1>2 DEF ReserveSnapshot
  <1>3. ASSUME NEW r \in Runs, StartFails(r)
        PROVE \A q \in Completed : status'[q] = status[q]
    BY <1>3 DEF StartFails
  <1>4. ASSUME NEW r \in Runs, Register(r) PROVE \A q \in Completed : status'[q] = status[q]
    BY <1>4 DEF Register
  <1>5. ASSUME NEW r \in Runs, BeginTask(r)
        PROVE \A q \in Completed : status'[q] = status[q]
    BY <1>5 DEF BeginTask, ToReconcile
  <1>6. ASSUME NEW r \in Runs, CancelledBeforeFirstStep(r)
        PROVE \A q \in Completed : status'[q] = status[q]
    BY <1>6 DEF CancelledBeforeFirstStep
  <1>7. ASSUME NEW r \in Runs, Adapted(r) PROVE \A q \in Completed : status'[q] = status[q]
    BY <1>7 DEF Adapted, ToReconcile
  <1>8. ASSUME NEW r \in Runs, EngineAcquired(r)
        PROVE \A q \in Completed : status'[q] = status[q]
    BY <1>8 DEF EngineAcquired
  <1>9. ASSUME NEW r \in Runs, RequestInteraction(r)
        PROVE \A q \in Completed : status'[q] = status[q]
    BY <1>9 DEF RequestInteraction
  <1>10. ASSUME NEW r \in Runs, ExecutionEnds(r)
        PROVE \A q \in Completed : status'[q] = status[q]
    BY <1>10 DEF ExecutionEnds, ToReconcile
  <1>11. ASSUME NEW r \in Runs, ExecutionCancelled(r)
        PROVE \A q \in Completed : status'[q] = status[q]
    BY <1>11 DEF ExecutionCancelled, ToReconcile
  <1>12. ASSUME NEW r \in Runs, RunCompletes(r)
        PROVE \A q \in Completed : status'[q] = status[q]
    BY <1>12 DEF RunCompletes, Settle
  <1>13. ASSUME NEW r \in Runs, ReconcileCompletes(r)
        PROVE \A q \in Completed : status'[q] = status[q]
    BY <1>13 DEF ReconcileCompletes, Finish
  <1>14. ASSUME NEW r \in Runs, ReconcileAborts(r)
        PROVE \A q \in Completed : status'[q] = status[q]
    BY <1>14 DEF ReconcileAborts, Finish
  <1>15. ASSUME NEW r \in Runs, HandlerCompletes(r)
        PROVE \A q \in Completed : status'[q] = status[q]
    BY <1>15 DEF HandlerCompletes, Finish
  <1>16. ASSUME NEW r \in Runs, HandlerAborts(r)
        PROVE \A q \in Completed : status'[q] = status[q]
    BY <1>16 DEF HandlerAborts
  <1>17. ASSUME NEW r \in Runs, CleanupCompletes(r)
        PROVE \A q \in Completed : status'[q] = status[q]
    BY <1>17 DEF CleanupCompletes, Settle, EndOfStream
  <1>18. ASSUME NEW r \in Runs, CleanupCancelled(r)
        PROVE \A q \in Completed : status'[q] = status[q]
    BY <1>18 DEF CleanupCancelled
  <1>19. ASSUME NEW r \in Runs, InteractionEnds(r)
        PROVE \A q \in Completed : status'[q] = status[q]
    BY <1>19 DEF InteractionEnds
  <1>20. ASSUME NEW r \in Runs, Cancel(r) PROVE \A q \in Completed : status'[q] = status[q]
    BY <1>20 DEF Cancel
  <1>21. ASSUME NEW t \in Threads, BeginMaintenance(t)
        PROVE \A q \in Completed : status'[q] = status[q]
    BY <1>21 DEF BeginMaintenance
  <1>22. ASSUME NEW t \in Threads, EndMaintenance(t)
        PROVE \A q \in Completed : status'[q] = status[q]
    BY <1>22 DEF EndMaintenance
  <1>23. ASSUME NEW c \in Conns, OwnerDisconnected(c)
        PROVE \A q \in Completed : status'[q] = status[q]
    BY <1>23 DEF OwnerDisconnected, BeginSweep
  <1>24. ASSUME Close PROVE \A q \in Completed : status'[q] = status[q]
    BY <1>24 DEF Close, BeginSweep
  <1>25. ASSUME NEW s \in Sweepers, SweepGathers(s)
        PROVE \A q \in Completed : status'[q] = status[q]
    BY <1>25 DEF SweepGathers
  <1>26. ASSUME NEW s \in Sweepers, NEW r \in Runs, SweepSkips(s, r)
        PROVE \A q \in Completed : status'[q] = status[q]
    BY <1>26 DEF SweepSkips
  <1>27. ASSUME NEW s \in Sweepers, NEW r \in Runs, SweepForces(s, r)
        PROVE \A q \in Completed : status'[q] = status[q]
    BY <1>27 DEF SweepForces, ForceFinish, Settle, EndOfStream
  <1>28. ASSUME NEW s \in Sweepers, NEW r \in Runs, SweepReconciles(s, r)
        PROVE \A q \in Completed : status'[q] = status[q]
    BY <1>28 DEF SweepReconciles
  <1>29. ASSUME NEW s \in Sweepers, ForceReconciles(s)
        PROVE \A q \in Completed : status'[q] = status[q]
    BY <1>29 DEF ForceReconciles, ForceFinish, Settle, EndOfStream
  <1>30. ASSUME NEW s \in Sweepers, ForceFails(s)
        PROVE \A q \in Completed : status'[q] = status[q]
    BY <1>30 DEF ForceFails
  <1>31. ASSUME NEW s \in Sweepers, SweepEnds(s)
        PROVE \A q \in Completed : status'[q] = status[q]
    BY <1>31 DEF SweepEnds
  <1> QED
    BY <1>1, <1>2, <1>3, <1>4, <1>5, <1>6, <1>7, <1>8, <1>9, <1>10, <1>11, <1>12, <1>13,
          <1>14, <1>15, <1>16, <1>17, <1>18, <1>19, <1>20, <1>21, <1>22, <1>23, <1>24,
          <1>25, <1>26, <1>27, <1>28, <1>29, <1>30, <1>31 DEF Next, TaskStep, SweepStep

(* The terminal status of a Run never changes. *)
THEOREM TerminalStatusIsFinal == Spec => TerminalIsFinal
  <1>1. IInv /\ [Next]_vars => [\A q \in Completed : status'[q] = status[q]]_vars
    BY StatusKept
  <1>2. IInv /\ [Next]_vars => [\A r \in Completed : status'[r] = status[r]]_vars
    BY <1>1
  <1> QED BY <1>2, Inductive, PTL DEF Spec, TerminalIsFinal

(* The reader of a Run's events is given the terminal event with the terminal
   status, and no end of the events while the task may still finish the Run. *)
StreamFits ==
    \A r \in Runs :
        /\ r \in Completed => stream[r] # "open"
        /\ r \notin Completed => stream[r] \in {"open", "cut"}
        /\ pc[r] \notin {"cleanup", "done", "dead"} => stream[r] = "open"
        /\ pc[r] = "cleanup" => stream[r] = IF r \in Completed THEN "terminal" ELSE "open"

LEMMA StreamPreserved ==
    ASSUME IInv, Next, StreamFits
    PROVE  StreamFits'
  <1> USE CoordinatorAssumption DEF IInv, TypeOK, Phases, Sweepers, Starting, TaskAlive,
        Completed, TerminalStatus, BeforeTask, CompletedLate, SweepsFollowTasks, StreamFits,
        vars, registry, identity, task, sweeps
  <1>1. ASSUME NEW r \in Runs, Start(r) PROVE StreamFits'
    BY <1>1 DEF Start, MayStart, ConnectionHasActiveRun
  <1>2. ASSUME NEW r \in Runs, ReserveSnapshot(r) PROVE StreamFits'
    BY <1>2 DEF ReserveSnapshot
  <1>3. ASSUME NEW r \in Runs, StartFails(r) PROVE StreamFits'
    BY <1>3 DEF StartFails
  <1>4. ASSUME NEW r \in Runs, Register(r) PROVE StreamFits'
    BY <1>4 DEF Register
  <1>5. ASSUME NEW r \in Runs, BeginTask(r) PROVE StreamFits'
    BY <1>5 DEF BeginTask, ToReconcile
  <1>6. ASSUME NEW r \in Runs, CancelledBeforeFirstStep(r) PROVE StreamFits'
    BY <1>6 DEF CancelledBeforeFirstStep
  <1>7. ASSUME NEW r \in Runs, Adapted(r) PROVE StreamFits'
    BY <1>7 DEF Adapted, ToReconcile
  <1>8. ASSUME NEW r \in Runs, EngineAcquired(r) PROVE StreamFits'
    BY <1>8 DEF EngineAcquired
  <1>9. ASSUME NEW r \in Runs, RequestInteraction(r) PROVE StreamFits'
    BY <1>9 DEF RequestInteraction
  <1>10. ASSUME NEW r \in Runs, ExecutionEnds(r) PROVE StreamFits'
    BY <1>10 DEF ExecutionEnds, ToReconcile
  <1>11. ASSUME NEW r \in Runs, ExecutionCancelled(r) PROVE StreamFits'
    BY <1>11 DEF ExecutionCancelled, ToReconcile
  <1>12. ASSUME NEW r \in Runs, RunCompletes(r) PROVE StreamFits'
    BY <1>12 DEF RunCompletes, Settle
  <1>13. ASSUME NEW r \in Runs, ReconcileCompletes(r) PROVE StreamFits'
    BY <1>13 DEF ReconcileCompletes, Finish
  <1>14. ASSUME NEW r \in Runs, ReconcileAborts(r) PROVE StreamFits'
    BY <1>14 DEF ReconcileAborts, Finish
  <1>15. ASSUME NEW r \in Runs, HandlerCompletes(r) PROVE StreamFits'
    BY <1>15 DEF HandlerCompletes, Finish
  <1>16. ASSUME NEW r \in Runs, HandlerAborts(r) PROVE StreamFits'
    BY <1>16 DEF HandlerAborts
  <1>17. ASSUME NEW r \in Runs, CleanupCompletes(r) PROVE StreamFits'
    BY <1>17 DEF CleanupCompletes, Settle, EndOfStream
  <1>18. ASSUME NEW r \in Runs, CleanupCancelled(r) PROVE StreamFits'
    BY <1>18 DEF CleanupCancelled
  <1>19. ASSUME NEW r \in Runs, InteractionEnds(r) PROVE StreamFits'
    BY <1>19 DEF InteractionEnds
  <1>20. ASSUME NEW r \in Runs, Cancel(r) PROVE StreamFits'
    BY <1>20 DEF Cancel
  <1>21. ASSUME NEW t \in Threads, BeginMaintenance(t) PROVE StreamFits'
    BY <1>21 DEF BeginMaintenance
  <1>22. ASSUME NEW t \in Threads, EndMaintenance(t) PROVE StreamFits'
    BY <1>22 DEF EndMaintenance
  <1>23. ASSUME NEW c \in Conns, OwnerDisconnected(c) PROVE StreamFits'
    BY <1>23 DEF OwnerDisconnected, BeginSweep
  <1>24. ASSUME Close PROVE StreamFits'
    BY <1>24 DEF Close, BeginSweep
  <1>25. ASSUME NEW s \in Sweepers, SweepGathers(s) PROVE StreamFits'
    BY <1>25 DEF SweepGathers
  <1>26. ASSUME NEW s \in Sweepers, NEW r \in Runs, SweepSkips(s, r) PROVE StreamFits'
    BY <1>26 DEF SweepSkips
  <1>27. ASSUME NEW s \in Sweepers, NEW r \in Runs, SweepForces(s, r) PROVE StreamFits'
    BY <1>27 DEF SweepForces, ForceFinish, Settle, EndOfStream
  <1>28. ASSUME NEW s \in Sweepers, NEW r \in Runs, SweepReconciles(s, r) PROVE StreamFits'
    BY <1>28 DEF SweepReconciles
  <1>29. ASSUME NEW s \in Sweepers, ForceReconciles(s) PROVE StreamFits'
    BY <1>29 DEF ForceReconciles, ForceFinish, Settle, EndOfStream
  <1>30. ASSUME NEW s \in Sweepers, ForceFails(s) PROVE StreamFits'
    BY <1>30 DEF ForceFails
  <1>31. ASSUME NEW s \in Sweepers, SweepEnds(s) PROVE StreamFits'
    BY <1>31 DEF SweepEnds
  <1> QED
    BY <1>1, <1>2, <1>3, <1>4, <1>5, <1>6, <1>7, <1>8, <1>9, <1>10, <1>11, <1>12, <1>13,
          <1>14, <1>15, <1>16, <1>17, <1>18, <1>19, <1>20, <1>21, <1>22, <1>23, <1>24,
          <1>25, <1>26, <1>27, <1>28, <1>29, <1>30, <1>31 DEF Next, TaskStep, SweepStep

LEMMA StreamsFit == Spec => []StreamFits
  <1>1. Init => StreamFits
    BY DEF Init, StreamFits, Completed, TerminalStatus
  <1>2. ASSUME IInv, StreamFits, [Next]_vars PROVE StreamFits'
    <2>1. CASE UNCHANGED vars
      BY <1>2, <2>1 DEF vars, task, StreamFits, Completed, TerminalStatus
    <2> QED BY <1>2, <2>1, StreamPreserved
  <1> QED BY <1>1, <1>2, Inductive, PTL DEF Spec

-----------------------------------------------------------------------------
(* The coordinator implements RunLifecycle.                                *)

Seen(r) == IF status[r] \in TerminalStatus THEN status[r] ELSE Place[pc[r]]

(* What a client sees of a Run that a step leaves alone does not change. *)
LEMMA StepUnseen ==
    ASSUME UNCHANGED <<thread, stream>>, \A q \in Runs : Seen(q)' = Seen(q)
    PROVE  UNCHANGED Lifecycle!vars
  BY DEF Lifecycle!vars, Phase, Seen

LEMMA StepOfOneRun ==
    ASSUME TypeOK, NEW r \in Runs, UNCHANGED thread,
           \A q \in Runs \ {r} : Seen(q)' = Seen(q) /\ stream'[q] = stream[q],
           stream' \in [Runs -> {"open", "terminal", "ended", "cut"}]
    PROVE  Lifecycle!Becomes(r, Seen(r)', stream'[r])
  <1>1. stream' = [stream EXCEPT ![r] = stream'[r]]
    BY DEF TypeOK
  <1>2. Phase = [q \in Runs |-> Seen(q)] /\ Phase' = [q \in Runs |-> Seen(q)']
    BY DEF Phase, Seen
  <1> HIDE DEF Seen
  <1>3. Phase' = [Phase EXCEPT ![r] = Seen(r)']
    BY <1>2
  <1> QED BY <1>1, <1>3 DEF Lifecycle!Becomes

LEMMA SeenIsPhase ==
    ASSUME NEW r \in Runs
    PROVE  Phase[r] = Seen(r) /\ Phase'[r] = Seen(r)'
  BY DEF Phase, Seen

(* What a step on one Run is to its clients, by what they see before and
   after it. *)
LEMMA AdmitSeen ==
    ASSUME NEW r \in Runs, Lifecycle!Becomes(r, Seen(r)', stream'[r]),
           Seen(r) = "new" /\ Seen(r)' = "admitted" /\ stream'[r] = stream[r],
           \A q \in Runs : thread[q] = thread[r] => Seen(q) \notin {"admitted", "working"}
    PROVE  Lifecycle!Next
  <1>1. Lifecycle!Admit(r)
    BY SeenIsPhase DEF Lifecycle!Admit, Lifecycle!Becomes, Phase, Seen
  <1> QED BY <1>1 DEF Lifecycle!Next

LEMMA RefuseSeen ==
    ASSUME NEW r \in Runs, Lifecycle!Becomes(r, Seen(r)', stream'[r]),
           Seen(r) = "admitted" /\ Seen(r)' = "new" /\ stream'[r] = stream[r]
    PROVE  Lifecycle!Next
  <1>1. Lifecycle!Refuse(r)
    BY SeenIsPhase DEF Lifecycle!Refuse, Lifecycle!Becomes
  <1> QED BY <1>1 DEF Lifecycle!Next

LEMMA BeginSeen ==
    ASSUME NEW r \in Runs, Lifecycle!Becomes(r, Seen(r)', stream'[r]),
           Seen(r) = "admitted" /\ Seen(r)' = "working" /\ stream'[r] = stream[r]
    PROVE  Lifecycle!Next
  <1>1. Lifecycle!Begin(r)
    BY SeenIsPhase DEF Lifecycle!Begin, Lifecycle!Becomes
  <1> QED BY <1>1 DEF Lifecycle!Next

LEMMA FinishSeen ==
    ASSUME NEW r \in Runs, Lifecycle!Becomes(r, Seen(r)', stream'[r]),
           Seen(r) = "working" /\ Seen(r)' \in TerminalStatus,
           stream'[r] \in {"terminal", "ended"}
    PROVE  Lifecycle!Next
  <1>1. Lifecycle!Finish(r)
    BY SeenIsPhase DEF Lifecycle!Finish, Lifecycle!Becomes, Lifecycle!Terminal,
       TerminalStatus
  <1> QED BY <1>1 DEF Lifecycle!Next

LEMMA LoseSeen ==
    ASSUME NEW r \in Runs, Lifecycle!Becomes(r, Seen(r)', stream'[r]),
           Seen(r) = "working" /\ Seen(r)' = "lost" /\ stream'[r] \in {"open", "cut"}
    PROVE  Lifecycle!Next
  <1>1. Lifecycle!Lose(r)
    BY SeenIsPhase DEF Lifecycle!Lose, Lifecycle!Becomes
  <1> QED BY <1>1 DEF Lifecycle!Next

LEMMA EndEventsSeen ==
    ASSUME NEW r \in Runs, Lifecycle!Becomes(r, Seen(r)', stream'[r]),
           Seen(r) \in TerminalStatus /\ Seen(r)' = Seen(r),
           stream[r] = "terminal" /\ stream'[r] = "ended"
    PROVE  Lifecycle!Next
  <1>1. Lifecycle!EndEvents(r)
    BY SeenIsPhase DEF Lifecycle!EndEvents, Lifecycle!Becomes, Lifecycle!Terminal,
       TerminalStatus
  <1> QED BY <1>1 DEF Lifecycle!Next

(* _force_cancel meets a Run whose task is over: it ends a lost one as
   cancelled, and what another sweep has ended already stays as it is. *)
LEMMA ForcedStep ==
    ASSUME IInv, StreamFits, NEW s \in Sweepers, NEW r \in Runs, r \in left[s],
           sweep[s] \in {"force", "reconcile"}, ForceFinish(s, r)
    PROVE  Lifecycle!Next \/ UNCHANGED Lifecycle!vars
  <1> USE DEF IInv, TypeOK, Phases, TaskAlive, Completed, TerminalStatus, BeforeTask,
        SweepsFollowTasks, StreamFits, Seen, Place, registry, identity, task
  <1>1. pc[r] \in {"done", "dead"}
    OBVIOUS
  <1>2. CASE r \notin Completed
    <2>1. Lifecycle!Becomes(r, Seen(r)', stream'[r])
      BY <1>1, <1>2, StepOfOneRun DEF ForceFinish, EndOfStream
    <2>2. Lifecycle!Recover(r)
      BY <1>1, <1>2, <2>1, SeenIsPhase DEF ForceFinish, EndOfStream, Lifecycle!Recover
    <2> QED BY <2>2 DEF Lifecycle!Next
  <1>3. CASE r \in Completed /\ stream[r] = "terminal"
    <2>1. Lifecycle!Becomes(r, Seen(r)', stream'[r])
      BY <1>3, StepOfOneRun DEF ForceFinish, EndOfStream
    <2>2. Lifecycle!EndEvents(r)
      BY <1>3, <2>1, SeenIsPhase DEF ForceFinish, EndOfStream, Lifecycle!EndEvents,
         Lifecycle!Terminal
    <2> QED BY <2>2 DEF Lifecycle!Next
  <1>4. CASE r \in Completed /\ stream[r] # "terminal"
    BY <1>4, StepUnseen DEF ForceFinish, EndOfStream
  <1> QED BY <1>2, <1>3, <1>4

LEMMA StepIsLifecycleStep ==
    ASSUME IInv, StreamFits, TypeOK', Next
    PROVE  Lifecycle!Next \/ UNCHANGED Lifecycle!vars
  <1> USE CoordinatorAssumption DEF IInv, TypeOK, Phases, Starting, TaskAlive, Completed,
        TerminalStatus, CompletedLate, StreamFits, Seen, Place, vars, registry, identity,
        task, sweeps
  <1>1. ASSUME NEW r \in Runs, Start(r)
        PROVE Lifecycle!Next \/ UNCHANGED Lifecycle!vars
    <2>1. Lifecycle!Becomes(r, Seen(r)', stream'[r])
      BY <1>1, StepOfOneRun DEF Start, MayStart, ConnectionHasActiveRun
    <2>2. Seen(r) = "new" /\ Seen(r)' = "admitted" /\ stream'[r] = stream[r]
      BY <1>1 DEF Start, MayStart, ConnectionHasActiveRun
    <2>3. ASSUME NEW q \in Runs, thread[q] = thread[r]
          PROVE Seen(q) \notin {"admitted", "working"}
      <3>1. q \notin Starting
        BY <1>1, <2>3 DEF Start, MayStart, Reservations
      <3>2. q \notin TaskAlive \ Completed
        BY <1>1, <2>3 DEF Start, MayStart, Registration, IsActive
      <3> QED BY <3>1, <3>2
    <2> QED BY <2>1, <2>2, <2>3, AdmitSeen
  <1>2. ASSUME NEW r \in Runs, ReserveSnapshot(r)
        PROVE Lifecycle!Next \/ UNCHANGED Lifecycle!vars
    BY <1>2, StepUnseen DEF ReserveSnapshot
  <1>3. ASSUME NEW r \in Runs, StartFails(r)
        PROVE Lifecycle!Next \/ UNCHANGED Lifecycle!vars
    <2>1. Lifecycle!Becomes(r, Seen(r)', stream'[r])
      BY <1>3, StepOfOneRun DEF StartFails
    <2>2. Seen(r) = "admitted" /\ Seen(r)' = "new" /\ stream'[r] = stream[r]
      BY <1>3 DEF StartFails
    <2> QED BY <2>1, <2>2, RefuseSeen
  <1>4. ASSUME NEW r \in Runs, Register(r)
        PROVE Lifecycle!Next \/ UNCHANGED Lifecycle!vars
    <2>1. Lifecycle!Becomes(r, Seen(r)', stream'[r])
      BY <1>4, StepOfOneRun DEF Register
    <2>2. Seen(r) = "admitted" /\ Seen(r)' = "working" /\ stream'[r] = stream[r]
      BY <1>4 DEF Register
    <2> QED BY <2>1, <2>2, BeginSeen
  <1>5. ASSUME NEW r \in Runs, BeginTask(r)
        PROVE Lifecycle!Next \/ UNCHANGED Lifecycle!vars
    BY <1>5, StepUnseen DEF BeginTask, ToReconcile
  <1>6. ASSUME NEW r \in Runs, CancelledBeforeFirstStep(r)
        PROVE Lifecycle!Next \/ UNCHANGED Lifecycle!vars
    <2>1. Lifecycle!Becomes(r, Seen(r)', stream'[r])
      BY <1>6, StepOfOneRun DEF CancelledBeforeFirstStep
    <2>2. Seen(r) = "working" /\ Seen(r)' = "lost" /\ stream'[r] \in {"open", "cut"}
      BY <1>6 DEF CancelledBeforeFirstStep
    <2> QED BY <2>1, <2>2, LoseSeen
  <1>7. ASSUME NEW r \in Runs, Adapted(r)
        PROVE Lifecycle!Next \/ UNCHANGED Lifecycle!vars
    BY <1>7, StepUnseen DEF Adapted, ToReconcile
  <1>8. ASSUME NEW r \in Runs, EngineAcquired(r)
        PROVE Lifecycle!Next \/ UNCHANGED Lifecycle!vars
    BY <1>8, StepUnseen DEF EngineAcquired
  <1>9. ASSUME NEW r \in Runs, RequestInteraction(r)
        PROVE Lifecycle!Next \/ UNCHANGED Lifecycle!vars
    BY <1>9, StepUnseen DEF RequestInteraction
  <1>10. ASSUME NEW r \in Runs, ExecutionEnds(r)
        PROVE Lifecycle!Next \/ UNCHANGED Lifecycle!vars
    BY <1>10, StepUnseen DEF ExecutionEnds, ToReconcile
  <1>11. ASSUME NEW r \in Runs, ExecutionCancelled(r)
        PROVE Lifecycle!Next \/ UNCHANGED Lifecycle!vars
    BY <1>11, StepUnseen DEF ExecutionCancelled, ToReconcile
  <1>12. ASSUME NEW r \in Runs, RunCompletes(r)
        PROVE Lifecycle!Next \/ UNCHANGED Lifecycle!vars
    <2>1. Lifecycle!Becomes(r, Seen(r)', stream'[r])
      BY <1>12, StepOfOneRun DEF RunCompletes, Settle
    <2>2. /\ Seen(r) = "working" /\ Seen(r)' \in TerminalStatus
          /\ stream'[r] \in {"terminal", "ended"}
      BY <1>12 DEF RunCompletes, Settle
    <2> QED BY <2>1, <2>2, FinishSeen
  <1>13. ASSUME NEW r \in Runs, ReconcileCompletes(r)
        PROVE Lifecycle!Next \/ UNCHANGED Lifecycle!vars
    <2>1. Lifecycle!Becomes(r, Seen(r)', stream'[r])
      BY <1>13, StepOfOneRun DEF ReconcileCompletes, Finish
    <2>2. /\ Seen(r) = "working" /\ Seen(r)' \in TerminalStatus
          /\ stream'[r] \in {"terminal", "ended"}
      BY <1>13 DEF ReconcileCompletes, Finish
    <2> QED BY <2>1, <2>2, FinishSeen
  <1>14. ASSUME NEW r \in Runs, ReconcileAborts(r)
        PROVE Lifecycle!Next \/ UNCHANGED Lifecycle!vars
    <2>1. Lifecycle!Becomes(r, Seen(r)', stream'[r])
      BY <1>14, StepOfOneRun DEF ReconcileAborts, Finish
    <2>2. /\ Seen(r) = "working" /\ Seen(r)' \in TerminalStatus
          /\ stream'[r] \in {"terminal", "ended"}
      BY <1>14 DEF ReconcileAborts, Finish
    <2> QED BY <2>1, <2>2, FinishSeen
  <1>15. ASSUME NEW r \in Runs, HandlerCompletes(r)
        PROVE Lifecycle!Next \/ UNCHANGED Lifecycle!vars
    <2>1. Lifecycle!Becomes(r, Seen(r)', stream'[r])
      BY <1>15, StepOfOneRun DEF HandlerCompletes, Finish
    <2>2. /\ Seen(r) = "working" /\ Seen(r)' \in TerminalStatus
          /\ stream'[r] \in {"terminal", "ended"}
      BY <1>15 DEF HandlerCompletes, Finish
    <2> QED BY <2>1, <2>2, FinishSeen
  <1>16. ASSUME NEW r \in Runs, HandlerAborts(r)
        PROVE Lifecycle!Next \/ UNCHANGED Lifecycle!vars
    BY <1>16, StepUnseen DEF HandlerAborts
  <1>17. ASSUME NEW r \in Runs, CleanupCompletes(r)
        PROVE Lifecycle!Next \/ UNCHANGED Lifecycle!vars
    <2>1. Lifecycle!Becomes(r, Seen(r)', stream'[r])
      BY <1>17, StepOfOneRun DEF CleanupCompletes, Settle, EndOfStream
    <2>2. \/ Seen(r) = "working" /\ Seen(r)' = "lost" /\ stream'[r] \in {"open", "cut"}
          \/ /\ Seen(r) \in TerminalStatus /\ Seen(r)' = Seen(r)
             /\ stream[r] = "terminal" /\ stream'[r] = "ended"
      BY <1>17 DEF CleanupCompletes, Settle, EndOfStream
    <2> QED BY <2>1, <2>2, LoseSeen, EndEventsSeen
  <1>18. ASSUME NEW r \in Runs, CleanupCancelled(r)
        PROVE Lifecycle!Next \/ UNCHANGED Lifecycle!vars
    <2>1. CASE r \in Completed
      BY <1>18, <2>1, StepUnseen DEF CleanupCancelled
    <2>2. CASE r \notin Completed
      <3>1. Lifecycle!Becomes(r, Seen(r)', stream'[r])
        BY <1>18, StepOfOneRun DEF CleanupCancelled
      <3>2. Seen(r) = "working" /\ Seen(r)' = "lost" /\ stream'[r] \in {"open", "cut"}
        BY <1>18, <2>2 DEF CleanupCancelled
      <3> QED BY <3>1, <3>2, LoseSeen
    <2> QED BY <2>1, <2>2
  <1>19. ASSUME NEW r \in Runs, InteractionEnds(r)
        PROVE Lifecycle!Next \/ UNCHANGED Lifecycle!vars
    BY <1>19, StepUnseen DEF InteractionEnds
  <1>20. ASSUME NEW r \in Runs, Cancel(r)
        PROVE Lifecycle!Next \/ UNCHANGED Lifecycle!vars
    BY <1>20, StepUnseen DEF Cancel
  <1>21. ASSUME NEW t \in Threads, BeginMaintenance(t)
        PROVE Lifecycle!Next \/ UNCHANGED Lifecycle!vars
    BY <1>21, StepUnseen DEF BeginMaintenance
  <1>22. ASSUME NEW t \in Threads, EndMaintenance(t)
        PROVE Lifecycle!Next \/ UNCHANGED Lifecycle!vars
    BY <1>22, StepUnseen DEF EndMaintenance
  <1>23. ASSUME NEW c \in Conns, OwnerDisconnected(c)
        PROVE Lifecycle!Next \/ UNCHANGED Lifecycle!vars
    BY <1>23, StepUnseen DEF OwnerDisconnected, BeginSweep
  <1>24. ASSUME Close
        PROVE Lifecycle!Next \/ UNCHANGED Lifecycle!vars
    BY <1>24, StepUnseen DEF Close, BeginSweep
  <1>25. ASSUME NEW s \in Sweepers, SweepGathers(s)
        PROVE Lifecycle!Next \/ UNCHANGED Lifecycle!vars
    BY <1>25, StepUnseen DEF SweepGathers
  <1>26. ASSUME NEW s \in Sweepers, NEW r \in Runs, SweepSkips(s, r)
        PROVE Lifecycle!Next \/ UNCHANGED Lifecycle!vars
    BY <1>26, StepUnseen DEF SweepSkips
  <1>27. ASSUME NEW s \in Sweepers, NEW r \in Runs, SweepForces(s, r)
        PROVE Lifecycle!Next \/ UNCHANGED Lifecycle!vars
    <2>1. r \in left[s] /\ sweep[s] = "force" /\ ForceFinish(s, r)
      BY <1>27 DEF SweepForces
    <2> QED BY <2>1, ForcedStep
  <1>28. ASSUME NEW s \in Sweepers, NEW r \in Runs, SweepReconciles(s, r)
        PROVE Lifecycle!Next \/ UNCHANGED Lifecycle!vars
    BY <1>28, StepUnseen DEF SweepReconciles
  <1>29. ASSUME NEW s \in Sweepers, ForceReconciles(s)
        PROVE Lifecycle!Next \/ UNCHANGED Lifecycle!vars
    <2>1. forcing[s] \in Runs /\ forcing[s] \in left[s] /\ ForceFinish(s, forcing[s])
      BY <1>29 DEF ForceReconciles, SweepsFollowTasks
    <2> QED BY <1>29, <2>1, ForcedStep DEF ForceReconciles
  <1>30. ASSUME NEW s \in Sweepers, ForceFails(s)
        PROVE Lifecycle!Next \/ UNCHANGED Lifecycle!vars
    BY <1>30, StepUnseen DEF ForceFails
  <1>31. ASSUME NEW s \in Sweepers, SweepEnds(s)
        PROVE Lifecycle!Next \/ UNCHANGED Lifecycle!vars
    BY <1>31, StepUnseen DEF SweepEnds
  <1> QED
    BY <1>1, <1>2, <1>3, <1>4, <1>5, <1>6, <1>7, <1>8, <1>9, <1>10, <1>11, <1>12, <1>13,
          <1>14, <1>15, <1>16, <1>17, <1>18, <1>19, <1>20, <1>21, <1>22, <1>23, <1>24,
          <1>25, <1>26, <1>27, <1>28, <1>29, <1>30, <1>31 DEF Next, TaskStep, SweepStep

(* To its clients a Run has the life of RunLifecycle: one Run of a Thread at a
   time, one terminal status that stands, its event before the end of events,
   and none lost but by a task that died without it, until a sweep finds it. *)
THEOREM ImplementsRunLifecycle == Spec => ImplementsLifecycle
  <1>1. Init => Lifecycle!Init
    BY DEF Init, Lifecycle!Init, Phase, Place, Phases, TerminalStatus
  <1>2. ASSUME IInv, IInv', StreamFits, [Next]_vars PROVE [Lifecycle!Next]_(Lifecycle!vars)
    <2>1. CASE Next
      <3>1. TypeOK'
        BY <1>2 DEF IInv
      <3> QED BY <1>2, <2>1, <3>1, StepIsLifecycleStep
    <2>2. CASE UNCHANGED vars
      <3>1. UNCHANGED <<thread, stream, status, pc>>
        BY <2>2 DEF vars, identity, task
      <3> QED BY <3>1, StepUnseen DEF Seen
    <2> QED BY <1>2, <2>1, <2>2
  <1> QED
    BY <1>1, <1>2, Inductive, StreamsFit, PTL DEF Spec, ImplementsLifecycle, Lifecycle!Spec
=============================================================================
