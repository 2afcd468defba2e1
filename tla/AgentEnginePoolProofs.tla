----------------------- MODULE AgentEnginePoolProofs ------------------------
(***************************************************************************)
(* Leases, draining and the capacity of the pool, for any number of        *)
(* profiles and clients and any capacity.                                  *)
(***************************************************************************)
EXTENDS AgentEnginePool, FiniteSetTheorems, TLAPS

(* A client in the middle of acquire, or with a lease, knows its profile. *)
KeysKnown ==
    \A c \in Clients :
        /\ pc[c] \in {"acquire", "build", "held"} => key[c] \in Profiles
        /\ pc[c] = "closing" /\ next[c] = "acquire" => key[c] \in Profiles

(* The leases of an engine are those of the clients that hold it. *)
LeasesAreHeld ==
    \A k \in Profiles : \A c \in Clients :
        c \in leases[k] <=> pc[c] = "held" /\ key[c] = k

(* Close tasks are those of draining engines, and while the pool is open an
   engine belongs to a built entry. *)
ClosingDrains ==
    /\ \A k \in closing : engine[k] = "draining"
    /\ pool = "open" => \A k \in Profiles : engine[k] = "none" <=> entry[k] # "built"

(* aclose cancels every build, and no build is waited for after it. *)
NoBuildAfterClose ==
    pool # "open" => \A c \in Clients : pc[c] # "build"

IInv ==
    /\ TypeOK
    /\ KeysKnown
    /\ LeasesAreHeld
    /\ ClosingDrains
    /\ NoBuildAfterClose
    /\ LeasedEngineIsOpen
    /\ ActivityMatchesLeases
    /\ WaitersHaveABuild

(* Types: what is leased, closed or evicted is a profile. *)
LEMMA TypePreserved ==
    ASSUME IInv, Next
    PROVE  TypeOK'
  <1> USE PoolAssumption DEF IInv, TypeOK, Entries, IdleEngines, client, KeysKnown
  <1>1. ASSUME NEW k \in Profiles, EngineCloses(k) PROVE TypeOK'
    BY <1>1 DEF EngineCloses
  <1>2. ASSUME NEW k \in Profiles, BuildSucceeds(k) PROVE TypeOK'
    BY <1>2 DEF BuildSucceeds, Wake
  <1>3. ASSUME NEW k \in Profiles, BuildFails(k) PROVE TypeOK'
    BY <1>3 DEF BuildFails, Wake
  <1>4. ASSUME NEW k \in Profiles, BuildDiscarded(k) PROVE TypeOK'
    BY <1>4 DEF BuildDiscarded, Wake
  <1>5. ASSUME NEW k \in Profiles, ForcedClose(k) PROVE TypeOK'
    BY <1>5 DEF ForcedClose
  <1>6. ASSUME NEW c \in Clients, Finalize(c) PROVE TypeOK'
    BY <1>6 DEF Finalize
  <1>7. ASSUME NEW c \in Clients, FinalizeFindsNothing(c) PROVE TypeOK'
    BY <1>7 DEF FinalizeFindsNothing
  <1>8. ASSUME NEW c \in Clients, DiscardEnds(c) PROVE TypeOK'
    BY <1>8 DEF DiscardEnds
  <1>9. ASSUME NEW c \in Clients, AcquireBuilds(c) PROVE TypeOK'
    BY <1>9 DEF AcquireBuilds
  <1>10. ASSUME NEW c \in Clients, AcquireJoinsBuild(c) PROVE TypeOK'
    BY <1>10 DEF AcquireJoinsBuild
  <1>11. ASSUME NEW c \in Clients, AcquireLeases(c) PROVE TypeOK'
    BY <1>11 DEF AcquireLeases
  <1>12. ASSUME NEW c \in Clients, AcquireFails(c) PROVE TypeOK'
    BY <1>12 DEF AcquireFails
  <1>13. ASSUME NEW c \in Clients, Release(c) PROVE TypeOK'
    BY <1>13 DEF Release
  <1>14. ASSUME NEW c \in Clients, EvictEnds(c) PROVE TypeOK'
    BY <1>14 DEF EvictEnds
  <1>15. ASSUME NEW c \in Clients, ClientCancelled(c) PROVE TypeOK'
    BY <1>15 DEF ClientCancelled
  <1>16. ASSUME NEW c \in Clients, NEW k \in Profiles, Acquire(c, k) PROVE TypeOK'
    BY <1>16 DEF Acquire
  <1>17. ASSUME NEW c \in Clients, NEW k \in Profiles, AcquireEvicts(c, k) PROVE TypeOK'
    BY <1>17 DEF AcquireEvicts, Drain, Closeable
  <1>18. ASSUME NEW c \in Clients, NEW k \in Profiles, EvictNext(c, k) PROVE TypeOK'
    BY <1>18 DEF EvictNext, Drain, Closeable
  <1>19. ASSUME NEW c \in Clients, NEW ks \in SUBSET Profiles, Sweep(c, ks) PROVE TypeOK'
    BY <1>19 DEF Sweep
  <1>20. ASSUME NEW c \in Clients, NEW ks \in SUBSET Profiles, Invalidate(c, ks)
        PROVE TypeOK'
    BY <1>20 DEF Invalidate
  <1>21. ASSUME NEW c \in Clients, NEW ks \in SUBSET Profiles, InvalidateOutdated(c, ks)
        PROVE TypeOK'
    BY <1>21 DEF InvalidateOutdated
  <1>22. ASSUME PoolCloses PROVE TypeOK'
    BY <1>22 DEF PoolCloses
  <1>23. ASSUME PoolClosed PROVE TypeOK'
    BY <1>23 DEF PoolClosed
  <1> QED
    BY <1>1, <1>2, <1>3, <1>4, <1>5, <1>6, <1>7, <1>8, <1>9, <1>10, <1>11, <1>12, <1>13,
          <1>14, <1>15, <1>16, <1>17, <1>18, <1>19, <1>20, <1>21, <1>22, <1>23 DEF Next

(* A client keeps its profile while it waits for room in the pool. *)
LEMMA KeysPreserved ==
    ASSUME IInv, Next
    PROVE  KeysKnown'
  <1> USE PoolAssumption DEF IInv, TypeOK, Entries, IdleEngines, client, KeysKnown
  <1>1. ASSUME NEW k \in Profiles, EngineCloses(k) PROVE KeysKnown'
    BY <1>1 DEF EngineCloses
  <1>2. ASSUME NEW k \in Profiles, BuildSucceeds(k) PROVE KeysKnown'
    BY <1>2 DEF BuildSucceeds, Wake
  <1>3. ASSUME NEW k \in Profiles, BuildFails(k) PROVE KeysKnown'
    BY <1>3 DEF BuildFails, Wake
  <1>4. ASSUME NEW k \in Profiles, BuildDiscarded(k) PROVE KeysKnown'
    BY <1>4 DEF BuildDiscarded, Wake
  <1>5. ASSUME NEW k \in Profiles, ForcedClose(k) PROVE KeysKnown'
    BY <1>5 DEF ForcedClose
  <1>6. ASSUME NEW c \in Clients, Finalize(c) PROVE KeysKnown'
    BY <1>6 DEF Finalize
  <1>7. ASSUME NEW c \in Clients, FinalizeFindsNothing(c) PROVE KeysKnown'
    BY <1>7 DEF FinalizeFindsNothing
  <1>8. ASSUME NEW c \in Clients, DiscardEnds(c) PROVE KeysKnown'
    BY <1>8 DEF DiscardEnds
  <1>9. ASSUME NEW c \in Clients, AcquireBuilds(c) PROVE KeysKnown'
    BY <1>9 DEF AcquireBuilds
  <1>10. ASSUME NEW c \in Clients, AcquireJoinsBuild(c) PROVE KeysKnown'
    BY <1>10 DEF AcquireJoinsBuild
  <1>11. ASSUME NEW c \in Clients, AcquireLeases(c) PROVE KeysKnown'
    BY <1>11 DEF AcquireLeases
  <1>12. ASSUME NEW c \in Clients, AcquireFails(c) PROVE KeysKnown'
    BY <1>12 DEF AcquireFails
  <1>13. ASSUME NEW c \in Clients, Release(c) PROVE KeysKnown'
    BY <1>13 DEF Release
  <1>14. ASSUME NEW c \in Clients, EvictEnds(c) PROVE KeysKnown'
    BY <1>14 DEF EvictEnds
  <1>15. ASSUME NEW c \in Clients, ClientCancelled(c) PROVE KeysKnown'
    BY <1>15 DEF ClientCancelled
  <1>16. ASSUME NEW c \in Clients, NEW k \in Profiles, Acquire(c, k) PROVE KeysKnown'
    BY <1>16 DEF Acquire
  <1>17. ASSUME NEW c \in Clients, NEW k \in Profiles, AcquireEvicts(c, k) PROVE KeysKnown'
    BY <1>17 DEF AcquireEvicts, Drain, Closeable
  <1>18. ASSUME NEW c \in Clients, NEW k \in Profiles, EvictNext(c, k) PROVE KeysKnown'
    BY <1>18 DEF EvictNext, Drain, Closeable
  <1>19. ASSUME NEW c \in Clients, NEW ks \in SUBSET Profiles, Sweep(c, ks) PROVE KeysKnown'
    BY <1>19 DEF Sweep
  <1>20. ASSUME NEW c \in Clients, NEW ks \in SUBSET Profiles, Invalidate(c, ks)
        PROVE KeysKnown'
    BY <1>20 DEF Invalidate
  <1>21. ASSUME NEW c \in Clients, NEW ks \in SUBSET Profiles, InvalidateOutdated(c, ks)
        PROVE KeysKnown'
    BY <1>21 DEF InvalidateOutdated
  <1>22. ASSUME PoolCloses PROVE KeysKnown'
    BY <1>22 DEF PoolCloses
  <1>23. ASSUME PoolClosed PROVE KeysKnown'
    BY <1>23 DEF PoolClosed
  <1> QED
    BY <1>1, <1>2, <1>3, <1>4, <1>5, <1>6, <1>7, <1>8, <1>9, <1>10, <1>11, <1>12, <1>13,
          <1>14, <1>15, <1>16, <1>17, <1>18, <1>19, <1>20, <1>21, <1>22, <1>23 DEF Next

(* A lease comes with AcquireLeases and goes with Release. *)
LEMMA HoldersPreserved ==
    ASSUME IInv, Next
    PROVE  LeasesAreHeld'
  <1> USE PoolAssumption DEF IInv, TypeOK, Entries, IdleEngines, client, KeysKnown,
        LeasesAreHeld
  <1>1. ASSUME NEW k \in Profiles, EngineCloses(k) PROVE LeasesAreHeld'
    BY <1>1 DEF EngineCloses
  <1>2. ASSUME NEW k \in Profiles, BuildSucceeds(k) PROVE LeasesAreHeld'
    BY <1>2 DEF BuildSucceeds, Wake
  <1>3. ASSUME NEW k \in Profiles, BuildFails(k) PROVE LeasesAreHeld'
    BY <1>3 DEF BuildFails, Wake
  <1>4. ASSUME NEW k \in Profiles, BuildDiscarded(k) PROVE LeasesAreHeld'
    BY <1>4 DEF BuildDiscarded, Wake
  <1>5. ASSUME NEW k \in Profiles, ForcedClose(k) PROVE LeasesAreHeld'
    BY <1>5 DEF ForcedClose
  <1>6. ASSUME NEW c \in Clients, Finalize(c) PROVE LeasesAreHeld'
    BY <1>6 DEF Finalize
  <1>7. ASSUME NEW c \in Clients, FinalizeFindsNothing(c) PROVE LeasesAreHeld'
    BY <1>7 DEF FinalizeFindsNothing
  <1>8. ASSUME NEW c \in Clients, DiscardEnds(c) PROVE LeasesAreHeld'
    BY <1>8 DEF DiscardEnds
  <1>9. ASSUME NEW c \in Clients, AcquireBuilds(c) PROVE LeasesAreHeld'
    BY <1>9 DEF AcquireBuilds
  <1>10. ASSUME NEW c \in Clients, AcquireJoinsBuild(c) PROVE LeasesAreHeld'
    BY <1>10 DEF AcquireJoinsBuild
  <1>11. ASSUME NEW c \in Clients, AcquireLeases(c) PROVE LeasesAreHeld'
    BY <1>11 DEF AcquireLeases
  <1>12. ASSUME NEW c \in Clients, AcquireFails(c) PROVE LeasesAreHeld'
    BY <1>12 DEF AcquireFails
  <1>13. ASSUME NEW c \in Clients, Release(c) PROVE LeasesAreHeld'
    BY <1>13 DEF Release
  <1>14. ASSUME NEW c \in Clients, EvictEnds(c) PROVE LeasesAreHeld'
    BY <1>14 DEF EvictEnds
  <1>15. ASSUME NEW c \in Clients, ClientCancelled(c) PROVE LeasesAreHeld'
    BY <1>15 DEF ClientCancelled
  <1>16. ASSUME NEW c \in Clients, NEW k \in Profiles, Acquire(c, k) PROVE LeasesAreHeld'
    BY <1>16 DEF Acquire
  <1>17. ASSUME NEW c \in Clients, NEW k \in Profiles, AcquireEvicts(c, k)
        PROVE LeasesAreHeld'
    BY <1>17 DEF AcquireEvicts, Drain, Closeable
  <1>18. ASSUME NEW c \in Clients, NEW k \in Profiles, EvictNext(c, k) PROVE LeasesAreHeld'
    BY <1>18 DEF EvictNext, Drain, Closeable
  <1>19. ASSUME NEW c \in Clients, NEW ks \in SUBSET Profiles, Sweep(c, ks)
        PROVE LeasesAreHeld'
    BY <1>19 DEF Sweep
  <1>20. ASSUME NEW c \in Clients, NEW ks \in SUBSET Profiles, Invalidate(c, ks)
        PROVE LeasesAreHeld'
    BY <1>20 DEF Invalidate
  <1>21. ASSUME NEW c \in Clients, NEW ks \in SUBSET Profiles, InvalidateOutdated(c, ks)
        PROVE LeasesAreHeld'
    BY <1>21 DEF InvalidateOutdated
  <1>22. ASSUME PoolCloses PROVE LeasesAreHeld'
    BY <1>22 DEF PoolCloses
  <1>23. ASSUME PoolClosed PROVE LeasesAreHeld'
    BY <1>23 DEF PoolClosed
  <1> QED
    BY <1>1, <1>2, <1>3, <1>4, <1>5, <1>6, <1>7, <1>8, <1>9, <1>10, <1>11, <1>12, <1>13,
          <1>14, <1>15, <1>16, <1>17, <1>18, <1>19, <1>20, <1>21, <1>22, <1>23 DEF Next

(* Only draining engines are closed. *)
LEMMA ClosingPreserved ==
    ASSUME IInv, Next
    PROVE  (ClosingDrains /\ NoBuildAfterClose)'
  <1> USE PoolAssumption DEF IInv, TypeOK, Entries, IdleEngines, client, KeysKnown,
        ClosingDrains, NoBuildAfterClose, LeasedEngineIsOpen
  <1>1. ASSUME NEW k \in Profiles, EngineCloses(k)
        PROVE (ClosingDrains /\ NoBuildAfterClose)'
    BY <1>1 DEF EngineCloses
  <1>2. ASSUME NEW k \in Profiles, BuildSucceeds(k)
        PROVE (ClosingDrains /\ NoBuildAfterClose)'
    BY <1>2 DEF BuildSucceeds, Wake
  <1>3. ASSUME NEW k \in Profiles, BuildFails(k) PROVE (ClosingDrains /\ NoBuildAfterClose)'
    BY <1>3 DEF BuildFails, Wake
  <1>4. ASSUME NEW k \in Profiles, BuildDiscarded(k)
        PROVE (ClosingDrains /\ NoBuildAfterClose)'
    BY <1>4 DEF BuildDiscarded, Wake
  <1>5. ASSUME NEW k \in Profiles, ForcedClose(k)
        PROVE (ClosingDrains /\ NoBuildAfterClose)'
    BY <1>5 DEF ForcedClose
  <1>6. ASSUME NEW c \in Clients, Finalize(c) PROVE (ClosingDrains /\ NoBuildAfterClose)'
    BY <1>6 DEF Finalize
  <1>7. ASSUME NEW c \in Clients, FinalizeFindsNothing(c)
        PROVE (ClosingDrains /\ NoBuildAfterClose)'
    BY <1>7 DEF FinalizeFindsNothing
  <1>8. ASSUME NEW c \in Clients, DiscardEnds(c) PROVE (ClosingDrains /\ NoBuildAfterClose)'
    BY <1>8 DEF DiscardEnds
  <1>9. ASSUME NEW c \in Clients, AcquireBuilds(c)
        PROVE (ClosingDrains /\ NoBuildAfterClose)'
    BY <1>9 DEF AcquireBuilds
  <1>10. ASSUME NEW c \in Clients, AcquireJoinsBuild(c)
        PROVE (ClosingDrains /\ NoBuildAfterClose)'
    BY <1>10 DEF AcquireJoinsBuild
  <1>11. ASSUME NEW c \in Clients, AcquireLeases(c)
        PROVE (ClosingDrains /\ NoBuildAfterClose)'
    BY <1>11 DEF AcquireLeases
  <1>12. ASSUME NEW c \in Clients, AcquireFails(c)
        PROVE (ClosingDrains /\ NoBuildAfterClose)'
    BY <1>12 DEF AcquireFails
  <1>13. ASSUME NEW c \in Clients, Release(c) PROVE (ClosingDrains /\ NoBuildAfterClose)'
    BY <1>13 DEF Release
  <1>14. ASSUME NEW c \in Clients, EvictEnds(c) PROVE (ClosingDrains /\ NoBuildAfterClose)'
    BY <1>14 DEF EvictEnds
  <1>15. ASSUME NEW c \in Clients, ClientCancelled(c)
        PROVE (ClosingDrains /\ NoBuildAfterClose)'
    BY <1>15 DEF ClientCancelled
  <1>16. ASSUME NEW c \in Clients, NEW k \in Profiles, Acquire(c, k)
        PROVE (ClosingDrains /\ NoBuildAfterClose)'
    BY <1>16 DEF Acquire
  <1>17. ASSUME NEW c \in Clients, NEW k \in Profiles, AcquireEvicts(c, k)
        PROVE (ClosingDrains /\ NoBuildAfterClose)'
    BY <1>17 DEF AcquireEvicts, Drain, Closeable
  <1>18. ASSUME NEW c \in Clients, NEW k \in Profiles, EvictNext(c, k)
        PROVE (ClosingDrains /\ NoBuildAfterClose)'
    BY <1>18 DEF EvictNext, Drain, Closeable
  <1>19. ASSUME NEW c \in Clients, NEW ks \in SUBSET Profiles, Sweep(c, ks)
        PROVE (ClosingDrains /\ NoBuildAfterClose)'
    BY <1>19 DEF Sweep
  <1>20. ASSUME NEW c \in Clients, NEW ks \in SUBSET Profiles, Invalidate(c, ks)
        PROVE (ClosingDrains /\ NoBuildAfterClose)'
    BY <1>20 DEF Invalidate
  <1>21. ASSUME NEW c \in Clients, NEW ks \in SUBSET Profiles, InvalidateOutdated(c, ks)
        PROVE (ClosingDrains /\ NoBuildAfterClose)'
    BY <1>21 DEF InvalidateOutdated
  <1>22. ASSUME PoolCloses PROVE (ClosingDrains /\ NoBuildAfterClose)'
    BY <1>22 DEF PoolCloses
  <1>23. ASSUME PoolClosed PROVE (ClosingDrains /\ NoBuildAfterClose)'
    BY <1>23 DEF PoolClosed
  <1> QED
    BY <1>1, <1>2, <1>3, <1>4, <1>5, <1>6, <1>7, <1>8, <1>9, <1>10, <1>11, <1>12, <1>13,
          <1>14, <1>15, <1>16, <1>17, <1>18, <1>19, <1>20, <1>21, <1>22, <1>23 DEF Next

(* A close task begins without leases, and none can come. *)
LEMMA LeasedPreserved ==
    ASSUME IInv, Next
    PROVE  LeasedEngineIsOpen'
  <1> USE PoolAssumption DEF IInv, TypeOK, Entries, IdleEngines, client, KeysKnown,
        LeasesAreHeld, ClosingDrains, LeasedEngineIsOpen
  <1>1. ASSUME NEW k \in Profiles, EngineCloses(k) PROVE LeasedEngineIsOpen'
    BY <1>1 DEF EngineCloses
  <1>2. ASSUME NEW k \in Profiles, BuildSucceeds(k) PROVE LeasedEngineIsOpen'
    BY <1>2 DEF BuildSucceeds, Wake
  <1>3. ASSUME NEW k \in Profiles, BuildFails(k) PROVE LeasedEngineIsOpen'
    BY <1>3 DEF BuildFails, Wake
  <1>4. ASSUME NEW k \in Profiles, BuildDiscarded(k) PROVE LeasedEngineIsOpen'
    BY <1>4 DEF BuildDiscarded, Wake
  <1>5. ASSUME NEW k \in Profiles, ForcedClose(k) PROVE LeasedEngineIsOpen'
    BY <1>5 DEF ForcedClose
  <1>6. ASSUME NEW c \in Clients, Finalize(c) PROVE LeasedEngineIsOpen'
    BY <1>6 DEF Finalize
  <1>7. ASSUME NEW c \in Clients, FinalizeFindsNothing(c) PROVE LeasedEngineIsOpen'
    BY <1>7 DEF FinalizeFindsNothing
  <1>8. ASSUME NEW c \in Clients, DiscardEnds(c) PROVE LeasedEngineIsOpen'
    BY <1>8 DEF DiscardEnds
  <1>9. ASSUME NEW c \in Clients, AcquireBuilds(c) PROVE LeasedEngineIsOpen'
    BY <1>9 DEF AcquireBuilds
  <1>10. ASSUME NEW c \in Clients, AcquireJoinsBuild(c) PROVE LeasedEngineIsOpen'
    BY <1>10 DEF AcquireJoinsBuild
  <1>11. ASSUME NEW c \in Clients, AcquireLeases(c) PROVE LeasedEngineIsOpen'
    BY <1>11 DEF AcquireLeases
  <1>12. ASSUME NEW c \in Clients, AcquireFails(c) PROVE LeasedEngineIsOpen'
    BY <1>12 DEF AcquireFails
  <1>13. ASSUME NEW c \in Clients, Release(c) PROVE LeasedEngineIsOpen'
    BY <1>13 DEF Release
  <1>14. ASSUME NEW c \in Clients, EvictEnds(c) PROVE LeasedEngineIsOpen'
    BY <1>14 DEF EvictEnds
  <1>15. ASSUME NEW c \in Clients, ClientCancelled(c) PROVE LeasedEngineIsOpen'
    BY <1>15 DEF ClientCancelled
  <1>16. ASSUME NEW c \in Clients, NEW k \in Profiles, Acquire(c, k)
        PROVE LeasedEngineIsOpen'
    BY <1>16 DEF Acquire
  <1>17. ASSUME NEW c \in Clients, NEW k \in Profiles, AcquireEvicts(c, k)
        PROVE LeasedEngineIsOpen'
    BY <1>17 DEF AcquireEvicts, Drain, Closeable
  <1>18. ASSUME NEW c \in Clients, NEW k \in Profiles, EvictNext(c, k)
        PROVE LeasedEngineIsOpen'
    BY <1>18 DEF EvictNext, Drain, Closeable
  <1>19. ASSUME NEW c \in Clients, NEW ks \in SUBSET Profiles, Sweep(c, ks)
        PROVE LeasedEngineIsOpen'
    BY <1>19 DEF Sweep
  <1>20. ASSUME NEW c \in Clients, NEW ks \in SUBSET Profiles, Invalidate(c, ks)
        PROVE LeasedEngineIsOpen'
    BY <1>20 DEF Invalidate
  <1>21. ASSUME NEW c \in Clients, NEW ks \in SUBSET Profiles, InvalidateOutdated(c, ks)
        PROVE LeasedEngineIsOpen'
    BY <1>21 DEF InvalidateOutdated
  <1>22. ASSUME PoolCloses PROVE LeasedEngineIsOpen'
    BY <1>22 DEF PoolCloses
  <1>23. ASSUME PoolClosed PROVE LeasedEngineIsOpen'
    BY <1>23 DEF PoolClosed
  <1> QED
    BY <1>1, <1>2, <1>3, <1>4, <1>5, <1>6, <1>7, <1>8, <1>9, <1>10, <1>11, <1>12, <1>13,
          <1>14, <1>15, <1>16, <1>17, <1>18, <1>19, <1>20, <1>21, <1>22, <1>23 DEF Next

(* Activity follows the number of leases. *)
LEMMA ActivityPreserved ==
    ASSUME IInv, Next
    PROVE  ActivityMatchesLeases'
  <1> USE PoolAssumption DEF IInv, TypeOK, Entries, IdleEngines, client, KeysKnown,
        LeasesAreHeld, ClosingDrains, LeasedEngineIsOpen, ActivityMatchesLeases
  <1>1. ASSUME NEW k \in Profiles, EngineCloses(k) PROVE ActivityMatchesLeases'
    BY <1>1 DEF EngineCloses
  <1>2. ASSUME NEW k \in Profiles, BuildSucceeds(k) PROVE ActivityMatchesLeases'
    BY <1>2 DEF BuildSucceeds, Wake
  <1>3. ASSUME NEW k \in Profiles, BuildFails(k) PROVE ActivityMatchesLeases'
    BY <1>3 DEF BuildFails, Wake
  <1>4. ASSUME NEW k \in Profiles, BuildDiscarded(k) PROVE ActivityMatchesLeases'
    BY <1>4 DEF BuildDiscarded, Wake
  <1>5. ASSUME NEW k \in Profiles, ForcedClose(k) PROVE ActivityMatchesLeases'
    BY <1>5 DEF ForcedClose
  <1>6. ASSUME NEW c \in Clients, Finalize(c) PROVE ActivityMatchesLeases'
    BY <1>6 DEF Finalize
  <1>7. ASSUME NEW c \in Clients, FinalizeFindsNothing(c) PROVE ActivityMatchesLeases'
    BY <1>7 DEF FinalizeFindsNothing
  <1>8. ASSUME NEW c \in Clients, DiscardEnds(c) PROVE ActivityMatchesLeases'
    BY <1>8 DEF DiscardEnds
  <1>9. ASSUME NEW c \in Clients, AcquireBuilds(c) PROVE ActivityMatchesLeases'
    BY <1>9 DEF AcquireBuilds
  <1>10. ASSUME NEW c \in Clients, AcquireJoinsBuild(c) PROVE ActivityMatchesLeases'
    BY <1>10 DEF AcquireJoinsBuild
  <1>11. ASSUME NEW c \in Clients, AcquireLeases(c) PROVE ActivityMatchesLeases'
    BY <1>11 DEF AcquireLeases
  <1>12. ASSUME NEW c \in Clients, AcquireFails(c) PROVE ActivityMatchesLeases'
    BY <1>12 DEF AcquireFails
  <1>13. ASSUME NEW c \in Clients, Release(c) PROVE ActivityMatchesLeases'
    BY <1>13 DEF Release
  <1>14. ASSUME NEW c \in Clients, EvictEnds(c) PROVE ActivityMatchesLeases'
    BY <1>14 DEF EvictEnds
  <1>15. ASSUME NEW c \in Clients, ClientCancelled(c) PROVE ActivityMatchesLeases'
    BY <1>15 DEF ClientCancelled
  <1>16. ASSUME NEW c \in Clients, NEW k \in Profiles, Acquire(c, k)
        PROVE ActivityMatchesLeases'
    BY <1>16 DEF Acquire
  <1>17. ASSUME NEW c \in Clients, NEW k \in Profiles, AcquireEvicts(c, k)
        PROVE ActivityMatchesLeases'
    BY <1>17 DEF AcquireEvicts, Drain, Closeable
  <1>18. ASSUME NEW c \in Clients, NEW k \in Profiles, EvictNext(c, k)
        PROVE ActivityMatchesLeases'
    BY <1>18 DEF EvictNext, Drain, Closeable
  <1>19. ASSUME NEW c \in Clients, NEW ks \in SUBSET Profiles, Sweep(c, ks)
        PROVE ActivityMatchesLeases'
    BY <1>19 DEF Sweep
  <1>20. ASSUME NEW c \in Clients, NEW ks \in SUBSET Profiles, Invalidate(c, ks)
        PROVE ActivityMatchesLeases'
    BY <1>20 DEF Invalidate
  <1>21. ASSUME NEW c \in Clients, NEW ks \in SUBSET Profiles, InvalidateOutdated(c, ks)
        PROVE ActivityMatchesLeases'
    BY <1>21 DEF InvalidateOutdated
  <1>22. ASSUME PoolCloses PROVE ActivityMatchesLeases'
    BY <1>22 DEF PoolCloses
  <1>23. ASSUME PoolClosed PROVE ActivityMatchesLeases'
    BY <1>23 DEF PoolClosed
  <1> QED
    BY <1>1, <1>2, <1>3, <1>4, <1>5, <1>6, <1>7, <1>8, <1>9, <1>10, <1>11, <1>12, <1>13,
          <1>14, <1>15, <1>16, <1>17, <1>18, <1>19, <1>20, <1>21, <1>22, <1>23 DEF Next

(* A build that ends wakes all who wait for it. *)
LEMMA WaitersPreserved ==
    ASSUME IInv, Next
    PROVE  WaitersHaveABuild'
  <1> USE PoolAssumption DEF IInv, TypeOK, Entries, IdleEngines, client, KeysKnown,
        ClosingDrains, NoBuildAfterClose, WaitersHaveABuild
  <1>1. ASSUME NEW k \in Profiles, EngineCloses(k) PROVE WaitersHaveABuild'
    BY <1>1 DEF EngineCloses
  <1>2. ASSUME NEW k \in Profiles, BuildSucceeds(k) PROVE WaitersHaveABuild'
    BY <1>2 DEF BuildSucceeds, Wake
  <1>3. ASSUME NEW k \in Profiles, BuildFails(k) PROVE WaitersHaveABuild'
    BY <1>3 DEF BuildFails, Wake
  <1>4. ASSUME NEW k \in Profiles, BuildDiscarded(k) PROVE WaitersHaveABuild'
    BY <1>4 DEF BuildDiscarded, Wake
  <1>5. ASSUME NEW k \in Profiles, ForcedClose(k) PROVE WaitersHaveABuild'
    BY <1>5 DEF ForcedClose
  <1>6. ASSUME NEW c \in Clients, Finalize(c) PROVE WaitersHaveABuild'
    BY <1>6 DEF Finalize
  <1>7. ASSUME NEW c \in Clients, FinalizeFindsNothing(c) PROVE WaitersHaveABuild'
    BY <1>7 DEF FinalizeFindsNothing
  <1>8. ASSUME NEW c \in Clients, DiscardEnds(c) PROVE WaitersHaveABuild'
    BY <1>8 DEF DiscardEnds
  <1>9. ASSUME NEW c \in Clients, AcquireBuilds(c) PROVE WaitersHaveABuild'
    BY <1>9 DEF AcquireBuilds
  <1>10. ASSUME NEW c \in Clients, AcquireJoinsBuild(c) PROVE WaitersHaveABuild'
    BY <1>10 DEF AcquireJoinsBuild
  <1>11. ASSUME NEW c \in Clients, AcquireLeases(c) PROVE WaitersHaveABuild'
    BY <1>11 DEF AcquireLeases
  <1>12. ASSUME NEW c \in Clients, AcquireFails(c) PROVE WaitersHaveABuild'
    BY <1>12 DEF AcquireFails
  <1>13. ASSUME NEW c \in Clients, Release(c) PROVE WaitersHaveABuild'
    BY <1>13 DEF Release
  <1>14. ASSUME NEW c \in Clients, EvictEnds(c) PROVE WaitersHaveABuild'
    BY <1>14 DEF EvictEnds
  <1>15. ASSUME NEW c \in Clients, ClientCancelled(c) PROVE WaitersHaveABuild'
    BY <1>15 DEF ClientCancelled
  <1>16. ASSUME NEW c \in Clients, NEW k \in Profiles, Acquire(c, k)
        PROVE WaitersHaveABuild'
    BY <1>16 DEF Acquire
  <1>17. ASSUME NEW c \in Clients, NEW k \in Profiles, AcquireEvicts(c, k)
        PROVE WaitersHaveABuild'
    BY <1>17 DEF AcquireEvicts, Drain, Closeable
  <1>18. ASSUME NEW c \in Clients, NEW k \in Profiles, EvictNext(c, k)
        PROVE WaitersHaveABuild'
    BY <1>18 DEF EvictNext, Drain, Closeable
  <1>19. ASSUME NEW c \in Clients, NEW ks \in SUBSET Profiles, Sweep(c, ks)
        PROVE WaitersHaveABuild'
    BY <1>19 DEF Sweep
  <1>20. ASSUME NEW c \in Clients, NEW ks \in SUBSET Profiles, Invalidate(c, ks)
        PROVE WaitersHaveABuild'
    BY <1>20 DEF Invalidate
  <1>21. ASSUME NEW c \in Clients, NEW ks \in SUBSET Profiles, InvalidateOutdated(c, ks)
        PROVE WaitersHaveABuild'
    BY <1>21 DEF InvalidateOutdated
  <1>22. ASSUME PoolCloses PROVE WaitersHaveABuild'
    BY <1>22 DEF PoolCloses
  <1>23. ASSUME PoolClosed PROVE WaitersHaveABuild'
    BY <1>23 DEF PoolClosed
  <1> QED
    BY <1>1, <1>2, <1>3, <1>4, <1>5, <1>6, <1>7, <1>8, <1>9, <1>10, <1>11, <1>12, <1>13,
          <1>14, <1>15, <1>16, <1>17, <1>18, <1>19, <1>20, <1>21, <1>22, <1>23 DEF Next

LEMMA InitEstablishes == Init => IInv
  BY PoolAssumption DEF Init, IInv, TypeOK, KeysKnown, LeasesAreHeld, ClosingDrains,
      NoBuildAfterClose, LeasedEngineIsOpen, ActivityMatchesLeases, WaitersHaveABuild

LEMMA StutterPreserves ==
    ASSUME IInv, UNCHANGED vars
    PROVE  IInv'
  BY DEF vars, client, IInv, TypeOK, KeysKnown, LeasesAreHeld, ClosingDrains,
      NoBuildAfterClose, LeasedEngineIsOpen, ActivityMatchesLeases, WaitersHaveABuild

(* The inductive invariant holds in every reachable state. *)
THEOREM Inductive == Spec => []IInv
  <1>1. IInv /\ [Next]_vars => IInv'
    <2>1. ASSUME IInv, Next PROVE IInv'
      BY <2>1, TypePreserved, KeysPreserved, HoldersPreserved, ClosingPreserved,
         LeasedPreserved, ActivityPreserved, WaitersPreserved DEF IInv
    <2> QED BY <2>1, StutterPreserves
  <1> QED BY InitEstablishes, <1>1, PTL DEF Spec

(* Type correctness of the pool. *)
THEOREM TypeCorrect == Spec => []TypeOK
  <1>1. IInv => TypeOK
    BY DEF IInv
  <1> QED BY <1>1, Inductive, PTL

(* aclose, evict, finalize_draining: no engine is closed under a lease while
   the pool is open. *)
THEOREM LeasesProtectEngines == Spec => []LeasedEngineIsOpen
  <1>1. IInv => LeasedEngineIsOpen
    BY DEF IInv
  <1> QED BY <1>1, Inductive, PTL

(* _update_activity_state_locked: the states that the eviction policies read
   agree with the leases. *)
THEOREM ActivityIsTrue == Spec => []ActivityMatchesLeases
  <1>1. IInv => ActivityMatchesLeases
    BY DEF IInv
  <1> QED BY <1>1, Inductive, PTL

(* Together: an engine in use stays open and is not mistaken for an idle one. *)
THEOREM LeasesAreRespected == Spec => []LeasesProtect
  <1>1. LeasedEngineIsOpen /\ ActivityMatchesLeases => LeasesProtect
    BY DEF LeasesProtect
  <1> QED BY <1>1, LeasesProtectEngines, ActivityIsTrue, PTL

(* acquire, _build_entry: whoever waits for a build has one to wait for. *)
THEOREM NoLostWakeup == Spec => []WaitersHaveABuild
  <1>1. IInv => WaitersHaveABuild
    BY DEF IInv
  <1> QED BY <1>1, Inductive, PTL

(* The only step that adds an entry is the one that found room for it. *)
LEMMA EntriesShrink ==
    ASSUME IInv, Next
    PROVE  \/ Entries' \subseteq Entries
           \/ \E c \in Clients : AcquireBuilds(c)
  <1> USE PoolAssumption DEF Entries, client
  <1>1. ASSUME NEW k \in Profiles, EngineCloses(k) PROVE Entries' \subseteq Entries
    BY <1>1 DEF EngineCloses
  <1>2. ASSUME NEW k \in Profiles, BuildSucceeds(k) PROVE Entries' \subseteq Entries
    BY <1>2 DEF BuildSucceeds, IInv, TypeOK
  <1>3. ASSUME NEW k \in Profiles, BuildFails(k) PROVE Entries' \subseteq Entries
    BY <1>3 DEF BuildFails, IInv, TypeOK
  <1>4. ASSUME NEW k \in Profiles, BuildDiscarded(k) PROVE Entries' \subseteq Entries
    BY <1>4 DEF BuildDiscarded, IInv, TypeOK
  <1>5. ASSUME NEW k \in Profiles, ForcedClose(k) PROVE Entries' \subseteq Entries
    BY <1>5 DEF ForcedClose
  <1>6. ASSUME NEW c \in Clients, Finalize(c) PROVE Entries' \subseteq Entries
    BY <1>6 DEF Finalize, IInv, TypeOK
  <1>7. ASSUME NEW c \in Clients, FinalizeFindsNothing(c) PROVE Entries' \subseteq Entries
    BY <1>7 DEF FinalizeFindsNothing
  <1>8. ASSUME NEW c \in Clients, DiscardEnds(c) PROVE Entries' \subseteq Entries
    BY <1>8 DEF DiscardEnds
  <1>9. ASSUME NEW c \in Clients, AcquireJoinsBuild(c) PROVE Entries' \subseteq Entries
    BY <1>9 DEF AcquireJoinsBuild
  <1>10. ASSUME NEW c \in Clients, AcquireLeases(c) PROVE Entries' \subseteq Entries
    BY <1>10 DEF AcquireLeases
  <1>11. ASSUME NEW c \in Clients, AcquireFails(c) PROVE Entries' \subseteq Entries
    BY <1>11 DEF AcquireFails
  <1>12. ASSUME NEW c \in Clients, Release(c) PROVE Entries' \subseteq Entries
    BY <1>12 DEF Release
  <1>13. ASSUME NEW c \in Clients, EvictEnds(c) PROVE Entries' \subseteq Entries
    BY <1>13 DEF EvictEnds
  <1>14. ASSUME NEW c \in Clients, ClientCancelled(c) PROVE Entries' \subseteq Entries
    BY <1>14 DEF ClientCancelled
  <1>15. ASSUME NEW c \in Clients, NEW k \in Profiles, Acquire(c, k)
        PROVE Entries' \subseteq Entries
    BY <1>15 DEF Acquire
  <1>16. ASSUME NEW c \in Clients, NEW k \in Profiles, AcquireEvicts(c, k)
        PROVE Entries' \subseteq Entries
    BY <1>16 DEF AcquireEvicts, Drain
  <1>17. ASSUME NEW c \in Clients, NEW k \in Profiles, EvictNext(c, k)
        PROVE Entries' \subseteq Entries
    BY <1>17 DEF EvictNext, Drain
  <1>18. ASSUME NEW c \in Clients, NEW ks \in SUBSET Profiles, Sweep(c, ks)
        PROVE Entries' \subseteq Entries
    BY <1>18 DEF Sweep
  <1>19. ASSUME NEW c \in Clients, NEW ks \in SUBSET Profiles, Invalidate(c, ks)
        PROVE Entries' \subseteq Entries
    BY <1>19 DEF Invalidate, IInv, TypeOK
  <1>20. ASSUME NEW c \in Clients, NEW ks \in SUBSET Profiles, InvalidateOutdated(c, ks)
        PROVE Entries' \subseteq Entries
    BY <1>20 DEF InvalidateOutdated
  <1>21. ASSUME PoolCloses PROVE Entries' \subseteq Entries
    BY <1>21 DEF PoolCloses
  <1>22. ASSUME PoolClosed PROVE Entries' \subseteq Entries
    BY <1>22 DEF PoolClosed
  <1> QED
    BY <1>1, <1>2, <1>3, <1>4, <1>5, <1>6, <1>7, <1>8, <1>9, <1>10, <1>11, <1>12, <1>13,
          <1>14, <1>15, <1>16, <1>17, <1>18, <1>19, <1>20, <1>21, <1>22 DEF Next

(* acquire: the capacity holds although a miss in a full pool suspends
   between finding it full and building. *)
THEOREM CapacityHolds == Spec => []WithinCapacity
  <1>1. Init => WithinCapacity
    <2> SUFFICES ASSUME Init PROVE WithinCapacity
      OBVIOUS
    <2>1. Entries = {}
      BY DEF Init, Entries
    <2> QED BY <2>1, FS_EmptySet, PoolAssumption DEF WithinCapacity
  <1>2. ASSUME IInv, WithinCapacity, [Next]_vars PROVE WithinCapacity'
    <2>1. IsFiniteSet(Entries)
      BY FS_Subset, PoolAssumption DEF Entries
    <2>2. Cardinality(Entries) \in Nat
      BY <2>1, FS_CardinalityType
    <2>3. CASE Entries' \subseteq Entries
      <3>1. Cardinality(Entries') <= Cardinality(Entries) /\ Cardinality(Entries') \in Nat
        BY <2>1, <2>3, FS_Subset, FS_CardinalityType
      <3> QED BY <1>2, <2>2, <3>1, PoolAssumption DEF WithinCapacity
    <2>4. ASSUME NEW c \in Clients, AcquireBuilds(c) PROVE WithinCapacity'
      <3>1. Entries' = Entries \cup {key[c]}
        BY <1>2, <2>4 DEF Entries, AcquireBuilds, IInv, TypeOK, KeysKnown
      <3>2. key[c] \notin Entries
        BY <2>4 DEF Entries, AcquireBuilds
      <3>3. Cardinality(Entries') = Cardinality(Entries) + 1
        BY <2>1, <3>1, <3>2, FS_AddElement
      <3> QED BY <2>2, <2>4, <3>3, PoolAssumption DEF WithinCapacity, AcquireBuilds
    <2>5. CASE UNCHANGED vars
      BY <2>5, <2>3 DEF vars, Entries
    <2> QED BY <1>2, <2>3, <2>4, <2>5, EntriesShrink
  <1>3. IInv /\ WithinCapacity /\ [Next]_vars => WithinCapacity'
    BY <1>2
  <1> QED BY Inductive, <1>1, <1>3, PTL DEF Spec

(* _require_accepting_locked: a draining engine is leased to nobody new. *)
THEOREM NoLeaseWhileDraining == Spec => DrainingIsFinal
  <1> DEFINE Step == \A k \in Profiles :
         engine[k] \in {"draining", "closed"} => leases'[k] \subseteq leases[k]
  <1>1. ASSUME TypeOK, Next PROVE Step
    <2>1. ASSUME NEW c \in Clients, AcquireLeases(c) PROVE Step
      BY <1>1, <2>1 DEF AcquireLeases, TypeOK
    <2>2. ASSUME NEW c \in Clients, Release(c) PROVE Step
      BY <1>1, <2>2 DEF Release, TypeOK
    <2>3. CASE UNCHANGED leases
      BY <2>3
    <2>4. \/ UNCHANGED leases
          \/ \E c \in Clients : AcquireLeases(c) \/ Release(c)
      BY <1>1 DEF Next, EngineCloses, BuildSucceeds, BuildFails, BuildDiscarded,
            ForcedClose,
          Finalize, FinalizeFindsNothing, DiscardEnds, AcquireBuilds, AcquireJoinsBuild,
          AcquireFails, EvictEnds, ClientCancelled, Acquire, AcquireEvicts, EvictNext,
          Sweep, Invalidate, InvalidateOutdated, PoolCloses, PoolClosed
    <2> QED BY <2>1, <2>2, <2>3, <2>4
  <1>2. UNCHANGED vars => Step
    BY DEF vars
  <1>3. TypeOK /\ [Next]_vars => [Step]_vars
    BY <1>1, <1>2
  <1> QED BY <1>3, TypeCorrect, PTL DEF Spec, DrainingIsFinal

(***************************************************************************)
(* The refinement of LeasedEngines.                                        *)
(***************************************************************************)

(* A build has no engine, also when the pool is closed over it. *)
BuildsHaveNoEngine ==
    \A k \in Profiles : entry[k] \in {"building", "invalidated"} => engine[k] = "none"

LEMMA BuildsPreserved ==
    ASSUME IInv, BuildsHaveNoEngine, [Next]_vars
    PROVE  BuildsHaveNoEngine'
  <1> USE DEF IInv, TypeOK, ClosingDrains, BuildsHaveNoEngine, client
  <1>1. ASSUME NEW k \in Profiles, EngineCloses(k) PROVE BuildsHaveNoEngine'
    BY <1>1 DEF EngineCloses
  <1>2. ASSUME NEW k \in Profiles, BuildSucceeds(k) \/ BuildFails(k) \/ BuildDiscarded(k)
        PROVE  BuildsHaveNoEngine'
    BY <1>2 DEF BuildSucceeds, BuildFails, BuildDiscarded
  <1>3. ASSUME NEW k \in Profiles, ForcedClose(k) PROVE BuildsHaveNoEngine'
    BY <1>3 DEF ForcedClose
  <1>4. ASSUME NEW c \in Clients, Finalize(c) PROVE BuildsHaveNoEngine'
    BY <1>4 DEF Finalize
  <1>5. ASSUME NEW c \in Clients, AcquireBuilds(c) PROVE BuildsHaveNoEngine'
    BY <1>5 DEF AcquireBuilds, KeysKnown
  <1>6. ASSUME NEW c \in Clients, AcquireLeases(c) PROVE BuildsHaveNoEngine'
    BY <1>6 DEF AcquireLeases
  <1>7. ASSUME NEW c \in Clients, Release(c) PROVE BuildsHaveNoEngine'
    BY <1>7 DEF Release
  <1>8. ASSUME NEW c \in Clients, NEW k \in Profiles, AcquireEvicts(c, k)
        PROVE  BuildsHaveNoEngine'
    BY <1>8 DEF AcquireEvicts, Drain, IdleEngines
  <1>9. ASSUME NEW c \in Clients, NEW k \in Profiles, EvictNext(c, k)
        PROVE  BuildsHaveNoEngine'
    BY <1>9 DEF EvictNext, Drain
  <1>10. ASSUME NEW c \in Clients, NEW ks \in SUBSET Profiles, Invalidate(c, ks)
        PROVE  BuildsHaveNoEngine'
    BY <1>10 DEF Invalidate
  <1>11. ASSUME PoolClosed PROVE BuildsHaveNoEngine'
    BY <1>11 DEF PoolClosed
  <1>12. ASSUME UNCHANGED <<entry, engine>> PROVE BuildsHaveNoEngine'
    BY <1>12
  <1>13. \/ UNCHANGED <<entry, engine>>
         \/ PoolClosed
         \/ \E k \in Profiles : \/ EngineCloses(k) \/ ForcedClose(k)
                                \/ BuildSucceeds(k) \/ BuildFails(k) \/ BuildDiscarded(k)
         \/ \E c \in Clients :
              \/ Finalize(c) \/ AcquireBuilds(c) \/ AcquireLeases(c) \/ Release(c)
              \/ \E k \in Profiles : AcquireEvicts(c, k) \/ EvictNext(c, k)
              \/ \E ks \in SUBSET Profiles : Invalidate(c, ks)
    BY DEF Next, vars, FinalizeFindsNothing, DiscardEnds, AcquireJoinsBuild, AcquireFails,
         EvictEnds, ClientCancelled, Acquire, Sweep, InvalidateOutdated, PoolCloses
  <1> HIDE DEF IInv, TypeOK, ClosingDrains, BuildsHaveNoEngine, client
  <1> QED BY <1>1, <1>2, <1>3, <1>4, <1>5, <1>6, <1>7, <1>8, <1>9, <1>10, <1>11, <1>12, <1>13

(* The places of all engines but one stay as they are. *)
OnlyMoves(k) == \A j \in Profiles \ {k} : PlaceOf(j)' = PlaceOf(j)

LEMMA PlaceMoves ==
    ASSUME NEW k \in Profiles, OnlyMoves(k)
    PROVE  /\ Place[k] = PlaceOf(k)
           /\ Place' = [Place EXCEPT ![k] = PlaceOf(k)']
  <1>1. Place' = [j \in Profiles |-> PlaceOf(j)']
    BY DEF Place
  <1>2. Place = [j \in Profiles |-> PlaceOf(j)]
    BY DEF Place
  <1> HIDE DEF Place, PlaceOf
  <1>3. [Place EXCEPT ![k] = PlaceOf(k)'] = [j \in Profiles |-> IF j = k THEN PlaceOf(k)' ELSE PlaceOf(j)]
    BY <1>2
  <1>4. \A j \in Profiles : PlaceOf(j)' = IF j = k THEN PlaceOf(k)' ELSE PlaceOf(j)
    BY DEF OnlyMoves
  <1> QED BY <1>1, <1>2, <1>3, <1>4

LEMMA PlaceStays ==
    ASSUME \A j \in Profiles : PlaceOf(j)' = PlaceOf(j)
    PROVE  Place' = Place
  <1>1. Place' = [j \in Profiles |-> PlaceOf(j)'] /\ Place = [j \in Profiles |-> PlaceOf(j)]
    BY DEF Place
  <1> HIDE DEF Place, PlaceOf
  <1> QED BY <1>1

LEMMA EngineIsSeenToMove ==
    ASSUME NEW k \in Profiles, NEW from, OnlyMoves(k), PlaceOf(k) \in from,
           UNCHANGED <<pool, leases>>
    PROVE  Promised!Moves(k, from, PlaceOf(k)')
  BY PlaceMoves DEF Promised!Moves

(* The steps on one engine, each with what LeasedEngines sees of it. *)
LEMMA BuildIsSeen ==
    ASSUME IInv, NEW c \in Clients, AcquireBuilds(c)
    PROVE  \E k \in Profiles : Promised!Build(k)
  <1> DEFINE k == key[c]
  <1>1. k \in Profiles
    BY DEF IInv, KeysKnown, AcquireBuilds
  <1>2. Promised!Present = Entries
    BY DEF Promised!Present, Entries, Place, PlaceOf, IInv, TypeOK
  <1>3. Promised!Cardinality(Entries) = Cardinality(Entries)
    BY DEF Promised!Cardinality, Cardinality
  <1>4. key' = key /\ PlaceOf(k) = "absent" /\ PlaceOf(k)' = "building" /\ OnlyMoves(k)
    BY <1>1 DEF AcquireBuilds, PlaceOf, OnlyMoves, IInv, TypeOK
  <1>5. Promised!Moves(k, {"absent"}, "building")
    BY <1>1, <1>4, EngineIsSeenToMove DEF AcquireBuilds
  <1> QED BY <1>1, <1>2, <1>3, <1>5 DEF Promised!Build, AcquireBuilds

LEMMA CompletionIsSeen ==
    ASSUME IInv, NEW k \in Profiles, BuildSucceeds(k)
    PROVE  Promised!Complete(k)
  <1>1. k \notin closing
    BY DEF BuildSucceeds, IInv, ClosingDrains
  <1>2. PlaceOf(k) = "building" /\ PlaceOf(k)' = "usable" /\ OnlyMoves(k)
    BY <1>1 DEF BuildSucceeds, PlaceOf, OnlyMoves, IInv, TypeOK
  <1> QED BY <1>2, EngineIsSeenToMove DEF Promised!Complete, BuildSucceeds

LEMMA EndOfBuildIsSeen ==
    ASSUME IInv, NEW k \in Profiles, BuildFails(k) \/ BuildDiscarded(k)
    PROVE  Promised!Abandon(k)
  <1>1. PlaceOf(k) \in {"building", "stale"} /\ PlaceOf(k)' = "absent" /\ OnlyMoves(k)
    BY DEF BuildFails, BuildDiscarded, PlaceOf, OnlyMoves, IInv, TypeOK
  <1> QED BY <1>1, EngineIsSeenToMove DEF Promised!Abandon, BuildFails, BuildDiscarded

LEMMA InvalidationIsSeen ==
    ASSUME IInv, NEW c \in Clients, NEW ks \in SUBSET Profiles, Invalidate(c, ks)
    PROVE  Promised!Outdate(ks)
  <1>1. \A k \in Profiles : Place[k] = PlaceOf(k)
    BY DEF Place
  <1>2. \A k \in Profiles : PlaceOf(k)' =
            IF k \in ks /\ PlaceOf(k) = "building" THEN "stale" ELSE PlaceOf(k)
    BY DEF Invalidate, PlaceOf, IInv, TypeOK
  <1>3. Place' = [k \in Profiles |-> PlaceOf(k)']
    BY DEF Place
  <1> HIDE DEF Place, PlaceOf
  <1>4. Place' = [k \in Profiles |->
                    IF k \in ks /\ Place[k] = "building" THEN "stale" ELSE Place[k]]
    BY <1>1, <1>2, <1>3
  <1> QED BY <1>4 DEF Promised!Outdate, Invalidate

LEMMA LeaseIsSeen ==
    ASSUME IInv, NEW c \in Clients, AcquireLeases(c)
    PROVE  \E k \in Profiles : Promised!Lease(c, k)
  <1> DEFINE k == key[c]
  <1>1. k \in Profiles /\ key' = key
    BY DEF IInv, KeysKnown, AcquireLeases
  <1>2. PlaceOf(k) = "usable"
    BY <1>1 DEF PlaceOf, AcquireLeases, IInv, TypeOK, ClosingDrains
  <1>3. \A j \in Profiles : PlaceOf(j)' = PlaceOf(j)
    BY <1>1, <1>2 DEF PlaceOf, AcquireLeases, IInv, TypeOK
  <1>4. Place[k] = "usable" /\ Place' = Place
    BY <1>1, <1>2, <1>3, PlaceStays DEF Place
  <1> QED BY <1>1, <1>4 DEF Promised!Lease, AcquireLeases

(* The last lease of a draining engine begins to close it in the same step. *)
LEMMA ReturnIsSeen ==
    ASSUME IInv, BuildsHaveNoEngine, NEW c \in Clients, Release(c)
    PROVE  \E k \in Profiles : Promised!Return(c, k)
  <1> DEFINE k == key[c]
  <1>1. k \in Profiles /\ c \in leases[k]
    BY DEF IInv, KeysKnown, LeasesAreHeld, Release
  <1>2. leases' = [leases EXCEPT ![k] = @ \ {c}] /\ pool' = pool /\ entry' = entry
    BY DEF Release
  <1>3. CASE PlaceOf(k) = "draining" /\ leases[k] = {c}
    <2>1. entry[k] = "built" /\ engine[k] = "draining"
      BY <1>1, <1>3 DEF PlaceOf, IInv, TypeOK
    <2>2. closing' = closing \cup {k} /\ engine' = engine
      BY <1>3, <2>1 DEF Release
    <2>3. \A j \in Profiles : PlaceOf(j)' = IF j = k THEN "closing" ELSE PlaceOf(j)
      BY <1>1, <1>2, <2>1, <2>2 DEF PlaceOf
    <2>4. Place' = [Place EXCEPT ![k] = "closing"]
      <3>1. Place' = [j \in Profiles |-> PlaceOf(j)'] /\ Place = [j \in Profiles |-> PlaceOf(j)]
        BY DEF Place
      <3> HIDE DEF Place, PlaceOf, k
      <3> QED BY <2>3, <3>1
    <2> QED BY <1>1, <1>2, <1>3, <2>4 DEF Promised!Return, Place
  <1>4. CASE ~ (PlaceOf(k) = "draining" /\ leases[k] = {c})
    <2>1. CASE entry[k] = "built" /\ engine[k] = "draining" /\ leases[k] = {c}
      <3>1. k \in closing
        BY <1>4, <2>1 DEF PlaceOf
      <3>2. closing' = closing /\ engine' = engine
        BY <2>1, <3>1 DEF Release
      <3> QED BY <1>1, <1>2, <1>4, <3>2, PlaceStays DEF Promised!Return, Place, PlaceOf
    <2>2. CASE ~ (entry[k] = "built" /\ engine[k] = "draining" /\ leases[k] = {c})
      <3>1. closing' = closing
        BY <2>2 DEF Release
      <3>2. engine' = engine \/ (engine[k] = "active" /\ engine' = [engine EXCEPT ![k] = "idle"])
        BY DEF Release
      <3>3. \A j \in Profiles : PlaceOf(j)' = PlaceOf(j)
        BY <1>1, <1>2, <3>1, <3>2 DEF PlaceOf, IInv, TypeOK
      <3>4. Place' = Place /\ Place[k] = PlaceOf(k)
        BY <1>1, <3>3, PlaceStays DEF Place
      <3> QED BY <1>1, <1>2, <1>4, <3>4 DEF Promised!Return
    <2> QED BY <2>1, <2>2
  <1> QED BY <1>3, <1>4

(* evict: what is in use drains, what is not begins to close; an engine whose
   close is under way goes on closing. *)
LEMMA DrainIsSeen ==
    ASSUME IInv, NEW c \in Clients, NEW k \in Profiles, NEW n, Drain(c, k, n),
           entry[k] = "built", engine[k] # "closed", UNCHANGED <<pool, entry, leases>>
    PROVE  Promised!Retire(k) \/ UNCHANGED Promised!vars
  <1>1. engine' = [engine EXCEPT ![k] = "draining"] /\ k \in DOMAIN engine
    BY DEF Drain, IInv, TypeOK
  <1>2. closing' = IF leases[k] = {} THEN closing \cup {k} ELSE closing
    BY DEF Drain, Closeable
  <1>3. OnlyMoves(k)
    BY <1>1, <1>2 DEF OnlyMoves, PlaceOf
  <1>4. CASE k \in closing
    <2>1. PlaceOf(k)' = PlaceOf(k)
      BY <1>1, <1>2, <1>4 DEF PlaceOf
    <2>2. Place' = Place
      BY <1>3, <2>1, PlaceStays DEF OnlyMoves
    <2> QED BY <2>2 DEF Promised!vars
  <1>5. CASE k \notin closing
    <2>1. PlaceOf(k) \in {"usable", "draining"}
      BY <1>5 DEF PlaceOf
    <2>2. PlaceOf(k)' = IF leases[k] = {} THEN "closing" ELSE "draining"
      BY <1>1, <1>2, <1>5 DEF PlaceOf
    <2>3. Promised!Moves(k, {"usable", "draining"}, PlaceOf(k)')
      BY <1>3, <2>1, EngineIsSeenToMove
    <2> QED BY <2>2, <2>3 DEF Promised!Retire
  <1> QED BY <1>4, <1>5

LEMMA RemovalIsSeen ==
    ASSUME IInv, BuildsHaveNoEngine, NEW c \in Clients, Finalize(c)
    PROVE  (\E k \in Profiles : Promised!Remove(k)) \/ UNCHANGED Promised!vars
  <1>1. PICK j \in Profiles : j = at[c]
    BY DEF IInv, TypeOK, Finalize
  <1>2. /\ engine[j] = "closed" /\ entry' = [entry EXCEPT ![j] = "none"]
        /\ engine' = [engine EXCEPT ![j] = "none"] /\ UNCHANGED <<pool, leases, closing>>
    BY <1>1 DEF Finalize
  <1>3. PlaceOf(j)' = "absent" /\ OnlyMoves(j)
    BY <1>2 DEF PlaceOf, OnlyMoves, IInv, TypeOK
  <1>4. PlaceOf(j) \in {"absent", "closing"}
    BY <1>2 DEF PlaceOf, BuildsHaveNoEngine, IInv, TypeOK
  <1>5. CASE PlaceOf(j) = "closing"
    <2>1. Promised!Moves(j, {"closing"}, PlaceOf(j)')
      BY <1>2, <1>3, <1>5, EngineIsSeenToMove
    <2> QED BY <1>3, <2>1 DEF Promised!Remove
  <1>6. CASE PlaceOf(j) = "absent"
    <2>1. Place' = Place
      BY <1>3, <1>6, PlaceStays DEF OnlyMoves
    <2> QED BY <1>2, <2>1 DEF Promised!vars
  <1> QED BY <1>4, <1>5, <1>6

LEMMA ForceIsSeen ==
    ASSUME IInv, NEW k \in Profiles, ForcedClose(k)
    PROVE  Promised!ForceClose(k)
  <1>1. PlaceOf(k) \in {"usable", "draining"} /\ PlaceOf(k)' = "closing" /\ OnlyMoves(k)
    BY DEF ForcedClose, PlaceOf, OnlyMoves, IInv, TypeOK
  <1> QED BY <1>1, EngineIsSeenToMove DEF Promised!ForceClose, ForcedClose

LEMMA CloseIsSeen ==
    ASSUME NEW k \in Profiles, IInv, EngineCloses(k)
    PROVE  UNCHANGED Promised!vars
  <1>1. \A j \in Profiles : PlaceOf(j)' = PlaceOf(j)
    BY DEF EngineCloses, PlaceOf, IInv, TypeOK
  <1> QED BY <1>1, PlaceStays DEF Promised!vars, EngineCloses

LEMMA ShutIsSeen ==
    ASSUME IInv
    PROVE  (PoolCloses => Promised!Shut) /\ (PoolClosed => Promised!DropAll)
  <1>1. ASSUME PoolCloses PROVE Promised!Shut
    <2>1. Place' = Place
      BY <1>1, PlaceStays DEF PoolCloses, PlaceOf
    <2> QED BY <1>1, <2>1 DEF PoolCloses, Promised!Shut
  <1>2. ASSUME PoolClosed PROVE Promised!DropAll
    <2>1. \A k \in Profiles : PlaceOf(k)' = "absent"
      BY <1>2 DEF PoolClosed, PlaceOf
    <2>2. Place' = [k \in Profiles |-> PlaceOf(k)']
      BY DEF Place
    <2> HIDE DEF Place, PlaceOf
    <2>3. Place' = [k \in Profiles |-> "absent"]
      BY <2>1, <2>2
    <2> QED BY <1>2, <2>3 DEF PoolClosed, Promised!DropAll
  <1> QED BY <1>1, <1>2

LEMMA PoolStepIsSeen ==
    ASSUME IInv, BuildsHaveNoEngine, Next
    PROVE  Promised!Next \/ UNCHANGED Promised!vars
  <1> DEFINE Seen == Promised!Next \/ UNCHANGED Promised!vars
  <1>1. ASSUME NEW k \in Profiles, EngineCloses(k) PROVE Seen
    BY <1>1, CloseIsSeen
  <1>2. ASSUME NEW k \in Profiles, BuildSucceeds(k) \/ BuildFails(k) \/ BuildDiscarded(k)
        PROVE  Seen
    BY <1>2, CompletionIsSeen, EndOfBuildIsSeen DEF Promised!Next
  <1>3. ASSUME NEW k \in Profiles, ForcedClose(k) PROVE Seen
    BY <1>3, ForceIsSeen DEF Promised!Next
  <1>4. ASSUME NEW c \in Clients, Finalize(c) PROVE Seen
    BY <1>4, RemovalIsSeen DEF Promised!Next
  <1>5. ASSUME NEW c \in Clients, AcquireBuilds(c) PROVE Seen
    BY <1>5, BuildIsSeen DEF Promised!Next
  <1>6. ASSUME NEW c \in Clients, AcquireLeases(c) PROVE Seen
    BY <1>6, LeaseIsSeen DEF Promised!Next
  <1>7. ASSUME NEW c \in Clients, Release(c) PROVE Seen
    BY <1>7, ReturnIsSeen DEF Promised!Next
  <1>8. ASSUME NEW c \in Clients, NEW k \in Profiles, AcquireEvicts(c, k) PROVE Seen
    <2>1. Promised!Retire(k) \/ UNCHANGED Promised!vars
      BY <1>8, DrainIsSeen DEF AcquireEvicts, IdleEngines
    <2> QED BY <2>1 DEF Promised!Next
  <1>9. ASSUME NEW c \in Clients, NEW k \in Profiles, EvictNext(c, k) PROVE Seen
    <2>1. CASE /\ entry[k] = "built" /\ engine[k] # "closed"
               /\ k \notin Pinned \/ c \in forced
      <3>1. Promised!Retire(k) \/ UNCHANGED Promised!vars
        BY <1>9, <2>1, DrainIsSeen DEF EvictNext
      <3> QED BY <3>1 DEF Promised!Next
    <2>2. CASE ~ (/\ entry[k] = "built" /\ engine[k] # "closed"
                  /\ k \notin Pinned \/ c \in forced)
      <3>1. UNCHANGED <<pool, entry, engine, closing, leases>>
        BY <1>9, <2>2 DEF EvictNext
      <3> QED BY <3>1 DEF Promised!vars, Place, PlaceOf
    <2> QED BY <2>1, <2>2
  <1>10. ASSUME NEW c \in Clients, NEW ks \in SUBSET Profiles, Invalidate(c, ks) PROVE Seen
    BY <1>10, InvalidationIsSeen DEF Promised!Next
  <1>11. ASSUME PoolCloses \/ PoolClosed PROVE Seen
    BY <1>11, ShutIsSeen DEF Promised!Next
  <1>12. ASSUME UNCHANGED <<pool, entry, engine, closing, leases>> PROVE Seen
    BY <1>12 DEF Promised!vars, Place, PlaceOf
  <1>13. \/ UNCHANGED <<pool, entry, engine, closing, leases>>
         \/ PoolCloses \/ PoolClosed
         \/ \E k \in Profiles : \/ EngineCloses(k) \/ ForcedClose(k)
                                \/ BuildSucceeds(k) \/ BuildFails(k) \/ BuildDiscarded(k)
         \/ \E c \in Clients :
              \/ Finalize(c) \/ AcquireBuilds(c) \/ AcquireLeases(c) \/ Release(c)
              \/ \E k \in Profiles : AcquireEvicts(c, k) \/ EvictNext(c, k)
              \/ \E ks \in SUBSET Profiles : Invalidate(c, ks)
    BY DEF Next, FinalizeFindsNothing, DiscardEnds, AcquireJoinsBuild, AcquireFails,
         EvictEnds, ClientCancelled, Acquire, Sweep, InvalidateOutdated
  <1> HIDE DEF Seen
  <1>14. Seen
    BY <1>1, <1>2, <1>3, <1>4, <1>5, <1>6, <1>7, <1>8, <1>9, <1>10, <1>11, <1>12, <1>13
  <1> QED BY <1>14 DEF Seen

(* acquire, _build_entry, release, evict and aclose together keep the promise
   of LeasedEngines. *)
THEOREM PoolKeepsPromise == Spec => EnginesAsPromised
  <1>1. Init => Promised!Init
    BY DEF Init, Promised!Init, Place, PlaceOf
  <1>2. Init => BuildsHaveNoEngine
    BY DEF Init, BuildsHaveNoEngine
  <1>3. IInv /\ BuildsHaveNoEngine /\ [Next]_vars => BuildsHaveNoEngine'
    BY BuildsPreserved
  <1>4. IInv /\ BuildsHaveNoEngine /\ [Next]_vars => [Promised!Next]_(Promised!vars)
    <2>1. UNCHANGED vars => UNCHANGED Promised!vars
      BY DEF vars, Promised!vars, Place, PlaceOf
    <2> QED BY <2>1, PoolStepIsSeen
  <1> QED BY Inductive, <1>1, <1>2, <1>3, <1>4, PTL DEF Spec, Promised!Spec, EnginesAsPromised
=============================================================================
