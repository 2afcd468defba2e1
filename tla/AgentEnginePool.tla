-------------------------- MODULE AgentEnginePool ---------------------------
(***************************************************************************)
(* The pool of compiled agent graphs (runtime/agent_engine.py): one engine *)
(* per profile, built once for all that ask for it, leased to executions,  *)
(* drained by policy or by a configuration change, and closed when its     *)
(* last lease is gone.                                                     *)
(*                                                                         *)
(* A client is a task that acquires and releases engines.  The locks of    *)
(* the pool and of the engines are never held across a suspension, so an   *)
(* operation suspends only while an engine is built or closed; there the   *)
(* client itself may be cancelled, but the build and the close, which are  *)
(* shielded tasks of their own, go on.  A lease stands for itself and the  *)
(* run lease taken with it.  Time is not modelled: any idle engine may be  *)
(* past its TTL, and any of them the least recently used.                  *)
(***************************************************************************)
EXTENDS Naturals, FiniteSets

CONSTANTS
    Profiles,       \* profile keys
    Clients,
    Pinned,         \* the profiles that policy may not evict
    MaxProfiles,    \* the capacity of the pool
    NoProfile

ASSUME PoolAssumption ==
    /\ IsFiniteSet(Profiles)
    /\ Pinned \subseteq Profiles
    /\ MaxProfiles \in Nat \ {0}
    /\ NoProfile \notin Profiles

VARIABLES
    pool,           \* open; or where aclose is: closing or closed
    entry,          \* the pool's entry of a profile
    engine,         \* AgentEngine._state of the engine of that entry
    leases,         \* the Clients that hold a lease on it
    closing,        \* the profiles whose engine has a close task under way
    pc,             \* what a Client does
    key,            \* the profile it acquires or holds
    at,             \* the profile whose engine it waits to see closed, NoProfile
                    \* once that engine has left the pool
    next,           \* what it does after that
    todo,           \* the profiles it has yet to evict
    forced          \* the Clients that evict because the configuration changed

client == <<pc, key, at, next, todo, forced>>
vars == <<pool, entry, engine, leases, closing, client>>

Entries == {k \in Profiles : entry[k] # "none"}

TypeOK ==
    /\ pool \in {"open", "closing", "closed"}
    /\ entry \in [Profiles -> {"none", "building", "invalidated", "built"}]
    /\ engine \in [Profiles -> {"none", "ready", "active", "idle", "draining", "closed"}]
    /\ leases \in [Profiles -> SUBSET Clients]
    /\ closing \subseteq Profiles
    /\ pc \in [Clients -> {"out", "acquire", "build", "discarded", "held",
                           "closing", "sweep", "evict"}]
    /\ key \in [Clients -> Profiles \cup {NoProfile}]
    /\ at \in [Clients -> Profiles \cup {NoProfile}]
    /\ next \in [Clients -> {"out", "acquire", "sweep", "evict"}]
    /\ todo \in [Clients -> SUBSET Profiles]
    /\ forced \subseteq Clients

Init ==
    /\ pool = "open"
    /\ entry = [k \in Profiles |-> "none"]
    /\ engine = [k \in Profiles |-> "none"]
    /\ leases = [k \in Profiles |-> {}]
    /\ closing = {}
    /\ pc = [c \in Clients |-> "out"]
    /\ key = [c \in Clients |-> NoProfile]
    /\ at = [c \in Clients |-> NoProfile]
    /\ next = [c \in Clients |-> "out"]
    /\ todo = [c \in Clients |-> {}]
    /\ forced = {}

-----------------------------------------------------------------------------
(* Closing one engine.                                                     *)

(* Mutant: an engine may be closed under its leases. *)
AlwaysCloseable(k) == TRUE

Closeable(k) == leases[k] = {}

(* evict: begin_draining, and finalize_draining when nothing uses the engine.
   The client then waits for the close task; otherwise it goes on to step n. *)
Drain(c, k, n) ==
    /\ engine' = [engine EXCEPT ![k] = "draining"]
    /\ IF Closeable(k)
       THEN /\ closing' = closing \cup {k}
            /\ pc' = [pc EXCEPT ![c] = "closing"]
            /\ at' = [at EXCEPT ![c] = k]
            /\ next' = [next EXCEPT ![c] = n]
       ELSE /\ pc' = [pc EXCEPT ![c] = n]
            /\ UNCHANGED <<closing, at, next>>

(* _close_owned_resources: whatever fails on the way, the engine is closed. *)
EngineCloses(k) ==
    /\ k \in closing
    /\ closing' = closing \ {k}
    /\ engine' = [engine EXCEPT ![k] = "closed"]
    /\ UNCHANGED <<pool, entry, leases, client>>

(* The rest of finalize_draining: the entry goes with its engine.  The other
   clients that wait for this engine will find another entry, or none. *)
Finalize(c) ==
    /\ pc[c] = "closing"
    /\ at[c] # NoProfile
    /\ engine[at[c]] = "closed"
    /\ entry' = [entry EXCEPT ![at[c]] = "none"]
    /\ engine' = [engine EXCEPT ![at[c]] = "none"]
    /\ pc' = [pc EXCEPT ![c] = next[c]]
    /\ at' = [d \in Clients |-> IF at[d] = at[c] THEN NoProfile ELSE at[d]]
    /\ next' = [next EXCEPT ![c] = "out"]
    /\ UNCHANGED <<pool, leases, closing, key, todo, forced>>

FinalizeFindsNothing(c) ==
    /\ pc[c] = "closing"
    /\ at[c] = NoProfile
    /\ pc' = [pc EXCEPT ![c] = next[c]]
    /\ next' = [next EXCEPT ![c] = "out"]
    /\ UNCHANGED <<pool, entry, engine, leases, closing, key, at, todo, forced>>

-----------------------------------------------------------------------------
(* acquire.                                                                *)

(* _idle_engines: what policy may evict.  An engine that was built and never
   leased is "ready", not "idle". *)
IdleEngines ==
    {k \in Profiles \ Pinned : entry[k] = "built" /\ engine[k] = "idle" /\ leases[k] = {}}

Acquire(c, k) ==
    /\ pc[c] = "out"
    /\ pool = "open"
    /\ pc' = [pc EXCEPT ![c] = "acquire"]
    /\ key' = [key EXCEPT ![c] = k]
    /\ UNCHANGED <<pool, entry, engine, leases, closing, at, next, todo, forced>>

(* A miss: the single build of the profile begins. *)
AcquireBuilds(c) ==
    /\ pc[c] = "acquire"
    /\ pool = "open"
    /\ entry[key[c]] = "none"
    /\ Cardinality(Entries) < MaxProfiles
    /\ entry' = [entry EXCEPT ![key[c]] = "building"]
    /\ pc' = [pc EXCEPT ![c] = "build"]
    /\ UNCHANGED <<pool, engine, leases, closing, key, at, next, todo, forced>>

(* A miss in a full pool: the least recently used idle engine is evicted. *)
AcquireEvicts(c, k) ==
    /\ pc[c] = "acquire"
    /\ pool = "open"
    /\ entry[key[c]] = "none"
    /\ Cardinality(Entries) >= MaxProfiles
    /\ k \in IdleEngines
    /\ Drain(c, k, "acquire")
    /\ UNCHANGED <<pool, entry, leases, key, todo, forced>>

AcquireJoinsBuild(c) ==
    /\ pc[c] = "acquire"
    /\ pool = "open"
    /\ entry[key[c]] \in {"building", "invalidated"}
    /\ pc' = [pc EXCEPT ![c] = "build"]
    /\ UNCHANGED <<pool, entry, engine, leases, closing, key, at, next, todo, forced>>

AcquireLeases(c) ==
    /\ pc[c] = "acquire"
    /\ pool = "open"
    /\ entry[key[c]] = "built"
    /\ engine[key[c]] \notin {"draining", "closed"}
    /\ leases' = [leases EXCEPT ![key[c]] = @ \cup {c}]
    /\ engine' = [engine EXCEPT ![key[c]] = "active"]
    /\ pc' = [pc EXCEPT ![c] = "held"]
    /\ UNCHANGED <<pool, entry, closing, key, at, next, todo, forced>>

(* RUNTIME_POOL_CAPACITY_EXHAUSTED. *)
NoCapacity(c) ==
    /\ entry[key[c]] = "none"
    /\ Cardinality(Entries) >= MaxProfiles
    /\ IdleEngines = {}

(* The errors of acquire: closed, no capacity, draining. *)
AcquireFails(c) ==
    /\ pc[c] = "acquire"
    /\ \/ pool # "open"
       \/ NoCapacity(c)
       \/ entry[key[c]] = "built" /\ engine[key[c]] \in {"draining", "closed"}
    /\ pc' = [pc EXCEPT ![c] = "out"]
    /\ key' = [key EXCEPT ![c] = NoProfile]
    /\ UNCHANGED <<pool, entry, engine, leases, closing, at, next, todo, forced>>

-----------------------------------------------------------------------------
(* _build_entry, and what its waiters see.                                 *)

(* Mutant: only one waiter learns of the build. *)
WakeOne(k, to) ==
    LET first == CHOOSE c \in Clients : pc[c] = "build" /\ key[c] = k
    IN  IF \E c \in Clients : pc[c] = "build" /\ key[c] = k
        THEN pc' = [pc EXCEPT ![first] = to] /\ UNCHANGED key
        ELSE UNCHANGED <<pc, key>>

Wake(k, to) ==
    /\ pc' = [c \in Clients |-> IF pc[c] = "build" /\ key[c] = k THEN to ELSE pc[c]]
    /\ key' = [c \in Clients |->
         IF pc[c] = "build" /\ key[c] = k /\ to = "out" THEN NoProfile ELSE key[c]]

(* Mutant: the builder does not see that its entry was invalidated. *)
BuildSucceedsStale(k) ==
    /\ pool = "open"
    /\ entry[k] \in {"building", "invalidated"}
    /\ entry' = [entry EXCEPT ![k] = "built"]
    /\ engine' = [engine EXCEPT ![k] = "ready"]
    /\ Wake(k, "acquire")
    /\ UNCHANGED <<pool, leases, closing, at, next, todo, forced>>

BuildSucceeds(k) ==
    /\ pool = "open"
    /\ entry[k] = "building"
    /\ entry' = [entry EXCEPT ![k] = "built"]
    /\ engine' = [engine EXCEPT ![k] = "ready"]
    /\ Wake(k, "acquire")
    /\ UNCHANGED <<pool, leases, closing, at, next, todo, forced>>

(* The builder raises: the entry goes, and every waiter sees the error. *)
BuildFails(k) ==
    /\ pool = "open"
    /\ entry[k] \in {"building", "invalidated"}
    /\ entry' = [entry EXCEPT ![k] = "none"]
    /\ Wake(k, "out")
    /\ UNCHANGED <<pool, engine, leases, closing, at, next, todo, forced>>

(* The builder finds its entry invalidated.  The entry goes at once; the
   waiters see the error when the discarded engine has been closed. *)
BuildDiscarded(k) ==
    /\ pool = "open"
    /\ entry[k] = "invalidated"
    /\ entry' = [entry EXCEPT ![k] = "none"]
    /\ Wake(k, "discarded")
    /\ UNCHANGED <<pool, engine, leases, closing, at, next, todo, forced>>

DiscardEnds(c) ==
    /\ pc[c] = "discarded"
    /\ pc' = [pc EXCEPT ![c] = "out"]
    /\ key' = [key EXCEPT ![c] = NoProfile]
    /\ UNCHANGED <<pool, entry, engine, leases, closing, at, next, todo, forced>>

-----------------------------------------------------------------------------
(* Release, and eviction of several engines.                               *)

(* Mutant: nothing finalizes a drained engine. *)
ReleaseOnly(c) ==
    LET k == key[c] IN
    /\ pc[c] = "held"
    /\ leases' = [leases EXCEPT ![k] = @ \ {c}]
    /\ key' = [key EXCEPT ![c] = NoProfile]
    /\ engine' = [engine EXCEPT ![k] = IF @ = "active" /\ leases[k] = {c} THEN "idle" ELSE @]
    /\ pc' = [pc EXCEPT ![c] = "sweep"]
    /\ UNCHANGED <<pool, entry, closing, at, next, todo, forced>>

(* run_lease.release, lease.release, finalize_draining: the last lease of a
   draining engine closes it.  A sweep follows. *)
Release(c) ==
    LET k == key[c] IN
    /\ pc[c] = "held"
    /\ leases' = [leases EXCEPT ![k] = @ \ {c}]
    /\ key' = [key EXCEPT ![c] = NoProfile]
    /\ IF engine[k] = "active" /\ leases[k] = {c}
       THEN engine' = [engine EXCEPT ![k] = "idle"]
       ELSE UNCHANGED engine
    /\ IF entry[k] = "built" /\ engine[k] = "draining" /\ leases[k] = {c}
       THEN /\ closing' = closing \cup {k}
            /\ pc' = [pc EXCEPT ![c] = "closing"]
            /\ at' = [at EXCEPT ![c] = k]
            /\ next' = [next EXCEPT ![c] = "sweep"]
       ELSE /\ pc' = [pc EXCEPT ![c] = "sweep"]
            /\ UNCHANGED <<closing, at, next>>
    /\ UNCHANGED <<pool, entry, todo, forced>>

(* sweep: the idle engines past their TTL, looked up once.  There may be
   none; and a delegated execution releases its engine without a sweep. *)
Sweep(c, ks) ==
    /\ pc[c] = "sweep"
    /\ ks \subseteq IdleEngines
    /\ pc' = [pc EXCEPT ![c] = "evict"]
    /\ todo' = [todo EXCEPT ![c] = ks]
    /\ UNCHANGED <<pool, entry, engine, leases, closing, key, at, next, forced>>

(* invalidate: builds are marked, engines are evicted one after the other. *)
Invalidate(c, ks) ==
    /\ pc[c] = "out"
    /\ pool = "open"
    /\ ks # {} /\ ks \subseteq Entries
    /\ entry' = [k \in Profiles |->
         IF k \in ks /\ entry[k] = "building" THEN "invalidated" ELSE entry[k]]
    /\ pc' = [pc EXCEPT ![c] = "evict"]
    /\ todo' = [todo EXCEPT ![c] = {k \in ks : entry[k] = "built"}]
    /\ forced' = forced \cup {c}
    /\ UNCHANGED <<pool, engine, leases, closing, key, at, next>>

(* invalidate_outdated does not mark the builds: one that has ended by the
   time its turn comes is evicted like the others. *)
InvalidateOutdated(c, ks) ==
    /\ pc[c] = "out"
    /\ pool = "open"
    /\ ks # {} /\ ks \subseteq Entries
    /\ pc' = [pc EXCEPT ![c] = "evict"]
    /\ todo' = [todo EXCEPT ![c] = ks]
    /\ forced' = forced \cup {c}
    /\ UNCHANGED <<pool, entry, engine, leases, closing, key, at, next>>

(* evict does not look at the leases. *)
EvictNext(c, k) ==
    /\ pc[c] = "evict"
    /\ k \in todo[c]
    /\ todo' = [todo EXCEPT ![c] = @ \ {k}]
    /\ IF /\ entry[k] = "built" /\ engine[k] # "closed"
          /\ k \notin Pinned \/ c \in forced
       THEN Drain(c, k, "evict")
       ELSE UNCHANGED <<engine, closing, pc, at, next>>
    /\ UNCHANGED <<pool, entry, leases, key, forced>>

EvictEnds(c) ==
    /\ pc[c] = "evict"
    /\ todo[c] = {}
    /\ pc' = [pc EXCEPT ![c] = "out"]
    /\ forced' = forced \ {c}
    /\ UNCHANGED <<pool, entry, engine, leases, closing, key, at, next, todo>>

(* The task of the client is cancelled where it waits. *)
ClientCancelled(c) ==
    /\ pc[c] \in {"build", "discarded", "closing"}
    /\ pc' = [pc EXCEPT ![c] = "out"]
    /\ key' = [key EXCEPT ![c] = NoProfile]
    /\ at' = [at EXCEPT ![c] = NoProfile]
    /\ next' = [next EXCEPT ![c] = "out"]
    /\ todo' = [todo EXCEPT ![c] = {}]
    /\ forced' = forced \ {c}
    /\ UNCHANGED <<pool, entry, engine, leases, closing>>

-----------------------------------------------------------------------------
(* aclose: the builds are cancelled and their waiters with them, the engines
   are closed by force one after the other, each until it is closed or the
   close times out, and the entries are dropped. *)
PoolCloses ==
    /\ pool = "open"
    /\ pool' = "closing"
    /\ pc' = [c \in Clients |-> IF pc[c] = "build" THEN "out" ELSE pc[c]]
    /\ key' = [c \in Clients |-> IF pc[c] = "build" THEN NoProfile ELSE key[c]]
    /\ UNCHANGED <<entry, engine, leases, closing, at, next, todo, forced>>

ForcedClose(k) ==
    /\ pool = "closing"
    /\ entry[k] = "built"
    /\ engine[k] # "closed"
    /\ k \notin closing
    /\ engine' = [engine EXCEPT ![k] = "draining"]
    /\ closing' = closing \cup {k}
    /\ UNCHANGED <<pool, entry, leases, client>>

PoolClosed ==
    /\ pool = "closing"
    /\ \A k \in Profiles : entry[k] = "built" => engine[k] = "closed" \/ k \in closing
    /\ pool' = "closed"
    /\ entry' = [k \in Profiles |-> "none"]
    /\ UNCHANGED <<engine, leases, closing, client>>

-----------------------------------------------------------------------------
Next ==
    \/ \E k \in Profiles : 
         \/ EngineCloses(k)
         \/ BuildSucceeds(k)
         \/ BuildFails(k)
         \/ BuildDiscarded(k)
         \/ ForcedClose(k)
    \/ \E c \in Clients :
         \/ Finalize(c)
         \/ FinalizeFindsNothing(c)
         \/ DiscardEnds(c)
         \/ AcquireBuilds(c)
         \/ AcquireJoinsBuild(c)
         \/ AcquireLeases(c)
         \/ AcquireFails(c)
         \/ Release(c)
         \/ EvictEnds(c)
         \/ ClientCancelled(c)
         \/ \E k \in Profiles : Acquire(c, k) \/ AcquireEvicts(c, k) \/ EvictNext(c, k)
         \/ \E ks \in SUBSET Profiles : 
              \/ Sweep(c, ks)
              \/ Invalidate(c, ks)
              \/ InvalidateOutdated(c, ks)
    \/ PoolCloses
    \/ PoolClosed

(* Close tasks end, the pool's close times out, and the event loop runs what
   is ready.  Builds, and what a client does with a lease, may take forever. *)
Fairness ==
    /\ \A k \in Profiles : WF_vars(EngineCloses(k))
    /\ \A c \in Clients : WF_vars(Finalize(c))

Spec == Init /\ [][Next]_vars

FairSpec == Spec /\ Fairness

-----------------------------------------------------------------------------
(* Properties.                                                             *)

(* While the pool is open nobody's engine is closed under a lease: a close
   task begins only without leases, in a state that admits no new one. *)
LeasedEngineIsOpen ==
    pool = "open" =>
        \A k \in Profiles : leases[k] # {} =>
            /\ entry[k] = "built"
            /\ engine[k] \notin {"none", "closed"}
            /\ k \notin closing

(* The state that the policies go by agrees with the leases. *)
ActivityMatchesLeases ==
    \A k \in Profiles :
        /\ engine[k] \in {"ready", "idle"} => leases[k] = {}
        /\ engine[k] = "active" => leases[k] # {}

(* Concurrent misses never take the pool over its capacity, although each
   suspends between finding it full and building. *)
WithinCapacity == Cardinality(Entries) <= MaxProfiles

(* Who waits for a build waits for one that will end: no wakeup is lost when
   a build is invalidated or replaced. *)
WaitersHaveABuild ==
    \A c \in Clients : pc[c] = "build" => entry[key[c]] \in {"building", "invalidated"}

(* An engine that drains is leased to nobody new. *)
DrainingIsFinal ==
    [][\A k \in Profiles :
         engine[k] \in {"draining", "closed"} => leases'[k] \subseteq leases[k]]_vars

(* To its clients the pool is LeasedEngines, although builds, closes and the
   cancellation of whoever waits for them come in any order. *)
PlaceOf(k) ==
    IF entry[k] = "none" THEN "absent"
    ELSE IF entry[k] = "building" THEN "building"
    ELSE IF entry[k] = "invalidated" THEN "stale"
    ELSE IF k \in closing \/ engine[k] = "closed" THEN "closing"
    ELSE IF engine[k] = "draining" THEN "draining" ELSE "usable"
Place == [k \in Profiles |-> PlaceOf(k)]
Promised == INSTANCE LeasedEngines
            WITH open <- pool = "open", place <- Place, users <- leases, Capacity <- MaxProfiles
EnginesAsPromised == Promised!Spec

(* A drained engine is closed once its last lease is released, even if the
   client that released it is cancelled: the close is a shielded task. *)
DrainedEnginesClose ==
    \A k \in Profiles :
        (engine[k] = "draining" /\ leases[k] = {}) ~> engine[k] # "draining"

(* An engine in use stays open, and is never mistaken for an idle one. *)
LeasesProtect == LeasedEngineIsOpen /\ ActivityMatchesLeases
=============================================================================
