---------------------------- MODULE ControlOfHost ---------------------------
(***************************************************************************)
(* What a Host promises of its control to the owner and its guests: one    *)
(* client holds it and only that client's operations run; it passes        *)
(* between the owner and a guest while nothing runs, and a guest that is   *)
(* gone is losing it from that very step.  The Runs a client started are   *)
(* over when it gives control up, though not when control is taken away.   *)
(***************************************************************************)
CONSTANTS Owner, Guests, Jobs, Runs, NoClient

VARIABLES holder,   \* who has control
          losing,   \* is the holder to lose it
          gone,     \* the guests that have gone
          inside,   \* the clients with an operation under way
          jobs,     \* the owner's operations in the background
          startedBy \* the client of a live Run

vars == <<holder, losing, gone, inside, jobs, startedBy>>

Quiet == inside = {} /\ jobs = {}
HasRuns(c) == \E r \in Runs : startedBy[r] = c

Init == /\ holder = Owner /\ losing = FALSE /\ gone = {}
        /\ inside = {} /\ jobs = {}
        /\ startedBy = [r \in Runs |-> NoClient]

Acquire(c) == /\ holder = Owner /\ c \notin gone
              /\ Quiet /\ ~HasRuns(Owner)
              /\ holder' = c
              /\ UNCHANGED <<losing, gone, inside, jobs, startedBy>>

Release == /\ holder # Owner /\ ~losing
           /\ Quiet /\ ~HasRuns(holder)
           /\ holder' = Owner
           /\ UNCHANGED <<losing, gone, inside, jobs, startedBy>>

Revoke == /\ holder # Owner
          /\ losing' = TRUE
          /\ UNCHANGED <<holder, gone, inside, jobs, startedBy>>

Leave(c) == /\ c \notin gone
            /\ gone' = gone \cup {c}
            /\ losing' = (losing \/ holder = c)
            /\ UNCHANGED <<holder, inside, jobs, startedBy>>

Return == /\ losing /\ Quiet
          /\ holder' = Owner /\ losing' = FALSE
          /\ UNCHANGED <<gone, inside, jobs, startedBy>>

Enter(c) == /\ holder = c /\ ~losing /\ c \notin inside \cup gone
            /\ inside' = inside \cup {c}
            /\ UNCHANGED <<holder, losing, gone, jobs, startedBy>>

Exit(c) == /\ c \in inside
           /\ inside' = inside \ {c}
           /\ UNCHANGED <<holder, losing, gone, jobs, startedBy>>

StartJob(j) == /\ holder = Owner /\ j \notin jobs
               /\ jobs' = jobs \cup {j}
               /\ UNCHANGED <<holder, losing, gone, inside, startedBy>>

EndJob(j) == /\ j \in jobs
             /\ jobs' = jobs \ {j}
             /\ UNCHANGED <<holder, losing, gone, inside, startedBy>>

StartRun(c, r) == /\ c \in inside /\ startedBy[r] = NoClient
                  /\ startedBy' = [startedBy EXCEPT ![r] = c]
                  /\ UNCHANGED <<holder, losing, gone, inside, jobs>>

EndRun(r) == /\ startedBy[r] # NoClient
             /\ startedBy' = [startedBy EXCEPT ![r] = NoClient]
             /\ UNCHANGED <<holder, losing, gone, inside, jobs>>

Next == \/ Release \/ Revoke \/ Return
        \/ \E c \in Guests : Acquire(c) \/ Leave(c)
        \/ \E c \in Guests \cup {Owner} : Enter(c) \/ Exit(c)
        \/ \E c \in Guests \cup {Owner}, r \in Runs : StartRun(c, r)
        \/ \E j \in Jobs : StartJob(j) \/ EndJob(j)
        \/ \E r \in Runs : EndRun(r)

Spec == Init /\ [][Next]_vars
=============================================================================
