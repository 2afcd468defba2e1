---------------------------- MODULE RunLifecycle ----------------------------
(***************************************************************************)
(* What the coordinator promises of a Run to its clients: it is admitted   *)
(* to a Thread that no other Run has, works, and gets one terminal status, *)
(* which stands.  A Run whose task died without one is lost until somebody *)
(* stops it.  The reader of its events is given the terminal event before  *)
(* their end, unless the Run was lost first.                               *)
(***************************************************************************)
CONSTANTS Runs, Threads

VARIABLES thread,   \* the Thread of each Run
          phase,    \* "new", "admitted", "working", "lost", or the terminal status
          events    \* "open", "terminal" after that event, "ended", or "cut" without it

vars == <<thread, phase, events>>

Terminal == {"completed", "failed", "cancelled"}

Init == /\ thread \in [Runs -> Threads]
        /\ phase = [r \in Runs |-> "new"]
        /\ events = [r \in Runs |-> "open"]

Becomes(r, p, e) == /\ phase' = [phase EXCEPT ![r] = p]
                    /\ events' = [events EXCEPT ![r] = e]
                    /\ UNCHANGED thread

Admit(r) == /\ phase[r] = "new"
            /\ \A q \in Runs : thread[q] = thread[r] => phase[q] \notin {"admitted", "working"}
            /\ Becomes(r, "admitted", events[r])

Refuse(r) == phase[r] = "admitted" /\ Becomes(r, "new", events[r])

Begin(r) == phase[r] = "admitted" /\ Becomes(r, "working", events[r])

Finish(r) == /\ phase[r] = "working"
             /\ phase'[r] \in Terminal /\ events'[r] \in {"terminal", "ended"}
             /\ Becomes(r, phase'[r], events'[r])

Lose(r) == /\ phase[r] = "working"
           /\ phase'[r] = "lost" /\ events'[r] \in {"open", "cut"}
           /\ Becomes(r, "lost", events'[r])

(* A Connection that goes, or the Host that closes, settles what it cancelled. *)
Recover(r) == /\ phase[r] = "lost"
              /\ Becomes(r, "cancelled", IF events[r] = "open" THEN "ended" ELSE events[r])

EndEvents(r) == /\ phase[r] \in Terminal /\ events[r] = "terminal"
                /\ Becomes(r, phase[r], "ended")

Next == \E r \in Runs : \/ Admit(r) \/ Refuse(r) \/ Begin(r)
                        \/ Finish(r) \/ Lose(r) \/ Recover(r) \/ EndEvents(r)

Spec == Init /\ [][Next]_vars
=============================================================================
