----------------------------- MODULE FairSlots ------------------------------
(***************************************************************************)
(* What the delegator promises the calls of each execution: a semaphore    *)
(* that is served first come, first served.  At most Size calls of an      *)
(* execution have a slot; a call lines up only when all are taken, and a   *)
(* slot that is given up goes to the head of the line at once.             *)
(***************************************************************************)
EXTENDS Naturals, FiniteSets, SequencesExt

CONSTANTS Calls, Executions, Parent, Size

VARIABLES holders,  \* the calls that have a slot
          line      \* those that wait for one of an execution's, in order

vars == <<holders, line>>

Users(p) == {c \in holders : Parent[c] = p}

Init == /\ holders = {}
        /\ line = [p \in Executions |-> <<>>]

Take(c) == /\ line[Parent[c]] = <<>>
           /\ c \notin holders
           /\ Cardinality(Users(Parent[c])) < Size
           /\ holders' = holders \cup {c}
           /\ UNCHANGED line

LineUp(c) == /\ c \notin holders \cup ToSet(line[Parent[c]])
             /\ Cardinality(Users(Parent[c])) = Size
             /\ line' = [line EXCEPT ![Parent[c]] = Append(@, c)]
             /\ UNCHANGED holders

GoAway(c) == \E i \in DOMAIN line[Parent[c]] :
                /\ line[Parent[c]][i] = c
                /\ line' = [line EXCEPT ![Parent[c]] = RemoveAt(@, i)]
                /\ UNCHANGED holders

GiveBack(c) == /\ line[Parent[c]] = <<>>
               /\ c \in holders
               /\ holders' = holders \ {c}
               /\ UNCHANGED line

HandOver(c) == /\ line[Parent[c]] # <<>>
               /\ c \in holders
               /\ holders' = (holders \ {c}) \cup {Head(line[Parent[c]])}
               /\ line' = [line EXCEPT ![Parent[c]] = Tail(@)]

Next == \E c \in Calls : \/ Take(c) \/ LineUp(c) \/ GoAway(c)
                         \/ GiveBack(c) \/ HandOver(c)

Spec == Init /\ [][Next]_vars
=============================================================================
