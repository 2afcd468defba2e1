----------------------- MODULE AgentDelegationProofs -----------------------
(***************************************************************************)
(* Slots are neither lost nor overbooked, every call settles its child, and*)
(* executions end from the leaves up, for any tree of calls and any limit. *)
(***************************************************************************)
EXTENDS AgentDelegation, TLAPS, FiniteSetTheorems

(* The futures in a queue are pending, and those of calls of that parent. *)
Queues ==
    \A p \in Executions :
        /\ IsInjective(waiting[p])
        /\ \A c \in ToSet(waiting[p]) :
             /\ c \in Calls
             /\ Parent[c] = p
             /\ c \notin granted
             /\ pc[c] \in {"queued", "done"}
             /\ pc[c] = "done" => c \in cancelled

Full == \A p \in Executions : ToSet(waiting[p]) # {} => active[p] = Limit

Turns ==
    \A c \in Calls : pc[c] = "queued" /\ c \notin granted => c \in ToSet(waiting[Parent[c]])

Grants == \A c \in granted : pc[c] = "queued" \/ (pc[c] = "done" /\ c \in cancelled)

(* The child of a call exists, and its runner works, from the moment that the
   call runs. *)
Children ==
    /\ \A c \in Calls :
         /\ pc[c] \in {"idle", "queued"} => exec[c] = "none" /\ runner[c] = "none"
         /\ pc[c] = "done" => exec[c] # "running"
         /\ c \notin cancelled /\ pc[c] = "done" => runner[c] \in {"none"} \cup Ended
    /\ tree = "gone" => \A e \in Executions : exec[e] # "running"

(* A runner ends after its calls. *)
RunnersEndLast ==
    \A c \in Calls : runner[Parent[c]] \in Ended => pc[c] \notin Underway

IInv ==
    /\ TypeOK
    /\ Queues
    /\ Full
    /\ Turns
    /\ Grants
    /\ Children
    /\ RunnersEndLast
    /\ ParentsEndLast
    /\ SlotAccounting

(***************************************************************************)
(* Data.                                                                   *)
(***************************************************************************)

(* What append, tail and removal do to a sequence without repetitions. *)
LEMMA AppendElements ==
    ASSUME NEW S, NEW s \in Seq(S), NEW c \in S, IsInjective(s), c \notin ToSet(s)
    PROVE  /\ Append(s, c) \in Seq(S)
           /\ IsInjective(Append(s, c))
           /\ ToSet(Append(s, c)) = ToSet(s) \cup {c}
  <1> DEFINE t == Append(s, c)
  <1>1. /\ Len(s) \in Nat
        /\ DOMAIN s = 1 .. Len(s)
        /\ t \in Seq(S)
        /\ DOMAIN t = 1 .. Len(s) + 1
        /\ t[Len(s) + 1] = c
        /\ \A j \in 1 .. Len(s) : t[j] = s[j]
    OBVIOUS
  <1> HIDE DEF t
  <1>2. \A j \in 1 .. Len(s) : s[j] # c
    BY <1>1 DEF ToSet
  <1>3. IsInjective(t)
    BY <1>1, <1>2 DEF IsInjective
  <1>4. ToSet(t) = ToSet(s) \cup {c}
    BY <1>1 DEF ToSet
  <1> QED BY <1>1, <1>3, <1>4 DEF t

LEMMA TailElements ==
    ASSUME NEW S, NEW s \in Seq(S), s # <<>>, IsInjective(s)
    PROVE  /\ Head(s) \in S
           /\ Head(s) \in ToSet(s)
           /\ Tail(s) \in Seq(S)
           /\ IsInjective(Tail(s))
           /\ ToSet(Tail(s)) = ToSet(s) \ {Head(s)}
  <1> DEFINE t == Tail(s)
  <1>1. /\ Len(s) \in Nat \ {0}
        /\ DOMAIN s = 1 .. Len(s)
        /\ t \in Seq(S)
        /\ DOMAIN t = 1 .. Len(s) - 1
        /\ Head(s) = s[1]
        /\ s[1] \in S
        /\ \A j \in 1 .. Len(s) - 1 : t[j] = s[j + 1]
    OBVIOUS
  <1> HIDE DEF t
  <1>2. IsInjective(t)
    <2>1. ASSUME NEW j \in DOMAIN t, NEW k \in DOMAIN t, t[j] = t[k] PROVE j = k
      <3>1. j + 1 \in DOMAIN s /\ k + 1 \in DOMAIN s /\ s[j + 1] = s[k + 1]
        BY <1>1, <2>1
      <3>2. j + 1 = k + 1
        BY <3>1 DEF IsInjective
      <3> QED BY <3>2, <1>1
    <2> QED BY <2>1 DEF IsInjective
  <1>3. \A j \in DOMAIN t : \E k \in DOMAIN s : t[j] = s[k] /\ k # 1
    <2> TAKE j \in DOMAIN t
    <2>1. j + 1 \in DOMAIN s /\ j + 1 # 1 /\ t[j] = s[j + 1]
      BY <1>1
    <2> QED BY <2>1
  <1>4. \A k \in DOMAIN s \ {1} : \E j \in DOMAIN t : t[j] = s[k]
    <2> TAKE k \in DOMAIN s \ {1}
    <2>1. k - 1 \in DOMAIN t /\ t[k - 1] = s[k]
      BY <1>1
    <2> QED BY <2>1
  <1>5. ToSet(t) = ToSet(s) \ {s[1]}
    <2>1. \A k \in DOMAIN s : s[k] = s[1] => k = 1
      BY <1>1 DEF IsInjective
    <2>2. ToSet(t) \subseteq ToSet(s) \ {s[1]}
      BY <1>3, <2>1 DEF ToSet
    <2>3. ToSet(s) \ {s[1]} \subseteq ToSet(t)
      BY <1>4 DEF ToSet
    <2> QED BY <2>2, <2>3
  <1> QED BY <1>1, <1>2, <1>5 DEF t, ToSet

LEMMA RemoveAtElements ==
    ASSUME NEW S, NEW s \in Seq(S), NEW i \in DOMAIN s, IsInjective(s)
    PROVE  /\ RemoveAt(s, i) \in Seq(S)
           /\ IsInjective(RemoveAt(s, i))
           /\ ToSet(RemoveAt(s, i)) = ToSet(s) \ {s[i]}
  <1> DEFINE a == SubSeq(s, 1, i - 1)
             b == SubSeq(s, i + 1, Len(s))
             t == RemoveAt(s, i)
  <1>1. Len(s) \in Nat /\ DOMAIN s = 1 .. Len(s) /\ i \in 1 .. Len(s)
    OBVIOUS
  <1>2. a \in Seq(S) /\ Len(a) = i - 1 /\ \A j \in 1 .. i - 1 : a[j] = s[j]
    OBVIOUS
  <1>3. b \in Seq(S) /\ Len(b) = Len(s) - i /\ \A j \in 1 .. Len(s) - i : b[j] = s[i + j]
    OBVIOUS
  <1>4. t = a \o b
    BY DEF RemoveAt
  <1> HIDE DEF a, b, t
  <1>5. a \o b \in Seq(S) /\ Len(a \o b) = Len(s) - 1
    BY <1>2, <1>3
  <1>6. \A j \in 1 .. Len(s) - 1 : (a \o b)[j] = IF j < i THEN s[j] ELSE s[j + 1]
    <2> TAKE j \in 1 .. Len(s) - 1
    <2>1. CASE j < i
      BY <2>1, <1>1, <1>2, <1>3
    <2>2. CASE j >= i
      <3>1. (a \o b)[j] = b[j - (i - 1)] /\ j - (i - 1) \in 1 .. Len(s) - i
        BY <2>2, <1>1, <1>2, <1>3
      <3>2. b[j - (i - 1)] = s[i + (j - (i - 1))] /\ i + (j - (i - 1)) = j + 1
        BY <3>1, <1>1, <1>3
      <3> QED BY <2>2, <3>1, <3>2, <1>1
    <2>3. j < i \/ j >= i
      BY <1>1
    <2> QED BY <2>1, <2>2, <2>3
  <1>7. /\ t \in Seq(S)
        /\ DOMAIN t = 1 .. Len(s) - 1
        /\ \A j \in 1 .. Len(s) - 1 : t[j] = IF j < i THEN s[j] ELSE s[j + 1]
    BY <1>4, <1>5, <1>6
  <1>8. IsInjective(t)
    <2> DEFINE from(j) == IF j < i THEN j ELSE j + 1
    <2>1. \A j \in DOMAIN t : from(j) \in DOMAIN s /\ t[j] = s[from(j)]
      BY <1>1, <1>7
    <2>2. \A j, k \in DOMAIN t : from(j) = from(k) => j = k
      BY <1>1, <1>7
    <2> HIDE DEF from
    <2> QED BY <2>1, <2>2 DEF IsInjective
  <1>9. \A j \in DOMAIN t : \E k \in DOMAIN s : t[j] = s[k] /\ k # i
    <2> TAKE j \in DOMAIN t
    <2>1. CASE j < i
      BY <2>1, <1>1, <1>7
    <2>2. CASE j >= i
      <3>1. j + 1 \in DOMAIN s /\ t[j] = s[j + 1]
        BY <2>2, <1>1, <1>7
      <3> QED BY <2>2, <3>1, <1>1, <1>7
    <2> QED BY <2>1, <2>2, <1>1, <1>7
  <1>10. \A k \in DOMAIN s \ {i} : \E j \in DOMAIN t : t[j] = s[k]
    <2> TAKE k \in DOMAIN s \ {i}
    <2>1. CASE k < i
      BY <2>1, <1>1, <1>7
    <2>2. CASE k > i
      <3>1. k - 1 \in DOMAIN t /\ t[k - 1] = s[k]
        BY <2>2, <1>1, <1>7
      <3> QED BY <3>1
    <2> QED BY <2>1, <2>2, <1>1
  <1>11. ToSet(t) = ToSet(s) \ {s[i]}
    BY <1>1, <1>9, <1>10 DEF ToSet, IsInjective
  <1> QED BY <1>7, <1>8, <1>11 DEF t

LEMMA FiniteHolders ==
    ASSUME NEW p
    PROVE  IsFiniteSet(Holders(p)) /\ Cardinality(Holders(p)) \in Nat
  <1>1. Holders(p) \subseteq Calls
    BY DEF Holders
  <1>2. IsFiniteSet(Holders(p))
    BY <1>1, DelegationAssumption, FS_Subset
  <1> QED BY <1>2, FS_CardinalityType

(* A call with a slot is counted. *)
LEMMA HolderCounts ==
    ASSUME SlotAccounting, NEW c \in Calls, pc[c] \in WithChild \/ c \in granted
    PROVE  active[Parent[c]] \in Nat \ {0}
  <1>1. Parent[c] \in Executions /\ c \in Holders(Parent[c])
    BY DelegationAssumption DEF Holders
  <1>2. Cardinality(Holders(Parent[c])) # 0
    BY <1>1, FiniteHolders, FS_EmptySet
  <1> QED BY <1>1, <1>2, FiniteHolders DEF SlotAccounting

LEMMA QueueIsEmpty ==
    ASSUME TypeOK, NEW p \in Executions
    PROVE  waiting[p] = <<>> <=> ToSet(waiting[p]) = {}
  <1>1. waiting[p] \in Seq(Calls)
    BY DEF TypeOK
  <1>2. waiting[p] = <<>> <=> Len(waiting[p]) = 0
    BY <1>1
  <1>3. DOMAIN waiting[p] = 1 .. Len(waiting[p]) /\ Len(waiting[p]) \in Nat
    BY <1>1
  <1>4. Len(waiting[p]) = 0 <=> 1 .. Len(waiting[p]) = {}
    BY <1>3
  <1> QED BY <1>2, <1>3, <1>4 DEF ToSet

(* A step changes the queue of p at most, and how. *)
QueueStep(p, elements) ==
    /\ waiting' \in [Executions -> Seq(Calls)]
    /\ \A q \in Executions : IsInjective(waiting'[q])
    /\ \A q \in Executions \ {p} : ToSet(waiting'[q]) = ToSet(waiting[q])
    /\ ToSet(waiting'[p]) = elements

(* A release frees the slot, or hands it over. *)
Released(p, used) ==
    /\ active' \in [Executions -> Nat]
    /\ \A q \in Executions \ {p} : active'[q] = active[q]
    /\ \/ /\ ToSet(waiting[p]) = {}
          /\ QueueStep(p, {})
          /\ granted' = granted \ used
          /\ active'[p] = active[p] - 1
       \/ \E w \in ToSet(waiting[p]) :
            /\ QueueStep(p, ToSet(waiting[p]) \ {w})
            /\ granted' = (granted \ used) \cup {w}
            /\ active'[p] = active[p]

LEMMA ReleaseFacts ==
    ASSUME TypeOK, Queues, NEW p \in Executions, NEW used, Release(p, used),
           active[p] \in Nat \ {0}
    PROVE  Released(p, used)
  <1> DEFINE s == waiting[p]
  <1>1. s \in Seq(Calls) /\ IsInjective(s)
    BY DEF TypeOK, Queues
  <1>2. CASE s # <<>>
    <2>1. /\ Head(s) \in ToSet(s)
          /\ Tail(s) \in Seq(Calls)
          /\ IsInjective(Tail(s))
          /\ ToSet(Tail(s)) = ToSet(s) \ {Head(s)}
      BY <1>1, <1>2, TailElements
    <2>2. /\ granted' = (granted \ used) \cup {Head(s)}
          /\ waiting' = [waiting EXCEPT ![p] = Tail(s)]
          /\ active' = active
      BY <1>2 DEF Release
    <2>3. QueueStep(p, ToSet(waiting[p]) \ {Head(s)})
      BY <2>1, <2>2 DEF TypeOK, Queues, QueueStep
    <2> QED BY <2>1, <2>2, <2>3 DEF Released, TypeOK
  <1>3. CASE s = <<>>
    <2>1. active' = [active EXCEPT ![p] = @ - 1] /\ granted' = granted \ used /\ waiting' = waiting
      BY <1>3 DEF Release
    <2>2. /\ active' \in [Executions -> Nat]
          /\ active'[p] = active[p] - 1
          /\ \A q \in Executions \ {p} : active'[q] = active[q]
      BY <2>1 DEF TypeOK
    <2>3. ToSet(waiting[p]) = {}
      BY <1>3, QueueIsEmpty
    <2>4. QueueStep(p, {})
      BY <2>1, <2>3 DEF TypeOK, Queues, QueueStep
    <2> QED BY <2>1, <2>2, <2>3, <2>4 DEF Released
  <1> QED BY <1>2, <1>3

LEMMA LeaveFacts ==
    ASSUME TypeOK, Queues, NEW c \in Calls, LeaveQueue(c)
    PROVE  QueueStep(Parent[c], ToSet(waiting[Parent[c]]) \ {c})
  <1> DEFINE p == Parent[c]
             s == waiting[p]
  <1>1. p \in Executions /\ s \in Seq(Calls) /\ IsInjective(s)
    BY DelegationAssumption DEF TypeOK, Queues
  <1>2. PICK i \in DOMAIN s : s[i] = c /\ waiting' = [waiting EXCEPT ![p] = RemoveAt(s, i)]
    BY DEF LeaveQueue
  <1>3. /\ RemoveAt(s, i) \in Seq(Calls)
        /\ IsInjective(RemoveAt(s, i))
        /\ ToSet(RemoveAt(s, i)) = ToSet(s) \ {c}
    BY <1>1, <1>2, RemoveAtElements
  <1> QED BY <1>1, <1>2, <1>3 DEF TypeOK, Queues, QueueStep

LEMMA EnqueueFacts ==
    ASSUME TypeOK, Queues, NEW c \in Calls, Enqueue(c)
    PROVE  QueueStep(Parent[c], ToSet(waiting[Parent[c]]) \cup {c})
  <1> DEFINE p == Parent[c]
             s == waiting[p]
  <1>1. p \in Executions /\ s \in Seq(Calls) /\ IsInjective(s)
    BY DelegationAssumption DEF TypeOK, Queues
  <1>2. waiting' = [waiting EXCEPT ![p] = Append(s, c)]
    BY DEF Enqueue
  <1>3. c \notin ToSet(s)
    BY <1>1 DEF Enqueue, Calling, Queues
  <1>4. /\ Append(s, c) \in Seq(Calls)
        /\ IsInjective(Append(s, c))
        /\ ToSet(Append(s, c)) = ToSet(s) \cup {c}
    BY <1>1, <1>3, AppendElements
  <1> QED BY <1>1, <1>2, <1>4 DEF TypeOK, Queues, QueueStep

(* The three ways in which a call leaves with its slot *)
Leaves(c) == EnterFails(c) \/ Settle(c) \/ CancelledWithChild(c)

(* What they do: those in W, at most one, get the slot. *)
Handover(c, W) ==
    /\ pc' = [pc EXCEPT ![c] = "done"]
    /\ granted' = (granted \ {c}) \cup W
    /\ QueueStep(Parent[c], ToSet(waiting[Parent[c]]) \ W)
    /\ active' \in [Executions -> Nat]
    /\ \A q \in Executions \ {Parent[c]} : active'[q] = active[q]
    /\ \/ /\ W = {}
          /\ ToSet(waiting[Parent[c]]) = {}
          /\ active'[Parent[c]] = active[Parent[c]] - 1
       \/ \E w \in ToSet(waiting[Parent[c]]) : W = {w} /\ active'[Parent[c]] = active[Parent[c]]

LEMMA HandoverFacts ==
    ASSUME IInv, NEW c \in Calls, Leaves(c)
    PROVE  /\ pc[c] \in WithChild \/ c \in granted
           /\ \A p \in Executions : c \notin ToSet(waiting[p])
           /\ \E W \in SUBSET ToSet(waiting[Parent[c]]) : Handover(c, W)
  <1> DEFINE p == Parent[c]
  <1>1. p \in Executions
    BY DelegationAssumption
  <1>2. pc[c] \in WithChild \/ c \in granted
    BY DEF Leaves, EnterFails, Settle, CancelledWithChild
  <1>3. \A q \in Executions : c \notin ToSet(waiting[q])
    BY <1>2 DEF IInv, Queues, WithChild
  <1>4. active[p] \in Nat \ {0}
    BY <1>2, HolderCounts DEF IInv
  <1>5. pc' = [pc EXCEPT ![c] = "done"]
    BY DEF Leaves, EnterFails, Settle, CancelledWithChild
  <1>6. PICK used \in {{}, {c}} : Release(p, used) /\ (used = {} => c \notin granted)
    <2>1. CASE EnterFails(c)
      BY <2>1 DEF EnterFails
    <2>2. CASE Settle(c) \/ CancelledWithChild(c)
      BY <2>2 DEF Settle, CancelledWithChild, IInv, Grants, WithChild
    <2> QED BY <2>1, <2>2 DEF Leaves
  <1>7. Released(p, used) /\ granted \ used = granted \ {c}
    BY <1>1, <1>4, <1>6, ReleaseFacts DEF IInv
  <1>8. CASE ToSet(waiting[p]) = {} /\ QueueStep(p,
        {}) /\ granted' = granted \ used /\ active'[p] = active[p] - 1
    <2>1. ToSet(waiting[p]) \ {} = {}
      BY <1>8
    <2>2. Handover(c, {})
      BY <1>5, <1>7, <1>8, <2>1 DEF Handover, Released
    <2> QED BY <1>2, <1>3, <2>2
  <1>9. ASSUME NEW w \in ToSet(waiting[p]), QueueStep(p, ToSet(waiting[p]) \ {w}),
               granted' = (granted \ used) \cup {w}, active'[p] = active[p]
        PROVE  Handover(c, {w})
    BY <1>5, <1>7, <1>9 DEF Handover, Released
  <1> QED BY <1>2, <1>3, <1>7, <1>8, <1>9 DEF Released

(***************************************************************************)
(* Preservation.                                                           *)
(***************************************************************************)

(* Types *)
LEMMA TypePreserved ==
    ASSUME IInv, Next
    PROVE  TypeOK'
  <1> USE DelegationAssumption DEF IInv, TypeOK, Phases, Underway, WithChild, Runners,
        Ended, Terminal, Executions, slots, ChildrenUnderway
  <1>1. ASSUME NEW c \in Calls, Refused(c) PROVE TypeOK'
    BY <1>1 DEF Refused, Calling
  <1>2. ASSUME NEW c \in Calls, Begin(c) PROVE TypeOK'
    BY <1>2 DEF Begin, Calling, StartChild
  <1>3. ASSUME NEW c \in Calls, Enqueue(c) PROVE TypeOK'
    <2>1. Parent[c] \in Executions /\ QueueStep(Parent[c],
          ToSet(waiting[Parent[c]]) \cup {c})
      BY <1>3, EnqueueFacts
    <2> QED BY <1>3, <2>1 DEF QueueStep, Enqueue, Calling
  <1>4. ASSUME NEW c \in Calls, LeaveQueue(c) PROVE TypeOK'
    <2>1. Parent[c] \in Executions /\ QueueStep(Parent[c], ToSet(waiting[Parent[c]]) \ {c})
      BY <1>4, LeaveFacts
    <2> QED BY <1>4, <2>1 DEF QueueStep, LeaveQueue
  <1>5. ASSUME NEW c \in Calls, Enter(c) PROVE TypeOK'
    BY <1>5 DEF Enter, StartChild
  <1>6. ASSUME NEW c \in Calls, CancelledInQueue(c) PROVE TypeOK'
    BY <1>6 DEF CancelledInQueue
  <1>7. ASSUME NEW c \in Calls, Expire(c) PROVE TypeOK'
    BY <1>7 DEF Expire
  <1>8. ASSUME NEW c \in Calls, SeeToken(c) PROVE TypeOK'
    BY <1>8 DEF SeeToken
  <1>9. ASSUME NEW e \in Executions, RunnerStops(e) PROVE TypeOK'
    BY <1>9 DEF RunnerStops
  <1>10. ASSUME NEW e \in Executions, RunnerRetries(e) PROVE TypeOK'
    BY <1>10 DEF RunnerRetries
  <1>11. ASSUME NEW e \in Executions, RunnerReturns(e) PROVE TypeOK'
    BY <1>11 DEF RunnerReturns
  <1>12. ASSUME NEW e \in Executions, RunnerGivesUp(e) PROVE TypeOK'
    BY <1>12 DEF RunnerGivesUp
  <1>13. ASSUME CancelRun PROVE TypeOK'
    BY <1>13 DEF CancelRun, CancelTree
  <1>14. ASSUME CancelTeam PROVE TypeOK'
    BY <1>14 DEF CancelTeam
  <1>15. ASSUME SettleRoot PROVE TypeOK'
    BY <1>15 DEF SettleRoot, Finalize, RootOutcome
  <1>16. ASSUME TeamBreaks PROVE TypeOK'
    BY <1>16 DEF TeamBreaks, CancelTree
  <1>17. ASSUME NEW c \in Calls, Leaves(c) PROVE TypeOK'
    <2>1. /\ Parent[c] \in Executions
          /\ pc[c] \in WithChild \/ c \in granted
          /\ \A p \in Executions : c \notin ToSet(waiting[p])
      BY <1>17, HandoverFacts
    <2>2. PICK W \in SUBSET ToSet(waiting[Parent[c]]) : Handover(c, W)
      BY <1>17, HandoverFacts
    <2>3. W \subseteq Calls
      BY <2>1, <2>2 DEF Queues
    <2>4. /\ active' \in [Executions -> Nat]
          /\ waiting' \in [Executions -> Seq(Calls)]
          /\ granted' \subseteq Calls
          /\ pc' \in [Calls -> Phases]
      BY <2>2, <2>3 DEF Handover, QueueStep
    <2>5. exec' \in [Executions -> {"none", "running"} \cup Terminal]
      <3>1. exec' = exec \/ \E status \in Terminal : Finalize(c, status)
        BY <1>17 DEF Leaves, EnterFails, Settle, CancelledWithChild, Outcomes
      <3> QED BY <3>1 DEF Finalize
    <2>6. UNCHANGED <<kind, tree, token, cancelled, runner, stopped>>
      BY <1>17 DEF Leaves, EnterFails, Settle, CancelledWithChild
    <2> QED BY <2>4, <2>5, <2>6
  <1> QED
    BY <1>1, <1>2, <1>3, <1>4, <1>5, <1>6, <1>7, <1>8, <1>9, <1>10, <1>11, <1>12, <1>13,
          <1>14, <1>15, <1>16, <1>17 DEF Next, CallStep, RunnerStep, Leaves

(* Queues: who is granted a slot, or gives up, is in the queue no more. *)
LEMMA QueuesPreserved ==
    ASSUME IInv, Next
    PROVE  Queues'
  <1> USE DelegationAssumption DEF IInv, TypeOK, Queues, Grants, Underway, WithChild, slots
  <1>1. ASSUME NEW c \in Calls, Refused(c) PROVE Queues'
    BY <1>1 DEF Refused, Calling
  <1>2. ASSUME NEW c \in Calls, Begin(c) PROVE Queues'
    BY <1>2 DEF Begin, Calling, StartChild
  <1>3. ASSUME NEW c \in Calls, Enqueue(c) PROVE Queues'
    <2>1. Parent[c] \in Executions /\ QueueStep(Parent[c],
          ToSet(waiting[Parent[c]]) \cup {c})
      BY <1>3, EnqueueFacts
    <2> QED BY <1>3, <2>1 DEF QueueStep, Enqueue, Calling
  <1>4. ASSUME NEW c \in Calls, LeaveQueue(c) PROVE Queues'
    <2>1. Parent[c] \in Executions /\ QueueStep(Parent[c], ToSet(waiting[Parent[c]]) \ {c})
      BY <1>4, LeaveFacts
    <2> QED BY <1>4, <2>1 DEF QueueStep, LeaveQueue
  <1>5. ASSUME NEW c \in Calls, Enter(c) PROVE Queues'
    BY <1>5 DEF Enter, StartChild
  <1>6. ASSUME NEW c \in Calls, CancelledInQueue(c) PROVE Queues'
    BY <1>6 DEF CancelledInQueue
  <1>7. ASSUME NEW c \in Calls, Expire(c) PROVE Queues'
    BY <1>7 DEF Expire
  <1>8. ASSUME NEW c \in Calls, SeeToken(c) PROVE Queues'
    BY <1>8 DEF SeeToken
  <1>9. ASSUME NEW e \in Executions, RunnerStops(e) PROVE Queues'
    BY <1>9 DEF RunnerStops
  <1>10. ASSUME NEW e \in Executions, RunnerRetries(e) PROVE Queues'
    BY <1>10 DEF RunnerRetries
  <1>11. ASSUME NEW e \in Executions, RunnerReturns(e) PROVE Queues'
    BY <1>11 DEF RunnerReturns
  <1>12. ASSUME NEW e \in Executions, RunnerGivesUp(e) PROVE Queues'
    BY <1>12 DEF RunnerGivesUp
  <1>13. ASSUME CancelRun PROVE Queues'
    BY <1>13 DEF CancelRun, CancelTree
  <1>14. ASSUME CancelTeam PROVE Queues'
    BY <1>14 DEF CancelTeam
  <1>15. ASSUME SettleRoot PROVE Queues'
    BY <1>15 DEF SettleRoot, Finalize, RootOutcome
  <1>16. ASSUME TeamBreaks PROVE Queues'
    BY <1>16 DEF TeamBreaks, CancelTree
  <1>17. ASSUME NEW c \in Calls, Leaves(c) PROVE Queues'
    <2>1. /\ Parent[c] \in Executions
          /\ pc[c] \in WithChild \/ c \in granted
          /\ \A p \in Executions : c \notin ToSet(waiting[p])
      BY <1>17, HandoverFacts
    <2>2. PICK W \in SUBSET ToSet(waiting[Parent[c]]) : Handover(c, W)
      BY <1>17, HandoverFacts
    <2>3. ASSUME NEW q \in Executions, NEW x \in ToSet(waiting'[q])
          PROVE  x \in ToSet(waiting[q]) /\ x \notin W
      <3>1. CASE q = Parent[c]
        BY <2>2, <2>3, <3>1 DEF Handover, QueueStep
      <3>2. CASE q # Parent[c]
        <4>1. x \in ToSet(waiting[q])
          BY <2>2, <2>3, <3>2 DEF Handover, QueueStep
        <4>2. Parent[x] = q /\ \A w \in W : Parent[w] = Parent[c]
          BY <2>1, <4>1
        <4> QED BY <3>2, <4>1, <4>2
      <3> QED BY <3>1, <3>2
    <2>4. cancelled' = cancelled
      BY <1>17 DEF Leaves, EnterFails, Settle, CancelledWithChild
    <2> QED BY <2>1, <2>2, <2>3, <2>4 DEF Handover, QueueStep
  <1> QED
    BY <1>1, <1>2, <1>3, <1>4, <1>5, <1>6, <1>7, <1>8, <1>9, <1>10, <1>11, <1>12, <1>13,
          <1>14, <1>15, <1>16, <1>17 DEF Next, CallStep, RunnerStep, Leaves

(* Queues: a slot is freed only when nobody queues for it. *)
LEMMA FullPreserved ==
    ASSUME IInv, Next
    PROVE  Full'
  <1> USE DelegationAssumption DEF IInv, TypeOK, Full, slots
  <1>1. ASSUME NEW c \in Calls, Refused(c) PROVE Full'
    BY <1>1 DEF Refused, Calling
  <1>2. ASSUME NEW c \in Calls, Begin(c) PROVE Full'
    <2>1. Parent[c] \in Executions /\ active[Parent[c]] \in Nat /\ active[Parent[c]] # Limit
      BY <1>2 DEF Begin
    <2>2. ToSet(waiting[Parent[c]]) = {}
      BY <2>1
    <2> QED BY <1>2, <2>1, <2>2 DEF Begin
  <1>3. ASSUME NEW c \in Calls, Enqueue(c) PROVE Full'
    <2>1. Parent[c] \in Executions /\ QueueStep(Parent[c],
          ToSet(waiting[Parent[c]]) \cup {c})
      BY <1>3, EnqueueFacts
    <2>2. active[Parent[c]] = Limit
      BY <1>3, <2>1 DEF Enqueue, SlotAccounting
    <2> QED BY <1>3, <2>1, <2>2 DEF QueueStep, Enqueue
  <1>4. ASSUME NEW c \in Calls, LeaveQueue(c) PROVE Full'
    <2>1. Parent[c] \in Executions /\ QueueStep(Parent[c], ToSet(waiting[Parent[c]]) \ {c})
      BY <1>4, LeaveFacts
    <2>2. active' = active /\ \A p \in Executions : ToSet(waiting'[p]) \subseteq ToSet(waiting[p])
      BY <1>4, <2>1 DEF QueueStep, LeaveQueue
    <2> QED BY <2>2
  <1>5. ASSUME NEW c \in Calls, Enter(c) PROVE Full'
    BY <1>5 DEF Enter, StartChild
  <1>6. ASSUME NEW c \in Calls, CancelledInQueue(c) PROVE Full'
    BY <1>6 DEF CancelledInQueue
  <1>7. ASSUME NEW c \in Calls, Expire(c) PROVE Full'
    BY <1>7 DEF Expire
  <1>8. ASSUME NEW c \in Calls, SeeToken(c) PROVE Full'
    BY <1>8 DEF SeeToken
  <1>9. ASSUME NEW e \in Executions, RunnerStops(e) PROVE Full'
    BY <1>9 DEF RunnerStops
  <1>10. ASSUME NEW e \in Executions, RunnerRetries(e) PROVE Full'
    BY <1>10 DEF RunnerRetries
  <1>11. ASSUME NEW e \in Executions, RunnerReturns(e) PROVE Full'
    BY <1>11 DEF RunnerReturns
  <1>12. ASSUME NEW e \in Executions, RunnerGivesUp(e) PROVE Full'
    BY <1>12 DEF RunnerGivesUp
  <1>13. ASSUME CancelRun PROVE Full'
    BY <1>13 DEF CancelRun, CancelTree
  <1>14. ASSUME CancelTeam PROVE Full'
    BY <1>14 DEF CancelTeam
  <1>15. ASSUME SettleRoot PROVE Full'
    BY <1>15 DEF SettleRoot, Finalize, RootOutcome
  <1>16. ASSUME TeamBreaks PROVE Full'
    BY <1>16 DEF TeamBreaks, CancelTree
  <1>17. ASSUME NEW c \in Calls, Leaves(c) PROVE Full'
    <2>1. /\ Parent[c] \in Executions
          /\ pc[c] \in WithChild \/ c \in granted
          /\ \A p \in Executions : c \notin ToSet(waiting[p])
      BY <1>17, HandoverFacts
    <2>2. PICK W \in SUBSET ToSet(waiting[Parent[c]]) : Handover(c, W)
      BY <1>17, HandoverFacts
    <2>3. \A p \in Executions \ {Parent[c]} :
             active'[p] = active[p] /\ ToSet(waiting'[p]) = ToSet(waiting[p])
      BY <2>2 DEF Handover, QueueStep
    <2>4. ToSet(waiting'[Parent[c]]) # {} =>
             active'[Parent[c]] = active[Parent[c]] /\ ToSet(waiting[Parent[c]]) # {}
      BY <2>2 DEF Handover, QueueStep
    <2> QED BY <2>3, <2>4
  <1> QED
    BY <1>1, <1>2, <1>3, <1>4, <1>5, <1>6, <1>7, <1>8, <1>9, <1>10, <1>11, <1>12, <1>13,
          <1>14, <1>15, <1>16, <1>17 DEF Next, CallStep, RunnerStep, Leaves

(* Queues: nobody else takes a call from its queue without a grant. *)
LEMMA TurnsPreserved ==
    ASSUME IInv, Next
    PROVE  Turns'
  <1> USE DelegationAssumption DEF IInv, TypeOK, Turns, slots
  <1>1. ASSUME NEW c \in Calls, Refused(c) PROVE Turns'
    BY <1>1 DEF Refused, Calling
  <1>2. ASSUME NEW c \in Calls, Begin(c) PROVE Turns'
    BY <1>2 DEF Begin, Calling, StartChild
  <1>3. ASSUME NEW c \in Calls, Enqueue(c) PROVE Turns'
    <2>1. Parent[c] \in Executions /\ QueueStep(Parent[c],
          ToSet(waiting[Parent[c]]) \cup {c})
      BY <1>3, EnqueueFacts
    <2> QED BY <1>3, <2>1 DEF QueueStep, Enqueue, Calling
  <1>4. ASSUME NEW c \in Calls, LeaveQueue(c) PROVE Turns'
    <2>1. Parent[c] \in Executions /\ QueueStep(Parent[c], ToSet(waiting[Parent[c]]) \ {c})
      BY <1>4, LeaveFacts
    <2> QED BY <1>4, <2>1 DEF QueueStep, LeaveQueue
  <1>5. ASSUME NEW c \in Calls, Enter(c) PROVE Turns'
    BY <1>5 DEF Enter, StartChild
  <1>6. ASSUME NEW c \in Calls, CancelledInQueue(c) PROVE Turns'
    BY <1>6 DEF CancelledInQueue
  <1>7. ASSUME NEW c \in Calls, Expire(c) PROVE Turns'
    BY <1>7 DEF Expire
  <1>8. ASSUME NEW c \in Calls, SeeToken(c) PROVE Turns'
    BY <1>8 DEF SeeToken
  <1>9. ASSUME NEW e \in Executions, RunnerStops(e) PROVE Turns'
    BY <1>9 DEF RunnerStops
  <1>10. ASSUME NEW e \in Executions, RunnerRetries(e) PROVE Turns'
    BY <1>10 DEF RunnerRetries
  <1>11. ASSUME NEW e \in Executions, RunnerReturns(e) PROVE Turns'
    BY <1>11 DEF RunnerReturns
  <1>12. ASSUME NEW e \in Executions, RunnerGivesUp(e) PROVE Turns'
    BY <1>12 DEF RunnerGivesUp
  <1>13. ASSUME CancelRun PROVE Turns'
    BY <1>13 DEF CancelRun, CancelTree
  <1>14. ASSUME CancelTeam PROVE Turns'
    BY <1>14 DEF CancelTeam
  <1>15. ASSUME SettleRoot PROVE Turns'
    BY <1>15 DEF SettleRoot, Finalize, RootOutcome
  <1>16. ASSUME TeamBreaks PROVE Turns'
    BY <1>16 DEF TeamBreaks, CancelTree
  <1>17. ASSUME NEW c \in Calls, Leaves(c) PROVE Turns'
    <2>1. /\ Parent[c] \in Executions
          /\ pc[c] \in WithChild \/ c \in granted
          /\ \A p \in Executions : c \notin ToSet(waiting[p])
      BY <1>17, HandoverFacts
    <2>2. PICK W \in SUBSET ToSet(waiting[Parent[c]]) : Handover(c, W)
      BY <1>17, HandoverFacts
    <2>3. ASSUME NEW x \in Calls, pc'[x] = "queued", x \notin granted'
          PROVE  x \in ToSet(waiting'[Parent[x]])
      <3>1. x # c /\ pc[x] = "queued" /\ x \notin granted /\ x \notin W
        BY <2>2, <2>3 DEF Handover
      <3>2. x \in ToSet(waiting[Parent[x]])
        BY <3>1
      <3> QED BY <2>2, <3>1, <3>2 DEF Handover, QueueStep
    <2> QED BY <2>3
  <1> QED
    BY <1>1, <1>2, <1>3, <1>4, <1>5, <1>6, <1>7, <1>8, <1>9, <1>10, <1>11, <1>12, <1>13,
          <1>14, <1>15, <1>16, <1>17 DEF Next, CallStep, RunnerStep, Leaves

(* Grants: only a cancelled call leaves one unused. *)
LEMMA GrantsPreserved ==
    ASSUME IInv, Next
    PROVE  Grants'
  <1> USE DelegationAssumption DEF IInv, TypeOK, Grants, WithChild, slots
  <1>1. ASSUME NEW c \in Calls, Refused(c) PROVE Grants'
    BY <1>1 DEF Refused, Calling
  <1>2. ASSUME NEW c \in Calls, Begin(c) PROVE Grants'
    BY <1>2 DEF Begin, Calling, StartChild
  <1>3. ASSUME NEW c \in Calls, Enqueue(c) PROVE Grants'
    BY <1>3 DEF Enqueue, Calling
  <1>4. ASSUME NEW c \in Calls, LeaveQueue(c) PROVE Grants'
    BY <1>4 DEF LeaveQueue
  <1>5. ASSUME NEW c \in Calls, Enter(c) PROVE Grants'
    BY <1>5 DEF Enter, StartChild
  <1>6. ASSUME NEW c \in Calls, CancelledInQueue(c) PROVE Grants'
    BY <1>6 DEF CancelledInQueue
  <1>7. ASSUME NEW c \in Calls, Expire(c) PROVE Grants'
    BY <1>7 DEF Expire
  <1>8. ASSUME NEW c \in Calls, SeeToken(c) PROVE Grants'
    BY <1>8 DEF SeeToken
  <1>9. ASSUME NEW e \in Executions, RunnerStops(e) PROVE Grants'
    BY <1>9 DEF RunnerStops
  <1>10. ASSUME NEW e \in Executions, RunnerRetries(e) PROVE Grants'
    BY <1>10 DEF RunnerRetries
  <1>11. ASSUME NEW e \in Executions, RunnerReturns(e) PROVE Grants'
    BY <1>11 DEF RunnerReturns
  <1>12. ASSUME NEW e \in Executions, RunnerGivesUp(e) PROVE Grants'
    BY <1>12 DEF RunnerGivesUp
  <1>13. ASSUME CancelRun PROVE Grants'
    BY <1>13 DEF CancelRun, CancelTree
  <1>14. ASSUME CancelTeam PROVE Grants'
    BY <1>14 DEF CancelTeam
  <1>15. ASSUME SettleRoot PROVE Grants'
    BY <1>15 DEF SettleRoot, Finalize, RootOutcome
  <1>16. ASSUME TeamBreaks PROVE Grants'
    BY <1>16 DEF TeamBreaks, CancelTree
  <1>17. ASSUME NEW c \in Calls, Leaves(c) PROVE Grants'
    <2>1. /\ Parent[c] \in Executions
          /\ pc[c] \in WithChild \/ c \in granted
          /\ \A p \in Executions : c \notin ToSet(waiting[p])
      BY <1>17, HandoverFacts
    <2>2. PICK W \in SUBSET ToSet(waiting[Parent[c]]) : Handover(c, W)
      BY <1>17, HandoverFacts
    <2>3. cancelled' = cancelled
      BY <1>17 DEF Leaves, EnterFails, Settle, CancelledWithChild
    <2>4. \A w \in W : w # c /\ (pc[w] = "queued" \/ (pc[w] = "done" /\ w \in cancelled))
      BY <2>1, <2>2 DEF Queues
    <2> QED BY <2>2, <2>3, <2>4 DEF Handover
  <1> QED
    BY <1>1, <1>2, <1>3, <1>4, <1>5, <1>6, <1>7, <1>8, <1>9, <1>10, <1>11, <1>12, <1>13,
          <1>14, <1>15, <1>16, <1>17 DEF Next, CallStep, RunnerStep, Leaves

(* Children: every way out of a call with a child finalizes it. *)
LEMMA ChildrenPreserved ==
    ASSUME IInv, Next
    PROVE  Children'
  <1> USE DelegationAssumption DEF IInv, TypeOK, Children, RunnersEndLast, Phases,
        Underway, WithChild, Terminal, Ended, Accepts, Executions
  <1>1. ASSUME NEW c \in Calls, Refused(c) PROVE Children'
    BY <1>1 DEF Refused, Calling
  <1>2. ASSUME NEW c \in Calls, Begin(c) PROVE Children'
    BY <1>2 DEF Begin, Calling, StartChild
  <1>3. ASSUME NEW c \in Calls, Enqueue(c) PROVE Children'
    BY <1>3 DEF Enqueue, Calling
  <1>4. ASSUME NEW c \in Calls, LeaveQueue(c) PROVE Children'
    BY <1>4 DEF LeaveQueue
  <1>5. ASSUME NEW c \in Calls, Enter(c) PROVE Children'
    BY <1>5 DEF Enter, StartChild
  <1>6. ASSUME NEW c \in Calls, EnterFails(c) PROVE Children'
    BY <1>6 DEF EnterFails, Release
  <1>7. ASSUME NEW c \in Calls, CancelledInQueue(c) PROVE Children'
    BY <1>7 DEF CancelledInQueue
  <1>8. ASSUME NEW c \in Calls, Expire(c) PROVE Children'
    BY <1>8 DEF Expire
  <1>9. ASSUME NEW c \in Calls, SeeToken(c) PROVE Children'
    BY <1>9 DEF SeeToken
  <1>10. ASSUME NEW c \in Calls, Settle(c) PROVE Children'
    BY <1>10 DEF Settle, Finalize, Outcomes, Release
  <1>11. ASSUME NEW c \in Calls, CancelledWithChild(c) PROVE Children'
    BY <1>11 DEF CancelledWithChild, Finalize, Release
  <1>12. ASSUME NEW e \in Executions, RunnerStops(e) PROVE Children'
    BY <1>12 DEF RunnerStops
  <1>13. ASSUME NEW e \in Executions, RunnerRetries(e) PROVE Children'
    BY <1>13 DEF RunnerRetries
  <1>14. ASSUME NEW e \in Executions, RunnerReturns(e) PROVE Children'
    BY <1>14 DEF RunnerReturns
  <1>15. ASSUME NEW e \in Executions, RunnerGivesUp(e) PROVE Children'
    BY <1>15 DEF RunnerGivesUp
  <1>16. ASSUME CancelRun PROVE Children'
    BY <1>16 DEF CancelRun, CancelTree
  <1>17. ASSUME CancelTeam PROVE Children'
    BY <1>17 DEF CancelTeam
  <1>18. ASSUME SettleRoot PROVE Children'
    BY <1>18 DEF SettleRoot, Finalize, RootOutcome
  <1>19. ASSUME TeamBreaks PROVE Children'
    BY <1>19 DEF TeamBreaks, CancelTree
  <1> QED
    BY <1>1, <1>2, <1>3, <1>4, <1>5, <1>6, <1>7, <1>8, <1>9, <1>10, <1>11, <1>12, <1>13,
          <1>14, <1>15, <1>16, <1>17, <1>18, <1>19 DEF Next, CallStep, RunnerStep

(* Runners: only a live runner makes calls. *)
LEMMA RunnersPreserved ==
    ASSUME IInv, Next
    PROVE  RunnersEndLast'
  <1> USE DelegationAssumption DEF IInv, TypeOK, RunnersEndLast, Underway, WithChild,
        Ended, ChildrenUnderway, Executions
  <1>1. ASSUME NEW c \in Calls, Refused(c) PROVE RunnersEndLast'
    BY <1>1 DEF Refused, Calling
  <1>2. ASSUME NEW c \in Calls, Begin(c) PROVE RunnersEndLast'
    BY <1>2 DEF Begin, Calling, StartChild
  <1>3. ASSUME NEW c \in Calls, Enqueue(c) PROVE RunnersEndLast'
    BY <1>3 DEF Enqueue, Calling
  <1>4. ASSUME NEW c \in Calls, LeaveQueue(c) PROVE RunnersEndLast'
    BY <1>4 DEF LeaveQueue
  <1>5. ASSUME NEW c \in Calls, Enter(c) PROVE RunnersEndLast'
    BY <1>5 DEF Enter, StartChild
  <1>6. ASSUME NEW c \in Calls, EnterFails(c) PROVE RunnersEndLast'
    BY <1>6 DEF EnterFails, Release
  <1>7. ASSUME NEW c \in Calls, CancelledInQueue(c) PROVE RunnersEndLast'
    BY <1>7 DEF CancelledInQueue
  <1>8. ASSUME NEW c \in Calls, Expire(c) PROVE RunnersEndLast'
    BY <1>8 DEF Expire
  <1>9. ASSUME NEW c \in Calls, SeeToken(c) PROVE RunnersEndLast'
    BY <1>9 DEF SeeToken
  <1>10. ASSUME NEW c \in Calls, Settle(c) PROVE RunnersEndLast'
    BY <1>10 DEF Settle, Finalize, Outcomes, Release
  <1>11. ASSUME NEW c \in Calls, CancelledWithChild(c) PROVE RunnersEndLast'
    BY <1>11 DEF CancelledWithChild, Finalize, Release
  <1>12. ASSUME NEW e \in Executions, RunnerStops(e) PROVE RunnersEndLast'
    BY <1>12 DEF RunnerStops
  <1>13. ASSUME NEW e \in Executions, RunnerRetries(e) PROVE RunnersEndLast'
    BY <1>13 DEF RunnerRetries
  <1>14. ASSUME NEW e \in Executions, RunnerReturns(e) PROVE RunnersEndLast'
    BY <1>14 DEF RunnerReturns
  <1>15. ASSUME NEW e \in Executions, RunnerGivesUp(e) PROVE RunnersEndLast'
    BY <1>15 DEF RunnerGivesUp
  <1>16. ASSUME CancelRun PROVE RunnersEndLast'
    BY <1>16 DEF CancelRun, CancelTree
  <1>17. ASSUME CancelTeam PROVE RunnersEndLast'
    BY <1>17 DEF CancelTeam
  <1>18. ASSUME SettleRoot PROVE RunnersEndLast'
    BY <1>18 DEF SettleRoot, Finalize, RootOutcome
  <1>19. ASSUME TeamBreaks PROVE RunnersEndLast'
    BY <1>19 DEF TeamBreaks, CancelTree
  <1> QED
    BY <1>1, <1>2, <1>3, <1>4, <1>5, <1>6, <1>7, <1>8, <1>9, <1>10, <1>11, <1>12, <1>13,
          <1>14, <1>15, <1>16, <1>17, <1>18, <1>19 DEF Next, CallStep, RunnerStep

(* The tree: an execution settles when its runner has ended, and the Run's
   cancellation ends all of them at once. *)
LEMMA ParentsPreserved ==
    ASSUME IInv, Next
    PROVE  ParentsEndLast'
  <1> USE DelegationAssumption DEF IInv, TypeOK, ParentsEndLast, Children, RunnersEndLast,
        Phases, Underway, WithChild, Terminal, Ended, Accepts, Executions
  <1>1. ASSUME NEW c \in Calls, Refused(c) PROVE ParentsEndLast'
    BY <1>1 DEF Refused, Calling
  <1>2. ASSUME NEW c \in Calls, Begin(c) PROVE ParentsEndLast'
    BY <1>2 DEF Begin, Calling, StartChild
  <1>3. ASSUME NEW c \in Calls, Enqueue(c) PROVE ParentsEndLast'
    BY <1>3 DEF Enqueue, Calling
  <1>4. ASSUME NEW c \in Calls, LeaveQueue(c) PROVE ParentsEndLast'
    BY <1>4 DEF LeaveQueue
  <1>5. ASSUME NEW c \in Calls, Enter(c) PROVE ParentsEndLast'
    BY <1>5 DEF Enter, StartChild
  <1>6. ASSUME NEW c \in Calls, EnterFails(c) PROVE ParentsEndLast'
    BY <1>6 DEF EnterFails, Release
  <1>7. ASSUME NEW c \in Calls, CancelledInQueue(c) PROVE ParentsEndLast'
    BY <1>7 DEF CancelledInQueue
  <1>8. ASSUME NEW c \in Calls, Expire(c) PROVE ParentsEndLast'
    BY <1>8 DEF Expire
  <1>9. ASSUME NEW c \in Calls, SeeToken(c) PROVE ParentsEndLast'
    BY <1>9 DEF SeeToken
  <1>10. ASSUME NEW c \in Calls, Settle(c) PROVE ParentsEndLast'
    BY <1>10 DEF Settle, Finalize, Outcomes, Release
  <1>11. ASSUME NEW c \in Calls, CancelledWithChild(c) PROVE ParentsEndLast'
    BY <1>11 DEF CancelledWithChild, Finalize, Release
  <1>12. ASSUME NEW e \in Executions, RunnerStops(e) PROVE ParentsEndLast'
    BY <1>12 DEF RunnerStops
  <1>13. ASSUME NEW e \in Executions, RunnerRetries(e) PROVE ParentsEndLast'
    BY <1>13 DEF RunnerRetries
  <1>14. ASSUME NEW e \in Executions, RunnerReturns(e) PROVE ParentsEndLast'
    BY <1>14 DEF RunnerReturns
  <1>15. ASSUME NEW e \in Executions, RunnerGivesUp(e) PROVE ParentsEndLast'
    BY <1>15 DEF RunnerGivesUp
  <1>16. ASSUME CancelRun PROVE ParentsEndLast'
    BY <1>16 DEF CancelRun, CancelTree
  <1>17. ASSUME CancelTeam PROVE ParentsEndLast'
    BY <1>17 DEF CancelTeam
  <1>18. ASSUME SettleRoot PROVE ParentsEndLast'
    BY <1>18 DEF SettleRoot, Finalize, RootOutcome
  <1>19. ASSUME TeamBreaks PROVE ParentsEndLast'
    BY <1>19 DEF TeamBreaks, CancelTree
  <1> QED
    BY <1>1, <1>2, <1>3, <1>4, <1>5, <1>6, <1>7, <1>8, <1>9, <1>10, <1>11, <1>12, <1>13,
          <1>14, <1>15, <1>16, <1>17, <1>18, <1>19 DEF Next, CallStep, RunnerStep

(* Slots: the calls that hold one change with the counter. *)
LEMMA SlotsPreserved ==
    ASSUME IInv, Next
    PROVE  SlotAccounting'
  <1> DEFINE H(p) == {c \in Calls : Parent[c] = p /\ (pc'[c] \in WithChild \/ c \in granted')}
             Counted(p) == active'[p] = Cardinality(H(p)) /\ active'[p] <= Limit
  <1> USE DelegationAssumption
  <1>1. ASSUME NEW p \in Executions, H(p) = Holders(p), active'[p] = active[p]
        PROVE  Counted(p)
    BY <1>1 DEF IInv, SlotAccounting
  <1>2. ASSUME NEW c \in Calls, Begin(c) PROVE \A p \in Executions : Counted(p)
    <2> DEFINE P == Parent[c]
    <2>1. /\ P \in Executions
          /\ pc' = [pc EXCEPT ![c] = "running"]
          /\ granted' = granted
          /\ active' = [active EXCEPT ![P] = @ + 1]
          /\ active[P] \in Nat /\ active[P] < Limit
          /\ pc[c] = "idle"
      BY <1>2 DEF Begin, Calling, StartChild, IInv, TypeOK
    <2>2. H(P) = Holders(P) \cup {c} /\ c \notin Holders(P)
      BY <2>1 DEF Holders, IInv, TypeOK, Grants, WithChild
    <2>3. Cardinality(Holders(P) \cup {c}) = Cardinality(Holders(P)) + 1
      BY <2>2, FiniteHolders, FS_AddElement
    <2>4. active'[P] = active[P] + 1 /\ active[P] = Cardinality(Holders(P))
      BY <2>1 DEF IInv, TypeOK, SlotAccounting
    <2>5. Counted(P)
      <3>1. Cardinality(H(P)) = active'[P]
        BY <2>2, <2>3, <2>4
      <3>2. active[P] + 1 <= Limit
        BY <2>1
      <3> QED BY <2>4, <3>1, <3>2
    <2>6. ASSUME NEW p \in Executions \ {P} PROVE H(p) = Holders(p) /\ active'[p] = active[p]
      BY <2>1, <2>6 DEF Holders, IInv, TypeOK
    <2> QED BY <1>1, <2>5, <2>6
  <1>3. ASSUME NEW c \in Calls, Leaves(c) PROVE \A p \in Executions : Counted(p)
    <2> DEFINE P == Parent[c]
    <2>1. /\ P \in Executions
          /\ pc[c] \in WithChild \/ c \in granted
          /\ \A p \in Executions : c \notin ToSet(waiting[p])
      BY <1>3, HandoverFacts
    <2>2. PICK W \in SUBSET ToSet(waiting[P]) : Handover(c, W)
      BY <1>3, HandoverFacts
    <2>3. /\ pc' = [pc EXCEPT ![c] = "done"]
          /\ granted' = (granted \ {c}) \cup W
          /\ \A p \in Executions \ {P} : active'[p] = active[p]
      BY <2>2 DEF Handover
    <2>4. /\ c \in Holders(P)
          /\ \A w \in W : w \in Calls /\ Parent[w] = P /\ w \notin Holders(P) /\ w # c
      BY <2>1 DEF Holders, IInv, Queues, WithChild
    <2>5. H(P) = (Holders(P) \ {c}) \cup W
      BY <2>3, <2>4 DEF Holders, IInv, TypeOK, WithChild
    <2>6. ASSUME NEW p \in Executions \ {P} PROVE H(p) = Holders(p)
      BY <2>3, <2>4, <2>6 DEF Holders, IInv, TypeOK
    <2>7. /\ IsFiniteSet(Holders(P) \ {c})
          /\ Cardinality(Holders(P) \ {c}) = Cardinality(Holders(P)) - 1
      BY <2>4, FiniteHolders, FS_RemoveElement
    <2>8. active[P] = Cardinality(Holders(P)) /\ active[P] \in Nat /\ active[P] <= Limit
      BY <2>1, FiniteHolders DEF IInv, SlotAccounting
    <2>9. Counted(P)
      <3>1. CASE W = {} /\ active'[P] = active[P] - 1
        <4>1. H(P) = Holders(P) \ {c}
          BY <2>5, <3>1
        <4> QED BY <2>7, <2>8, <3>1, <4>1
      <3>2. ASSUME NEW w \in ToSet(waiting[P]), W = {w}, active'[P] = active[P]
            PROVE  Counted(P)
        <4>1. Cardinality((Holders(P) \ {c}) \cup {w}) = Cardinality(Holders(P) \ {c}) + 1
          BY <2>4, <2>7, <3>2, FS_AddElement
        <4>2. Cardinality(H(P)) = Cardinality(Holders(P)) - 1 + 1
          BY <2>5, <2>7, <3>2, <4>1
        <4> QED BY <2>8, <3>2, <4>2
      <3> QED BY <2>2, <3>1, <3>2 DEF Handover
    <2> QED BY <1>1, <2>3, <2>6, <2>9
  <1>4. ASSUME NEW c \in Calls, Refused(c)
        PROVE active' = active /\ \A p \in Executions : H(p) = Holders(p)
    BY <1>4 DEF Refused, Calling, Holders, IInv, TypeOK, Grants, Phases, Underway,
          WithChild, slots
  <1>5. ASSUME NEW c \in Calls, Enqueue(c)
        PROVE active' = active /\ \A p \in Executions : H(p) = Holders(p)
    BY <1>5 DEF Enqueue, Calling, Holders, IInv, TypeOK, Grants, Phases, Underway,
          WithChild, slots
  <1>6. ASSUME NEW c \in Calls, LeaveQueue(c)
        PROVE active' = active /\ \A p \in Executions : H(p) = Holders(p)
    BY <1>6 DEF LeaveQueue, Holders, IInv, TypeOK, Grants, Phases, Underway, WithChild,
          slots
  <1>7. ASSUME NEW c \in Calls, Enter(c)
        PROVE active' = active /\ \A p \in Executions : H(p) = Holders(p)
    BY <1>7 DEF Enter, StartChild, Holders, IInv, TypeOK, Grants, Phases, Underway,
          WithChild, slots
  <1>8. ASSUME NEW c \in Calls, CancelledInQueue(c)
        PROVE active' = active /\ \A p \in Executions : H(p) = Holders(p)
    BY <1>8 DEF CancelledInQueue, Holders, IInv, TypeOK, Grants, Phases, Underway,
          WithChild, slots
  <1>9. ASSUME NEW c \in Calls, Expire(c)
        PROVE active' = active /\ \A p \in Executions : H(p) = Holders(p)
    BY <1>9 DEF Expire, Holders, IInv, TypeOK, Grants, Phases, Underway, WithChild, slots
  <1>10. ASSUME NEW c \in Calls, SeeToken(c)
        PROVE active' = active /\ \A p \in Executions : H(p) = Holders(p)
    BY <1>10 DEF SeeToken, Holders, IInv, TypeOK, Grants, Phases, Underway, WithChild, slots
  <1>11. ASSUME NEW e \in Executions, RunnerStops(e)
        PROVE active' = active /\ \A p \in Executions : H(p) = Holders(p)
    BY <1>11 DEF RunnerStops, Holders, IInv, TypeOK, Grants, Phases, Underway, WithChild,
          slots
  <1>12. ASSUME NEW e \in Executions, RunnerRetries(e)
        PROVE active' = active /\ \A p \in Executions : H(p) = Holders(p)
    BY <1>12 DEF RunnerRetries, Holders, IInv, TypeOK, Grants, Phases, Underway, WithChild,
          slots
  <1>13. ASSUME NEW e \in Executions, RunnerReturns(e)
        PROVE active' = active /\ \A p \in Executions : H(p) = Holders(p)
    BY <1>13 DEF RunnerReturns, Holders, IInv, TypeOK, Grants, Phases, Underway, WithChild,
          slots
  <1>14. ASSUME NEW e \in Executions, RunnerGivesUp(e)
        PROVE active' = active /\ \A p \in Executions : H(p) = Holders(p)
    BY <1>14 DEF RunnerGivesUp, Holders, IInv, TypeOK, Grants, Phases, Underway, WithChild,
          slots
  <1>15. ASSUME CancelRun PROVE active' = active /\ \A p \in Executions : H(p) = Holders(p)
    BY <1>15 DEF CancelRun, Holders, IInv, TypeOK, Grants, Phases, Underway, WithChild,
          slots
  <1>16. ASSUME CancelTeam PROVE active' = active /\ \A p \in Executions : H(p) = Holders(p)
    BY <1>16 DEF CancelTeam, Holders, IInv, TypeOK, Grants, Phases, Underway, WithChild,
          slots
  <1>17. ASSUME SettleRoot PROVE active' = active /\ \A p \in Executions : H(p) = Holders(p)
    BY <1>17 DEF SettleRoot, Holders, IInv, TypeOK, Grants, Phases, Underway, WithChild,
          slots
  <1>18. ASSUME TeamBreaks PROVE active' = active /\ \A p \in Executions : H(p) = Holders(p)
    BY <1>18 DEF TeamBreaks, Holders, IInv, TypeOK, Grants, Phases, Underway, WithChild,
          slots
  <1>19. \A p \in Executions : Counted(p)
    <2>1. ASSUME active' = active /\ \A p \in Executions : H(p) = Holders(p)
          PROVE  \A p \in Executions : Counted(p)
      BY <1>1, <2>1
    <2> HIDE DEF H, Counted
    <2> QED BY <2>1, <1>2, <1>3, <1>4, <1>5, <1>6, <1>7, <1>8, <1>9, <1>10, <1>11, <1>12,
          <1>13, <1>14, <1>15, <1>16, <1>17, <1>18 DEF Next, CallStep, RunnerStep, Leaves
  <1> QED BY <1>19, GrantsPreserved DEF SlotAccounting, Holders, Grants

(***************************************************************************)
(* The invariant and what follows from it.                                 *)
(***************************************************************************)

LEMMA InitEstablishes == Init => IInv
  <1> SUFFICES ASSUME Init PROVE IInv
    OBVIOUS
  <1> USE DelegationAssumption DEF Init, Executions
  <1>1. TypeOK
    <2>1. <<>> \in Seq(Calls)
      OBVIOUS
    <2>2. active \in [Executions -> Nat] /\ waiting \in [Executions -> Seq(Calls)]
      BY <2>1
    <2>3. exec \in [Executions -> {"none", "running"} \cup Terminal]
      OBVIOUS
    <2>4. pc \in [Calls -> Phases] /\ runner \in [Executions -> Runners]
      BY DEF Phases, Runners
    <2> QED BY <2>2, <2>3, <2>4 DEF TypeOK
  <1>2. \A p \in Executions : ToSet(waiting[p]) = {} /\ IsInjective(waiting[p])
    BY DEF ToSet, IsInjective
  <1>3. Queues /\ Full /\ Turns /\ Grants
    BY <1>2 DEF Queues, Full, Turns, Grants
  <1>4. Children /\ RunnersEndLast /\ ParentsEndLast
    BY DEF Children, RunnersEndLast, ParentsEndLast, Underway, WithChild, Terminal
  <1>5. \A p \in Executions : Holders(p) = {}
    BY DEF Holders, WithChild
  <1>6. SlotAccounting
    <2>1. \A p \in Executions : active[p] = 0 /\ 0 <= Limit
      OBVIOUS
    <2>2. \A p \in Executions : Cardinality(Holders(p)) = 0
      BY <1>5, FS_EmptySet
    <2> QED BY <2>1, <2>2 DEF SlotAccounting
  <1> QED BY <1>1, <1>3, <1>4, <1>6 DEF IInv

LEMMA StutterPreserves ==
    ASSUME IInv, UNCHANGED vars
    PROVE  IInv'
  <1> USE DEF vars, slots, IInv
  <1>1. TypeOK'
    BY DEF TypeOK
  <1>2. Queues' /\ Full' /\ Turns' /\ Grants'
    BY DEF Queues, Full, Turns, Grants
  <1>3. Children' /\ RunnersEndLast' /\ ParentsEndLast'
    BY DEF Children, RunnersEndLast, ParentsEndLast
  <1>4. SlotAccounting'
    BY DEF SlotAccounting, Holders
  <1> QED BY <1>1, <1>2, <1>3, <1>4

(* The inductive invariant holds in every reachable state. *)
THEOREM Inductive == Spec => []IInv
  <1>1. IInv /\ [Next]_vars => IInv'
    <2>1. ASSUME IInv, Next PROVE IInv'
      BY <2>1, TypePreserved, QueuesPreserved, FullPreserved, TurnsPreserved,
            GrantsPreserved,
         ChildrenPreserved, RunnersPreserved, ParentsPreserved, SlotsPreserved DEF IInv
    <2> QED BY <2>1, StutterPreserves
  <1> QED BY InitEstablishes, <1>1, PTL DEF Spec

(* Type correctness of the delegator and the execution tree. *)
THEOREM TypeCorrect == Spec => []TypeOK
  <1>1. IInv => TypeOK
    BY DEF IInv
  <1> QED BY <1>1, Inductive, PTL

(* _acquire_slot, _release_slot_locked: the counter agrees with the calls that
   hold a slot, through every handover, time-out and cancellation. *)
THEOREM SlotsBalance == Spec => []SlotAccounting
  <1>1. IInv => SlotAccounting
    BY DEF IInv
  <1> QED BY <1>1, Inductive, PTL

(* _release_slot_locked: no slot is free while a call queues. *)
THEOREM NoIdleSlot == Spec => []QueuedMeansFull
  <1>1. IInv => QueuedMeansFull
    BY QueueIsEmpty DEF IInv, Full, QueuedMeansFull
  <1> QED BY <1>1, Inductive, PTL

(* _acquire_slot: a queued call stays in the queue until it is its turn. *)
THEOREM TurnsAreKept == Spec => []QueuedKeepsItsTurn
  <1>1. IInv => QueuedKeepsItsTurn
    BY DEF IInv, Turns, QueuedKeepsItsTurn, ToSet
  <1> QED BY <1>1, Inductive, PTL

(* The queue of _acquire_slot, in one statement. *)
THEOREM QueueServed == Spec => []QueueIsServed
  <1>1. QueuedMeansFull /\ QueuedKeepsItsTurn => QueueIsServed
    BY DEF QueueIsServed
  <1> QED BY <1>1, NoIdleSlot, TurnsAreKept, PTL

(* execute: every path ends the child. *)
THEOREM ChildrenSettle == Spec => []SettledIsTerminal
  <1>1. IInv => SettledIsTerminal
    BY DEF IInv, Children, SettledIsTerminal
  <1> QED BY <1>1, Inductive, PTL

(* The registry ends executions from the leaves up. *)
THEOREM LeavesFirst == Spec => []ParentsEndLast
  <1>1. IInv => ParentsEndLast
    BY DEF IInv
  <1> QED BY <1>1, Inductive, PTL

(* _run_with_cancellation waits for the runners that it cancels. *)
THEOREM RunnersGathered == Spec => []RunnersAreAwaited
  <1>1. IInv => RunnersAreAwaited
    BY DEF IInv, Children, RunnersAreAwaited
  <1> QED BY <1>1, Inductive, PTL

(* How executions end, in one statement. *)
THEOREM ExecutionsEndInOrder == Spec => []ExecutionsSettle
  <1>1. SettledIsTerminal /\ ParentsEndLast /\ RunnersAreAwaited => ExecutionsSettle
    BY DEF ExecutionsSettle
  <1> QED BY <1>1, ChildrenSettle, LeavesFirst, RunnersGathered, PTL

(* AgentExecutionBinding.transition and its callers: the first terminal status
   stands. *)
THEOREM TerminalStatusIsFinal == Spec => TerminalIsFinal
  <1> DEFINE Step == \A e \in Executions : exec[e] \in Terminal => exec'[e] = exec[e]
  <1>1. ASSUME IInv, Next PROVE Step
    <2> USE <1>1, DelegationAssumption DEF IInv, TypeOK, Terminal, Executions, Accepts,
          Children
    <2>1. ASSUME NEW c \in Calls, Refused(c) PROVE Step
      BY <2>1 DEF Refused, Calling
    <2>2. ASSUME NEW c \in Calls, Begin(c) PROVE Step
      BY <2>2 DEF Begin, Calling, StartChild
    <2>3. ASSUME NEW c \in Calls, Enqueue(c) PROVE Step
      BY <2>3 DEF Enqueue, Calling
    <2>4. ASSUME NEW c \in Calls, LeaveQueue(c) PROVE Step
      BY <2>4 DEF LeaveQueue
    <2>5. ASSUME NEW c \in Calls, Enter(c) PROVE Step
      BY <2>5 DEF Enter, StartChild
    <2>6. ASSUME NEW c \in Calls, EnterFails(c) PROVE Step
      BY <2>6 DEF EnterFails
    <2>7. ASSUME NEW c \in Calls, CancelledInQueue(c) PROVE Step
      BY <2>7 DEF CancelledInQueue
    <2>8. ASSUME NEW c \in Calls, Expire(c) PROVE Step
      BY <2>8 DEF Expire
    <2>9. ASSUME NEW c \in Calls, SeeToken(c) PROVE Step
      BY <2>9 DEF SeeToken
    <2>10. ASSUME NEW c \in Calls, Settle(c) PROVE Step
      BY <2>10 DEF Settle, Finalize, Outcomes
    <2>11. ASSUME NEW c \in Calls, CancelledWithChild(c) PROVE Step
      BY <2>11 DEF CancelledWithChild, Finalize
    <2>12. ASSUME NEW e \in Executions, RunnerStops(e) PROVE Step
      BY <2>12 DEF RunnerStops
    <2>13. ASSUME NEW e \in Executions, RunnerRetries(e) PROVE Step
      BY <2>13 DEF RunnerRetries
    <2>14. ASSUME NEW e \in Executions, RunnerReturns(e) PROVE Step
      BY <2>14 DEF RunnerReturns
    <2>15. ASSUME NEW e \in Executions, RunnerGivesUp(e) PROVE Step
      BY <2>15 DEF RunnerGivesUp
    <2>16. ASSUME CancelRun PROVE Step
      BY <2>16 DEF CancelRun, CancelTree
    <2>17. ASSUME CancelTeam PROVE Step
      BY <2>17 DEF CancelTeam
    <2>18. ASSUME SettleRoot PROVE Step
      BY <2>18 DEF SettleRoot, Finalize, RootOutcome
    <2>19. ASSUME TeamBreaks PROVE Step
      BY <2>19 DEF TeamBreaks, CancelTree
    <2> HIDE DEF Step
    <2> QED BY <2>1, <2>2, <2>3, <2>4, <2>5, <2>6, <2>7, <2>8, <2>9, <2>10, <2>11, <2>12,
          <2>13, <2>14, <2>15, <2>16, <2>17, <2>18, <2>19 DEF Next, CallStep, RunnerStep
  <1>2. IInv /\ [Next]_vars => [Step]_vars
    BY <1>1
  <1> QED BY <1>2, Inductive, PTL DEF Spec, TerminalIsFinal

(* execute: a slot granted before the Run was cancelled starts nothing after. *)
THEOREM NoLateStart == Spec => NoStartAfterEnd
  <1> DEFINE Step == \A c \in Calls : runner[c] = "none" /\ runner'[c] # "none" =>
                       ~token /\ exec[Parent[c]] = "running"
  <1>1. ASSUME IInv, Next PROVE Step
    <2> USE <1>1, DelegationAssumption DEF IInv, TypeOK, Executions, Accepts, Runners, Ended
    <2>1. ASSUME NEW c \in Calls, Refused(c) PROVE Step
      BY <2>1 DEF Refused, Calling
    <2>2. ASSUME NEW c \in Calls, Begin(c) PROVE Step
      BY <2>2 DEF Begin, Calling, StartChild
    <2>3. ASSUME NEW c \in Calls, Enqueue(c) PROVE Step
      BY <2>3 DEF Enqueue, Calling
    <2>4. ASSUME NEW c \in Calls, LeaveQueue(c) PROVE Step
      BY <2>4 DEF LeaveQueue
    <2>5. ASSUME NEW c \in Calls, Enter(c) PROVE Step
      BY <2>5 DEF Enter, StartChild
    <2>6. ASSUME NEW c \in Calls, EnterFails(c) PROVE Step
      BY <2>6 DEF EnterFails
    <2>7. ASSUME NEW c \in Calls, CancelledInQueue(c) PROVE Step
      BY <2>7 DEF CancelledInQueue
    <2>8. ASSUME NEW c \in Calls, Expire(c) PROVE Step
      BY <2>8 DEF Expire
    <2>9. ASSUME NEW c \in Calls, SeeToken(c) PROVE Step
      BY <2>9 DEF SeeToken
    <2>10. ASSUME NEW c \in Calls, Settle(c) PROVE Step
      BY <2>10 DEF Settle, Finalize, Outcomes
    <2>11. ASSUME NEW c \in Calls, CancelledWithChild(c) PROVE Step
      BY <2>11 DEF CancelledWithChild, Finalize
    <2>12. ASSUME NEW e \in Executions, RunnerStops(e) PROVE Step
      BY <2>12 DEF RunnerStops
    <2>13. ASSUME NEW e \in Executions, RunnerRetries(e) PROVE Step
      BY <2>13 DEF RunnerRetries
    <2>14. ASSUME NEW e \in Executions, RunnerReturns(e) PROVE Step
      BY <2>14 DEF RunnerReturns
    <2>15. ASSUME NEW e \in Executions, RunnerGivesUp(e) PROVE Step
      BY <2>15 DEF RunnerGivesUp
    <2>16. ASSUME CancelRun PROVE Step
      BY <2>16 DEF CancelRun, CancelTree
    <2>17. ASSUME CancelTeam PROVE Step
      BY <2>17 DEF CancelTeam
    <2>18. ASSUME SettleRoot PROVE Step
      BY <2>18 DEF SettleRoot, Finalize, RootOutcome
    <2>19. ASSUME TeamBreaks PROVE Step
      BY <2>19 DEF TeamBreaks, CancelTree
    <2> HIDE DEF Step
    <2> QED BY <2>1, <2>2, <2>3, <2>4, <2>5, <2>6, <2>7, <2>8, <2>9, <2>10, <2>11, <2>12,
          <2>13, <2>14, <2>15, <2>16, <2>17, <2>18, <2>19 DEF Next, CallStep, RunnerStep
  <1>2. IInv /\ [Next]_vars => [Step]_vars
    BY <1>1
  <1> QED BY <1>2, Inductive, PTL DEF Spec, NoStartAfterEnd

(* What has ended stays as it is and begets nothing. *)
THEOREM EndsAreFinal == Spec => EndIsFinal
  BY TerminalStatusIsFinal, NoLateStart DEF EndIsFinal

(***************************************************************************)
(* The refinement of FairSlots.                                            *)
(***************************************************************************)

(* What _active_by_parent counts is what FairSlots does. *)
LEMMA HoldingCounts ==
    ASSUME IInv, NEW p \in Executions
    PROVE  active[p] = Slots!Cardinality(Slots!Users(p))
  <1>1. Slots!Users(p) = Holders(p)
    BY DEF Slots!Users, Holding, Holders
  <1>2. Slots!Cardinality(Holders(p)) = Cardinality(Holders(p))
    BY DEF Slots!Cardinality, Cardinality
  <1> QED BY <1>1, <1>2 DEF IInv, SlotAccounting

(* Begin takes a slot, and there was nobody to take it from. *)
LEMMA BeginIsSeen ==
    ASSUME IInv, NEW c \in Calls, Begin(c)
    PROVE  Slots!Take(c)
  <1> DEFINE p == Parent[c]
  <1>1. p \in Executions
    BY DelegationAssumption
  <1>2. pc[c] = "idle" /\ c \notin granted
    BY DEF Begin, Calling, IInv, Grants
  <1>3. Slots!Cardinality(Slots!Users(p)) < Limit
    BY <1>1, HoldingCounts DEF Begin
  <1>4. waiting[p] = <<>>
    <2>1. active[p] # Limit
      BY <1>1, DelegationAssumption DEF Begin, IInv, TypeOK
    <2> QED BY <1>1, <2>1, QueueIsEmpty DEF IInv, Full
  <1>5. c \notin Holding
    BY <1>2 DEF Holding, WithChild
  <1>6. Holding' = Holding \cup {c}
    BY <1>2 DEF Holding, Begin, StartChild, IInv, TypeOK, WithChild
  <1> QED BY <1>3, <1>4, <1>5, <1>6 DEF Slots!Take, Begin

LEMMA EnqueueIsSeen ==
    ASSUME IInv, NEW c \in Calls, Enqueue(c)
    PROVE  Slots!LineUp(c)
  <1> DEFINE p == Parent[c]
  <1>1. p \in Executions
    BY DelegationAssumption
  <1>2. pc[c] = "idle" /\ c \notin granted
    BY DEF Enqueue, Calling, IInv, Grants
  <1>3. Slots!Cardinality(Slots!Users(p)) = Limit
    <2>1. active[p] >= Limit /\ active[p] <= Limit /\ active[p] \in Nat
      BY <1>1 DEF Enqueue, IInv, SlotAccounting, TypeOK
    <2>2. active[p] = Limit
      BY <2>1, DelegationAssumption
    <2> QED BY <1>1, <2>2, HoldingCounts
  <1>4. c \notin ToSet(waiting[p])
    BY <1>1, <1>2 DEF IInv, Queues
  <1>5. c \notin Holding
    BY <1>2 DEF Holding, WithChild
  <1>6. Holding' = Holding
    BY <1>2 DEF Holding, Enqueue, IInv, TypeOK, WithChild
  <1> QED BY <1>3, <1>4, <1>5, <1>6 DEF Slots!LineUp, Enqueue, ToSet, Slots!ToSet

LEMMA LeaveIsSeen ==
    ASSUME IInv, NEW c \in Calls, LeaveQueue(c)
    PROVE  Slots!GoAway(c)
  <1>1. Holding' = Holding
    BY DEF Holding, LeaveQueue, IInv, TypeOK, WithChild
  <1> QED BY <1>1 DEF Slots!GoAway, LeaveQueue, RemoveAt, Slots!RemoveAt

(* A call that leaves with its slot gives it to the head of the queue. *)
LEMMA ReleaseIsSeen ==
    ASSUME IInv, NEW c \in Calls, Leaves(c)
    PROVE  Slots!GiveBack(c) \/ Slots!HandOver(c)
  <1> DEFINE p == Parent[c]
             s == waiting[p]
  <1>1. p \in Executions /\ s \in Seq(Calls) /\ IsInjective(s)
    BY DelegationAssumption DEF IInv, TypeOK, Queues
  <1>2. pc[c] \in WithChild \/ c \in granted
    BY HandoverFacts
  <1>3. c \in Holding /\ c \notin ToSet(s)
    BY <1>1, <1>2, HandoverFacts DEF Holding
  <1>4. pc' = [pc EXCEPT ![c] = "done"]
    BY DEF Leaves, EnterFails, Settle, CancelledWithChild
  <1>5. PICK used \in {{}, {c}} : Release(p, used) /\ granted \ used = granted \ {c}
    <2>1. CASE EnterFails(c)
      BY <2>1 DEF EnterFails
    <2>2. CASE Settle(c) \/ CancelledWithChild(c)
      BY <2>2 DEF Settle, CancelledWithChild, IInv, Grants, WithChild
    <2> QED BY <2>1, <2>2 DEF Leaves
  <1>6. CASE s = <<>>
    <2>1. granted' = granted \ {c} /\ waiting' = waiting
      BY <1>5, <1>6 DEF Release
    <2>2. Holding' = Holding \ {c}
      BY <1>4, <2>1 DEF Holding, IInv, TypeOK, WithChild
    <2> QED BY <1>3, <1>6, <2>1, <2>2 DEF Slots!GiveBack
  <1>7. CASE s # <<>>
    <2>1. granted' = (granted \ {c}) \cup {Head(s)} /\ waiting' = [waiting EXCEPT ![p] = Tail(@)]
      BY <1>5, <1>7 DEF Release
    <2>2. Head(s) \in Calls /\ Head(s) \in ToSet(s)
      BY <1>1, <1>7, TailElements
    <2>3. Holding' = (Holding \ {c}) \cup {Head(s)}
      BY <1>3, <1>4, <2>1, <2>2 DEF Holding, IInv, TypeOK, WithChild
    <2> QED BY <1>3, <1>7, <2>1, <2>3 DEF Slots!HandOver
  <1> QED BY <1>6, <1>7

(* Every other step leaves the slots and the queues alone. *)
LEMMA OtherStepsAreUnseen ==
    ASSUME IInv, Next, \A c \in Calls : ~ (Begin(c) \/ Enqueue(c) \/ LeaveQueue(c) \/ Leaves(c))
    PROVE  UNCHANGED <<Holding, waiting>>
  <1> USE DEF Holding, IInv, TypeOK, WithChild, slots
  <1> DEFINE Unseen == UNCHANGED <<Holding, waiting>>
  <1>1. ASSUME NEW c \in Calls, Refused(c) PROVE Unseen
    BY <1>1 DEF Refused, Calling
  <1>2. ASSUME NEW c \in Calls, Enter(c) PROVE Unseen
    BY <1>2 DEF Enter, StartChild
  <1>3. ASSUME NEW c \in Calls, CancelledInQueue(c) PROVE Unseen
    BY <1>3 DEF CancelledInQueue
  <1>4. ASSUME NEW c \in Calls, Expire(c) \/ SeeToken(c) PROVE Unseen
    BY <1>4 DEF Expire, SeeToken
  <1>5. ASSUME NEW e \in Executions, RunnerStep(e) PROVE Unseen
    BY <1>5 DEF RunnerStep, RunnerStops, RunnerRetries, RunnerReturns, RunnerGivesUp
  <1>6. ASSUME CancelRun \/ CancelTeam \/ SettleRoot \/ TeamBreaks PROVE Unseen
    BY <1>6 DEF CancelRun, CancelTeam, SettleRoot, TeamBreaks
  <1> HIDE DEF Unseen
  <1>7. Unseen
    BY <1>1, <1>2, <1>3, <1>4, <1>5, <1>6 DEF Next, CallStep, Leaves
  <1> QED BY <1>7 DEF Unseen

(* AgentDelegator, seen through its slots alone, is a semaphore with a line:
   _acquire_slot and _release_slot_locked implement FairSlots. *)
THEOREM ImplementsFairSlots == Spec => SlotsGoRound
  <1>1. Init => Slots!Init
    BY DEF Init, Slots!Init, Holding, WithChild
  <1>2. IInv /\ [Next]_vars => [Slots!Next]_(Slots!vars)
    <2> SUFFICES ASSUME IInv, [Next]_vars PROVE [Slots!Next]_(Slots!vars)
      OBVIOUS
    <2>1. ASSUME UNCHANGED vars PROVE UNCHANGED Slots!vars
      BY <2>1 DEF vars, slots, Slots!vars, Holding
    <2>2. ASSUME NEW c \in Calls, Begin(c) \/ Enqueue(c) \/ LeaveQueue(c) \/ Leaves(c)
          PROVE  Slots!Next
      BY <2>2, BeginIsSeen, EnqueueIsSeen, LeaveIsSeen, ReleaseIsSeen DEF Slots!Next
    <2>3. ASSUME Next, \A c \in Calls : ~ (Begin(c) \/ Enqueue(c) \/ LeaveQueue(c) \/ Leaves(c))
          PROVE  UNCHANGED Slots!vars
      BY <2>3, OtherStepsAreUnseen DEF Slots!vars
    <2> QED BY <2>1, <2>2, <2>3
  <1> QED BY <1>1, <1>2, Inductive, PTL DEF Spec, Slots!Spec, SlotsGoRound
=============================================================================
