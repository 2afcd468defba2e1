---------------------------- MODULE AtomicStore ----------------------------
(***************************************************************************)
(* What the stores on the shared connection promise of a call: its writes  *)
(* take effect together, at most once and before it returns.  A call that  *)
(* has raised may have taken effect, or do so later, with another call.    *)
(***************************************************************************)
CONSTANTS Calls,
          Effect      \* the writes of each

VARIABLES answer,     \* "idle" before a call, then "none" until it "returned" or "raised"
          database    \* the writes that have taken effect

vars == <<answer, database>>

Effective == {c \in Calls : Effect[c] \subseteq database}

Init == answer = [c \in Calls |-> "idle"] /\ database = {}

Begin(c) == /\ answer[c] = "idle"
            /\ answer' = [answer EXCEPT ![c] = "none"]
            /\ UNCHANGED database

(* All calls of S at once: one that is under way, and others only if they raised. *)
TakeEffect(S) == /\ S # {} /\ S \cap Effective = {}
                 /\ \A c \in S : answer[c] \in {"none", "raised"}
                 /\ \A c, d \in S : c # d => "raised" \in {answer[c], answer[d]}
                 /\ database' = database \cup UNION {Effect[c] : c \in S}
                 /\ UNCHANGED answer

Return(c) == /\ answer[c] = "none" /\ c \in Effective
             /\ answer' = [answer EXCEPT ![c] = "returned"]
             /\ UNCHANGED database

Raise(c) == /\ answer[c] = "none"
            /\ answer' = [answer EXCEPT ![c] = "raised"]
            /\ UNCHANGED database

Next == \/ \E c \in Calls : Begin(c) \/ Return(c) \/ Raise(c)
        \/ \E S \in SUBSET Calls : TakeEffect(S)

Spec == Init /\ [][Next]_vars
=============================================================================
