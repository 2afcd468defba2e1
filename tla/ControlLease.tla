---------------------------- MODULE ControlLease ----------------------------
(***************************************************************************)
(* The control lease of a Host (host/control_lease.py): which Connection   *)
(* is the only input source, how many controlled operations are under way, *)
(* and which attachments are registered.  Every method of the class runs   *)
(* its body under one asyncio lock that no body suspends inside, so each   *)
(* method is one atomic action here.  A call that raises changes nothing   *)
(* and is left out: the guard of an action is the code's success path.     *)
(*                                                                         *)
(* This module declares the lease's own state; HostControl composes it     *)
(* with the attachments, the Connections and the handlers that call it.    *)
(***************************************************************************)
EXTENDS Naturals

CONSTANTS
    Owner,          \* the stdio Connection that created the Host
    Attached,       \* the Connections WebSocket handlers may create
    AttachmentIds,  \* the attachments the owner may issue
    NoConn, NoAtt   \* Python's None

ASSUME LeaseAssumption ==
    /\ Owner \notin Attached
    /\ NoConn \notin Attached \cup {Owner}
    /\ NoAtt \notin AttachmentIds

VARIABLES
    state,          \* "owner", "attached" or "revoking"
    holderConn,     \* _holder_connection_id
    holderAtt,      \* _holder_attachment_id
    permits,        \* _permits
    attConn,        \* _attachments: the Connection of a registered attachment,
                    \* NoConn where the key is absent
    attRevoked      \* _attachments: the registered attachments marked revoked

attachments == <<attConn, attRevoked>>
lease == <<state, holderConn, holderAtt, permits, attachments>>

Conns == Attached \cup {Owner}

LeaseTypeOK ==
    /\ state \in {"owner", "attached", "revoking"}
    /\ holderConn \in Conns
    /\ holderAtt \in AttachmentIds \cup {NoAtt}
    /\ permits \in Nat
    /\ attConn \in [AttachmentIds -> Attached \cup {NoConn}]
    /\ attRevoked \subseteq AttachmentIds

LeaseInit ==
    /\ state = "owner"
    /\ holderConn = Owner
    /\ holderAtt = NoAtt
    /\ permits = 0
    /\ attConn = [a \in AttachmentIds |-> NoConn]
    /\ attRevoked = {}

(***************************************************************************)
(* register_attachment: a revoked record refuses, any other is (re)bound.  *)
(***************************************************************************)
Register(a, c) ==
    /\ attConn' = IF a \in attRevoked THEN attConn ELSE [attConn EXCEPT ![a] = c]
    /\ UNCHANGED <<state, holderConn, holderAtt, permits, attRevoked>>

(***************************************************************************)
(* acquire by the Connection of a live attachment.  busy is what the       *)
(* activity provider reports of the owner, read inside the lease's lock.   *)
(***************************************************************************)
(* Mutant: the permits are not looked at. *)
AcquireOverPermits(c, a, busy) ==
    /\ attConn[a] = c /\ a \notin attRevoked
    /\ state = "owner"
    /\ ~busy
    /\ state' = "attached"
    /\ holderConn' = c
    /\ holderAtt' = a
    /\ UNCHANGED <<permits, attachments>>

Acquire(c, a, busy) ==
    /\ attConn[a] = c /\ a \notin attRevoked
    /\ state = "owner"
    /\ c # Owner
    /\ permits = 0
    /\ ~busy
    /\ state' = "attached"
    /\ holderConn' = c
    /\ holderAtt' = a
    /\ UNCHANGED <<permits, attachments>>

(***************************************************************************)
(* release by the attached holder, busy being its own activity.            *)
(***************************************************************************)
Release(c, busy) ==
    /\ state = "attached"
    /\ holderConn = c
    /\ permits = 0
    /\ ~busy
    /\ state' = "owner"
    /\ holderConn' = Owner
    /\ holderAtt' = NoAtt
    /\ UNCHANGED <<permits, attachments>>

(***************************************************************************)
(* begin_revoke: an unregistered attachment is left alone.                 *)
(***************************************************************************)
BeginRevoke(a) ==
    /\ attRevoked' = IF attConn[a] = NoConn THEN attRevoked ELSE attRevoked \cup {a}
    /\ state' = IF attConn[a] # NoConn /\ state = "attached" /\ holderAtt = a
                THEN "revoking"
                ELSE state
    /\ UNCHANGED <<holderConn, holderAtt, permits, attConn>>

(***************************************************************************)
(* connection_disconnected: revokes the attachment bound to c, if any (an  *)
(* attachment is registered once, so at most one is).                      *)
(***************************************************************************)
BoundTo(c) == {a \in AttachmentIds : attConn[a] = c}

(* Mutant: the record is revoked, the lease is not. *)
DisconnectedKeepsLease(c) ==
    /\ attRevoked' = attRevoked \cup BoundTo(c)
    /\ UNCHANGED <<state, holderConn, holderAtt, permits, attConn>>

ConnectionDisconnected(c) ==
    /\ attRevoked' = attRevoked \cup BoundTo(c)
    /\ state' = IF BoundTo(c) # {} /\ state = "attached" /\ holderConn = c
                THEN "revoking"
                ELSE state
    /\ UNCHANGED <<holderConn, holderAtt, permits, attConn>>

(***************************************************************************)
(* complete_revoke, past its wait for the permits to drain.                *)
(***************************************************************************)
ReturnsControl(a) ==
    /\ attConn[a] # NoConn
    /\ state = "revoking"
    /\ holderAtt = a

(* Mutants: no wait for the permits; the lease left in revocation. *)
CompleteRevokeAtOnce(a) ==
    /\ attConn' = [attConn EXCEPT ![a] = NoConn]
    /\ attRevoked' = attRevoked \ {a}
    /\ state' = IF ReturnsControl(a) THEN "owner" ELSE state
    /\ holderConn' = IF ReturnsControl(a) THEN Owner ELSE holderConn
    /\ holderAtt' = IF ReturnsControl(a) THEN NoAtt ELSE holderAtt
    /\ UNCHANGED permits

CompleteRevokeForgetsLease(a) ==
    /\ permits = 0
    /\ attConn' = [attConn EXCEPT ![a] = NoConn]
    /\ attRevoked' = attRevoked \ {a}
    /\ UNCHANGED <<state, holderConn, holderAtt, permits>>

CompleteRevoke(a) ==
    /\ permits = 0
    /\ attConn' = [attConn EXCEPT ![a] = NoConn]
    /\ attRevoked' = attRevoked \ {a}
    /\ state' = IF ReturnsControl(a) THEN "owner" ELSE state
    /\ holderConn' = IF ReturnsControl(a) THEN Owner ELSE holderConn
    /\ holderAtt' = IF ReturnsControl(a) THEN NoAtt ELSE holderAtt
    /\ UNCHANGED permits

(***************************************************************************)
(* permit: entering and leaving the context manager.                       *)
(***************************************************************************)
TakePermit(c) ==
    /\ state # "revoking"
    /\ holderConn = c
    /\ permits' = permits + 1
    /\ UNCHANGED <<state, holderConn, holderAtt, attachments>>

DropPermit ==
    /\ permits' = permits - 1
    /\ UNCHANGED <<state, holderConn, holderAtt, attachments>>
=============================================================================
