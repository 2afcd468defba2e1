---------------------------- MODULE HostControl -----------------------------
(***************************************************************************)
(* Who may drive a Host: the control lease composed with the attachments   *)
(* (host/attachments.py), the Connections (AgentHost.close_connection),    *)
(* the dispatch loops that run controlled operations under a permit, and   *)
(* the Runs those operations start.                                        *)
(*                                                                         *)
(* One process per dispatch loop: the owner's stdio loop and one WebSocket *)
(* handler per attached Connection; both dispatch one frame at a time,     *)
(* except that the owner's plugin installs run in the background.  A step  *)
(* is what asyncio runs between two suspensions.  close_connection and the *)
(* owner's attachment revocation each suspend several times, and are the   *)
(* two flows that race.                                                    *)
(***************************************************************************)
EXTENDS ControlLease, FiniteSets

CONSTANTS
    Runs,           \* the slots of concurrently live Runs
    PluginOps       \* background plugin operations of the owner

ASSUME HostAssumption == IsFiniteSet(Attached) /\ IsFiniteSet(PluginOps)

VARIABLES
    recState,       \* the state of each attachment's transport record
    recConn,        \* and its Connection
    kept,           \* the records still in AttachmentManager._records
    expired,        \* the records past their expires_at_ms
    connection,     \* attached Connections: not created, open, closed
    socket,         \* is the WebSocket of the Connection open
    handler,        \* where the dispatch loop of a Connection is
    background,     \* the background plugin operations under way
    revokeAt,       \* where the owner's attachment revocation is
    revokeAtt,      \* and the attachment it revokes
    closing,        \* the close_connection call that found the Connection open
    runOwner,       \* owner of the live Run in a slot
    cancelling      \* the Runs whose task has been cancelled

records == <<recState, recConn, kept, expired>>
manager == <<records, connection, socket>>
revoke == <<revokeAt, revokeAtt>>
hostVars == <<lease, manager, handler, background, revoke, closing, runOwner, cancelling>>

TypeOK ==
    /\ LeaseTypeOK
    /\ recState \in [AttachmentIds ->
                     {"unissued", "issued", "connected", "closed", "revoked"}]
    /\ recConn \in [AttachmentIds -> Attached \cup {NoConn}]
    /\ kept \subseteq AttachmentIds
    /\ expired \subseteq AttachmentIds
    /\ connection \in [Attached -> {"new", "open", "closed"}]
    /\ socket \in [Attached -> BOOLEAN]
    /\ handler \in [Conns -> {"none", "idle", "op", "started", "revoke", "gone"}]
    /\ background \subseteq PluginOps
    /\ revokeAt \in {"none", "socket", "future", "conn", "complete"}
    /\ revokeAtt \in AttachmentIds \cup {NoAtt}
    /\ closing \in [Attached -> {"none", "gather", "drain", "done"}]
    /\ runOwner \in [Runs -> Conns \cup {NoConn}]
    /\ cancelling \subseteq Runs

Init ==
    /\ LeaseInit
    /\ recState = [a \in AttachmentIds |-> "unissued"]
    /\ recConn = [a \in AttachmentIds |-> NoConn]
    /\ kept = {}
    /\ expired = {}
    /\ connection = [c \in Attached |-> "new"]
    /\ socket = [c \in Attached |-> FALSE]
    /\ handler = [c \in Conns |-> IF c = Owner THEN "idle" ELSE "none"]
    /\ background = {}
    /\ revokeAt = "none"
    /\ revokeAtt = NoAtt
    /\ closing = [c \in Attached |-> "none"]
    /\ runOwner = [r \in Runs |-> NoConn]
    /\ cancelling = {}

RunsOf(c) == {r \in Runs : runOwner[r] = c}

(* ProtocolConnection.closed, and a frame to read. *)
Reading(c) ==
    /\ handler[c] = "idle"
    /\ c # Owner => connection[c] = "open" /\ socket[c]

-----------------------------------------------------------------------------
(* Attachments.                                                            *)

(* host.attachment.create: drops every expired record, whatever its state. *)
CreateAttachment(a) ==
    /\ Reading(Owner)
    /\ recState[a] = "unissued"
    /\ recState' = [recState EXCEPT ![a] = "issued"]
    /\ kept' = (kept \ expired) \cup {a}
    /\ UNCHANGED <<lease, recConn, expired, connection, socket, handler, background, revoke, closing,
                   runOwner, cancelling>>

(* Sixty seconds pass since the attachment was issued. *)
Expire(a) ==
    /\ a \in kept \ expired
    /\ expired' = expired \cup {a}
    /\ UNCHANGED <<lease, recState, recConn, kept, connection, socket, handler, background, revoke, closing,
                   runOwner, cancelling>>

(* _handle_websocket up to its receive loop: nothing suspends between the
   check of the token and the registration with the lease. *)
Authenticate(a, c) ==
    /\ a \in kept \ expired
    /\ recState[a] = "issued"
    /\ connection[c] = "new"
    /\ recState' = [recState EXCEPT ![a] = "connected"]
    /\ recConn' = [recConn EXCEPT ![a] = c]
    /\ connection' = [connection EXCEPT ![c] = "open"]
    /\ socket' = [socket EXCEPT ![c] = TRUE]
    /\ handler' = [handler EXCEPT ![c] = "idle"]
    /\ Register(a, c)
    /\ UNCHANGED <<kept, expired, background, revoke, closing, runOwner, cancelling>>

(* The peer goes away. *)
PeerCloses(c) ==
    /\ socket[c]
    /\ socket' = [socket EXCEPT ![c] = FALSE]
    /\ UNCHANGED <<lease, records, connection, handler, background, revoke, closing,
                   runOwner, cancelling>>

-----------------------------------------------------------------------------
(* close_connection.  Only the first caller finds the Connection open; it  *)
(* suspends until the Runs it cancelled have ended, and then until the     *)
(* permits have drained.                                                   *)

BeginClose(c) ==
    /\ ConnectionDisconnected(c)
    /\ connection' = [connection EXCEPT ![c] = "closed"]
    /\ cancelling' = cancelling \cup RunsOf(c)
    /\ closing' = [closing EXCEPT ![c] = "gather"]

CloseUnlessClosed(c) ==
    IF connection[c] = "open"
    THEN BeginClose(c)
    ELSE UNCHANGED <<lease, connection, cancelling, closing>>

(* A failed send to an attached Connection: _fanout_agent_event closes it. *)
FanoutFails(c) ==
    /\ connection[c] = "open"
    /\ \E r \in Runs : runOwner[r] # NoConn
    /\ BeginClose(c)
    /\ UNCHANGED <<records, socket, handler, background, revoke, runOwner>>

(* The WebSocket handler's finally. *)
HandlerEnds(c) ==
    /\ handler[c] = "idle"
    /\ ~socket[c]
    /\ handler' = [handler EXCEPT ![c] = "gone"]
    /\ recState' = [a \in AttachmentIds |->
         IF recConn[a] = c /\ recState[a] # "revoked" THEN "closed" ELSE recState[a]]
    /\ CloseUnlessClosed(c)
    /\ UNCHANGED <<recConn, kept, expired, socket, background, revoke, runOwner>>

(* The gather over the cancelled Run tasks returns. *)
RunsGathered(c) ==
    /\ closing[c] = "gather"
    /\ RunsOf(c) \cap cancelling = {}
    /\ closing' = [closing EXCEPT ![c] = "drain"]
    /\ UNCHANGED <<lease, manager, handler, background, revoke, runOwner, cancelling>>

(* complete_revoke of the attachment that connection_disconnected named. *)
CloseCompletes(c) ==
    /\ closing[c] = "drain"
    /\ \E a \in AttachmentIds : recConn[a] = c /\ CompleteRevoke(a)
    /\ closing' = [closing EXCEPT ![c] = "done"]
    /\ UNCHANGED <<manager, handler, background, revoke, runOwner, cancelling>>

-----------------------------------------------------------------------------
(* host.attachment.revoke, on the owner's loop.                            *)

(* begin_revoke and the marking of the record, up to websocket.close().  A
   record the manager has dropped fails the request after begin_revoke. *)
BeginAttachmentRevoke(a) ==
    /\ Reading(Owner)
    /\ recState[a] # "unissued"
    /\ BeginRevoke(a)
    /\ IF a \notin kept
       THEN UNCHANGED <<recState, handler, revoke>>
       ELSE /\ recState' = [recState EXCEPT ![a] = "revoked"]
            /\ handler' = [handler EXCEPT ![Owner] = "revoke"]
            /\ revokeAt' = IF recConn[a] = NoConn THEN "complete" ELSE "socket"
            /\ revokeAtt' = a
    /\ UNCHANGED <<recConn, kept, expired, connection, socket, background, closing, runOwner, cancelling>>

RevokeClosesSocket ==
    /\ revokeAt = "socket"
    /\ socket' = [socket EXCEPT ![recConn[revokeAtt]] = FALSE]
    /\ revokeAt' = "future"
    /\ UNCHANGED <<lease, revokeAtt, records, connection, handler, background, closing, runOwner, cancelling>>

(* closed_future is awaited for at most five seconds, and only when the
   handler was alive: the wait may end before the handler does, at any time. *)
RevokeClosesConnection ==
    /\ revokeAt = "future"
    /\ revokeAt' = IF connection[recConn[revokeAtt]] = "open" THEN "conn" ELSE "complete"
    /\ CloseUnlessClosed(recConn[revokeAtt])
    /\ UNCHANGED <<revokeAtt, records, socket, handler, background, runOwner>>

RevokeConnectionClosed ==
    /\ revokeAt = "conn"
    /\ closing[recConn[revokeAtt]] = "done"
    /\ revokeAt' = "complete"
    /\ UNCHANGED <<lease, manager, revokeAtt, handler, background, closing, runOwner, cancelling>>

RevokeCompletes ==
    /\ revokeAt = "complete"
    /\ CompleteRevoke(revokeAtt)
    /\ revokeAt' = "none"
    /\ revokeAtt' = NoAtt
    /\ handler' = [handler EXCEPT ![Owner] = "idle"]
    /\ UNCHANGED <<manager, background, closing, runOwner, cancelling>>

-----------------------------------------------------------------------------
(* Control of the Host, and the operations it controls.                    *)

(* _control_activity: a starting Run also holds a permit, and a pending
   Interaction belongs to a live Run or to an operation under a permit. *)
Busy(c) == RunsOf(c) # {}

ControlAcquire(c) ==
    /\ Reading(c)
    /\ \E a \in AttachmentIds : Acquire(c, a, Busy(Owner))
    /\ UNCHANGED <<manager, handler, background, revoke, closing, runOwner, cancelling>>

ControlRelease(c) ==
    /\ Reading(c)
    /\ Release(c, Busy(c))
    /\ UNCHANGED <<manager, handler, background, revoke, closing, runOwner, cancelling>>

(* A controlled operation is dispatched under a permit. *)
BeginOperation(c) ==
    /\ Reading(c)
    /\ TakePermit(c)
    /\ handler' = [handler EXCEPT ![c] = "op"]
    /\ UNCHANGED <<manager, background, revoke, closing, runOwner, cancelling>>

(* run.start accepts a Run; neither the Connection nor the lease is looked
   at again after the Run was prepared. *)
AcceptRun(c, r) ==
    /\ handler[c] = "op"
    /\ runOwner[r] = NoConn
    /\ handler' = [handler EXCEPT ![c] = "started"]
    /\ runOwner' = [runOwner EXCEPT ![r] = c]
    /\ UNCHANGED <<lease, manager, background, revoke, closing, cancelling>>

(* run.cancel by the Run's owner. *)
CancelRun(c, r) ==
    /\ handler[c] = "op"
    /\ runOwner[r] = c
    /\ cancelling' = cancelling \cup {r}
    /\ UNCHANGED <<lease, manager, handler, background, revoke, closing, runOwner>>

EndOperation(c) ==
    /\ handler[c] \in {"op", "started"}
    /\ DropPermit
    /\ handler' = [handler EXCEPT ![c] = "idle"]
    /\ UNCHANGED <<manager, background, revoke, closing, runOwner, cancelling>>

(* The owner's loop dispatches it as a task of its own, and goes on. *)
BeginPluginOperation(p) ==
    /\ p \notin background
    /\ TakePermit(Owner)
    /\ background' = background \cup {p}
    /\ UNCHANGED <<manager, handler, revoke, closing, runOwner, cancelling>>

EndPluginOperation(p) ==
    /\ p \in background
    /\ DropPermit
    /\ background' = background \ {p}
    /\ UNCHANGED <<manager, handler, revoke, closing, runOwner, cancelling>>

(* A Run reaches its terminal state, cancelled or by itself. *)
RunEnds(r) ==
    /\ runOwner[r] # NoConn
    /\ runOwner' = [runOwner EXCEPT ![r] = NoConn]
    /\ cancelling' = cancelling \ {r}
    /\ UNCHANGED <<lease, manager, handler, background, revoke, closing>>

CancelledRunEnds(r) == r \in cancelling /\ RunEnds(r)

-----------------------------------------------------------------------------
Next ==
    \/ \E a \in AttachmentIds :
         \/ CreateAttachment(a)
         \/ Expire(a)
         \/ BeginAttachmentRevoke(a)
         \/ \E c \in Attached : Authenticate(a, c)
    \/ \E c \in Attached :
         \/ PeerCloses(c)
         \/ FanoutFails(c)
         \/ HandlerEnds(c)
         \/ RunsGathered(c)
         \/ CloseCompletes(c)
         \/ ControlAcquire(c)
         \/ ControlRelease(c)
    \/ RevokeClosesSocket
    \/ RevokeClosesConnection
    \/ RevokeConnectionClosed
    \/ RevokeCompletes
    \/ \E c \in Conns :
         \/ BeginOperation(c)
         \/ EndOperation(c)
         \/ \E r \in Runs : AcceptRun(c, r) \/ CancelRun(c, r)
    \/ \E p \in PluginOps : BeginPluginOperation(p) \/ EndPluginOperation(p)
    \/ \E r \in Runs : RunEnds(r)

(***************************************************************************)
(* The event loop runs every task that is ready, operations and cancelled  *)
(* Runs end, and the five-second wait of a revocation runs out.  Nothing   *)
(* is assumed of the peers, of the owner's requests or of other Runs.      *)
(***************************************************************************)
Fairness ==
    /\ \A c \in Attached :
         /\ WF_hostVars(HandlerEnds(c))
         /\ WF_hostVars(RunsGathered(c))
         /\ WF_hostVars(CloseCompletes(c))
    /\ WF_hostVars(RevokeClosesSocket)
    /\ WF_hostVars(RevokeClosesConnection)
    /\ WF_hostVars(RevokeConnectionClosed)
    /\ WF_hostVars(RevokeCompletes)
    /\ \A c \in Conns : WF_hostVars(EndOperation(c))
    /\ \A p \in PluginOps : WF_hostVars(EndPluginOperation(p))
    /\ \A r \in Runs : WF_hostVars(CancelledRunEnds(r))

Spec == Init /\ [][Next]_hostVars

FairSpec == Spec /\ Fairness

-----------------------------------------------------------------------------
(* Properties.                                                             *)

InOperation == {c \in Conns : handler[c] \in {"op", "started"}}

(* The permit counter of ControlLease.permit is exactly the number of
   operations between entering and leaving it: nothing leaks and nothing is
   counted twice, whatever closes or is revoked meanwhile. *)
PermitAccounting ==
    permits = Cardinality(InOperation) + Cardinality(background)

(* Every controlled operation under way belongs to the current holder:
   control never passes on while an operation of the old holder still
   changes state (the comment on the permit in _dispatch_current). *)
PermitsBelongToHolder ==
    /\ InOperation \subseteq {holderConn}
    /\ background # {} => holderConn = Owner

(* The holder is backed by an attachment record bound to it, and the record
   is live exactly while the lease is not being revoked; otherwise nothing
   would ever return control to the owner. *)
HolderIsRegistered ==
    IF state = "owner"
    THEN holderConn = Owner /\ holderAtt = NoAtt
    ELSE /\ holderAtt \in AttachmentIds
         /\ attConn[holderAtt] = holderConn
         /\ holderAtt \in attRevoked <=> state = "revoking"

(* A closed Connection, or an attachment the owner revoked, never holds an
   unrevoked lease: close_connection and the revocation each mark it before
   their first suspension. *)
RevokedNeverHolds ==
    state = "attached" =>
        /\ connection[holderConn] = "open"
        /\ recState[holderAtt] # "revoked"

(* Acquiring control cannot overtake a Run of the owner: acquire reads the
   owner's activity under the lease's lock. *)
OwnerRunsUnderOwnerControl ==
    Busy(Owner) => holderConn = Owner

(* Control changes hands only when no operation is under way, and only
   from or to the owner. *)
HandoverWhenQuiet ==
    [][holderConn' # holderConn =>
         permits = 0 /\ Owner \in {holderConn, holderConn'}]_hostVars

(* Whatever closes, is revoked or races, the permits, the records and the
   activity that acquire and release read make up ControlOfHost. *)
Promised == INSTANCE ControlOfHost
    WITH Guests <- Attached, Jobs <- PluginOps, NoClient <- NoConn,
         holder <- holderConn, losing <- state = "revoking",
         gone <- {c \in Attached : connection[c] = "closed"},
         inside <- InOperation, jobs <- background, startedBy <- runOwner
ControlIsAsPromised == Promised!Spec

(* Once an attached Connection is closed it eventually loses control: the
   close that marked it runs to the end whoever else races it. *)
ClosedLosesControl ==
    \A c \in Attached : connection[c] = "closed" ~> holderConn # c

(* The accounting and the exclusivity of permits: ControlLease.permit lets
   operations in only for the holder, and a handover waits for all of them. *)
PermitsAreTheHolders == PermitAccounting /\ PermitsBelongToHolder

(* The lease, the attachment records, the Connections and the Runs agree on
   who holds control. *)
HolderIsBacked == HolderIsRegistered /\ RevokedNeverHolds /\ OwnerRunsUnderOwnerControl
=============================================================================
