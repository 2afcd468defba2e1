------------------------- MODULE HostControlProofs --------------------------
(***************************************************************************)
(* Control of a Host is exclusive, for any number of Connections,          *)
(* attachments, Runs and background operations.                            *)
(***************************************************************************)
EXTENDS HostControl, FiniteSetTheorems, TLAPS

(***************************************************************************)
(* What the other parts of the inductive invariant rest on: how records,   *)
(* Connections, handlers and the two suspending flows go together.         *)
(***************************************************************************)
RecordsBookkeeping ==
    /\ \A a \in AttachmentIds :
         /\ recState[a] \in {"unissued", "issued"} =>
              attConn[a] = NoConn /\ recConn[a] = NoConn
         /\ attConn[a] # NoConn =>
              attConn[a] \in Attached /\ recConn[a] = attConn[a]
         /\ attConn[a] # NoConn /\ recState[a] = "revoked" =>
              a \in attRevoked
         /\ recConn[a] \in Attached => connection[recConn[a]] # "new"
    /\ \A a, b \in AttachmentIds :
         recConn[a] = recConn[b] /\ recConn[a] \in Attached => a = b

FlowBookkeeping ==
    /\ \A c \in Attached : connection[c] = "new" => handler[c] = "none"
    /\ \A c \in Attached : closing[c] # "none" => connection[c] = "closed"
    /\ revokeAt # "none" =>
         /\ revokeAtt \in AttachmentIds
         /\ recState[revokeAtt] = "revoked"
         /\ handler[Owner] = "revoke"
    /\ revokeAt \in {"socket", "future", "conn"} => recConn[revokeAtt] \in Attached

Control ==
    /\ HolderIsRegistered
    /\ RevokedNeverHolds
    /\ OwnerRunsUnderOwnerControl

IInv ==
    /\ TypeOK
    /\ RecordsBookkeeping
    /\ FlowBookkeeping
    /\ PermitAccounting
    /\ PermitsBelongToHolder
    /\ Control

(***************************************************************************)
(* Permits.  The counter of the lease is the number of operations between  *)
(* entering and leaving a permit, so it is zero exactly when there is none.*)
(***************************************************************************)

LEMMA FiniteOperations ==
    ASSUME TypeOK
    PROVE  IsFiniteSet(InOperation) /\ IsFiniteSet(background)
  <1>1. IsFiniteSet(Conns)
    BY HostAssumption, FS_AddElement DEF Conns
  <1>2. InOperation \subseteq Conns
    BY DEF InOperation
  <1>3. IsFiniteSet(InOperation)
    BY <1>1, <1>2, FS_Subset
  <1>4. IsFiniteSet(background)
    BY HostAssumption, FS_Subset DEF TypeOK
  <1> QED BY <1>3, <1>4

LEMMA PermitsCountOperations ==
    ASSUME TypeOK, PermitAccounting
    PROVE  /\ Cardinality(InOperation) \in Nat
           /\ Cardinality(background) \in Nat
           /\ permits = 0 => InOperation = {} /\ background = {}
           /\ InOperation # {} => permits >= 1
           /\ background # {} => permits >= 1
  <1>1. /\ Cardinality(InOperation) \in Nat
        /\ Cardinality(background) \in Nat
    BY FiniteOperations, FS_CardinalityType
  <1>2. /\ Cardinality(InOperation) = 0 <=> InOperation = {}
        /\ Cardinality(background) = 0 <=> background = {}
    BY FiniteOperations, FS_EmptySet
  <1> QED BY <1>1, <1>2 DEF PermitAccounting

(***************************************************************************)
(* The two parts about permits are preserved.  Only four actions enter or  *)
(* leave a permit; the actions that hand control over find no permit.      *)
(***************************************************************************)
LEMMA PermitsPreserved ==
    ASSUME IInv, Next
    PROVE  PermitAccounting' /\ PermitsBelongToHolder'
  <1> USE DEF IInv
  <1>1. ASSUME NEW a \in AttachmentIds, CreateAttachment(a)
        PROVE  PermitAccounting' /\ PermitsBelongToHolder'
    <2>1. InOperation' = InOperation /\ background' = background /\ permits' = permits
      BY <1>1, LeaseAssumption DEF CreateAttachment, InOperation, FlowBookkeeping, TypeOK,
            LeaseTypeOK, lease, manager, records, attachments, revoke, Conns
    <2>2. holderConn' = holderConn
      BY <1>1 DEF CreateAttachment, lease, manager, records, attachments, revoke
    <2> QED BY <2>1, <2>2 DEF PermitAccounting, PermitsBelongToHolder
  <1>2. ASSUME NEW a \in AttachmentIds, Expire(a)
        PROVE  PermitAccounting' /\ PermitsBelongToHolder'
    <2>1. InOperation' = InOperation /\ background' = background /\ permits' = permits
      BY <1>2, LeaseAssumption DEF Expire, InOperation, FlowBookkeeping, TypeOK,
            LeaseTypeOK, lease, manager, records, attachments, revoke, Conns
    <2>2. holderConn' = holderConn
      BY <1>2 DEF Expire, lease, manager, records, attachments, revoke
    <2> QED BY <2>1, <2>2 DEF PermitAccounting, PermitsBelongToHolder
  <1>3. ASSUME NEW a \in AttachmentIds, BeginAttachmentRevoke(a)
        PROVE  PermitAccounting' /\ PermitsBelongToHolder'
    <2>1. InOperation' = InOperation /\ background' = background /\ permits' = permits
      BY <1>3, LeaseAssumption DEF BeginAttachmentRevoke, BeginRevoke, Reading,
            InOperation, FlowBookkeeping, TypeOK, LeaseTypeOK, lease, manager, records,
            attachments, revoke, Conns
    <2>2. holderConn' = holderConn
      BY <1>3 DEF BeginAttachmentRevoke, BeginRevoke, Reading, lease, manager, records,
            attachments, revoke
    <2> QED BY <2>1, <2>2 DEF PermitAccounting, PermitsBelongToHolder
  <1>4. ASSUME NEW a \in AttachmentIds, NEW c \in Attached, Authenticate(a, c)
        PROVE  PermitAccounting' /\ PermitsBelongToHolder'
    <2>1. InOperation' = InOperation /\ background' = background /\ permits' = permits
      BY <1>4, LeaseAssumption DEF Authenticate, Register, InOperation, FlowBookkeeping,
            TypeOK, LeaseTypeOK, lease, manager, records, attachments, revoke, Conns
    <2>2. holderConn' = holderConn
      BY <1>4 DEF Authenticate, Register, lease, manager, records, attachments, revoke
    <2> QED BY <2>1, <2>2 DEF PermitAccounting, PermitsBelongToHolder
  <1>5. ASSUME NEW c \in Attached, PeerCloses(c)
        PROVE  PermitAccounting' /\ PermitsBelongToHolder'
    <2>1. InOperation' = InOperation /\ background' = background /\ permits' = permits
      BY <1>5, LeaseAssumption DEF PeerCloses, InOperation, FlowBookkeeping, TypeOK,
            LeaseTypeOK, lease, manager, records, attachments, revoke, Conns
    <2>2. holderConn' = holderConn
      BY <1>5 DEF PeerCloses, lease, manager, records, attachments, revoke
    <2> QED BY <2>1, <2>2 DEF PermitAccounting, PermitsBelongToHolder
  <1>6. ASSUME NEW c \in Attached, FanoutFails(c)
        PROVE  PermitAccounting' /\ PermitsBelongToHolder'
    <2>1. InOperation' = InOperation /\ background' = background /\ permits' = permits
      BY <1>6, LeaseAssumption DEF FanoutFails, BeginClose, ConnectionDisconnected,
            BoundTo, RunsOf, InOperation, FlowBookkeeping, TypeOK, LeaseTypeOK, lease,
            manager, records, attachments, revoke, Conns
    <2>2. holderConn' = holderConn
      BY <1>6 DEF FanoutFails, BeginClose, ConnectionDisconnected, BoundTo, RunsOf, lease,
            manager, records, attachments, revoke
    <2> QED BY <2>1, <2>2 DEF PermitAccounting, PermitsBelongToHolder
  <1>7. ASSUME NEW c \in Attached, HandlerEnds(c)
        PROVE  PermitAccounting' /\ PermitsBelongToHolder'
    <2>1. InOperation' = InOperation /\ background' = background /\ permits' = permits
      BY <1>7, LeaseAssumption DEF HandlerEnds, CloseUnlessClosed, BeginClose,
            ConnectionDisconnected, BoundTo, RunsOf, InOperation, FlowBookkeeping, TypeOK,
            LeaseTypeOK, lease, manager, records, attachments, revoke, Conns
    <2>2. holderConn' = holderConn
      BY <1>7 DEF HandlerEnds, CloseUnlessClosed, BeginClose, ConnectionDisconnected,
            BoundTo, RunsOf, lease, manager, records, attachments, revoke
    <2> QED BY <2>1, <2>2 DEF PermitAccounting, PermitsBelongToHolder
  <1>8. ASSUME NEW c \in Attached, RunsGathered(c)
        PROVE  PermitAccounting' /\ PermitsBelongToHolder'
    <2>1. InOperation' = InOperation /\ background' = background /\ permits' = permits
      BY <1>8, LeaseAssumption DEF RunsGathered, InOperation, FlowBookkeeping, TypeOK,
            LeaseTypeOK, lease, manager, records, attachments, revoke, Conns
    <2>2. holderConn' = holderConn
      BY <1>8 DEF RunsGathered, lease, manager, records, attachments, revoke
    <2> QED BY <2>1, <2>2 DEF PermitAccounting, PermitsBelongToHolder
  <1>9. ASSUME NEW c \in Attached, CloseCompletes(c)
        PROVE  PermitAccounting' /\ PermitsBelongToHolder'
    <2>1. InOperation' = InOperation /\ background' = background /\ permits' = permits
      BY <1>9, LeaseAssumption DEF CloseCompletes, CompleteRevoke, ReturnsControl,
            InOperation, FlowBookkeeping, TypeOK, LeaseTypeOK, lease, manager, records,
            attachments, revoke, Conns
    <2>2. InOperation = {} /\ background = {}
      BY <1>9, PermitsCountOperations DEF CloseCompletes, CompleteRevoke, ReturnsControl
    <2> QED BY <2>1, <2>2 DEF PermitAccounting, PermitsBelongToHolder
  <1>10. ASSUME NEW c \in Attached, ControlAcquire(c)
        PROVE  PermitAccounting' /\ PermitsBelongToHolder'
    <2>1. InOperation' = InOperation /\ background' = background /\ permits' = permits
      BY <1>10, LeaseAssumption DEF ControlAcquire, Acquire, Reading, InOperation,
            FlowBookkeeping, TypeOK, LeaseTypeOK, lease, manager, records, attachments,
            revoke, Conns
    <2>2. InOperation = {} /\ background = {}
      BY <1>10, PermitsCountOperations DEF ControlAcquire, Acquire, Reading
    <2> QED BY <2>1, <2>2 DEF PermitAccounting, PermitsBelongToHolder
  <1>11. ASSUME NEW c \in Attached, ControlRelease(c)
        PROVE  PermitAccounting' /\ PermitsBelongToHolder'
    <2>1. InOperation' = InOperation /\ background' = background /\ permits' = permits
      BY <1>11, LeaseAssumption DEF ControlRelease, Release, InOperation, FlowBookkeeping,
            TypeOK, LeaseTypeOK, lease, manager, records, attachments, revoke, Conns
    <2>2. InOperation = {} /\ background = {}
      BY <1>11, PermitsCountOperations DEF ControlRelease, Release
    <2> QED BY <2>1, <2>2 DEF PermitAccounting, PermitsBelongToHolder
  <1>12. ASSUME RevokeClosesSocket
        PROVE  PermitAccounting' /\ PermitsBelongToHolder'
    <2>1. InOperation' = InOperation /\ background' = background /\ permits' = permits
      BY <1>12, LeaseAssumption DEF RevokeClosesSocket, InOperation, FlowBookkeeping,
            TypeOK, LeaseTypeOK, lease, manager, records, attachments, revoke, Conns
    <2>2. holderConn' = holderConn
      BY <1>12 DEF RevokeClosesSocket, lease, manager, records, attachments, revoke
    <2> QED BY <2>1, <2>2 DEF PermitAccounting, PermitsBelongToHolder
  <1>13. ASSUME RevokeClosesConnection
        PROVE  PermitAccounting' /\ PermitsBelongToHolder'
    <2>1. InOperation' = InOperation /\ background' = background /\ permits' = permits
      BY <1>13, LeaseAssumption DEF RevokeClosesConnection, CloseUnlessClosed, BeginClose,
            ConnectionDisconnected, BoundTo, RunsOf, InOperation, FlowBookkeeping, TypeOK,
            LeaseTypeOK, lease, manager, records, attachments, revoke, Conns
    <2>2. holderConn' = holderConn
      BY <1>13 DEF RevokeClosesConnection, CloseUnlessClosed, BeginClose,
            ConnectionDisconnected, BoundTo, RunsOf, lease, manager, records, attachments,
            revoke
    <2> QED BY <2>1, <2>2 DEF PermitAccounting, PermitsBelongToHolder
  <1>14. ASSUME RevokeConnectionClosed
        PROVE  PermitAccounting' /\ PermitsBelongToHolder'
    <2>1. InOperation' = InOperation /\ background' = background /\ permits' = permits
      BY <1>14, LeaseAssumption DEF RevokeConnectionClosed, InOperation, FlowBookkeeping,
            TypeOK, LeaseTypeOK, lease, manager, records, attachments, revoke, Conns
    <2>2. holderConn' = holderConn
      BY <1>14 DEF RevokeConnectionClosed, lease, manager, records, attachments, revoke
    <2> QED BY <2>1, <2>2 DEF PermitAccounting, PermitsBelongToHolder
  <1>15. ASSUME RevokeCompletes
        PROVE  PermitAccounting' /\ PermitsBelongToHolder'
    <2>1. InOperation' = InOperation /\ background' = background /\ permits' = permits
      BY <1>15, LeaseAssumption DEF RevokeCompletes, CompleteRevoke, ReturnsControl,
            InOperation, FlowBookkeeping, TypeOK, LeaseTypeOK, lease, manager, records,
            attachments, revoke, Conns
    <2>2. InOperation = {} /\ background = {}
      BY <1>15, PermitsCountOperations DEF RevokeCompletes, CompleteRevoke, ReturnsControl
    <2> QED BY <2>1, <2>2 DEF PermitAccounting, PermitsBelongToHolder
  <1>16. ASSUME NEW c \in Conns, BeginOperation(c)
        PROVE  PermitAccounting' /\ PermitsBelongToHolder'
    <2>1. /\ c \notin InOperation /\ InOperation' = InOperation \cup {c}
          /\ background' = background /\ permits' = permits + 1
          /\ holderConn = c /\ holderConn' = c
      BY <1>16 DEF BeginOperation, TakePermit, Reading, InOperation, TypeOK, LeaseTypeOK,
            lease, manager, records, attachments, revoke, Conns
    <2>2. Cardinality(InOperation') = Cardinality(InOperation) + 1
      BY <2>1, FiniteOperations, FS_AddElement
    <2>3. PermitAccounting'
      BY <2>1, <2>2, PermitsCountOperations DEF PermitAccounting
    <2>4. PermitsBelongToHolder'
      BY <2>1 DEF PermitsBelongToHolder
    <2> QED BY <2>3, <2>4
  <1>17. ASSUME NEW c \in Conns, EndOperation(c)
        PROVE  PermitAccounting' /\ PermitsBelongToHolder'
    <2>1. /\ c \in InOperation /\ InOperation' = InOperation \ {c}
          /\ background' = background /\ permits' = permits - 1
          /\ holderConn' = holderConn
      BY <1>17 DEF EndOperation, DropPermit, InOperation, TypeOK, LeaseTypeOK, lease,
            manager, records, attachments, revoke, Conns
    <2>2. Cardinality(InOperation') = Cardinality(InOperation) - 1
      BY <2>1, FiniteOperations, FS_RemoveElement
    <2>3. PermitAccounting'
      BY <2>1, <2>2, PermitsCountOperations DEF PermitAccounting
    <2>4. PermitsBelongToHolder'
      BY <2>1 DEF PermitsBelongToHolder
    <2> QED BY <2>3, <2>4
  <1>18. ASSUME NEW c \in Conns, NEW r \in Runs, AcceptRun(c, r)
        PROVE  PermitAccounting' /\ PermitsBelongToHolder'
    <2>1. InOperation' = InOperation /\ background' = background /\ permits' = permits
      BY <1>18, LeaseAssumption DEF AcceptRun, InOperation, FlowBookkeeping, TypeOK,
            LeaseTypeOK, lease, manager, records, attachments, revoke, Conns
    <2>2. holderConn' = holderConn
      BY <1>18 DEF AcceptRun, lease, manager, records, attachments, revoke
    <2> QED BY <2>1, <2>2 DEF PermitAccounting, PermitsBelongToHolder
  <1>19. ASSUME NEW c \in Conns, NEW r \in Runs, CancelRun(c, r)
        PROVE  PermitAccounting' /\ PermitsBelongToHolder'
    <2>1. InOperation' = InOperation /\ background' = background /\ permits' = permits
      BY <1>19, LeaseAssumption DEF CancelRun, InOperation, FlowBookkeeping, TypeOK,
            LeaseTypeOK, lease, manager, records, attachments, revoke, Conns
    <2>2. holderConn' = holderConn
      BY <1>19 DEF CancelRun, lease, manager, records, attachments, revoke
    <2> QED BY <2>1, <2>2 DEF PermitAccounting, PermitsBelongToHolder
  <1>20. ASSUME NEW p \in PluginOps, BeginPluginOperation(p)
        PROVE  PermitAccounting' /\ PermitsBelongToHolder'
    <2>1. /\ p \notin background /\ background' = background \cup {p}
          /\ InOperation' = InOperation /\ permits' = permits + 1
          /\ holderConn = Owner /\ holderConn' = Owner
      BY <1>20 DEF BeginPluginOperation, TakePermit, InOperation, TypeOK,
            LeaseTypeOK, lease, manager, records, attachments, revoke, Conns
    <2>2. Cardinality(background') = Cardinality(background) + 1
      BY <2>1, FiniteOperations, FS_AddElement
    <2>3. PermitAccounting'
      BY <2>1, <2>2, PermitsCountOperations DEF PermitAccounting
    <2>4. PermitsBelongToHolder'
      BY <2>1 DEF PermitsBelongToHolder
    <2> QED BY <2>3, <2>4
  <1>21. ASSUME NEW p \in PluginOps, EndPluginOperation(p)
        PROVE  PermitAccounting' /\ PermitsBelongToHolder'
    <2>1. /\ p \in background /\ background' = background \ {p}
          /\ InOperation' = InOperation /\ permits' = permits - 1
          /\ holderConn' = holderConn
      BY <1>21 DEF EndPluginOperation, DropPermit, InOperation, TypeOK, LeaseTypeOK, lease,
            manager, records, attachments, revoke, Conns
    <2>2. Cardinality(background') = Cardinality(background) - 1
      BY <2>1, FiniteOperations, FS_RemoveElement
    <2>3. PermitAccounting'
      BY <2>1, <2>2, PermitsCountOperations DEF PermitAccounting
    <2>4. PermitsBelongToHolder'
      BY <2>1 DEF PermitsBelongToHolder
    <2> QED BY <2>3, <2>4
  <1>22. ASSUME NEW r \in Runs, RunEnds(r)
        PROVE  PermitAccounting' /\ PermitsBelongToHolder'
    <2>1. InOperation' = InOperation /\ background' = background /\ permits' = permits
      BY <1>22, LeaseAssumption DEF RunEnds, InOperation, FlowBookkeeping, TypeOK,
            LeaseTypeOK, lease, manager, records, attachments, revoke, Conns
    <2>2. holderConn' = holderConn
      BY <1>22 DEF RunEnds, lease, manager, records, attachments, revoke
    <2> QED BY <2>1, <2>2 DEF PermitAccounting, PermitsBelongToHolder
  <1> QED
    BY <1>1, <1>2, <1>3, <1>4, <1>5, <1>6, <1>7, <1>8, <1>9, <1>10, <1>11, <1>12, <1>13,
          <1>14, <1>15, <1>16, <1>17, <1>18, <1>19, <1>20, <1>21, <1>22 DEF Next

(***************************************************************************)
(* The remaining parts are preserved, one step per action.                 *)
(***************************************************************************)
LEMMA ControlPreserved ==
    ASSUME IInv, Next
    PROVE  TypeOK' /\ RecordsBookkeeping' /\ FlowBookkeeping' /\ Control'
  <1> DEFINE Goal == TypeOK' /\ RecordsBookkeeping' /\ FlowBookkeeping' /\ Control'
  <1> USE LeaseAssumption
      DEF IInv, TypeOK, LeaseTypeOK, Conns, RecordsBookkeeping, FlowBookkeeping, Control,
          HolderIsRegistered, RevokedNeverHolds, OwnerRunsUnderOwnerControl, Busy, RunsOf,
          lease, manager, records, attachments, revoke
  <1>1. ASSUME NEW a \in AttachmentIds, CreateAttachment(a)
        PROVE  Goal
    BY <1>1 DEF CreateAttachment
  <1>2. ASSUME NEW a \in AttachmentIds, Expire(a)
        PROVE  Goal
    BY <1>2 DEF Expire
  <1>3. ASSUME NEW a \in AttachmentIds, BeginAttachmentRevoke(a)
        PROVE  Goal
    BY <1>3 DEF BeginAttachmentRevoke, BeginRevoke, Reading
  <1>4. ASSUME NEW a \in AttachmentIds, NEW c \in Attached, Authenticate(a, c)
        PROVE  Goal
    BY <1>4 DEF Authenticate, Register
  <1>5. ASSUME NEW c \in Attached, PeerCloses(c)
        PROVE  Goal
    BY <1>5 DEF PeerCloses
  <1>6. ASSUME NEW c \in Attached, FanoutFails(c)
        PROVE  Goal
    BY <1>6 DEF FanoutFails, BeginClose, ConnectionDisconnected, BoundTo
  <1>7. ASSUME NEW c \in Attached, HandlerEnds(c)
        PROVE  Goal
    BY <1>7 DEF HandlerEnds, CloseUnlessClosed, BeginClose, ConnectionDisconnected, BoundTo
  <1>8. ASSUME NEW c \in Attached, RunsGathered(c)
        PROVE  Goal
    BY <1>8 DEF RunsGathered
  <1>9. ASSUME NEW c \in Attached, CloseCompletes(c)
        PROVE  Goal
    BY <1>9 DEF CloseCompletes, CompleteRevoke, ReturnsControl
  <1>10. ASSUME NEW c \in Attached, ControlAcquire(c)
        PROVE  Goal
    BY <1>10 DEF ControlAcquire, Acquire, Reading
  <1>11. ASSUME NEW c \in Attached, ControlRelease(c)
        PROVE  Goal
    BY <1>11 DEF ControlRelease, Release
  <1>12. ASSUME RevokeClosesSocket
        PROVE  Goal
    BY <1>12 DEF RevokeClosesSocket
  <1>13. ASSUME RevokeClosesConnection
        PROVE  Goal
    BY <1>13 DEF RevokeClosesConnection, CloseUnlessClosed, BeginClose,
          ConnectionDisconnected, BoundTo
  <1>14. ASSUME RevokeConnectionClosed
        PROVE  Goal
    BY <1>14 DEF RevokeConnectionClosed
  <1>15. ASSUME RevokeCompletes
        PROVE  Goal
    BY <1>15 DEF RevokeCompletes, CompleteRevoke, ReturnsControl
  <1>16. ASSUME NEW c \in Conns, BeginOperation(c)
        PROVE  Goal
    BY <1>16 DEF BeginOperation, TakePermit, Reading
  <1>17. ASSUME NEW c \in Conns, EndOperation(c)
        PROVE  Goal
    <2>1. permits >= 1
      BY <1>17, PermitsCountOperations DEF EndOperation, InOperation
    <2> QED BY <1>17, <2>1 DEF EndOperation, DropPermit
  <1>18. ASSUME NEW c \in Conns, NEW r \in Runs, AcceptRun(c, r)
        PROVE  Goal
    BY <1>18 DEF AcceptRun, PermitsBelongToHolder, InOperation
  <1>19. ASSUME NEW c \in Conns, NEW r \in Runs, CancelRun(c, r)
        PROVE  Goal
    BY <1>19 DEF CancelRun
  <1>20. ASSUME NEW p \in PluginOps, BeginPluginOperation(p)
        PROVE  Goal
    BY <1>20 DEF BeginPluginOperation, TakePermit
  <1>21. ASSUME NEW p \in PluginOps, EndPluginOperation(p)
        PROVE  Goal
    <2>1. permits >= 1
      BY <1>21, PermitsCountOperations DEF EndPluginOperation, InOperation
    <2> QED BY <1>21, <2>1 DEF EndPluginOperation, DropPermit
  <1>22. ASSUME NEW r \in Runs, RunEnds(r)
        PROVE  Goal
    BY <1>22 DEF RunEnds
  <1> QED
    BY <1>1, <1>2, <1>3, <1>4, <1>5, <1>6, <1>7, <1>8, <1>9, <1>10, <1>11, <1>12, <1>13,
          <1>14, <1>15, <1>16, <1>17, <1>18, <1>19, <1>20, <1>21, <1>22 DEF Next

LEMMA InitEstablishes == Init => IInv
  <1> SUFFICES ASSUME Init PROVE IInv
    OBVIOUS
  <1> USE LeaseAssumption DEF Init, LeaseInit
  <1>1. TypeOK /\ RecordsBookkeeping /\ FlowBookkeeping /\ Control
    BY DEF TypeOK, LeaseTypeOK, Conns, RecordsBookkeeping, FlowBookkeeping, Control,
           HolderIsRegistered, RevokedNeverHolds, OwnerRunsUnderOwnerControl, Busy, RunsOf
  <1>2. InOperation = {} /\ background = {}
    BY DEF InOperation, Conns
  <1>3. PermitAccounting /\ PermitsBelongToHolder
    BY <1>2, FS_EmptySet DEF PermitAccounting, PermitsBelongToHolder
  <1> QED BY <1>1, <1>3 DEF IInv

LEMMA StutterPreserves == IInv /\ UNCHANGED hostVars => IInv'
  BY DEF IInv, TypeOK, LeaseTypeOK, RecordsBookkeeping, FlowBookkeeping, Control,
         HolderIsRegistered, RevokedNeverHolds, OwnerRunsUnderOwnerControl, Busy, RunsOf,
         PermitAccounting, PermitsBelongToHolder, InOperation,
         hostVars, lease, manager, records, attachments, revoke

(* The inductive invariant holds of every behaviour. *)
THEOREM Inductive == Spec => []IInv
  <1>1. Init => IInv
    BY InitEstablishes
  <1>2. IInv /\ [Next]_hostVars => IInv'
    BY PermitsPreserved, ControlPreserved, StutterPreserves DEF IInv
  <1> QED BY <1>1, <1>2, PTL DEF Spec

(* Type correctness of the composed lease, attachments and Connections. *)
THEOREM TypeCorrect == Spec => []TypeOK
  <1>1. IInv => TypeOK
    BY DEF IInv
  <1> QED BY <1>1, Inductive, PTL

(* Every controlled operation under way belongs to the current holder, and
   the permit counter counts exactly these operations (ControlLease.permit,
   acquire, release and complete_revoke). *)
THEOREM ExclusiveControl == Spec => []PermitsAreTheHolders
  <1>1. IInv => PermitsAreTheHolders
    BY DEF IInv, PermitsAreTheHolders
  <1> QED BY <1>1, Inductive, PTL

(* The holder is registered, a revoked attachment or a closed Connection
   does not hold an unrevoked lease, and no Run of the owner is live while
   an attached Connection is in control. *)
THEOREM HolderIsValid == Spec => []HolderIsBacked
  <1>1. IInv => HolderIsBacked
    BY DEF IInv, Control, HolderIsBacked
  <1> QED BY <1>1, Inductive, PTL

(* Control is handed over only while no operation is under way, and only
   from or to the owner. *)
THEOREM HandoverIsQuiet == Spec => HandoverWhenQuiet
  <1>1. ASSUME IInv, [Next]_hostVars
        PROVE  [holderConn' # holderConn =>
                  permits = 0 /\ Owner \in {holderConn, holderConn'}]_hostVars
    <2>1. CASE UNCHANGED hostVars
      BY <2>1
    <2>2. CASE holderConn' = holderConn
      BY <2>2
    <2>3. CASE Next /\ holderConn' # holderConn
      <3> DEFINE Quiet == permits = 0 /\ Owner \in {holderConn, holderConn'}
      <3>1. ASSUME NEW c \in Attached, CloseCompletes(c) PROVE Quiet
        BY <2>3, <3>1 DEF CloseCompletes, CompleteRevoke
      <3>2. ASSUME NEW c \in Attached, ControlAcquire(c) PROVE Quiet
        BY <1>1, <3>2 DEF ControlAcquire, Acquire, IInv, Control, HolderIsRegistered
      <3>3. ASSUME NEW c \in Attached, ControlRelease(c) PROVE Quiet
        BY <3>3 DEF ControlRelease, Release
      <3>4. ASSUME RevokeCompletes PROVE Quiet
        BY <2>3, <3>4 DEF RevokeCompletes, CompleteRevoke
      <3> QED
        BY <2>3, <3>1, <3>2, <3>3, <3>4
        DEF Next, lease, CreateAttachment, Expire, BeginAttachmentRevoke, BeginRevoke,
            Authenticate, Register, PeerCloses, FanoutFails, HandlerEnds, RunsGathered,
            RevokeClosesSocket, RevokeClosesConnection, RevokeConnectionClosed,
            CloseUnlessClosed, BeginClose, ConnectionDisconnected, BeginOperation,
            EndOperation, AcceptRun, CancelRun, BeginPluginOperation, EndPluginOperation,
            TakePermit, DropPermit, RunEnds
    <2> QED BY <1>1, <2>1, <2>2, <2>3
  <1> QED BY <1>1, Inductive, PTL DEF Spec, HandoverWhenQuiet

-----------------------------------------------------------------------------
(* Control is as ControlOfHost promises.                                   *)

Gone == {c \in Attached : connection[c] = "closed"}

(* complete_revoke returns control, or finds that another call has. *)
LEMMA CompletionReturns ==
    ASSUME IInv, NEW a \in AttachmentIds, CompleteRevoke(a),
           UNCHANGED <<connection, background, runOwner>>, InOperation' = InOperation
    PROVE  Promised!Next \/ UNCHANGED Promised!vars
  <1>1. InOperation = {} /\ background = {}
    BY PermitsCountOperations DEF CompleteRevoke, IInv
  <1>2. CASE ReturnsControl(a)
    BY <1>1, <1>2 DEF CompleteRevoke, ReturnsControl, Promised!Next, Promised!Return,
       Promised!Quiet
  <1>3. CASE ~ReturnsControl(a)
    BY <1>3 DEF CompleteRevoke, Promised!vars
  <1> QED BY <1>2, <1>3

(* A Connection that closes is gone, and is losing control if it has it. *)
LEMMA CloseLeaves ==
    ASSUME IInv, NEW c \in Attached, connection[c] = "open", BeginClose(c),
           UNCHANGED <<background, runOwner>>, InOperation' = InOperation
    PROVE  Promised!Next \/ UNCHANGED Promised!vars
  <1>1. Gone' = Gone \cup {c} /\ c \notin Gone
    BY DEF BeginClose, Gone, IInv, TypeOK
  <1>2. (state = "revoking")' = (state = "revoking" \/ holderConn = c)
    BY LeaseAssumption DEF BeginClose, ConnectionDisconnected, BoundTo, IInv, TypeOK,
       LeaseTypeOK, Control, HolderIsRegistered
  <1>3. holderConn' = holderConn
    BY DEF BeginClose, ConnectionDisconnected
  <1>4. Promised!Leave(c)
    BY <1>1, <1>2, <1>3 DEF Promised!Leave, Gone
  <1> QED BY <1>4 DEF Promised!Next

LEMMA StepKeepsPromise ==
    ASSUME IInv, Next
    PROVE  Promised!Next \/ UNCHANGED Promised!vars
  <1>1. ASSUME NEW a \in AttachmentIds, CreateAttachment(a)
        PROVE  Promised!Next \/ UNCHANGED Promised!vars
    <2>1. InOperation' = InOperation
      BY <1>1, LeaseAssumption DEF CreateAttachment, Reading, InOperation, IInv, TypeOK,
         FlowBookkeeping, LeaseTypeOK, Conns, manager, records, revoke
    <2> QED BY <1>1, <2>1 DEF CreateAttachment, Reading, lease, manager, Promised!vars
  <1>2. ASSUME NEW a \in AttachmentIds, Expire(a)
        PROVE  Promised!Next \/ UNCHANGED Promised!vars
    <2>1. InOperation' = InOperation
      BY <1>2, LeaseAssumption DEF Expire, InOperation, IInv, TypeOK, FlowBookkeeping,
         LeaseTypeOK, Conns, manager, records, revoke
    <2> QED BY <1>2, <2>1 DEF Expire, lease, manager, Promised!vars
  <1>3. ASSUME NEW a \in AttachmentIds, BeginAttachmentRevoke(a)
        PROVE  Promised!Next \/ UNCHANGED Promised!vars
    <2>1. InOperation' = InOperation
      BY <1>3, LeaseAssumption DEF BeginAttachmentRevoke, BeginRevoke, Reading,
         InOperation, IInv, TypeOK, FlowBookkeeping, LeaseTypeOK, Conns, manager, records,
         revoke
    <2>2. CASE state' = state
      BY <1>3, <2>1, <2>2 DEF BeginAttachmentRevoke, BeginRevoke, Reading, Promised!vars
    <2>3. CASE state' # state
      <3>1. holderConn # Owner /\ state' = "revoking"
        BY <1>3, <2>3, LeaseAssumption DEF BeginAttachmentRevoke, BeginRevoke, Reading,
           IInv, TypeOK, LeaseTypeOK, Control, HolderIsRegistered
      <3>2. Promised!Revoke
        BY <1>3, <2>1, <3>1 DEF BeginAttachmentRevoke, BeginRevoke, Reading, Promised!Revoke
      <3> QED BY <3>2 DEF Promised!Next
    <2> QED BY <2>2, <2>3
  <1>4. ASSUME NEW a \in AttachmentIds, NEW c \in Attached, Authenticate(a, c)
        PROVE  Promised!Next \/ UNCHANGED Promised!vars
    <2>1. InOperation' = InOperation
      BY <1>4, LeaseAssumption DEF Authenticate, Register, InOperation, IInv, TypeOK,
         FlowBookkeeping, LeaseTypeOK, Conns
    <2>2. Gone' = Gone
      BY <1>4 DEF Authenticate, Register, Gone, IInv, TypeOK
    <2> QED BY <1>4, <2>1, <2>2 DEF Authenticate, Register, Gone, Promised!vars
  <1>5. ASSUME NEW c \in Attached, PeerCloses(c)
        PROVE  Promised!Next \/ UNCHANGED Promised!vars
    <2>1. InOperation' = InOperation
      BY <1>5, LeaseAssumption DEF PeerCloses, InOperation, IInv, TypeOK, FlowBookkeeping,
         LeaseTypeOK, Conns, manager, records, revoke
    <2> QED BY <1>5, <2>1 DEF PeerCloses, lease, manager, Promised!vars
  <1>6. ASSUME NEW c \in Attached, FanoutFails(c)
        PROVE  Promised!Next \/ UNCHANGED Promised!vars
    <2>1. InOperation' = InOperation
      BY <1>6, LeaseAssumption DEF FanoutFails, InOperation, IInv, TypeOK, FlowBookkeeping,
         LeaseTypeOK, Conns, manager, records, revoke
    <2> QED BY <1>6, <2>1, CloseLeaves DEF FanoutFails
  <1>7. ASSUME NEW c \in Attached, HandlerEnds(c)
        PROVE  Promised!Next \/ UNCHANGED Promised!vars
    <2>1. InOperation' = InOperation
      BY <1>7, LeaseAssumption DEF HandlerEnds, CloseUnlessClosed, InOperation, IInv,
         TypeOK, FlowBookkeeping, LeaseTypeOK, Conns, manager, records, revoke
    <2>2. UNCHANGED <<background, runOwner>>
      BY <1>7 DEF HandlerEnds, CloseUnlessClosed
    <2>3. CASE connection[c] = "open"
      BY <1>7, <2>1, <2>2, <2>3, CloseLeaves DEF HandlerEnds, CloseUnlessClosed
    <2>4. CASE connection[c] # "open"
      BY <1>7, <2>1, <2>4 DEF HandlerEnds, CloseUnlessClosed, lease, Promised!vars
    <2> QED BY <2>3, <2>4
  <1>8. ASSUME NEW c \in Attached, RunsGathered(c)
        PROVE  Promised!Next \/ UNCHANGED Promised!vars
    <2>1. InOperation' = InOperation
      BY <1>8, LeaseAssumption DEF RunsGathered, InOperation, IInv, TypeOK,
         FlowBookkeeping, LeaseTypeOK, Conns, manager, records, revoke
    <2> QED BY <1>8, <2>1 DEF RunsGathered, lease, manager, Promised!vars
  <1>9. ASSUME NEW c \in Attached, CloseCompletes(c)
        PROVE  Promised!Next \/ UNCHANGED Promised!vars
    <2>1. InOperation' = InOperation
      BY <1>9, LeaseAssumption DEF CloseCompletes, InOperation, IInv, TypeOK,
         FlowBookkeeping, LeaseTypeOK, Conns, manager, records, revoke
    <2>2. PICK a \in AttachmentIds : CompleteRevoke(a)
      BY <1>9 DEF CloseCompletes
    <2> QED BY <1>9, <2>1, <2>2, CompletionReturns DEF CloseCompletes, manager
  <1>10. ASSUME NEW c \in Attached, ControlAcquire(c)
        PROVE  Promised!Next \/ UNCHANGED Promised!vars
    <2>1. InOperation' = InOperation
      BY <1>10, LeaseAssumption DEF ControlAcquire, Acquire, Reading, Busy, RunsOf,
         InOperation, IInv, TypeOK, FlowBookkeeping, LeaseTypeOK, Conns, manager, records,
         revoke
    <2>2. InOperation = {} /\ background = {}
      BY <1>10, PermitsCountOperations DEF ControlAcquire, Acquire, Reading, Busy, RunsOf,
         IInv
    <2>3. holderConn = Owner /\ state # "revoking" /\ state' # "revoking"
      BY <1>10, LeaseAssumption DEF ControlAcquire, Acquire, Reading, Busy, RunsOf, IInv,
         Control, HolderIsRegistered, TypeOK, LeaseTypeOK
    <2>4. Promised!Acquire(c)
      BY <1>10, <2>1, <2>2, <2>3, LeaseAssumption
      DEF ControlAcquire, Acquire, Reading, Busy, RunsOf, Promised!Acquire, Promised!Quiet,
        Promised!HasRuns, manager
    <2> QED BY <2>4 DEF Promised!Next
  <1>11. ASSUME NEW c \in Attached, ControlRelease(c)
        PROVE  Promised!Next \/ UNCHANGED Promised!vars
    <2>1. InOperation' = InOperation
      BY <1>11, LeaseAssumption DEF ControlRelease, Release, Busy, RunsOf, InOperation,
         IInv, TypeOK, FlowBookkeeping, LeaseTypeOK, Conns, manager, records, revoke
    <2>2. InOperation = {} /\ background = {}
      BY <1>11, PermitsCountOperations DEF ControlRelease, Release, Busy, RunsOf, IInv
    <2>3. holderConn # Owner /\ state # "revoking" /\ state' # "revoking"
      BY <1>11, LeaseAssumption DEF ControlRelease, Release, Busy, RunsOf, IInv, Control,
         HolderIsRegistered, TypeOK, LeaseTypeOK
    <2>4. Promised!Release
      BY <1>11, <2>1, <2>2, <2>3, LeaseAssumption
      DEF ControlRelease, Release, Busy, RunsOf, Promised!Release, Promised!Quiet,
        Promised!HasRuns, manager
    <2> QED BY <2>4 DEF Promised!Next
  <1>12. ASSUME RevokeClosesSocket
        PROVE  Promised!Next \/ UNCHANGED Promised!vars
    <2>1. InOperation' = InOperation
      BY <1>12, LeaseAssumption DEF RevokeClosesSocket, InOperation, IInv, TypeOK,
         FlowBookkeeping, LeaseTypeOK, Conns, manager, records, revoke
    <2> QED BY <1>12, <2>1 DEF RevokeClosesSocket, lease, manager, Promised!vars
  <1>13. ASSUME RevokeClosesConnection
        PROVE  Promised!Next \/ UNCHANGED Promised!vars
    <2>1. InOperation' = InOperation
      BY <1>13, LeaseAssumption DEF RevokeClosesConnection, CloseUnlessClosed, InOperation,
         IInv, TypeOK, FlowBookkeeping, LeaseTypeOK, Conns, manager, records, revoke
    <2>2. recConn[revokeAtt] \in Attached /\ UNCHANGED <<background, runOwner>>
      BY <1>13 DEF RevokeClosesConnection, CloseUnlessClosed, IInv, FlowBookkeeping
    <2>3. CASE connection[recConn[revokeAtt]] = "open"
      BY <1>13, <2>1, <2>2, <2>3, CloseLeaves DEF RevokeClosesConnection, CloseUnlessClosed
    <2>4. CASE connection[recConn[revokeAtt]] # "open"
      BY <1>13, <2>1, <2>4 DEF RevokeClosesConnection, CloseUnlessClosed, lease,
         Promised!vars
    <2> QED BY <2>3, <2>4
  <1>14. ASSUME RevokeConnectionClosed
        PROVE  Promised!Next \/ UNCHANGED Promised!vars
    <2>1. InOperation' = InOperation
      BY <1>14, LeaseAssumption DEF RevokeConnectionClosed, InOperation, IInv, TypeOK,
         FlowBookkeeping, LeaseTypeOK, Conns, manager, records, revoke
    <2> QED BY <1>14, <2>1 DEF RevokeConnectionClosed, lease, manager, Promised!vars
  <1>15. ASSUME RevokeCompletes
        PROVE  Promised!Next \/ UNCHANGED Promised!vars
    <2>1. InOperation' = InOperation
      BY <1>15, LeaseAssumption DEF RevokeCompletes, InOperation, IInv, TypeOK,
         FlowBookkeeping, LeaseTypeOK, Conns, manager, records, revoke
    <2>2. revokeAtt \in AttachmentIds /\ CompleteRevoke(revokeAtt)
      BY <1>15 DEF RevokeCompletes, IInv, FlowBookkeeping
    <2> QED BY <1>15, <2>1, <2>2, CompletionReturns DEF RevokeCompletes, manager
  <1>16. ASSUME NEW c \in Conns, BeginOperation(c)
        PROVE  Promised!Next \/ UNCHANGED Promised!vars
    <2>1. c \notin InOperation /\ InOperation' = InOperation \cup {c}
      BY <1>16 DEF BeginOperation, TakePermit, Reading, InOperation, IInv, TypeOK
    <2>2. c \notin Gone
      BY <1>16, LeaseAssumption DEF BeginOperation, TakePermit, Reading, Gone
    <2>3. Promised!Enter(c)
      BY <1>16, <2>1, <2>2 DEF BeginOperation, TakePermit, Reading, Promised!Enter, Gone,
         manager, attachments
    <2> QED BY <2>3 DEF Promised!Next, Conns
  <1>17. ASSUME NEW c \in Conns, EndOperation(c)
        PROVE  Promised!Next \/ UNCHANGED Promised!vars
    <2>1. c \in InOperation /\ InOperation' = InOperation \ {c}
      BY <1>17 DEF EndOperation, DropPermit, InOperation, IInv, TypeOK
    <2>2. Promised!Exit(c)
      BY <1>17, <2>1 DEF EndOperation, DropPermit, Promised!Exit, manager, attachments
    <2> QED BY <2>2 DEF Promised!Next, Conns
  <1>18. ASSUME NEW c \in Conns, NEW r \in Runs, AcceptRun(c, r)
        PROVE  Promised!Next \/ UNCHANGED Promised!vars
    <2>1. InOperation' = InOperation
      BY <1>18, LeaseAssumption DEF AcceptRun, InOperation, IInv, TypeOK, FlowBookkeeping,
         LeaseTypeOK, Conns, manager, records, revoke
    <2>2. Promised!StartRun(c, r)
      BY <1>18, <2>1 DEF AcceptRun, InOperation, Promised!StartRun, lease, manager,
         attachments
    <2> QED BY <2>2 DEF Promised!Next, Conns
  <1>19. ASSUME NEW c \in Conns, NEW r \in Runs, CancelRun(c, r)
        PROVE  Promised!Next \/ UNCHANGED Promised!vars
    <2>1. InOperation' = InOperation
      BY <1>19, LeaseAssumption DEF CancelRun, InOperation, IInv, TypeOK, FlowBookkeeping,
         LeaseTypeOK, Conns, manager, records, revoke
    <2> QED BY <1>19, <2>1 DEF CancelRun, lease, manager, Promised!vars
  <1>20. ASSUME NEW p \in PluginOps, BeginPluginOperation(p)
        PROVE  Promised!Next \/ UNCHANGED Promised!vars
    <2>1. InOperation' = InOperation
      BY <1>20, LeaseAssumption DEF BeginPluginOperation, TakePermit, InOperation,
         IInv, TypeOK, FlowBookkeeping, LeaseTypeOK, Conns, manager, records, revoke
    <2>2. Promised!StartJob(p)
      BY <1>20, <2>1 DEF BeginPluginOperation, TakePermit, Promised!StartJob,
         lease, manager, attachments
    <2> QED BY <2>2 DEF Promised!Next, Conns
  <1>21. ASSUME NEW p \in PluginOps, EndPluginOperation(p)
        PROVE  Promised!Next \/ UNCHANGED Promised!vars
    <2>1. InOperation' = InOperation
      BY <1>21, LeaseAssumption DEF EndPluginOperation, DropPermit, InOperation, IInv,
         TypeOK, FlowBookkeeping, LeaseTypeOK, Conns, manager, records, revoke
    <2>2. Promised!EndJob(p)
      BY <1>21, <2>1 DEF EndPluginOperation, DropPermit, Promised!EndJob, lease, manager,
         attachments
    <2> QED BY <2>2 DEF Promised!Next, Conns
  <1>22. ASSUME NEW r \in Runs, RunEnds(r)
        PROVE  Promised!Next \/ UNCHANGED Promised!vars
    <2>1. InOperation' = InOperation
      BY <1>22, LeaseAssumption DEF RunEnds, InOperation, IInv, TypeOK, FlowBookkeeping,
         LeaseTypeOK, Conns, manager, records, revoke
    <2>2. Promised!EndRun(r)
      BY <1>22, <2>1 DEF RunEnds, Promised!EndRun, lease, manager, attachments
    <2> QED BY <2>2 DEF Promised!Next, Conns
  <1> QED
    BY <1>1, <1>2, <1>3, <1>4, <1>5, <1>6, <1>7, <1>8, <1>9, <1>10, <1>11, <1>12, <1>13,
          <1>14, <1>15, <1>16, <1>17, <1>18, <1>19, <1>20, <1>21, <1>22 DEF Next

(* The lease, composed with the attachments, the Connections, the dispatch
   loops and the Runs, implements ControlOfHost: exclusive operations, quiet
   handovers, and control that a closed Connection is losing at once. *)
THEOREM ControlKeepsPromise == Spec => ControlIsAsPromised
  <1>1. Init => Promised!Init
    BY LeaseAssumption DEF Init, LeaseInit, Promised!Init, InOperation, Conns
  <1>2. ASSUME IInv, [Next]_hostVars PROVE [Promised!Next]_(Promised!vars)
    <2>1. CASE UNCHANGED hostVars
      BY <2>1 DEF hostVars, lease, manager, InOperation, Promised!vars
    <2> QED BY <1>2, <2>1, StepKeepsPromise
  <1> QED BY <1>1, <1>2, Inductive, PTL DEF Spec, ControlIsAsPromised, Promised!Spec
=============================================================================
