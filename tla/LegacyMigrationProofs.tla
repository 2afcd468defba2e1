----------------------- MODULE LegacyMigrationProofs -----------------------
(***************************************************************************)
(* Proofs of the safety of LegacyMigration, and that it implements         *)
(* AtomicUpgrade, for any Hosts, attempts and failures, as long as the     *)
(* main database can be read when it is there (ReadsFail is FALSE).        *)
(***************************************************************************)
EXTENDS LegacyMigration, TLAPS

(***************************************************************************)
(* The inductive invariant.                                                *)

Openers == Hosts \cup {Operator}

(* Whoever opens or settles the database does so under the lock. *)
Locked == \A p \in Openers : pc[p] \notin {"closed", "serving"} => lock = p

Unmarked == manifest = NoManifest /\ draft = NoState /\ ~poison /\ staged = {}

(* What the holder of the lock knows at each step of open, of an attempt   *)
(* and of its settlement.                                                  *)
OpenerKnows(p) ==
    /\ pc[p] = "check" /\ p = Operator => manifest.status = "settled"
    /\ pc[p] \in PreparePlaces \cup {"recover", "inspect", "create", "clear"} => Unmarked
    /\ pc[p] \in {"inspect", "begin", "backup",
         "announce"} => state = NoState \/ db = "empty"
    /\ pc[p] = "begin" => db \in {"empty", "final", "used"}
    /\ pc[p] \in {"create", "temps", "register", "spawn"} =>
          db = "legacy" /\ state = NoState /\ draft = NoState
    /\ pc[p] \in {"temps", "register"} => manifest.status = "preparing"
    /\ pc[p] \in {"spawn", "supervise", "unknown"} => manifest.status = "prepared"
    /\ pc[p] \in {"poison", "settle"} => manifest.status \in {"prepared", "exit_unknown"}
    /\ pc[p] \in {"clean", "seal"} =>
          manifest.status \in Active /\ verdict = db /\ db \in {"legacy", "final"}
    /\ pc[p] = "seal" => files[manifest.id] = {}
    /\ pc[p] = "tidy" => manifest.status = "settled" /\ draft = NoState /\ staged = {}

(* What a Host that bootstraps, or a child, knows in _prepare. *)
PreparerKnows(p) ==
    LET source == SourceOf(AttemptOf(p)) IN
    /\ pc[p] \in PreparePlaces \cup {"spawned", "clear"} => draft = NoState
    /\ pc[p] \in {"backup", "announce", "migrate", "commit", "restored"} => db = source
    /\ pc[p] \in {"announce", "migrate", "commit", "failing"} => source \in backup
    /\ pc[p] \in PreparePlaces \cup {"clear"} =>
          pc[p] \in {"begin", "backup", "announce"} \/ state # NoState
    /\ pc[p] \in {"commit", "pending", "landing", "committed", "clear"} => state.final
    /\ pc[p] \in {"pending", "landing"} => db \in {source, "final"}
    /\ pc[p] = "failing" => db \in {source, "other"}
    /\ pc[p] \in {"committed", "clear"} => db = "final"

ChildKnows(a) ==
    /\ pc[a] \in {"spawned", "begin", "backup", "announce"} => state = NoState
    /\ pc[a] \in {"begin", "backup", "announce", "migrate", "commit", "failing"} =>
          {"restore", "ready"} \subseteq files[a]

Knowledge == /\ \A p \in Openers : OpenerKnows(p)
             /\ \A p \in Hosts \cup Attempts : PreparerKnows(p)
             /\ \A a \in Attempts : ChildKnows(a)

ManifestFits ==
    /\ manifest.status = "none" => manifest = NoManifest
    /\ manifest.status # "none" => manifest.id \in Attempts
    /\ manifest.status = "preparing" => db = "legacy"
    /\ manifest.status = "settled" => files[manifest.id] = {}

(* An upgraded database is one the state has the fingerprint of, so that   *)
(* nobody who settles by the facts takes it for anything else.             *)
FinalIsKnown == db = "final" => \A s \in {state, draft} : s # NoState => s.final

IInv == /\ TypeOK /\ Locked /\ Knowledge /\ ManifestFits /\ FinalIsKnown
        /\ ChildIsGuarded /\ DamageIsRecoverable /\ MarkersAreOwned /\ ServesOnlyUnguarded

-----------------------------------------------------------------------------
(* Who stands still while another one steps.                               *)

(* Hosts, the Operator and attempts are told apart. *)
LEMMA Kinds ==
  /\ Operator \notin Attempts /\ Operator \notin Hosts
  /\ \A h \in Hosts : h \notin Attempts
  /\ \A p \in Openers : p \in Procs /\ p \notin Attempts
  /\ \A p \in Attempts : p \in Procs /\ p \notin Openers
  /\ Procs = Openers \cup Attempts /\ None \notin Procs
  BY ProcsAssumption DEF Openers, Procs

(* Whoever is not at work knows nothing. *)
LEMMA Quiet ==
  ASSUME NEW q, pc'[q] \in {"closed", "serving", "none", "exited"}
  PROVE  OpenerKnows(q)' /\ PreparerKnows(q)' /\ ChildKnows(q)'
  BY DEF OpenerKnows, PreparerKnows, ChildKnows, PreparePlaces

(* At the steps that follow the examination of the markers, the holder of  *)
(* the lock is alone.                                                      *)
Aside == {"closed", "serving", "check", "supervise", "unknown", "poison"}

Alone(p) == /\ \A q \in Openers \ {p} : pc[q] \in {"closed", "serving"}
            /\ \A a \in Attempts : pc[a] \in Done

(* Only one process opens or settles at a time. *)
LEMMA OneHolder ==
  ASSUME IInv, NEW p \in Openers, pc[p] \notin {"closed", "serving"},
         NEW q \in Openers \ {p}
  PROVE  pc[q] \in {"closed", "serving"}
  BY DEF IInv, Locked

(* There is no child but under a prepared manifest. *)
LEMMA NoChild ==
  ASSUME IInv, manifest.status \notin {"prepared", "exit_unknown"}
  PROVE  \A a \in Attempts : pc[a] \in Done
  BY DEF IInv, ChildIsGuarded, Live

(* So the holder of the lock works alone. *)
LEMMA HolderIsAlone ==
  ASSUME IInv, NEW p \in Openers, pc[p] \notin Aside
  PROVE  Alone(p)
  <1>1. ASSUME NEW a \in Attempts
        PROVE  pc[a] \in Done
    <2>1. SUFFICES ASSUME pc[a] \notin Done PROVE FALSE
      OBVIOUS
    <2>2. p \in Procs \ {a}
      BY Kinds
    <2>3. pc[p] \in Done \cup {"closed", "check", "supervise", "unknown", "poison"}
      BY <2>1, <2>2 DEF IInv, ChildIsGuarded, Live
    <2>4. pc[p] \notin Done
      BY DEF IInv, TypeOK, PlacesOK, HostPlaces, OperatorPlaces, PreparePlaces, Openers,
         Done
    <2>5. QED
      BY <2>3, <2>4 DEF Aside
  <1>2. QED
    BY <1>1, OneHolder DEF Alone, Aside

(* What is left to show of a step of a lock's holder that is alone. *)
LEMMA OpenerSteps ==
  ASSUME IInv, NEW p \in Openers, NEW l, Alone(p),
         pc' = [pc EXCEPT ![p] = l],
         l \in HostPlaces, p = Operator => l \in OperatorPlaces,
         l \notin {"closed", "serving"} => lock' = p,
         OpenerKnows(p)', PreparerKnows(p)'
  PROVE  PlacesOK' /\ Locked' /\ Knowledge' /\ ChildIsGuarded'
  <1>1. pc \in [Procs -> HostPlaces \cup ChildPlaces] /\ p \in Procs /\ p \notin Attempts
    BY Kinds DEF IInv, TypeOK, PlacesOK
  <1>2. pc'[p] = l /\ \A q \in Procs \ {p} : pc'[q] = pc[q]
    BY <1>1
  <1>3. PlacesOK'
    BY <1>1, <1>2, Kinds DEF IInv, TypeOK, PlacesOK, Openers
  <1>4. Locked'
    BY <1>2, Kinds DEF Locked, Alone
  <1>5. \A q \in Procs \ {p} : OpenerKnows(q)' /\ PreparerKnows(q)' /\ ChildKnows(q)'
    <2>1. \A q \in Procs \ {p} : pc'[q] \in {"closed", "serving", "none", "exited"}
      BY <1>2, Kinds DEF Alone, Done
    <2>2. QED
      BY <2>1, Quiet
  <1>6. Knowledge'
    BY <1>5, Kinds DEF Knowledge, Openers
  <1>7. ChildIsGuarded'
    BY <1>1, <1>2, Kinds DEF ChildIsGuarded, Live, Alone
  <1>8. QED
    BY <1>3, <1>4, <1>6, <1>7

(* What the process that prepares the database finds. *)
LEMMA PreparerFinds ==
  ASSUME IInv, NEW p \in Hosts \cup Attempts,
         pc[p] \in PreparePlaces \cup {"spawned", "clear"}
  PROVE  /\ manifest.id = AttemptOf(p) /\ draft = NoState
         /\ p \in Hosts => Unmarked /\ Alone(p) /\ lock = p /\ p \in Openers
         /\ p \in Attempts => /\ manifest.status \in {"prepared", "exit_unknown"}
                              /\ \A q \in Procs \ {p} : pc[q] \in Done \cup
                                    {"closed", "check", "supervise", "unknown", "poison"}
         /\ p \in Attempts \/ pc[p] # "begin" => ~InService
  <1>1. CASE p \in Hosts
    <2>1. p \in Openers /\ p \notin Attempts
      BY <1>1, Kinds DEF Openers
    <2>2. pc[p] \in PreparePlaces \cup {"clear"}
      BY <1>1 DEF IInv, TypeOK, PlacesOK, HostPlaces, OperatorPlaces, PreparePlaces
    <2>3. Unmarked /\ manifest.id = 0
      BY <2>1, <2>2 DEF IInv, Knowledge, OpenerKnows, Unmarked, NoManifest
    <2>4. Alone(p)
      BY <2>1, <2>2, HolderIsAlone DEF Aside, PreparePlaces
    <2>5. lock = p
      BY <2>1, <2>2 DEF IInv, Locked, PreparePlaces
    <2>6. ASSUME pc[p] # "begin", InService
          PROVE  FALSE
      <3>1. db \in {"final", "used"} /\ state = NoState
        BY <2>6 DEF IInv, ServesOnlyUnguarded
      <3>2. PreparerKnows(p) /\ AttemptOf(p) = 0
        BY <2>1 DEF IInv, Knowledge, AttemptOf
      <3>3. pc[p] \in {"backup", "announce"}
        BY <2>6, <2>2, <3>1, <3>2 DEF PreparerKnows
      <3>4. QED
        BY <3>1, <3>2, <3>3 DEF PreparerKnows, SourceOf
    <2>7. QED
      BY <1>1, <2>1, <2>3, <2>4, <2>5, <2>6 DEF AttemptOf, Unmarked
  <1>2. CASE p \in Attempts
    <2>1. Live(p) /\ p \notin Hosts
      BY <1>2, Kinds DEF Live, Done, PreparePlaces,
                         IInv, TypeOK, PlacesOK, ChildPlaces
    <2>2. /\ manifest.status \in {"prepared", "exit_unknown"} /\ manifest.id = p
          /\ \A q \in Procs \ {p} : pc[q] \in Done \cup
                {"closed", "check", "supervise", "unknown", "poison"}
      BY <1>2, <2>1 DEF IInv, ChildIsGuarded
    <2>3. ~InService
      BY <2>2 DEF IInv, ServesOnlyUnguarded, NoManifest
    <2>4. draft = NoState
      BY <1>2 DEF IInv, Knowledge, PreparerKnows
    <2>5. QED
      BY <1>2, <2>1, <2>2, <2>3, <2>4 DEF AttemptOf
  <1>3. QED
    BY <1>1, <1>2

(* What is left to show of a step of it. *)
LEMMA PreparerSteps ==
  ASSUME IInv, NEW p \in Hosts \cup Attempts, NEW l,
         pc[p] \in PreparePlaces \cup {"spawned"},
         pc' = [pc EXCEPT ![p] = l], manifest' = manifest,
         l \in IF p \in Attempts THEN ChildPlaces \ {"none"} ELSE HostPlaces,
         l \notin {"closed", "serving", "exited"} => lock' = lock,
         p \in Hosts => lock' = lock \/ l = "closed",
         p \in Attempts => lock' = lock \/ lock = p,
         PreparerKnows(p)', p \in Hosts => OpenerKnows(p)',
         p \in Attempts => ChildKnows(p)',
         ~InService'
  PROVE  /\ PlacesOK' /\ Locked' /\ Knowledge' /\ ChildIsGuarded'
         /\ ManifestFits' /\ ServesOnlyUnguarded'
  <1>1. pc \in [Procs -> HostPlaces \cup ChildPlaces] /\ p \in Procs
    BY Kinds DEF IInv, TypeOK, PlacesOK, Openers
  <1>2. pc'[p] = l /\ \A q \in Procs \ {p} : pc'[q] = pc[q]
    BY <1>1
  <1>3. manifest.status \in {"none", "prepared", "exit_unknown"}
    BY PreparerFinds DEF Unmarked, NoManifest
  <1>4. ManifestFits' /\ ServesOnlyUnguarded'
    BY <1>3 DEF IInv, ManifestFits, ServesOnlyUnguarded
  <1>5. CASE p \in Hosts
    <2>1. Alone(p) /\ lock = p /\ p \in Openers /\ p \notin Attempts /\ p # Operator
      BY <1>5, PreparerFinds, Kinds
    <2>2. QED
      BY <1>4, <1>5, <2>1, OpenerSteps
  <1>6. CASE p \in Attempts
    <2>1. p \notin Hosts /\ p # Operator /\ p \notin Openers
      BY <1>6, Kinds
    <2>2. /\ manifest.status \in {"prepared", "exit_unknown"} /\ manifest.id = p
          /\ \A q \in Procs \ {p} : pc[q] \in Done \cup
                {"closed", "check", "supervise", "unknown", "poison"}
      BY <1>6, PreparerFinds DEF AttemptOf
    <2>3. PlacesOK'
      BY <1>1, <1>2, <1>6, <2>1, Kinds DEF IInv, TypeOK, PlacesOK, Openers
    <2>4. Locked'
      BY <1>2, <1>6, <2>1, Kinds DEF IInv, Locked
    <2>5. ASSUME NEW q \in Procs \ {p}
          PROVE  \/ OpenerKnows(q)' /\ PreparerKnows(q)' /\ ChildKnows(q)'
                 \/ q \in Openers /\ OpenerKnows(q)' /\ PreparerKnows(q)'
      <3>1. pc'[q] = pc[q] /\ pc[q] \in Done \cup
                {"closed", "check", "supervise", "unknown", "poison"}
        BY <1>2, <2>2
      <3>2. CASE pc[q] \in Done \cup {"closed"}
        BY <3>1, <3>2, Quiet DEF Done
      <3>3. CASE pc[q] \in {"check", "supervise", "unknown", "poison"}
        <4>1. q \in Openers
          BY <3>3, Kinds DEF IInv, TypeOK, PlacesOK, ChildPlaces, PreparePlaces
        <4>2. OpenerKnows(q)
          BY <4>1 DEF IInv, Knowledge
        <4>3. OpenerKnows(q)'
          BY <3>1, <3>3, <4>2 DEF OpenerKnows, PreparePlaces
        <4>4. PreparerKnows(q)'
          BY <3>1, <3>3 DEF PreparerKnows, PreparePlaces
        <4>5. QED
          BY <4>1, <4>3, <4>4
      <3>4. QED
        BY <3>1, <3>2, <3>3
    <2>6. Knowledge'
      BY <1>6, <2>1, <2>5, Kinds DEF Knowledge, Openers
    <2>7. ChildIsGuarded'
      <3>1. SUFFICES ASSUME NEW a \in Attempts, pc'[a] \notin Done
                     PROVE  /\ manifest'.status \in {"prepared", "exit_unknown"}
                            /\ manifest'.id = a
                            /\ \A q \in Procs \ {a} : pc'[q] \in Done \cup
                                  {"closed", "check", "supervise", "unknown", "poison"}
        BY DEF ChildIsGuarded, Live
      <3>2. ASSUME a # p
            PROVE  FALSE
        <4>1. a \in Procs \ {p} /\ pc[a] \notin Done /\ pc[a] \in ChildPlaces
          BY <1>2, <3>1, <3>2, Kinds DEF IInv, TypeOK, PlacesOK
        <4>2. QED
          BY <2>2, <4>1 DEF ChildPlaces, PreparePlaces, Done
      <3>3. QED
        BY <1>2, <2>2, <3>2
    <2>8. QED
      BY <1>4, <2>3, <2>4, <2>6, <2>7
  <1>7. QED
    BY <1>5, <1>6

(* A lock's holder at work on an attempt leaves no room for a serving Host. *)
LEMMA Unserved ==
  ASSUME IInv, NEW p \in Openers,
         pc[p] \in {"create", "temps", "register", "spawn", "supervise", "unknown",
                   "poison", "settle", "clean", "seal", "tidy"}
  PROVE  ~InService
  BY DEF IInv, Knowledge, OpenerKnows, ServesOnlyUnguarded, NoManifest, Active

(* A step that neither serves nor writes leaves it so. *)
LEMMA StaysUnserved ==
  ASSUME ~InService, NEW p, NEW l, pc \in [Procs -> HostPlaces \cup ChildPlaces],
         pc' = [pc EXCEPT ![p] = l], l # "serving", db' # "used"
  PROVE  ~InService'
  BY DEF InService, Procs

-----------------------------------------------------------------------------
(* The steps of a Host that holds the lock, and of the Operator.           *)

(* In what a step begins: p holds the lock, and nobody else is at work.    *)
LEMMA Holder ==
  ASSUME IInv, NEW p \in Openers, pc[p] \notin {"closed", "serving"}
  PROVE  /\ lock = p /\ p \in Procs /\ p \notin Attempts
         /\ pc \in [Procs -> HostPlaces \cup ChildPlaces]
         /\ OpenerKnows(p) /\ (p \in Hosts => PreparerKnows(p))
         /\ p = Operator => pc[p] \in OperatorPlaces
         /\ pc[p] \notin Aside => Alone(p)
         /\ manifest.status \notin {"prepared", "exit_unknown"} => Alone(p)
  BY Kinds, HolderIsAlone, NoChild, OneHolder
  DEF IInv, TypeOK, PlacesOK, Locked, Knowledge, Openers, Alone

(* The values of a marker that is not there. *)
LEMMA Nothings ==
  /\ NoState \in States
  /\ NoManifest \in [status : {"none", "settled"} \cup Active, id : 0..MaxAttempts,
                    result : {"none", "legacy", "final"}]
  BY ProcsAssumption DEF NoState, States, NoManifest

(* The source is inspected; nothing is written. *)
LEMMA InspectPreserves ==
  ASSUME IInv, NEW p \in Hosts,
         Inspect(p)
  PROVE  IInv'
  <1>1. /\ p \in Openers /\ p \in Procs /\ p \notin Attempts
        /\ pc[p] = "inspect" /\ lock = p /\ Alone(p)
        /\ pc \in [Procs -> HostPlaces \cup ChildPlaces]
    BY Kinds, Holder DEF Openers, Aside, Inspect
  <1>2. /\ Unmarked /\ (state = NoState \/ db = "empty")
    BY <1>1, Holder DEF Inspect, OpenerKnows, PreparePlaces
  <1>3. PICK l \in {"closed", "create", "begin"} :
             /\ pc' = [pc EXCEPT ![p] = l] /\ pc'[p] = l
             /\ l \notin {"closed", "serving"} => lock' = p
             /\ lock' \in {lock, None} /\ writer' \in {writer, None}
             /\ l = "create" => db = "legacy"
             /\ l = "begin" => db \notin {"legacy", "other"}
    BY <1>1 DEF Inspect, GoesOrEnds, Goes, Ends
  <1>4. /\ UNCHANGED <<db, backup, manifest, state, poison, staged, draft, files, verdict,
             poisoned, attempts, faults>>
    BY <1>1, <1>2, <1>3 DEF Inspect, disk
  <1>5. PlacesOK' => TypeOK'
    BY <1>1, <1>2, <1>3, <1>4, Kinds, ProcsAssumption DEF IInv, TypeOK, ManifestOK, Active
  <1>6. OpenerKnows(p)'
    BY <1>1, <1>2, <1>3, <1>4 DEF OpenerKnows, PreparePlaces, Unmarked, IInv, TypeOK
  <1>7. PreparerKnows(p)'
    BY <1>1, <1>2, <1>3, <1>4 DEF PreparerKnows, PreparePlaces, Unmarked
  <1>8. ManifestFits'
    BY <1>1, <1>2, <1>3, <1>4 DEF IInv, ManifestFits
  <1>9. FinalIsKnown'
    BY <1>1, <1>2, <1>3, <1>4 DEF IInv, FinalIsKnown
  <1>10. DamageIsRecoverable'
    BY <1>1, <1>2, <1>3, <1>4 DEF IInv, DamageIsRecoverable
  <1>11. MarkersAreOwned'
    BY <1>1, <1>2, <1>3, <1>4 DEF IInv, MarkersAreOwned
  <1>12. ServesOnlyUnguarded'
    BY <1>1, <1>2, <1>3, <1>4 DEF IInv, ServesOnlyUnguarded, InService
  <1>13. l \in HostPlaces /\ (p = Operator => l \in OperatorPlaces)
    BY <1>1, <1>2, <1>3, Kinds DEF HostPlaces, OperatorPlaces, PreparePlaces
  <1>14. PlacesOK' /\ Locked' /\ Knowledge' /\ ChildIsGuarded'
    BY <1>1, <1>3, <1>6, <1>7, <1>13, OpenerSteps
  <1>15. QED
    BY <1>5, <1>8, <1>9, <1>10, <1>11, <1>12, <1>14 DEF IInv

(* The manifest of a new attempt. *)
LEMMA CreateAttemptPreserves ==
  ASSUME IInv, NEW p \in Hosts, NEW o \in Outcomes,
         CreateAttempt(p, o)
  PROVE  IInv'
  <1>1. /\ p \in Openers /\ p \in Procs /\ p \notin Attempts
        /\ pc[p] = "create" /\ lock = p /\ Alone(p)
        /\ pc \in [Procs -> HostPlaces \cup ChildPlaces]
    BY Kinds, Holder DEF Openers, Aside, CreateAttempt
  <1>2. /\ Unmarked /\ db = "legacy" /\ state = NoState
    BY <1>1, Holder DEF CreateAttempt, OpenerKnows, PreparePlaces
  <1>3. PICK l \in {"closed", "temps"} :
             /\ pc' = [pc EXCEPT ![p] = l] /\ pc'[p] = l
             /\ l \notin {"closed", "serving"} => lock' = p
             /\ lock' \in {lock, None} /\ writer' \in {writer, None}
             /\ l = "temps" => Written(o)
    BY <1>1 DEF CreateAttempt, WriteManifest, AtomicWrite, Outcomes, Written, Spend,
       GoesOrEnds, Goes, Ends
  <1>4. /\ attempts + 1 \in Attempts /\ attempts' = attempts + 1
        /\ manifest' = IF Written(o) THEN [status |-> "preparing", id |-> attempts + 1,
             result |-> "none"] ELSE manifest
        /\ staged' \subseteq {"attempt"}
        /\ faults' \in 0..MaxFaults
        /\ UNCHANGED <<db, backup, state, poison, draft, files, verdict, poisoned>>
    BY <1>1, <1>2, <1>3, ProcsAssumption DEF CreateAttempt, WriteManifest, AtomicWrite,
       Outcomes, Written, Spend, disk, IInv, TypeOK, Attempts, Unmarked
  <1>5. /\ draft = NoState /\ ~poison /\ manifest = NoManifest
        /\ \A a \in Attempts : files[a] = {}
    BY <1>1, <1>2, <1>3, <1>4 DEF IInv, MarkersAreOwned, Unmarked, NoManifest, Attempts
  <1>6. ~InService /\ ~InService'
    BY <1>1, <1>2, <1>3, <1>4, Unserved, StaysUnserved DEF InService
  <1>7. PlacesOK' => TypeOK'
    BY <1>1, <1>2, <1>3, <1>4, <1>5, <1>6, Kinds, ProcsAssumption DEF IInv, TypeOK,
       ManifestOK, Active, Attempts
  <1>8. OpenerKnows(p)'
    BY <1>1, <1>2, <1>3, <1>4, <1>5, <1>6 DEF OpenerKnows, PreparePlaces, NoManifest,
       Written
  <1>9. PreparerKnows(p)'
    BY <1>1, <1>2, <1>3, <1>4, <1>5, <1>6 DEF PreparerKnows, PreparePlaces
  <1>10. ManifestFits'
    BY <1>1, <1>2, <1>3, <1>4, <1>5, <1>6 DEF IInv, ManifestFits, NoManifest
  <1>11. FinalIsKnown'
    BY <1>1, <1>2, <1>3, <1>4, <1>5, <1>6 DEF IInv, FinalIsKnown, NoState
  <1>12. DamageIsRecoverable'
    BY <1>1, <1>2, <1>3, <1>4, <1>5, <1>6 DEF IInv, DamageIsRecoverable
  <1>13. MarkersAreOwned'
    BY <1>1, <1>2, <1>3, <1>4, <1>5, <1>6 DEF IInv, MarkersAreOwned, NoManifest, NoState
  <1>14. ServesOnlyUnguarded'
    BY <1>1, <1>2, <1>3, <1>4, <1>5, <1>6 DEF IInv, ServesOnlyUnguarded, NoManifest
  <1>15. l \in HostPlaces /\ (p = Operator => l \in OperatorPlaces)
    BY <1>1, <1>2, <1>3, Kinds DEF HostPlaces, OperatorPlaces, PreparePlaces
  <1>16. PlacesOK' /\ Locked' /\ Knowledge' /\ ChildIsGuarded'
    BY <1>1, <1>3, <1>8, <1>9, <1>15, OpenerSteps
  <1>17. QED
    BY <1>7, <1>10, <1>11, <1>12, <1>13, <1>14, <1>16 DEF IInv

(* The private directory of the attempt. *)
LEMMA MakeTempsPreserves ==
  ASSUME IInv, NEW p \in Hosts, NEW F \in SUBSET Temps,
         MakeTemps(p, F)
  PROVE  IInv'
  <1>1. /\ p \in Openers /\ p \in Procs /\ p \notin Attempts
        /\ pc[p] = "temps" /\ lock = p /\ Alone(p)
        /\ pc \in [Procs -> HostPlaces \cup ChildPlaces]
    BY Kinds, Holder DEF Openers, Aside, MakeTemps
  <1>2. /\ manifest.status = "preparing" /\ db = "legacy" /\ state = NoState /\
             draft = NoState
        /\ manifest.id \in Attempts
    BY <1>1, Holder DEF MakeTemps, OpenerKnows, PreparePlaces, IInv, ManifestFits
  <1>3. PICK l \in {"closed", "register"} :
             /\ pc' = [pc EXCEPT ![p] = l] /\ pc'[p] = l
             /\ l \notin {"closed", "serving"} => lock' = p
             /\ lock' \in {lock, None} /\ writer' \in {writer, None}
    BY <1>1 DEF MakeTemps, Spend, GoesOrEnds, Ends, Goes
  <1>4. /\ files' = [files EXCEPT ![manifest.id] = F]
        /\ faults' \in 0..MaxFaults
        /\ UNCHANGED <<db, backup, manifest, state, poison, staged, draft, verdict,
             poisoned, attempts>>
    BY <1>1, <1>2, <1>3, ProcsAssumption DEF MakeTemps, Spend, GoesOrEnds, Ends, disk,
       IInv, TypeOK
  <1>5. ~InService /\ ~InService'
    BY <1>1, <1>2, <1>3, <1>4, Unserved, StaysUnserved DEF InService
  <1>6. PlacesOK' => TypeOK'
    BY <1>1, <1>2, <1>3, <1>4, <1>5, Kinds, ProcsAssumption DEF IInv, TypeOK, ManifestOK,
       Active, Temps
  <1>7. OpenerKnows(p)'
    BY <1>1, <1>2, <1>3, <1>4, <1>5 DEF OpenerKnows, PreparePlaces
  <1>8. PreparerKnows(p)'
    BY <1>1, <1>2, <1>3, <1>4, <1>5 DEF PreparerKnows, PreparePlaces
  <1>9. ManifestFits'
    BY <1>1, <1>2, <1>3, <1>4, <1>5 DEF IInv, ManifestFits
  <1>10. FinalIsKnown'
    BY <1>1, <1>2, <1>3, <1>4, <1>5 DEF IInv, FinalIsKnown
  <1>11. DamageIsRecoverable'
    BY <1>1, <1>2, <1>3, <1>4, <1>5 DEF IInv, DamageIsRecoverable
  <1>12. MarkersAreOwned'
    BY <1>1, <1>2, <1>3, <1>4, <1>5 DEF IInv, MarkersAreOwned
  <1>13. ServesOnlyUnguarded'
    BY <1>1, <1>2, <1>3, <1>4, <1>5 DEF IInv, ServesOnlyUnguarded
  <1>14. l \in HostPlaces /\ (p = Operator => l \in OperatorPlaces)
    BY <1>1, <1>2, <1>3, Kinds DEF HostPlaces, OperatorPlaces, PreparePlaces
  <1>15. PlacesOK' /\ Locked' /\ Knowledge' /\ ChildIsGuarded'
    BY <1>1, <1>3, <1>7, <1>8, <1>14, OpenerSteps
  <1>16. QED
    BY <1>6, <1>9, <1>10, <1>11, <1>12, <1>13, <1>15 DEF IInv

(* The attempt is registered as prepared. *)
LEMMA RegisterAttemptPreserves ==
  ASSUME IInv, NEW p \in Hosts, NEW o \in Outcomes, NEW F \in SUBSET Temps,
         RegisterAttempt(p, o, F)
  PROVE  IInv'
  <1>1. /\ p \in Openers /\ p \in Procs /\ p \notin Attempts
        /\ pc[p] = "register" /\ lock = p /\ Alone(p)
        /\ pc \in [Procs -> HostPlaces \cup ChildPlaces]
    BY Kinds, Holder DEF Openers, Aside, RegisterAttempt
  <1>2. /\ manifest.status = "preparing" /\ db = "legacy" /\ state = NoState /\
             draft = NoState
        /\ manifest.id \in Attempts
    BY <1>1, Holder DEF RegisterAttempt, OpenerKnows, PreparePlaces, IInv, ManifestFits
  <1>3. PICK l \in {"closed", "spawn"} :
             /\ pc' = [pc EXCEPT ![p] = l] /\ pc'[p] = l
             /\ l \notin {"closed", "serving"} => lock' = p
             /\ lock' \in {lock, None} /\ writer' \in {writer, None}
             /\ l = "spawn" => Written(o)
    BY <1>1 DEF RegisterAttempt, WriteManifest, AtomicWrite, Outcomes, Written, Spend,
       GoesOrEnds, Goes, Ends
  <1>4. /\ files' = [files EXCEPT ![manifest.id] = F]
        /\ manifest' = IF Written(o) THEN [manifest EXCEPT !.status = "prepared"] ELSE manifest
        /\ staged' \subseteq staged \cup {"attempt"}
        /\ faults' \in 0..MaxFaults
        /\ UNCHANGED <<db, backup, state, poison, draft, verdict, poisoned, attempts>>
    BY <1>1, <1>2, <1>3, ProcsAssumption DEF RegisterAttempt, WriteManifest, AtomicWrite,
       Outcomes, Written, Spend, disk, IInv, TypeOK
  <1>5. ~InService /\ ~InService'
    BY <1>1, <1>2, <1>3, <1>4, Unserved, StaysUnserved DEF InService
  <1>6. PlacesOK' => TypeOK'
    BY <1>1, <1>2, <1>3, <1>4, <1>5, Kinds, ProcsAssumption DEF IInv, TypeOK, ManifestOK,
       Active, Temps
  <1>7. OpenerKnows(p)'
    BY <1>1, <1>2, <1>3, <1>4, <1>5 DEF OpenerKnows, PreparePlaces
  <1>8. PreparerKnows(p)'
    BY <1>1, <1>2, <1>3, <1>4, <1>5 DEF PreparerKnows, PreparePlaces
  <1>9. ManifestFits'
    BY <1>1, <1>2, <1>3, <1>4, <1>5 DEF IInv, ManifestFits
  <1>10. FinalIsKnown'
    BY <1>1, <1>2, <1>3, <1>4, <1>5 DEF IInv, FinalIsKnown
  <1>11. DamageIsRecoverable'
    BY <1>1, <1>2, <1>3, <1>4, <1>5 DEF IInv, DamageIsRecoverable
  <1>12. MarkersAreOwned'
    BY <1>1, <1>2, <1>3, <1>4, <1>5 DEF IInv, MarkersAreOwned
  <1>13. ServesOnlyUnguarded'
    BY <1>1, <1>2, <1>3, <1>4, <1>5 DEF IInv, ServesOnlyUnguarded
  <1>14. l \in HostPlaces /\ (p = Operator => l \in OperatorPlaces)
    BY <1>1, <1>2, <1>3, Kinds DEF HostPlaces, OperatorPlaces, PreparePlaces
  <1>15. PlacesOK' /\ Locked' /\ Knowledge' /\ ChildIsGuarded'
    BY <1>1, <1>3, <1>7, <1>8, <1>14, OpenerSteps
  <1>16. QED
    BY <1>6, <1>9, <1>10, <1>11, <1>12, <1>13, <1>15 DEF IInv

(* The markers of a settled attempt are removed. *)
LEMMA HousekeepingPreserves ==
  ASSUME IInv, NEW p \in Openers, NEW n \in 0..6,
         Housekeeping(p, n)
  PROVE  IInv'
  <1>1. /\ p \in Openers /\ p \in Procs /\ p \notin Attempts
        /\ pc[p] = "check" /\ lock = p /\ Alone(p)
        /\ pc \in [Procs -> HostPlaces \cup ChildPlaces]
    BY Kinds, Holder DEF Openers, Aside, Housekeeping
  <1>2. /\ manifest.status = "settled" /\ manifest.id \in Attempts /\ db = manifest.result
        /\ files[manifest.id] = {} /\ ~InService /\
             (staged \ {"poison"}) \ {"attempt"} = {} /\ manifest # NoManifest
    BY <1>1, Holder DEF Housekeeping, IInv, ManifestFits, ServesOnlyUnguarded, NoManifest,
       TypeOK
  <1>3. PICK l \in {"closed", "inspect"} :
             /\ pc' = [pc EXCEPT ![p] = l] /\ pc'[p] = l
             /\ l \notin {"closed", "serving"} => lock' = p
             /\ lock' \in {lock, None} /\ writer' \in {writer, None}
             /\ l = "inspect" => n = 6 /\ p \in Hosts
    BY <1>1 DEF Housekeeping, Spend, GoesOrEnds, Ends, Goes
  <1>4. /\ draft' \in {draft, NoState} /\ state' \in {state, NoState} /\
             poison' \in {poison, FALSE}
        /\ staged' \subseteq staged /\ poisoned' \subseteq poisoned /\
             manifest' \in {manifest, NoManifest}
        /\ n = 6 => manifest' = NoManifest /\ draft' = NoState /\ state' = NoState /\
             ~poison'
        /\ n = 6 => staged' = (staged \ {"poison"}) \ {"attempt"}
        /\ n # 6 => manifest' = manifest
        /\ faults' \in 0..MaxFaults
        /\ UNCHANGED <<db, backup, files, verdict, attempts>>
    <2>1. draft' \in {draft, NoState} /\ state' \in {state, NoState} /\
            poison' \in {poison, FALSE}
      BY <1>1, <1>2, <1>3, ProcsAssumption DEF Housekeeping, Spend, GoesOrEnds, Ends, disk,
         IInv, TypeOK
    <2>2. staged' \subseteq staged /\ poisoned' \subseteq poisoned /\
            manifest' \in {manifest, NoManifest}
      BY <1>1, <1>2, <1>3, ProcsAssumption DEF Housekeeping, Spend, GoesOrEnds, Ends, disk,
         IInv, TypeOK
    <2>3. n = 6 => manifest' = NoManifest /\ draft' = NoState /\ state' = NoState /\
            ~poison'
      BY <1>1, <1>2, <1>3, ProcsAssumption DEF Housekeeping, Spend, GoesOrEnds, Ends, disk,
         IInv, TypeOK
    <2>4. n = 6 => staged' = (staged \ {"poison"}) \ {"attempt"}
      BY <1>1, <1>2, <1>3, ProcsAssumption DEF Housekeeping, Spend, GoesOrEnds, Ends, disk,
         IInv, TypeOK
    <2>5. n # 6 => manifest' = manifest
      BY <1>1, <1>2, <1>3, ProcsAssumption DEF Housekeeping, Spend, GoesOrEnds, Ends, disk,
         IInv, TypeOK
    <2>6. faults' \in 0..MaxFaults
      BY <1>1, <1>2, <1>3, ProcsAssumption DEF Housekeeping, Spend, GoesOrEnds, Ends, disk,
         IInv, TypeOK
    <2>7. UNCHANGED <<db, backup, files, verdict, attempts>>
      BY <1>1, <1>2, <1>3, ProcsAssumption DEF Housekeeping, Spend, GoesOrEnds, Ends, disk,
         IInv, TypeOK
    <2>8. QED
      BY <2>1, <2>2, <2>3, <2>4, <2>5, <2>6, <2>7
  <1>5. PlacesOK' => TypeOK'
    BY <1>1, <1>2, <1>3, <1>4, Kinds, ProcsAssumption, Nothings DEF IInv, TypeOK,
       ManifestOK, Active
  <1>6. OpenerKnows(p)'
    BY <1>1, <1>2, <1>3, <1>4 DEF OpenerKnows, PreparePlaces, Unmarked
  <1>7. PreparerKnows(p)'
    BY <1>1, <1>2, <1>3, <1>4 DEF PreparerKnows, PreparePlaces
  <1>8. ManifestFits'
    BY <1>1, <1>2, <1>3, <1>4 DEF IInv, ManifestFits, NoManifest
  <1>9. FinalIsKnown'
    BY <1>1, <1>2, <1>3, <1>4 DEF IInv, FinalIsKnown, NoState
  <1>10. DamageIsRecoverable'
    BY <1>1, <1>2, <1>3, <1>4 DEF IInv, DamageIsRecoverable, TypeOK, ManifestOK
  <1>11. MarkersAreOwned'
    BY <1>1, <1>2, <1>3, <1>4 DEF IInv, MarkersAreOwned, NoManifest, NoState
  <1>12. ServesOnlyUnguarded'
    BY <1>1, <1>2, <1>3, <1>4 DEF IInv, ServesOnlyUnguarded, InService, NoManifest
  <1>13. l \in HostPlaces /\ (p = Operator => l \in OperatorPlaces)
    BY <1>1, <1>2, <1>3, Kinds DEF HostPlaces, OperatorPlaces, PreparePlaces
  <1>14. PlacesOK' /\ Locked' /\ Knowledge' /\ ChildIsGuarded'
    BY <1>1, <1>3, <1>6, <1>7, <1>13, OpenerSteps
  <1>15. QED
    BY <1>5, <1>8, <1>9, <1>10, <1>11, <1>12, <1>14 DEF IInv

(* Orphaned markers are adopted or refused. *)
LEMMA AdoptPreserves ==
  ASSUME IInv, NEW p \in Hosts,
         AdoptOrphanMarkers(p)
  PROVE  IInv'
  <1>1. /\ p \in Openers /\ p \in Procs /\ p \notin Attempts
        /\ pc[p] = "check" /\ lock = p /\ Alone(p)
        /\ pc \in [Procs -> HostPlaces \cup ChildPlaces]
    BY Kinds, Holder DEF Openers, Aside, AdoptOrphanMarkers
  <1>2. /\ manifest = NoManifest
        /\ \A s \in {state, draft} : s # NoState => s.id = 0
    BY <1>1, Holder DEF AdoptOrphanMarkers, IInv, ManifestFits, MarkersAreOwned, NoManifest
  <1>3. PICK l \in {"closed", "recover"} :
             /\ pc' = [pc EXCEPT ![p] = l] /\ pc'[p] = l
             /\ l \notin {"closed", "serving"} => lock' = p
             /\ lock' \in {lock, None} /\ writer' \in {writer, None}
             /\ l = "recover" => ~poison /\ "poison" \notin staged /\
                  (draft = NoState \/ (draft.status # "torn" /\ draft.id = 0))
    BY <1>1 DEF AdoptOrphanMarkers, AdoptedStaging, GoesOrEnds, Goes, Ends
  <1>4. /\ \/ state' = state /\ draft' = draft
           \/ draft # NoState /\ draft.status # "torn" /\ draft.id = 0 /\ state' = draft /\
                draft' = NoState
        /\ draft.status # "torn" /\ draft.id = 0 => draft' = NoState
        /\ staged' = staged \ {"attempt"}
        /\ UNCHANGED <<db, backup, manifest, poison, files, verdict, poisoned, attempts,
             faults>>
    BY <1>1, <1>2, <1>3 DEF AdoptOrphanMarkers, AdoptedStaging, disk, NoState
  <1>5. PlacesOK' => TypeOK'
    BY <1>1, <1>2, <1>3, <1>4, Kinds, ProcsAssumption, Nothings DEF IInv, TypeOK,
       ManifestOK, Active
  <1>6. OpenerKnows(p)'
    BY <1>1, <1>2, <1>3, <1>4 DEF OpenerKnows, PreparePlaces, Unmarked, IInv, TypeOK,
       NoState
  <1>7. PreparerKnows(p)'
    BY <1>1, <1>2, <1>3, <1>4 DEF PreparerKnows, PreparePlaces
  <1>8. ManifestFits'
    BY <1>1, <1>2, <1>3, <1>4 DEF IInv, ManifestFits
  <1>9. FinalIsKnown'
    BY <1>1, <1>2, <1>3, <1>4 DEF IInv, FinalIsKnown, NoState
  <1>10. DamageIsRecoverable'
    BY <1>1, <1>2, <1>3, <1>4 DEF IInv, DamageIsRecoverable, NoState
  <1>11. MarkersAreOwned'
    BY <1>1, <1>2, <1>3, <1>4 DEF IInv, MarkersAreOwned, NoState
  <1>12. ServesOnlyUnguarded'
    BY <1>1, <1>2, <1>3, <1>4 DEF IInv, ServesOnlyUnguarded, InService, Procs
  <1>13. l \in HostPlaces /\ (p = Operator => l \in OperatorPlaces)
    BY <1>1, <1>2, <1>3, Kinds DEF HostPlaces, OperatorPlaces, PreparePlaces
  <1>14. PlacesOK' /\ Locked' /\ Knowledge' /\ ChildIsGuarded'
    BY <1>1, <1>3, <1>6, <1>7, <1>13, OpenerSteps
  <1>15. QED
    BY <1>5, <1>8, <1>9, <1>10, <1>11, <1>12, <1>14 DEF IInv

(* An interrupted bootstrap is settled by the facts. *)
LEMMA RecoverPreserves ==
  ASSUME ~ReadsFail, IInv, NEW p \in Hosts, NEW r \in Readings,
         RecoverInterruptedMigration(p, r)
  PROVE  IInv'
  <1>1. /\ p \in Openers /\ p \in Procs /\ p \notin Attempts
        /\ pc[p] = "recover" /\ lock = p /\ Alone(p)
        /\ pc \in [Procs -> HostPlaces \cup ChildPlaces]
    BY Kinds, Holder DEF Openers, Aside, RecoverInterruptedMigration
  <1>2. /\ Unmarked /\ r = db
        /\ state # NoState => state.id = 0
        /\ db = "other" => state # NoState /\ "empty" \in backup
    BY <1>1, Holder DEF RecoverInterruptedMigration, IInv, MarkersAreOwned,
       DamageIsRecoverable, OpenerKnows, Unmarked, NoManifest, NoState, SourceOf, Readings
  <1>3. PICK l \in {"closed", "inspect"} :
             /\ pc' = [pc EXCEPT ![p] = l] /\ pc'[p] = l
             /\ l \notin {"closed", "serving"} => lock' = p
             /\ lock' \in {lock, None} /\ writer' \in {writer, None}
    BY <1>1 DEF RecoverInterruptedMigration, GoesOrEnds, Goes, Ends
  <1>4. /\ state = NoState => db' = db /\ state' = NoState
        /\ state' \in {state, NoState, [state EXCEPT !.status = "restore_failed"]}
        /\ db' = db \/ (state # NoState /\ db' = "empty" /\ ~(state.final /\ db = "final"))
        /\ state # NoState /\ state.final /\ db = "final" => state' = NoState
        /\ l = "inspect" => state' = NoState \/ db' = "empty"
        /\ db' # "other"
        /\ faults' \in 0..MaxFaults
        /\ UNCHANGED <<backup, manifest, poison, staged, draft, files, verdict, poisoned,
             attempts>>
    <2>1. state = NoState => db' = db /\ state' = NoState
      BY <1>1, <1>2, <1>3 DEF RecoverInterruptedMigration, disk, SourceOf, Reads,
         GoesOrEnds, Goes, Ends, IInv, TypeOK
    <2>2. state' \in {state, NoState, [state EXCEPT !.status = "restore_failed"]}
      BY <1>1, <1>2, <1>3 DEF RecoverInterruptedMigration, disk, SourceOf, Reads,
         GoesOrEnds, Goes, Ends, IInv, TypeOK
    <2>3. db' = db \/ (state # NoState /\ db' = "empty" /\ ~(state.final /\ db = "final"))
      BY <1>1, <1>2, <1>3 DEF RecoverInterruptedMigration, disk, SourceOf, Reads,
         GoesOrEnds, Goes, Ends, IInv, TypeOK
    <2>4. state # NoState /\ state.final /\ db = "final" => state' = NoState
      BY <1>1, <1>2, <1>3 DEF RecoverInterruptedMigration, disk, SourceOf, Reads,
         GoesOrEnds, Goes, Ends, IInv, TypeOK
    <2>5. l = "inspect" => state' = NoState \/ db' = "empty"
      BY <1>1, <1>2, <1>3 DEF RecoverInterruptedMigration, disk, SourceOf, Reads,
         GoesOrEnds, Goes, Ends, IInv, TypeOK
    <2>6. db' # "other"
      BY <1>1, <1>2, <1>3 DEF RecoverInterruptedMigration, disk, SourceOf, Reads,
         GoesOrEnds, Goes, Ends, IInv, TypeOK
    <2>7. faults' \in 0..MaxFaults
      BY <1>1, <1>2, <1>3 DEF RecoverInterruptedMigration, disk, SourceOf, Reads,
         GoesOrEnds, Goes, Ends, IInv, TypeOK
    <2>8. UNCHANGED <<backup, manifest, poison, staged, draft, files, verdict, poisoned,
            attempts>>
      BY <1>1, <1>2, <1>3 DEF RecoverInterruptedMigration, disk, SourceOf, Reads,
         GoesOrEnds, Goes, Ends, IInv, TypeOK
    <2>9. QED
      BY <2>1, <2>2, <2>3, <2>4, <2>5, <2>6, <2>7, <2>8
  <1>5. [state EXCEPT !.status = "restore_failed"] \in States
    BY DEF IInv, TypeOK, States
  <1>6. PlacesOK' => TypeOK'
    BY <1>1, <1>2, <1>3, <1>4, <1>5, Kinds, ProcsAssumption, Nothings DEF IInv, TypeOK,
       ManifestOK, Active
  <1>7. OpenerKnows(p)'
    BY <1>1, <1>2, <1>3, <1>4, <1>5 DEF OpenerKnows, PreparePlaces, Unmarked
  <1>8. PreparerKnows(p)'
    BY <1>1, <1>2, <1>3, <1>4, <1>5 DEF PreparerKnows, PreparePlaces
  <1>9. ManifestFits'
    BY <1>1, <1>2, <1>3, <1>4, <1>5 DEF IInv, ManifestFits, Unmarked, NoManifest
  <1>10. FinalIsKnown'
    BY <1>1, <1>2, <1>3, <1>4, <1>5 DEF IInv, FinalIsKnown, Unmarked
  <1>11. DamageIsRecoverable'
    BY <1>1, <1>2, <1>3, <1>4, <1>5 DEF IInv, DamageIsRecoverable
  <1>12. MarkersAreOwned'
    BY <1>1, <1>2, <1>3, <1>4, <1>5 DEF IInv, MarkersAreOwned, NoState, Unmarked,
       NoManifest, States, TypeOK
  <1>13. ServesOnlyUnguarded'
    BY <1>1, <1>2, <1>3, <1>4, <1>5 DEF IInv, ServesOnlyUnguarded, InService, Procs,
       Unmarked, NoManifest
  <1>14. l \in HostPlaces /\ (p = Operator => l \in OperatorPlaces)
    BY <1>1, <1>2, <1>3, Kinds DEF HostPlaces, OperatorPlaces, PreparePlaces
  <1>15. PlacesOK' /\ Locked' /\ Knowledge' /\ ChildIsGuarded'
    BY <1>1, <1>3, <1>7, <1>8, <1>14, OpenerSteps
  <1>16. QED
    BY <1>6, <1>9, <1>10, <1>11, <1>12, <1>13, <1>15 DEF IInv

(* The facts on disk decide on the result of an attempt. *)
LEMMA SettlePreserves ==
  ASSUME ~ReadsFail, IInv, NEW p \in Openers, NEW r \in Readings,
         Settle(p, r)
  PROVE  IInv'
  <1>1. /\ p \in Openers /\ p \in Procs /\ p \notin Attempts
        /\ pc[p] = "settle" /\ lock = p /\ Alone(p)
        /\ pc \in [Procs -> HostPlaces \cup ChildPlaces]
    BY Kinds, Holder DEF Openers, Aside, Settle
  <1>2. /\ manifest.status \in {"prepared", "exit_unknown"} /\ manifest.id \in Attempts /\
             r = db
        /\ db = "final" /\ state # NoState => state.final
    BY <1>1, Holder DEF Settle, IInv, FinalIsKnown, ManifestFits, OpenerKnows, Readings
  <1>3. PICK l \in {"closed", "clean"} :
             /\ pc' = [pc EXCEPT ![p] = l] /\ pc'[p] = l
             /\ l \notin {"closed", "serving"} => lock' = p
             /\ lock' \in {lock, None} /\ writer' \in {writer, None}
    BY <1>1 DEF Settle, GoesOrEnds, Goes, Ends
  <1>4. /\ db' = db \/ (db # "final" /\ db' = "legacy")
        /\ files' = files \/ (db' = "legacy" /\
             files' = [files EXCEPT ![manifest.id] = @ \ {"restore"}])
        /\ verdict' \in {verdict, "legacy", "final"}
        /\ l = "clean" => verdict' = db' /\ db' \in {"legacy", "final"}
        /\ faults' \in 0..MaxFaults
        /\ UNCHANGED <<backup, manifest, state, poison, staged, draft, poisoned, attempts>>
    <2>1. db' = db \/ (db # "final" /\ db' = "legacy")
      BY <1>1, <1>2, <1>3 DEF Settle, disk, CommittedByFacts, Reads, GoesOrEnds, Goes,
         Ends, IInv, TypeOK
    <2>2. files' = files \/ (db' = "legacy" /\
            files' = [files EXCEPT ![manifest.id] = @ \ {"restore"}])
      BY <1>1, <1>2, <1>3 DEF Settle, disk, CommittedByFacts, Reads, GoesOrEnds, Goes,
         Ends, IInv, TypeOK
    <2>3. verdict' \in {verdict, "legacy", "final"}
      BY <1>1, <1>2, <1>3 DEF Settle, disk, CommittedByFacts, Reads, GoesOrEnds, Goes,
         Ends, IInv, TypeOK
    <2>4. l = "clean" => verdict' = db' /\ db' \in {"legacy", "final"}
      BY <1>1, <1>2, <1>3 DEF Settle, disk, CommittedByFacts, Reads, GoesOrEnds, Goes,
         Ends, IInv, TypeOK
    <2>5. faults' \in 0..MaxFaults
      BY <1>1, <1>2, <1>3 DEF Settle, disk, CommittedByFacts, Reads, GoesOrEnds, Goes,
         Ends, IInv, TypeOK
    <2>6. UNCHANGED <<backup, manifest, state, poison, staged, draft, poisoned, attempts>>
      BY <1>1, <1>2, <1>3 DEF Settle, disk, CommittedByFacts, Reads, GoesOrEnds, Goes,
         Ends, IInv, TypeOK
    <2>7. QED
      BY <2>1, <2>2, <2>3, <2>4, <2>5, <2>6
  <1>5. ~InService /\ ~InService'
    BY <1>1, <1>2, <1>3, <1>4, Unserved, StaysUnserved DEF InService
  <1>6. PlacesOK' => TypeOK'
    BY <1>1, <1>2, <1>3, <1>4, <1>5, Kinds, ProcsAssumption DEF IInv, TypeOK, ManifestOK,
       Active, Temps
  <1>7. OpenerKnows(p)'
    BY <1>1, <1>2, <1>3, <1>4, <1>5 DEF OpenerKnows, PreparePlaces, Active
  <1>8. PreparerKnows(p)'
    BY <1>1, <1>2, <1>3, <1>4, <1>5 DEF PreparerKnows, PreparePlaces
  <1>9. ManifestFits'
    BY <1>1, <1>2, <1>3, <1>4, <1>5 DEF IInv, ManifestFits
  <1>10. FinalIsKnown'
    BY <1>1, <1>2, <1>3, <1>4, <1>5 DEF IInv, FinalIsKnown
  <1>11. DamageIsRecoverable'
    BY <1>1, <1>2, <1>3, <1>4, <1>5 DEF IInv, DamageIsRecoverable, TypeOK
  <1>12. MarkersAreOwned'
    BY <1>1, <1>2, <1>3, <1>4, <1>5 DEF IInv, MarkersAreOwned, TypeOK
  <1>13. ServesOnlyUnguarded'
    BY <1>1, <1>2, <1>3, <1>4, <1>5 DEF IInv, ServesOnlyUnguarded
  <1>14. l \in HostPlaces /\ (p = Operator => l \in OperatorPlaces)
    BY <1>1, <1>2, <1>3, Kinds DEF HostPlaces, OperatorPlaces, PreparePlaces
  <1>15. PlacesOK' /\ Locked' /\ Knowledge' /\ ChildIsGuarded'
    BY <1>1, <1>3, <1>7, <1>8, <1>14, OpenerSteps
  <1>16. QED
    BY <1>6, <1>9, <1>10, <1>11, <1>12, <1>13, <1>15 DEF IInv

(* The private files of the attempt go. *)
LEMMA CleanupPreserves ==
  ASSUME IInv, NEW p \in Openers, NEW F \in SUBSET (Temps \cup {"ready", "ready_staging"}),
         CleanupAttemptTemps(p, F)
  PROVE  IInv'
  <1>1. /\ p \in Openers /\ p \in Procs /\ p \notin Attempts
        /\ pc[p] = "clean" /\ lock = p /\ Alone(p)
        /\ pc \in [Procs -> HostPlaces \cup ChildPlaces]
    BY Kinds, Holder DEF Openers, Aside, CleanupAttemptTemps
  <1>2. /\ manifest.status \in Active /\ manifest.id \in Attempts /\ verdict = db /\
             db \in {"legacy", "final"}
    BY <1>1, Holder DEF CleanupAttemptTemps, IInv, ManifestFits, OpenerKnows, Active
  <1>3. PICK l \in {"closed", "seal"} :
             /\ pc' = [pc EXCEPT ![p] = l] /\ pc'[p] = l
             /\ l \notin {"closed", "serving"} => lock' = p
             /\ lock' \in {lock, None} /\ writer' \in {writer, None}
             /\ l = "seal" => F = {}
    BY <1>1 DEF CleanupAttemptTemps, Spend, GoesOrEnds, Goes, Ends
  <1>4. /\ files' = [files EXCEPT ![manifest.id] = F] /\ files'[manifest.id] = F
        /\ faults' \in 0..MaxFaults
        /\ UNCHANGED <<db, backup, manifest, state, poison, staged, draft, verdict,
             poisoned, attempts>>
    BY <1>1, <1>2, <1>3, ProcsAssumption DEF CleanupAttemptTemps, Spend, disk, IInv, TypeOK
  <1>5. ~InService /\ ~InService'
    BY <1>1, <1>2, <1>3, <1>4, Unserved, StaysUnserved DEF InService
  <1>6. PlacesOK' => TypeOK'
    BY <1>1, <1>2, <1>3, <1>4, <1>5, Kinds, ProcsAssumption DEF IInv, TypeOK, ManifestOK,
       Active
  <1>7. OpenerKnows(p)'
    BY <1>1, <1>2, <1>3, <1>4, <1>5 DEF OpenerKnows, PreparePlaces
  <1>8. PreparerKnows(p)'
    BY <1>1, <1>2, <1>3, <1>4, <1>5 DEF PreparerKnows, PreparePlaces
  <1>9. ManifestFits'
    BY <1>1, <1>2, <1>3, <1>4, <1>5 DEF IInv, ManifestFits, Active
  <1>10. FinalIsKnown'
    BY <1>1, <1>2, <1>3, <1>4, <1>5 DEF IInv, FinalIsKnown
  <1>11. DamageIsRecoverable'
    BY <1>1, <1>2, <1>3, <1>4, <1>5 DEF IInv, DamageIsRecoverable
  <1>12. MarkersAreOwned'
    BY <1>1, <1>2, <1>3, <1>4, <1>5 DEF IInv, MarkersAreOwned
  <1>13. ServesOnlyUnguarded'
    BY <1>1, <1>2, <1>3, <1>4, <1>5 DEF IInv, ServesOnlyUnguarded
  <1>14. l \in HostPlaces /\ (p = Operator => l \in OperatorPlaces)
    BY <1>1, <1>2, <1>3, Kinds DEF HostPlaces, OperatorPlaces, PreparePlaces
  <1>15. PlacesOK' /\ Locked' /\ Knowledge' /\ ChildIsGuarded'
    BY <1>1, <1>3, <1>7, <1>8, <1>14, OpenerSteps
  <1>16. QED
    BY <1>6, <1>9, <1>10, <1>11, <1>12, <1>13, <1>15 DEF IInv

(* The manifest is settled. *)
LEMMA SealPreserves ==
  ASSUME IInv, NEW p \in Openers, NEW o \in Outcomes,
         SealAttempt(p, o)
  PROVE  IInv'
  <1>1. /\ p \in Openers /\ p \in Procs /\ p \notin Attempts
        /\ pc[p] = "seal" /\ lock = p /\ Alone(p)
        /\ pc \in [Procs -> HostPlaces \cup ChildPlaces]
    BY Kinds, Holder DEF Openers, Aside, SealAttempt
  <1>2. /\ manifest.status \in Active /\ manifest.id \in Attempts /\ verdict = db /\
             db \in {"legacy", "final"}
        /\ files[manifest.id] = {}
    BY <1>1, Holder DEF SealAttempt, IInv, ManifestFits, OpenerKnows, Active
  <1>3. PICK l \in {"closed", "tidy"} :
             /\ pc' = [pc EXCEPT ![p] = l] /\ pc'[p] = l
             /\ l \notin {"closed", "serving"} => lock' = p
             /\ lock' \in {lock, None} /\ writer' \in {writer, None}
             /\ l = "tidy" => o = "done"
    BY <1>1 DEF SealAttempt, Outcomes, Written, Dies, Spend, GoesOrEnds, Goes, Ends
  <1>4. /\ draft' = NoState /\ staged' \subseteq {"attempt"}
        /\ manifest' \in {manifest, [manifest EXCEPT !.status = "settled",
             !.result = verdict]}
        /\ l = "tidy" => staged' = {} /\ manifest' = [manifest EXCEPT !.status = "settled",
             !.result = verdict]
        /\ faults' \in 0..MaxFaults
        /\ UNCHANGED <<db, backup, state, poison, files, verdict, poisoned, attempts>>
    <2>1. draft' = NoState /\ staged' \subseteq {"attempt"}
      BY <1>1, <1>2, <1>3, ProcsAssumption DEF SealAttempt, Outcomes, Written, Dies, Spend,
         disk, IInv, TypeOK, ManifestFits, GoesOrEnds, Goes, Ends
    <2>2. manifest' \in {manifest, [manifest EXCEPT !.status = "settled",
            !.result = verdict]}
      BY <1>1, <1>2, <1>3, ProcsAssumption DEF SealAttempt, Outcomes, Written, Dies, Spend,
         disk, IInv, TypeOK, ManifestFits, GoesOrEnds, Goes, Ends
    <2>3. l = "tidy" => staged' = {} /\ manifest' = [manifest EXCEPT !.status = "settled",
            !.result = verdict]
      BY <1>1, <1>2, <1>3, ProcsAssumption DEF SealAttempt, Outcomes, Written, Dies, Spend,
         disk, IInv, TypeOK, ManifestFits, GoesOrEnds, Goes, Ends
    <2>4. faults' \in 0..MaxFaults
      BY <1>1, <1>2, <1>3, ProcsAssumption DEF SealAttempt, Outcomes, Written, Dies, Spend,
         disk, IInv, TypeOK, ManifestFits, GoesOrEnds, Goes, Ends
    <2>5. UNCHANGED <<db, backup, state, poison, files, verdict, poisoned, attempts>>
      BY <1>1, <1>2, <1>3, ProcsAssumption DEF SealAttempt, Outcomes, Written, Dies, Spend,
         disk, IInv, TypeOK, ManifestFits, GoesOrEnds, Goes, Ends
    <2>6. QED
      BY <2>1, <2>2, <2>3, <2>4, <2>5
  <1>5. [manifest EXCEPT !.status = "settled", !.result = verdict] \in [status : {"none",
          "settled"} \cup Active, id : 0..MaxAttempts,
                            result : {"none", "legacy", "final"}]
    BY <1>2 DEF IInv, TypeOK, ManifestOK
  <1>6. ~InService /\ ~InService'
    BY <1>1, <1>2, <1>3, <1>4, Unserved, StaysUnserved DEF InService
  <1>7. PlacesOK' => TypeOK'
    BY <1>1, <1>2, <1>3, <1>4, <1>5, <1>6, Kinds, ProcsAssumption, Nothings DEF IInv,
       TypeOK, ManifestOK, Active
  <1>8. OpenerKnows(p)'
    BY <1>1, <1>2, <1>3, <1>4, <1>5, <1>6 DEF OpenerKnows, PreparePlaces, ManifestOK,
       TypeOK, IInv
  <1>9. PreparerKnows(p)'
    BY <1>1, <1>2, <1>3, <1>4, <1>5, <1>6 DEF PreparerKnows, PreparePlaces
  <1>10. ManifestFits'
    BY <1>1, <1>2, <1>3, <1>4, <1>5, <1>6 DEF IInv, ManifestFits, ManifestOK, TypeOK
  <1>11. FinalIsKnown'
    BY <1>1, <1>2, <1>3, <1>4, <1>5, <1>6 DEF IInv, FinalIsKnown
  <1>12. DamageIsRecoverable'
    BY <1>1, <1>2, <1>3, <1>4, <1>5, <1>6 DEF IInv, DamageIsRecoverable
  <1>13. MarkersAreOwned'
    BY <1>1, <1>2, <1>3, <1>4, <1>5, <1>6 DEF IInv, MarkersAreOwned, NoState, ManifestOK,
       TypeOK
  <1>14. ServesOnlyUnguarded'
    BY <1>1, <1>2, <1>3, <1>4, <1>5, <1>6 DEF IInv, ServesOnlyUnguarded, ManifestOK, TypeOK
  <1>15. l \in HostPlaces /\ (p = Operator => l \in OperatorPlaces)
    BY <1>1, <1>2, <1>3, Kinds DEF HostPlaces, OperatorPlaces, PreparePlaces
  <1>16. PlacesOK' /\ Locked' /\ Knowledge' /\ ChildIsGuarded'
    BY <1>1, <1>3, <1>8, <1>9, <1>15, OpenerSteps
  <1>17. QED
    BY <1>7, <1>10, <1>11, <1>12, <1>13, <1>14, <1>16 DEF IInv

(* The markers go, the manifest last. *)
LEMMA TidyPreserves ==
  ASSUME IInv, NEW p \in Openers, NEW n \in 0..3,
         TidyMarkers(p, n)
  PROVE  IInv'
  <1>1. /\ p \in Openers /\ p \in Procs /\ p \notin Attempts
        /\ pc[p] = "tidy" /\ lock = p /\ Alone(p)
        /\ pc \in [Procs -> HostPlaces \cup ChildPlaces]
    BY Kinds, Holder DEF Openers, Aside, TidyMarkers
  <1>2. /\ manifest.status = "settled" /\ manifest.id \in Attempts /\ db = manifest.result
        /\ files[manifest.id] = {} /\ draft = NoState /\ staged = {}
    BY <1>1, Holder DEF TidyMarkers, IInv, ManifestFits, OpenerKnows, ServesOnlyUnguarded
  <1>3. PICK l \in {"closed", "begin"} :
             /\ pc' = [pc EXCEPT ![p] = l] /\ pc'[p] = l
             /\ l \notin {"closed", "serving"} => lock' = p
             /\ lock' \in {lock, None} /\ writer' \in {writer, None}
             /\ l = "begin" => n = 3 /\ db = "final" /\ p \in Hosts
    BY <1>1 DEF TidyMarkers, Spend, GoesOrEnds, Goes, Ends
  <1>4. /\ state' \in {state, NoState} /\ poison' \in {poison, FALSE}
        /\ poisoned' \subseteq poisoned /\ manifest' \in {manifest, NoManifest}
        /\ manifest' = NoManifest => state' = NoState /\ ~poison'
        /\ n = 3 => manifest' = NoManifest
        /\ faults' \in 0..MaxFaults
        /\ UNCHANGED <<db, backup, staged, draft, files, verdict, attempts>>
    <2>1. state' \in {state, NoState} /\ poison' \in {poison, FALSE}
      BY <1>1, <1>2, <1>3, ProcsAssumption DEF TidyMarkers, Spend, disk, IInv, TypeOK,
         NoManifest
    <2>2. poisoned' \subseteq poisoned /\ manifest' \in {manifest, NoManifest}
      BY <1>1, <1>2, <1>3, ProcsAssumption DEF TidyMarkers, Spend, disk, IInv, TypeOK,
         NoManifest
    <2>3. manifest' = NoManifest => state' = NoState /\ ~poison'
      BY <1>1, <1>2, <1>3, ProcsAssumption DEF TidyMarkers, Spend, disk, IInv, TypeOK,
         NoManifest
    <2>4. n = 3 => manifest' = NoManifest
      BY <1>1, <1>2, <1>3, ProcsAssumption DEF TidyMarkers, Spend, disk, IInv, TypeOK,
         NoManifest
    <2>5. faults' \in 0..MaxFaults
      BY <1>1, <1>2, <1>3, ProcsAssumption DEF TidyMarkers, Spend, disk, IInv, TypeOK,
         NoManifest
    <2>6. UNCHANGED <<db, backup, staged, draft, files, verdict, attempts>>
      BY <1>1, <1>2, <1>3, ProcsAssumption DEF TidyMarkers, Spend, disk, IInv, TypeOK,
         NoManifest
    <2>7. QED
      BY <2>1, <2>2, <2>3, <2>4, <2>5, <2>6
  <1>5. ~InService /\ ~InService'
    BY <1>1, <1>2, <1>3, <1>4, Unserved, StaysUnserved DEF InService
  <1>6. PlacesOK' => TypeOK'
    BY <1>1, <1>2, <1>3, <1>4, <1>5, Kinds, ProcsAssumption, Nothings DEF IInv, TypeOK,
       ManifestOK, Active
  <1>7. OpenerKnows(p)'
    BY <1>1, <1>2, <1>3, <1>4, <1>5 DEF OpenerKnows, PreparePlaces, Unmarked
  <1>8. PreparerKnows(p)'
    BY <1>1, <1>2, <1>3, <1>4, <1>5 DEF PreparerKnows, PreparePlaces
  <1>9. ManifestFits'
    BY <1>1, <1>2, <1>3, <1>4, <1>5 DEF IInv, ManifestFits, NoManifest
  <1>10. FinalIsKnown'
    BY <1>1, <1>2, <1>3, <1>4, <1>5 DEF IInv, FinalIsKnown, NoState
  <1>11. DamageIsRecoverable'
    BY <1>1, <1>2, <1>3, <1>4, <1>5 DEF IInv, DamageIsRecoverable, TypeOK, ManifestOK
  <1>12. MarkersAreOwned'
    BY <1>1, <1>2, <1>3, <1>4, <1>5 DEF IInv, MarkersAreOwned, NoManifest, NoState
  <1>13. ServesOnlyUnguarded'
    BY <1>1, <1>2, <1>3, <1>4, <1>5 DEF IInv, ServesOnlyUnguarded, NoManifest
  <1>14. l \in HostPlaces /\ (p = Operator => l \in OperatorPlaces)
    BY <1>1, <1>2, <1>3, Kinds DEF HostPlaces, OperatorPlaces, PreparePlaces
  <1>15. PlacesOK' /\ Locked' /\ Knowledge' /\ ChildIsGuarded'
    BY <1>1, <1>3, <1>7, <1>8, <1>14, OpenerSteps
  <1>16. QED
    BY <1>6, <1>9, <1>10, <1>11, <1>12, <1>13, <1>15 DEF IInv

(* A bootstrap clears its state and serves. *)
LEMMA ClearPreserves ==
  ASSUME IInv, NEW p \in Hosts,
         ClearMigrationState(p)
  PROVE  IInv'
  <1>1. /\ p \in Openers /\ p \in Procs /\ p \notin Attempts
        /\ pc[p] = "clear" /\ lock = p /\ Alone(p)
        /\ pc \in [Procs -> HostPlaces \cup ChildPlaces]
    BY Kinds, Holder DEF Openers, Aside, ClearMigrationState
  <1>2. /\ Unmarked /\ db = "final"
    BY <1>1, Holder DEF ClearMigrationState, OpenerKnows, PreparerKnows, Unmarked
  <1>3. PICK l \in {"serving"} :
             /\ pc' = [pc EXCEPT ![p] = l] /\ pc'[p] = l
             /\ l \notin {"closed", "serving"} => lock' = p
             /\ lock' \in {lock, None} /\ writer' \in {writer, None}
    BY <1>1 DEF ClearMigrationState, GoesOrEnds, Goes, Ends
  <1>4. /\ state' = NoState
        /\ UNCHANGED <<db, backup, manifest, poison, staged, draft, files, verdict,
             poisoned, attempts, faults>>
    BY <1>1, <1>2, <1>3 DEF ClearMigrationState, disk
  <1>5. PlacesOK' => TypeOK'
    BY <1>1, <1>2, <1>3, <1>4, Kinds, ProcsAssumption, Nothings DEF IInv, TypeOK,
       ManifestOK, Active
  <1>6. OpenerKnows(p)'
    BY <1>1, <1>2, <1>3, <1>4 DEF OpenerKnows, PreparePlaces
  <1>7. PreparerKnows(p)'
    BY <1>1, <1>2, <1>3, <1>4 DEF PreparerKnows, PreparePlaces
  <1>8. ManifestFits'
    BY <1>1, <1>2, <1>3, <1>4 DEF IInv, ManifestFits, Unmarked, NoManifest
  <1>9. FinalIsKnown'
    BY <1>1, <1>2, <1>3, <1>4 DEF IInv, FinalIsKnown, Unmarked
  <1>10. DamageIsRecoverable'
    BY <1>1, <1>2, <1>3, <1>4 DEF IInv, DamageIsRecoverable
  <1>11. MarkersAreOwned'
    BY <1>1, <1>2, <1>3, <1>4 DEF IInv, MarkersAreOwned, NoState, Unmarked, NoManifest
  <1>12. ServesOnlyUnguarded'
    BY <1>1, <1>2, <1>3, <1>4 DEF IInv, ServesOnlyUnguarded, InService, Unmarked, Procs,
       NoManifest
  <1>13. l \in HostPlaces /\ (p = Operator => l \in OperatorPlaces)
    BY <1>1, <1>2, <1>3, Kinds DEF HostPlaces, OperatorPlaces, PreparePlaces
  <1>14. PlacesOK' /\ Locked' /\ Knowledge' /\ ChildIsGuarded'
    BY <1>1, <1>3, <1>6, <1>7, <1>13, OpenerSteps
  <1>15. QED
    BY <1>5, <1>8, <1>9, <1>10, <1>11, <1>12, <1>14 DEF IInv

(* A current database is served. *)
LEMMA OpenCurrentPreserves ==
  ASSUME IInv, NEW p \in Hosts,
         OpenCurrent(p)
  PROVE  IInv'
  <1>1. /\ p \in Openers /\ p \in Procs /\ p \notin Attempts
        /\ pc[p] = "begin" /\ lock = p /\ Alone(p)
        /\ pc \in [Procs -> HostPlaces \cup ChildPlaces]
    BY Kinds, Holder DEF Openers, Aside, OpenCurrent
  <1>2. /\ Unmarked /\ db \in {"final", "used"} /\ state = NoState
    BY <1>1, Holder DEF OpenCurrent, OpenerKnows, Unmarked, PreparePlaces
  <1>3. PICK l \in {"closed", "serving"} :
             /\ pc' = [pc EXCEPT ![p] = l] /\ pc'[p] = l
             /\ l \notin {"closed", "serving"} => lock' = p
             /\ lock' \in {lock, None} /\ writer' \in {writer, None}
    BY <1>1 DEF OpenCurrent, GoesOrEnds, Goes, Ends
  <1>4. /\ UNCHANGED <<db, backup, manifest, state, poison, staged, draft, files, verdict,
             poisoned, attempts, faults>>
    BY <1>1, <1>2, <1>3 DEF OpenCurrent, disk
  <1>5. PlacesOK' => TypeOK'
    BY <1>1, <1>2, <1>3, <1>4, Kinds, ProcsAssumption DEF IInv, TypeOK, ManifestOK, Active
  <1>6. OpenerKnows(p)'
    BY <1>1, <1>2, <1>3, <1>4 DEF OpenerKnows, PreparePlaces
  <1>7. PreparerKnows(p)'
    BY <1>1, <1>2, <1>3, <1>4 DEF PreparerKnows, PreparePlaces
  <1>8. ManifestFits'
    BY <1>1, <1>2, <1>3, <1>4 DEF IInv, ManifestFits
  <1>9. FinalIsKnown'
    BY <1>1, <1>2, <1>3, <1>4 DEF IInv, FinalIsKnown
  <1>10. DamageIsRecoverable'
    BY <1>1, <1>2, <1>3, <1>4 DEF IInv, DamageIsRecoverable
  <1>11. MarkersAreOwned'
    BY <1>1, <1>2, <1>3, <1>4 DEF IInv, MarkersAreOwned
  <1>12. ServesOnlyUnguarded'
    BY <1>1, <1>2, <1>3, <1>4 DEF IInv, ServesOnlyUnguarded, InService, Unmarked, Procs,
       NoManifest
  <1>13. l \in HostPlaces /\ (p = Operator => l \in OperatorPlaces)
    BY <1>1, <1>2, <1>3, Kinds DEF HostPlaces, OperatorPlaces, PreparePlaces
  <1>14. PlacesOK' /\ Locked' /\ Knowledge' /\ ChildIsGuarded'
    BY <1>1, <1>3, <1>6, <1>7, <1>13, OpenerSteps
  <1>15. QED
    BY <1>5, <1>8, <1>9, <1>10, <1>11, <1>12, <1>14 DEF IInv

-----------------------------------------------------------------------------
(* The steps of _prepare: of a Host that bootstraps or of a child.         *)

LEMMA Preparer ==
  ASSUME IInv, NEW p \in Hosts \cup Attempts,
         pc[p] \in PreparePlaces \cup {"spawned", "clear"}
  PROVE  /\ p \in Procs /\ pc \in [Procs -> HostPlaces \cup ChildPlaces]
         /\ manifest.id = AttemptOf(p) /\ draft = NoState
         /\ SourceOf(AttemptOf(p)) \in {"empty", "legacy"}
         /\ AttemptOf(p) \in 0..MaxAttempts
         /\ PreparerKnows(p)
         /\ p \in Hosts => p \notin Attempts /\ OpenerKnows(p) /\ Unmarked
         /\ p \in Attempts => p \notin Hosts /\ ChildKnows(p) /\ manifest.status \in Active
         /\ p \in Attempts \/ pc[p] # "begin" => ~InService
  <1>1. p \in Procs /\ (p \in Hosts => p \in Openers /\ p \notin Attempts) /\
          (p \in Attempts => p \notin Hosts)
    BY Kinds DEF Openers
  <1>2. SourceOf(AttemptOf(p)) \in {"empty", "legacy"} /\ AttemptOf(p) \in 0..MaxAttempts
    BY ProcsAssumption DEF SourceOf, AttemptOf, Attempts
  <1>3. PreparerKnows(p) /\ (p \in Hosts => OpenerKnows(p)) /\
          (p \in Attempts => ChildKnows(p))
    BY <1>1 DEF IInv, Knowledge
  <1>4. QED
    BY <1>1, <1>2, <1>3, PreparerFinds DEF IInv, TypeOK, PlacesOK, Active

(* A marker written by AtomicWrite, or what is left of it. *)
LEMMA Wrote ==
  ASSUME NEW s \in States, NEW o \in Outcomes \cup {"torn"}, s.status # "none",
         state \in States, draft = NoState, PutState(s, o)
  PROVE  /\ state' = IF Written(o) THEN s ELSE state
         /\ ~Dies(o) => draft' = NoState
         /\ draft' # NoState => draft'.id = s.id /\ draft'.final = s.final
         /\ draft' \in States
  BY Nothings DEF PutState, Outcomes, Written, Dies, States

(* BEGIN IMMEDIATE: the writer finds the source it is to migrate, or ends. *)
LEMMA BeginPreserves ==
  ASSUME IInv, NEW p \in Hosts \cup Attempts,
         BeginMigration(p)
  PROVE  IInv'
  <1>1. /\ pc[p] = "begin" /\ p \in Hosts \cup Attempts
        /\ p \in Procs /\ pc \in [Procs -> HostPlaces \cup ChildPlaces]
        /\ manifest.id = AttemptOf(p) /\ draft = NoState
        /\ SourceOf(AttemptOf(p)) \in {"empty", "legacy"} /\ AttemptOf(p) \in 0..MaxAttempts
        /\ PreparerKnows(p)
        /\ p \in Hosts => p \notin Attempts /\ OpenerKnows(p) /\ Unmarked
        /\ p \in Attempts => p \notin Hosts /\ ChildKnows(p) /\ manifest.status \in Active
        /\ p \in Attempts \/ pc[p] # "begin" => ~InService
    BY Preparer DEF PreparePlaces, BeginMigration
  <1>2. ~InService
    BY <1>1 DEF BeginMigration, InService, IInv, ServesOnlyUnguarded
  <1>3. PICK l \in {"closed", "exited", "backup"} :
             /\ pc' = [pc EXCEPT ![p] = l] /\ pc'[p] = l
             /\ l \notin {"closed", "exited"} => lock' = lock
             /\ lock' = lock \/ (lock = p /\ lock' = None)
             /\ p \in Attempts => l # "closed"
             /\ p \in Hosts => l # "exited"
             /\ writer' \in {writer, None, p}
             /\ l = "backup" => db = SourceOf(AttemptOf(p))
    BY <1>1, <1>2 DEF BeginMigration, GoesOrEnds, Goes, Ends
  <1>4. /\ UNCHANGED <<db, backup, manifest, state, poison, staged, draft, files, verdict,
             poisoned, attempts, faults>>
    BY <1>1, <1>2, <1>3 DEF BeginMigration, disk
  <1>5. PlacesOK' => TypeOK'
    BY <1>1, <1>2, <1>3, <1>4, Kinds, ProcsAssumption DEF IInv, TypeOK, ManifestOK, Active
  <1>6. ~InService'
    BY <1>1, <1>2, <1>3, <1>4, StaysUnserved DEF InService
  <1>7. p \in Hosts => OpenerKnows(p)'
    BY <1>1, <1>2, <1>3, <1>4 DEF OpenerKnows, PreparePlaces, Unmarked
  <1>8. PreparerKnows(p)'
    BY <1>1, <1>2, <1>3, <1>4 DEF PreparerKnows, PreparePlaces
  <1>9. p \in Attempts => ChildKnows(p)'
    BY <1>1, <1>2, <1>3, <1>4 DEF ChildKnows
  <1>10. FinalIsKnown'
    BY <1>1, <1>2, <1>3, <1>4 DEF IInv, FinalIsKnown
  <1>11. DamageIsRecoverable'
    BY <1>1, <1>2, <1>3, <1>4 DEF IInv, DamageIsRecoverable
  <1>12. MarkersAreOwned'
    BY <1>1, <1>2, <1>3, <1>4 DEF IInv, MarkersAreOwned
  <1>13. l \in IF p \in Attempts THEN ChildPlaces \ {"none"} ELSE HostPlaces
    BY <1>1, <1>3 DEF HostPlaces, OperatorPlaces, ChildPlaces, PreparePlaces
  <1>14. pc[p] \in PreparePlaces \cup {"spawned"} /\ manifest' = manifest
    BY <1>1, <1>2, <1>3, <1>4 DEF PreparePlaces
  <1>15. /\ PlacesOK' /\ Locked' /\ Knowledge' /\ ChildIsGuarded'
        /\ ManifestFits' /\ ServesOnlyUnguarded'
    BY <1>1, <1>3, <1>6, <1>7, <1>8, <1>9, <1>13, <1>14, PreparerSteps
  <1>16. QED
    BY <1>5, <1>10, <1>11, <1>12, <1>15 DEF IInv

(* The backup is created. *)
LEMMA BackupPreserves ==
  ASSUME IInv, NEW p \in Hosts \cup Attempts,
         CreateBackup(p)
  PROVE  IInv'
  <1>1. /\ pc[p] = "backup" /\ p \in Hosts \cup Attempts
        /\ p \in Procs /\ pc \in [Procs -> HostPlaces \cup ChildPlaces]
        /\ manifest.id = AttemptOf(p) /\ draft = NoState
        /\ SourceOf(AttemptOf(p)) \in {"empty", "legacy"} /\ AttemptOf(p) \in 0..MaxAttempts
        /\ PreparerKnows(p)
        /\ p \in Hosts => p \notin Attempts /\ OpenerKnows(p) /\ Unmarked
        /\ p \in Attempts => p \notin Hosts /\ ChildKnows(p) /\ manifest.status \in Active
        /\ p \in Attempts \/ pc[p] # "begin" => ~InService
    BY Preparer DEF PreparePlaces, CreateBackup
  <1>2. /\ db = SourceOf(AttemptOf(p))
        /\ ~InService
    BY <1>1 DEF CreateBackup, PreparerKnows, PreparePlaces
  <1>3. p \in Attempts => [files EXCEPT ![p] = @ \ {"backup"}]
            \in [Attempts -> SUBSET (Temps \cup {"ready", "ready_staging"})]
    BY <1>1, <1>2 DEF IInv, TypeOK
  <1>4. PICK l \in {"announce"} :
             /\ pc' = [pc EXCEPT ![p] = l] /\ pc'[p] = l
             /\ l \notin {"closed", "exited"} => lock' = lock
             /\ lock' = lock \/ (lock = p /\ lock' = None)
             /\ p \in Attempts => l # "closed"
             /\ p \in Hosts => l # "exited"
             /\ writer' \in {writer, None, p}
    BY <1>1, <1>2, <1>3 DEF CreateBackup, GoesOrEnds, Goes, Ends
  <1>5. /\ backup' = backup \cup {SourceOf(AttemptOf(p))}
        /\ files' = files \/ (p \in Attempts /\
             files' = [files EXCEPT ![p] = @ \ {"backup"}])
        /\ UNCHANGED <<db, manifest, state, poison, staged, draft, verdict, poisoned,
             attempts, faults>>
    BY <1>1, <1>2, <1>3, <1>4 DEF CreateBackup, disk
  <1>6. PlacesOK' => TypeOK'
    BY <1>1, <1>2, <1>3, <1>4, <1>5, Kinds, ProcsAssumption DEF IInv, TypeOK, ManifestOK,
       Active
  <1>7. ~InService'
    BY <1>1, <1>2, <1>3, <1>4, <1>5, StaysUnserved DEF InService
  <1>8. p \in Hosts => OpenerKnows(p)'
    BY <1>1, <1>2, <1>3, <1>4, <1>5 DEF OpenerKnows, PreparePlaces, Unmarked
  <1>9. PreparerKnows(p)'
    BY <1>1, <1>2, <1>3, <1>4, <1>5 DEF PreparerKnows, PreparePlaces
  <1>10. p \in Attempts => ChildKnows(p)'
    BY <1>1, <1>2, <1>3, <1>4, <1>5 DEF ChildKnows, IInv, TypeOK
  <1>11. FinalIsKnown'
    BY <1>1, <1>2, <1>3, <1>4, <1>5 DEF IInv, FinalIsKnown
  <1>12. DamageIsRecoverable'
    BY <1>1, <1>2, <1>3, <1>4, <1>5 DEF IInv, DamageIsRecoverable
  <1>13. MarkersAreOwned'
    BY <1>1, <1>2, <1>3, <1>4, <1>5 DEF IInv, MarkersAreOwned, TypeOK
  <1>14. l \in IF p \in Attempts THEN ChildPlaces \ {"none"} ELSE HostPlaces
    BY <1>1, <1>4 DEF HostPlaces, OperatorPlaces, ChildPlaces, PreparePlaces
  <1>15. pc[p] \in PreparePlaces \cup {"spawned"} /\ manifest' = manifest
    BY <1>1, <1>2, <1>3, <1>4, <1>5 DEF PreparePlaces
  <1>16. /\ PlacesOK' /\ Locked' /\ Knowledge' /\ ChildIsGuarded'
        /\ ManifestFits' /\ ServesOnlyUnguarded'
    BY <1>1, <1>4, <1>7, <1>8, <1>9, <1>10, <1>14, <1>15, PreparerSteps
  <1>17. QED
    BY <1>6, <1>11, <1>12, <1>13, <1>16 DEF IInv

(* The state is written as migrating. *)
LEMMA MigratingPreserves ==
  ASSUME IInv, NEW p \in Hosts \cup Attempts, NEW o \in Outcomes \cup {"torn"},
         WriteMigrating(p, o)
  PROVE  IInv'
  <1>1. /\ pc[p] = "announce" /\ p \in Hosts \cup Attempts
        /\ p \in Procs /\ pc \in [Procs -> HostPlaces \cup ChildPlaces]
        /\ manifest.id = AttemptOf(p) /\ draft = NoState
        /\ SourceOf(AttemptOf(p)) \in {"empty", "legacy"} /\ AttemptOf(p) \in 0..MaxAttempts
        /\ PreparerKnows(p)
        /\ p \in Hosts => p \notin Attempts /\ OpenerKnows(p) /\ Unmarked
        /\ p \in Attempts => p \notin Hosts /\ ChildKnows(p) /\ manifest.status \in Active
        /\ p \in Attempts \/ pc[p] # "begin" => ~InService
    BY Preparer DEF PreparePlaces, WriteMigrating, PrepareWrites
  <1>2. /\ db = SourceOf(AttemptOf(p)) /\ SourceOf(AttemptOf(p)) \in backup
        /\ ~InService
    BY <1>1 DEF WriteMigrating, PreparerKnows, PreparePlaces
  <1>3. /\ StateOf(p, "migrating") \in States /\ StateOf(p, "migrating").status # "none"
        /\ StateOf(p, "migrating").id = AttemptOf(p) /\ StateOf(p,
             "migrating").final \in BOOLEAN
    BY <1>1, <1>2 DEF StateOf, States
  <1>4. PICK l \in {"closed", "exited", "migrate"} :
             /\ pc' = [pc EXCEPT ![p] = l] /\ pc'[p] = l
             /\ l \notin {"closed", "exited"} => lock' = lock
             /\ lock' = lock \/ (lock = p /\ lock' = None)
             /\ p \in Attempts => l # "closed"
             /\ p \in Hosts => l # "exited"
             /\ writer' \in {writer, None, p}
             /\ l = "migrate" => o = "done"
    BY <1>1, <1>2, <1>3 DEF WriteMigrating, PrepareWrites, GoesOrEnds, Goes, Ends
  <1>5. /\ state' = IF Written(o) THEN StateOf(p, "migrating") ELSE state
        /\ ~Dies(o) => draft' = NoState
        /\ draft' # NoState => draft'.id = AttemptOf(p) 
        /\ draft' \in States
        /\ faults' \in 0..MaxFaults
        /\ UNCHANGED <<db, backup, manifest, poison, staged, files, verdict, poisoned,
             attempts>>
    <2>1. state' = IF Written(o) THEN StateOf(p, "migrating") ELSE state
      BY <1>1, <1>2, <1>3, <1>4, Wrote, ProcsAssumption DEF WriteMigrating, PrepareWrites,
         disk, WriteState, AtomicWrite, Spend, IInv, TypeOK
    <2>2. ~Dies(o) => draft' = NoState
      BY <1>1, <1>2, <1>3, <1>4, Wrote, ProcsAssumption DEF WriteMigrating, PrepareWrites,
         disk, WriteState, AtomicWrite, Spend, IInv, TypeOK
    <2>3. draft' # NoState => draft'.id = AttemptOf(p) 
      BY <1>1, <1>2, <1>3, <1>4, Wrote, ProcsAssumption DEF WriteMigrating, PrepareWrites,
         disk, WriteState, AtomicWrite, Spend, IInv, TypeOK
    <2>4. draft' \in States
      BY <1>1, <1>2, <1>3, <1>4, Wrote, ProcsAssumption DEF WriteMigrating, PrepareWrites,
         disk, WriteState, AtomicWrite, Spend, IInv, TypeOK
    <2>5. faults' \in 0..MaxFaults
      BY <1>1, <1>2, <1>3, <1>4, Wrote, ProcsAssumption DEF WriteMigrating, PrepareWrites,
         disk, WriteState, AtomicWrite, Spend, IInv, TypeOK
    <2>6. UNCHANGED <<db, backup, manifest, poison, staged, files, verdict, poisoned,
            attempts>>
      BY <1>1, <1>2, <1>3, <1>4, Wrote, ProcsAssumption DEF WriteMigrating, PrepareWrites,
         disk, WriteState, AtomicWrite, Spend, IInv, TypeOK
    <2>7. QED
      BY <2>1, <2>2, <2>3, <2>4, <2>5, <2>6
  <1>6. PlacesOK' => TypeOK'
    BY <1>1, <1>2, <1>3, <1>4, <1>5, Kinds, ProcsAssumption DEF IInv, TypeOK, ManifestOK,
       Active
  <1>7. ~InService'
    BY <1>1, <1>2, <1>3, <1>4, <1>5, StaysUnserved DEF InService
  <1>8. p \in Hosts => OpenerKnows(p)'
    BY <1>1, <1>2, <1>3, <1>4, <1>5 DEF OpenerKnows, PreparePlaces, Unmarked, NoState, Dies
  <1>9. PreparerKnows(p)'
    BY <1>1, <1>2, <1>3, <1>4, <1>5 DEF PreparerKnows, PreparePlaces, NoState, Written, Dies
  <1>10. p \in Attempts => ChildKnows(p)'
    BY <1>1, <1>2, <1>3, <1>4, <1>5 DEF ChildKnows
  <1>11. FinalIsKnown'
    BY <1>1, <1>2, <1>3, <1>4, <1>5 DEF IInv, FinalIsKnown
  <1>12. DamageIsRecoverable'
    BY <1>1, <1>2, <1>3, <1>4, <1>5 DEF IInv, DamageIsRecoverable, NoState
  <1>13. MarkersAreOwned'
    BY <1>1, <1>2, <1>3, <1>4, <1>5 DEF IInv, MarkersAreOwned
  <1>14. l \in IF p \in Attempts THEN ChildPlaces \ {"none"} ELSE HostPlaces
    BY <1>1, <1>4 DEF HostPlaces, OperatorPlaces, ChildPlaces, PreparePlaces
  <1>15. pc[p] \in PreparePlaces \cup {"spawned"} /\ manifest' = manifest
    BY <1>1, <1>2, <1>3, <1>4, <1>5 DEF PreparePlaces
  <1>16. /\ PlacesOK' /\ Locked' /\ Knowledge' /\ ChildIsGuarded'
        /\ ManifestFits' /\ ServesOnlyUnguarded'
    BY <1>1, <1>4, <1>7, <1>8, <1>9, <1>10, <1>14, <1>15, PreparerSteps
  <1>17. QED
    BY <1>6, <1>11, <1>12, <1>13, <1>16 DEF IInv

(* The state is written as committing. *)
LEMMA CommittingPreserves ==
  ASSUME IInv, NEW p \in Hosts \cup Attempts, NEW o \in Outcomes \cup {"torn"},
         WriteCommitting(p, o)
  PROVE  IInv'
  <1>1. /\ pc[p] = "migrate" /\ p \in Hosts \cup Attempts
        /\ p \in Procs /\ pc \in [Procs -> HostPlaces \cup ChildPlaces]
        /\ manifest.id = AttemptOf(p) /\ draft = NoState
        /\ SourceOf(AttemptOf(p)) \in {"empty", "legacy"} /\ AttemptOf(p) \in 0..MaxAttempts
        /\ PreparerKnows(p)
        /\ p \in Hosts => p \notin Attempts /\ OpenerKnows(p) /\ Unmarked
        /\ p \in Attempts => p \notin Hosts /\ ChildKnows(p) /\ manifest.status \in Active
        /\ p \in Attempts \/ pc[p] # "begin" => ~InService
    BY Preparer DEF PreparePlaces, WriteCommitting, PrepareWrites
  <1>2. /\ db = SourceOf(AttemptOf(p)) /\ SourceOf(AttemptOf(p)) \in backup /\
             state # NoState
        /\ ~InService
    BY <1>1 DEF WriteCommitting, PreparerKnows, PreparePlaces
  <1>3. /\ StateOf(p, "committing") \in States /\ StateOf(p, "committing").status # "none"
        /\ StateOf(p, "committing").id = AttemptOf(p) /\ StateOf(p,
             "committing").final = TRUE
    BY <1>1, <1>2 DEF StateOf, States
  <1>4. PICK l \in {"closed", "exited", "commit", "failing"} :
             /\ pc' = [pc EXCEPT ![p] = l] /\ pc'[p] = l
             /\ l \notin {"closed", "exited"} => lock' = lock
             /\ lock' = lock \/ (lock = p /\ lock' = None)
             /\ p \in Attempts => l # "closed"
             /\ p \in Hosts => l # "exited"
             /\ writer' \in {writer, None, p}
             /\ l = "commit" => o = "done"
             /\ l = "failing" => ~Dies(o)
    BY <1>1, <1>2, <1>3 DEF WriteCommitting, PrepareWrites, GoesOrEnds, Goes, Ends
  <1>5. /\ state' = IF Written(o) THEN StateOf(p, "committing") ELSE state
        /\ ~Dies(o) => draft' = NoState
        /\ draft' # NoState => draft'.id = AttemptOf(p)  /\ draft'.final
        /\ draft' \in States
        /\ faults' \in 0..MaxFaults
        /\ UNCHANGED <<db, backup, manifest, poison, staged, files, verdict, poisoned,
             attempts>>
    <2>1. state' = IF Written(o) THEN StateOf(p, "committing") ELSE state
      BY <1>1, <1>2, <1>3, <1>4, Wrote, ProcsAssumption DEF WriteCommitting, PrepareWrites,
         disk, WriteState, AtomicWrite, Spend, IInv, TypeOK
    <2>2. ~Dies(o) => draft' = NoState
      BY <1>1, <1>2, <1>3, <1>4, Wrote, ProcsAssumption DEF WriteCommitting, PrepareWrites,
         disk, WriteState, AtomicWrite, Spend, IInv, TypeOK
    <2>3. draft' # NoState => draft'.id = AttemptOf(p)  /\ draft'.final
      BY <1>1, <1>2, <1>3, <1>4, Wrote, ProcsAssumption DEF WriteCommitting, PrepareWrites,
         disk, WriteState, AtomicWrite, Spend, IInv, TypeOK
    <2>4. draft' \in States
      BY <1>1, <1>2, <1>3, <1>4, Wrote, ProcsAssumption DEF WriteCommitting, PrepareWrites,
         disk, WriteState, AtomicWrite, Spend, IInv, TypeOK
    <2>5. faults' \in 0..MaxFaults
      BY <1>1, <1>2, <1>3, <1>4, Wrote, ProcsAssumption DEF WriteCommitting, PrepareWrites,
         disk, WriteState, AtomicWrite, Spend, IInv, TypeOK
    <2>6. UNCHANGED <<db, backup, manifest, poison, staged, files, verdict, poisoned,
            attempts>>
      BY <1>1, <1>2, <1>3, <1>4, Wrote, ProcsAssumption DEF WriteCommitting, PrepareWrites,
         disk, WriteState, AtomicWrite, Spend, IInv, TypeOK
    <2>7. QED
      BY <2>1, <2>2, <2>3, <2>4, <2>5, <2>6
  <1>6. PlacesOK' => TypeOK'
    BY <1>1, <1>2, <1>3, <1>4, <1>5, Kinds, ProcsAssumption DEF IInv, TypeOK, ManifestOK,
       Active
  <1>7. ~InService'
    BY <1>1, <1>2, <1>3, <1>4, <1>5, StaysUnserved DEF InService
  <1>8. p \in Hosts => OpenerKnows(p)'
    BY <1>1, <1>2, <1>3, <1>4, <1>5 DEF OpenerKnows, PreparePlaces, Unmarked, NoState, Dies
  <1>9. PreparerKnows(p)'
    BY <1>1, <1>2, <1>3, <1>4, <1>5 DEF PreparerKnows, PreparePlaces, NoState, Written, Dies
  <1>10. p \in Attempts => ChildKnows(p)'
    BY <1>1, <1>2, <1>3, <1>4, <1>5 DEF ChildKnows
  <1>11. FinalIsKnown'
    BY <1>1, <1>2, <1>3, <1>4, <1>5 DEF IInv, FinalIsKnown
  <1>12. DamageIsRecoverable'
    BY <1>1, <1>2, <1>3, <1>4, <1>5 DEF IInv, DamageIsRecoverable, NoState
  <1>13. MarkersAreOwned'
    BY <1>1, <1>2, <1>3, <1>4, <1>5 DEF IInv, MarkersAreOwned
  <1>14. l \in IF p \in Attempts THEN ChildPlaces \ {"none"} ELSE HostPlaces
    BY <1>1, <1>4 DEF HostPlaces, OperatorPlaces, ChildPlaces, PreparePlaces
  <1>15. pc[p] \in PreparePlaces \cup {"spawned"} /\ manifest' = manifest
    BY <1>1, <1>2, <1>3, <1>4, <1>5 DEF PreparePlaces
  <1>16. /\ PlacesOK' /\ Locked' /\ Knowledge' /\ ChildIsGuarded'
        /\ ManifestFits' /\ ServesOnlyUnguarded'
    BY <1>1, <1>4, <1>7, <1>8, <1>9, <1>10, <1>14, <1>15, PreparerSteps
  <1>17. QED
    BY <1>6, <1>11, <1>12, <1>13, <1>16 DEF IInv

(* The state is written as commit_unknown. *)
LEMMA CommitUnknownPreserves ==
  ASSUME IInv, NEW p \in Hosts \cup Attempts, NEW o \in Outcomes \cup {"torn"},
         WriteCommitUnknown(p, o)
  PROVE  IInv'
  <1>1. /\ pc[p] = "pending" /\ p \in Hosts \cup Attempts
        /\ p \in Procs /\ pc \in [Procs -> HostPlaces \cup ChildPlaces]
        /\ manifest.id = AttemptOf(p) /\ draft = NoState
        /\ SourceOf(AttemptOf(p)) \in {"empty", "legacy"} /\ AttemptOf(p) \in 0..MaxAttempts
        /\ PreparerKnows(p)
        /\ p \in Hosts => p \notin Attempts /\ OpenerKnows(p) /\ Unmarked
        /\ p \in Attempts => p \notin Hosts /\ ChildKnows(p) /\ manifest.status \in Active
        /\ p \in Attempts \/ pc[p] # "begin" => ~InService
    BY Preparer DEF PreparePlaces, WriteCommitUnknown, PrepareWrites
  <1>2. /\ db \in {SourceOf(AttemptOf(p)), "final"} /\ state.final /\ state # NoState
        /\ ~InService
    BY <1>1 DEF WriteCommitUnknown, PreparerKnows, PreparePlaces
  <1>3. /\ StateOf(p, "commit_unknown") \in States /\ StateOf(p,
             "commit_unknown").status # "none"
        /\ StateOf(p, "commit_unknown").id = AttemptOf(p) /\ StateOf(p,
             "commit_unknown").final = TRUE
    BY <1>1, <1>2 DEF StateOf, States
  <1>4. PICK l \in {"closed", "exited", "landing"} :
             /\ pc' = [pc EXCEPT ![p] = l] /\ pc'[p] = l
             /\ l \notin {"closed", "exited"} => lock' = lock
             /\ lock' = lock \/ (lock = p /\ lock' = None)
             /\ p \in Attempts => l # "closed"
             /\ p \in Hosts => l # "exited"
             /\ writer' \in {writer, None, p}
             /\ l = "landing" => ~Dies(o)
    BY <1>1, <1>2, <1>3 DEF WriteCommitUnknown, PrepareWrites, GoesOrEnds, Goes, Ends
  <1>5. /\ state' = IF Written(o) THEN StateOf(p, "commit_unknown") ELSE state
        /\ ~Dies(o) => draft' = NoState
        /\ draft' # NoState => draft'.id = AttemptOf(p)  /\ draft'.final
        /\ draft' \in States
        /\ faults' \in 0..MaxFaults
        /\ UNCHANGED <<db, backup, manifest, poison, staged, files, verdict, poisoned,
             attempts>>
    <2>1. state' = IF Written(o) THEN StateOf(p, "commit_unknown") ELSE state
      BY <1>1, <1>2, <1>3, <1>4, Wrote, ProcsAssumption DEF WriteCommitUnknown,
         PrepareWrites, disk, WriteState, AtomicWrite, Spend, IInv, TypeOK
    <2>2. ~Dies(o) => draft' = NoState
      BY <1>1, <1>2, <1>3, <1>4, Wrote, ProcsAssumption DEF WriteCommitUnknown,
         PrepareWrites, disk, WriteState, AtomicWrite, Spend, IInv, TypeOK
    <2>3. draft' # NoState => draft'.id = AttemptOf(p)  /\ draft'.final
      BY <1>1, <1>2, <1>3, <1>4, Wrote, ProcsAssumption DEF WriteCommitUnknown,
         PrepareWrites, disk, WriteState, AtomicWrite, Spend, IInv, TypeOK
    <2>4. draft' \in States
      BY <1>1, <1>2, <1>3, <1>4, Wrote, ProcsAssumption DEF WriteCommitUnknown,
         PrepareWrites, disk, WriteState, AtomicWrite, Spend, IInv, TypeOK
    <2>5. faults' \in 0..MaxFaults
      BY <1>1, <1>2, <1>3, <1>4, Wrote, ProcsAssumption DEF WriteCommitUnknown,
         PrepareWrites, disk, WriteState, AtomicWrite, Spend, IInv, TypeOK
    <2>6. UNCHANGED <<db, backup, manifest, poison, staged, files, verdict, poisoned,
            attempts>>
      BY <1>1, <1>2, <1>3, <1>4, Wrote, ProcsAssumption DEF WriteCommitUnknown,
         PrepareWrites, disk, WriteState, AtomicWrite, Spend, IInv, TypeOK
    <2>7. QED
      BY <2>1, <2>2, <2>3, <2>4, <2>5, <2>6
  <1>6. PlacesOK' => TypeOK'
    BY <1>1, <1>2, <1>3, <1>4, <1>5, Kinds, ProcsAssumption DEF IInv, TypeOK, ManifestOK,
       Active
  <1>7. ~InService'
    BY <1>1, <1>2, <1>3, <1>4, <1>5, StaysUnserved DEF InService
  <1>8. p \in Hosts => OpenerKnows(p)'
    BY <1>1, <1>2, <1>3, <1>4, <1>5 DEF OpenerKnows, PreparePlaces, Unmarked, NoState, Dies
  <1>9. PreparerKnows(p)'
    BY <1>1, <1>2, <1>3, <1>4, <1>5 DEF PreparerKnows, PreparePlaces, NoState, Written, Dies
  <1>10. p \in Attempts => ChildKnows(p)'
    BY <1>1, <1>2, <1>3, <1>4, <1>5 DEF ChildKnows
  <1>11. FinalIsKnown'
    BY <1>1, <1>2, <1>3, <1>4, <1>5 DEF IInv, FinalIsKnown
  <1>12. DamageIsRecoverable'
    BY <1>1, <1>2, <1>3, <1>4, <1>5 DEF IInv, DamageIsRecoverable, NoState
  <1>13. MarkersAreOwned'
    BY <1>1, <1>2, <1>3, <1>4, <1>5 DEF IInv, MarkersAreOwned
  <1>14. l \in IF p \in Attempts THEN ChildPlaces \ {"none"} ELSE HostPlaces
    BY <1>1, <1>4 DEF HostPlaces, OperatorPlaces, ChildPlaces, PreparePlaces
  <1>15. pc[p] \in PreparePlaces \cup {"spawned"} /\ manifest' = manifest
    BY <1>1, <1>2, <1>3, <1>4, <1>5 DEF PreparePlaces
  <1>16. /\ PlacesOK' /\ Locked' /\ Knowledge' /\ ChildIsGuarded'
        /\ ManifestFits' /\ ServesOnlyUnguarded'
    BY <1>1, <1>4, <1>7, <1>8, <1>9, <1>10, <1>14, <1>15, PreparerSteps
  <1>17. QED
    BY <1>6, <1>11, <1>12, <1>13, <1>16 DEF IInv

(* The state is written as committed. *)
LEMMA CommittedPreserves ==
  ASSUME IInv, NEW p \in Hosts \cup Attempts, NEW o \in Outcomes \cup {"torn"},
         WriteCommitted(p, o)
  PROVE  IInv'
  <1>1. /\ pc[p] = "committed" /\ p \in Hosts \cup Attempts
        /\ p \in Procs /\ pc \in [Procs -> HostPlaces \cup ChildPlaces]
        /\ manifest.id = AttemptOf(p) /\ draft = NoState
        /\ SourceOf(AttemptOf(p)) \in {"empty", "legacy"} /\ AttemptOf(p) \in 0..MaxAttempts
        /\ PreparerKnows(p)
        /\ p \in Hosts => p \notin Attempts /\ OpenerKnows(p) /\ Unmarked
        /\ p \in Attempts => p \notin Hosts /\ ChildKnows(p) /\ manifest.status \in Active
        /\ p \in Attempts \/ pc[p] # "begin" => ~InService
    BY Preparer DEF PreparePlaces, WriteCommitted, PrepareWrites
  <1>2. /\ db = "final" /\ state.final /\ state # NoState
        /\ ~InService
    BY <1>1 DEF WriteCommitted, PreparerKnows, PreparePlaces
  <1>3. /\ StateOf(p, "committed") \in States /\ StateOf(p, "committed").status # "none"
        /\ StateOf(p, "committed").id = AttemptOf(p) /\ StateOf(p, "committed").final = TRUE
    BY <1>1, <1>2 DEF StateOf, States
  <1>4. PICK l \in {"closed", "exited", "clear"} :
             /\ pc' = [pc EXCEPT ![p] = l] /\ pc'[p] = l
             /\ l \notin {"closed", "exited"} => lock' = lock
             /\ lock' = lock \/ (lock = p /\ lock' = None)
             /\ p \in Attempts => l # "closed"
             /\ p \in Hosts => l # "exited"
             /\ writer' \in {writer, None, p}
             /\ l = "clear" => o = "done" /\ p \in Hosts
    BY <1>1, <1>2, <1>3 DEF WriteCommitted, PrepareWrites, GoesOrEnds, Goes, Ends
  <1>5. /\ state' = IF Written(o) THEN StateOf(p, "committed") ELSE state
        /\ ~Dies(o) => draft' = NoState
        /\ draft' # NoState => draft'.id = AttemptOf(p)  /\ draft'.final
        /\ draft' \in States
        /\ faults' \in 0..MaxFaults
        /\ UNCHANGED <<db, backup, manifest, poison, staged, files, verdict, poisoned,
             attempts>>
    <2>1. state' = IF Written(o) THEN StateOf(p, "committed") ELSE state
      BY <1>1, <1>2, <1>3, <1>4, Wrote, ProcsAssumption DEF WriteCommitted, PrepareWrites,
         disk, WriteState, AtomicWrite, Spend, IInv, TypeOK
    <2>2. ~Dies(o) => draft' = NoState
      BY <1>1, <1>2, <1>3, <1>4, Wrote, ProcsAssumption DEF WriteCommitted, PrepareWrites,
         disk, WriteState, AtomicWrite, Spend, IInv, TypeOK
    <2>3. draft' # NoState => draft'.id = AttemptOf(p)  /\ draft'.final
      BY <1>1, <1>2, <1>3, <1>4, Wrote, ProcsAssumption DEF WriteCommitted, PrepareWrites,
         disk, WriteState, AtomicWrite, Spend, IInv, TypeOK
    <2>4. draft' \in States
      BY <1>1, <1>2, <1>3, <1>4, Wrote, ProcsAssumption DEF WriteCommitted, PrepareWrites,
         disk, WriteState, AtomicWrite, Spend, IInv, TypeOK
    <2>5. faults' \in 0..MaxFaults
      BY <1>1, <1>2, <1>3, <1>4, Wrote, ProcsAssumption DEF WriteCommitted, PrepareWrites,
         disk, WriteState, AtomicWrite, Spend, IInv, TypeOK
    <2>6. UNCHANGED <<db, backup, manifest, poison, staged, files, verdict, poisoned,
            attempts>>
      BY <1>1, <1>2, <1>3, <1>4, Wrote, ProcsAssumption DEF WriteCommitted, PrepareWrites,
         disk, WriteState, AtomicWrite, Spend, IInv, TypeOK
    <2>7. QED
      BY <2>1, <2>2, <2>3, <2>4, <2>5, <2>6
  <1>6. PlacesOK' => TypeOK'
    BY <1>1, <1>2, <1>3, <1>4, <1>5, Kinds, ProcsAssumption DEF IInv, TypeOK, ManifestOK,
       Active
  <1>7. ~InService'
    BY <1>1, <1>2, <1>3, <1>4, <1>5, StaysUnserved DEF InService
  <1>8. p \in Hosts => OpenerKnows(p)'
    BY <1>1, <1>2, <1>3, <1>4, <1>5 DEF OpenerKnows, PreparePlaces, Unmarked, NoState, Dies
  <1>9. PreparerKnows(p)'
    BY <1>1, <1>2, <1>3, <1>4, <1>5 DEF PreparerKnows, PreparePlaces, NoState, Written, Dies
  <1>10. p \in Attempts => ChildKnows(p)'
    BY <1>1, <1>2, <1>3, <1>4, <1>5 DEF ChildKnows
  <1>11. FinalIsKnown'
    BY <1>1, <1>2, <1>3, <1>4, <1>5 DEF IInv, FinalIsKnown
  <1>12. DamageIsRecoverable'
    BY <1>1, <1>2, <1>3, <1>4, <1>5 DEF IInv, DamageIsRecoverable, NoState
  <1>13. MarkersAreOwned'
    BY <1>1, <1>2, <1>3, <1>4, <1>5 DEF IInv, MarkersAreOwned
  <1>14. l \in IF p \in Attempts THEN ChildPlaces \ {"none"} ELSE HostPlaces
    BY <1>1, <1>4 DEF HostPlaces, OperatorPlaces, ChildPlaces, PreparePlaces
  <1>15. pc[p] \in PreparePlaces \cup {"spawned"} /\ manifest' = manifest
    BY <1>1, <1>2, <1>3, <1>4, <1>5 DEF PreparePlaces
  <1>16. /\ PlacesOK' /\ Locked' /\ Knowledge' /\ ChildIsGuarded'
        /\ ManifestFits' /\ ServesOnlyUnguarded'
    BY <1>1, <1>4, <1>7, <1>8, <1>9, <1>10, <1>14, <1>15, PreparerSteps
  <1>17. QED
    BY <1>6, <1>11, <1>12, <1>13, <1>16 DEF IInv

(* A step of the upgrade fails. *)
LEMMA FailsPreserves ==
  ASSUME IInv, NEW p \in Hosts \cup Attempts,
         MigrationFails(p)
  PROVE  IInv'
  <1>1. /\ pc[p] = "migrate" /\ p \in Hosts \cup Attempts
        /\ p \in Procs /\ pc \in [Procs -> HostPlaces \cup ChildPlaces]
        /\ manifest.id = AttemptOf(p) /\ draft = NoState
        /\ SourceOf(AttemptOf(p)) \in {"empty", "legacy"} /\ AttemptOf(p) \in 0..MaxAttempts
        /\ PreparerKnows(p)
        /\ p \in Hosts => p \notin Attempts /\ OpenerKnows(p) /\ Unmarked
        /\ p \in Attempts => p \notin Hosts /\ ChildKnows(p) /\ manifest.status \in Active
        /\ p \in Attempts \/ pc[p] # "begin" => ~InService
    BY Preparer DEF PreparePlaces, MigrationFails
  <1>2. /\ db = SourceOf(AttemptOf(p)) /\ SourceOf(AttemptOf(p)) \in backup /\
             state # NoState
        /\ ~InService
    BY <1>1 DEF MigrationFails, PreparerKnows, PreparePlaces
  <1>3. PICK l \in {"failing"} :
             /\ pc' = [pc EXCEPT ![p] = l] /\ pc'[p] = l
             /\ l \notin {"closed", "exited"} => lock' = lock
             /\ lock' = lock \/ (lock = p /\ lock' = None)
             /\ p \in Attempts => l # "closed"
             /\ p \in Hosts => l # "exited"
             /\ writer' \in {writer, None, p}
    BY <1>1, <1>2 DEF MigrationFails, Spend, GoesOrEnds, Goes, Ends
  <1>4. /\ faults' \in 0..MaxFaults
        /\ UNCHANGED <<db, backup, manifest, state, poison, staged, draft, files, verdict,
             poisoned, attempts>>
    BY <1>1, <1>2, <1>3, ProcsAssumption DEF MigrationFails, Spend, disk, IInv, TypeOK
  <1>5. PlacesOK' => TypeOK'
    BY <1>1, <1>2, <1>3, <1>4, Kinds, ProcsAssumption DEF IInv, TypeOK, ManifestOK, Active
  <1>6. ~InService'
    BY <1>1, <1>2, <1>3, <1>4, StaysUnserved DEF InService
  <1>7. p \in Hosts => OpenerKnows(p)'
    BY <1>1, <1>2, <1>3, <1>4 DEF OpenerKnows, PreparePlaces, Unmarked
  <1>8. PreparerKnows(p)'
    BY <1>1, <1>2, <1>3, <1>4 DEF PreparerKnows, PreparePlaces
  <1>9. p \in Attempts => ChildKnows(p)'
    BY <1>1, <1>2, <1>3, <1>4 DEF ChildKnows
  <1>10. FinalIsKnown'
    BY <1>1, <1>2, <1>3, <1>4 DEF IInv, FinalIsKnown
  <1>11. DamageIsRecoverable'
    BY <1>1, <1>2, <1>3, <1>4 DEF IInv, DamageIsRecoverable
  <1>12. MarkersAreOwned'
    BY <1>1, <1>2, <1>3, <1>4 DEF IInv, MarkersAreOwned
  <1>13. l \in IF p \in Attempts THEN ChildPlaces \ {"none"} ELSE HostPlaces
    BY <1>1, <1>3 DEF HostPlaces, OperatorPlaces, ChildPlaces, PreparePlaces
  <1>14. pc[p] \in PreparePlaces \cup {"spawned"} /\ manifest' = manifest
    BY <1>1, <1>2, <1>3, <1>4 DEF PreparePlaces
  <1>15. /\ PlacesOK' /\ Locked' /\ Knowledge' /\ ChildIsGuarded'
        /\ ManifestFits' /\ ServesOnlyUnguarded'
    BY <1>1, <1>3, <1>6, <1>7, <1>8, <1>9, <1>13, <1>14, PreparerSteps
  <1>16. QED
    BY <1>5, <1>10, <1>11, <1>12, <1>15 DEF IInv

(* The commit is made, or not, and read back. *)
LEMMA CommitPreserves ==
  ASSUME ~ReadsFail, IInv, NEW p \in Hosts \cup Attempts, NEW d, NEW r,
         Commit(p, d, r)
  PROVE  IInv'
  <1>1. /\ pc[p] = "commit" /\ p \in Hosts \cup Attempts
        /\ p \in Procs /\ pc \in [Procs -> HostPlaces \cup ChildPlaces]
        /\ manifest.id = AttemptOf(p) /\ draft = NoState
        /\ SourceOf(AttemptOf(p)) \in {"empty", "legacy"} /\ AttemptOf(p) \in 0..MaxAttempts
        /\ PreparerKnows(p)
        /\ p \in Hosts => p \notin Attempts /\ OpenerKnows(p) /\ Unmarked
        /\ p \in Attempts => p \notin Hosts /\ ChildKnows(p) /\ manifest.status \in Active
        /\ p \in Attempts \/ pc[p] # "begin" => ~InService
    BY Preparer DEF PreparePlaces, Commit
  <1>2. /\ db = SourceOf(AttemptOf(p)) /\ SourceOf(AttemptOf(p)) \in backup /\
             state # NoState /\ state.final
        /\ state.id = AttemptOf(p)
        /\ p \in Attempts => {"restore", "ready"} \subseteq files[p]
        /\ ~InService
    BY <1>1 DEF Commit, PreparerKnows, PreparePlaces, ChildKnows, IInv, MarkersAreOwned
  <1>3. PICK l \in {"committed", "failing"} :
             /\ pc' = [pc EXCEPT ![p] = l] /\ pc'[p] = l
             /\ l \notin {"closed", "exited"} => lock' = lock
             /\ lock' = lock \/ (lock = p /\ lock' = None)
             /\ p \in Attempts => l # "closed"
             /\ p \in Hosts => l # "exited"
             /\ writer' \in {writer, None, p}
             /\ l = IF d = "final" THEN "committed" ELSE "failing"
    BY <1>1, <1>2 DEF Commit, Spend, GoesOrEnds, Goes, Ends
  <1>4. /\ db' = d /\ d \in {"final", db, "other"}
        /\ faults' \in 0..MaxFaults
        /\ UNCHANGED <<backup, manifest, state, poison, staged, draft, files, verdict,
             poisoned, attempts>>
    BY <1>1, <1>2, <1>3, ProcsAssumption DEF Commit, Spend, disk, IInv, TypeOK
  <1>5. PlacesOK' => TypeOK'
    BY <1>1, <1>2, <1>3, <1>4, Kinds, ProcsAssumption DEF IInv, TypeOK, ManifestOK, Active
  <1>6. ~InService'
    BY <1>1, <1>2, <1>3, <1>4, StaysUnserved DEF InService
  <1>7. p \in Hosts => OpenerKnows(p)'
    BY <1>1, <1>2, <1>3, <1>4 DEF OpenerKnows, PreparePlaces, Unmarked
  <1>8. PreparerKnows(p)'
    BY <1>1, <1>2, <1>3, <1>4 DEF PreparerKnows, PreparePlaces
  <1>9. p \in Attempts => ChildKnows(p)'
    BY <1>1, <1>2, <1>3, <1>4 DEF ChildKnows
  <1>10. FinalIsKnown'
    BY <1>1, <1>2, <1>3, <1>4 DEF IInv, FinalIsKnown
  <1>11. DamageIsRecoverable'
    BY <1>1, <1>2, <1>3, <1>4 DEF IInv, DamageIsRecoverable, AttemptOf
  <1>12. MarkersAreOwned'
    BY <1>1, <1>2, <1>3, <1>4 DEF IInv, MarkersAreOwned
  <1>13. l \in IF p \in Attempts THEN ChildPlaces \ {"none"} ELSE HostPlaces
    BY <1>1, <1>3 DEF HostPlaces, OperatorPlaces, ChildPlaces, PreparePlaces
  <1>14. pc[p] \in PreparePlaces \cup {"spawned"} /\ manifest' = manifest
    BY <1>1, <1>2, <1>3, <1>4 DEF PreparePlaces
  <1>15. /\ PlacesOK' /\ Locked' /\ Knowledge' /\ ChildIsGuarded'
        /\ ManifestFits' /\ ServesOnlyUnguarded'
    BY <1>1, <1>3, <1>6, <1>7, <1>8, <1>9, <1>13, <1>14, PreparerSteps
  <1>16. QED
    BY <1>5, <1>10, <1>11, <1>12, <1>15 DEF IInv

(* The deadline of the commit passes. *)
LEMMA TimesOutPreserves ==
  ASSUME IInv, NEW p \in Hosts \cup Attempts,
         CommitTimesOut(p)
  PROVE  IInv'
  <1>1. /\ pc[p] = "commit" /\ p \in Hosts \cup Attempts
        /\ p \in Procs /\ pc \in [Procs -> HostPlaces \cup ChildPlaces]
        /\ manifest.id = AttemptOf(p) /\ draft = NoState
        /\ SourceOf(AttemptOf(p)) \in {"empty", "legacy"} /\ AttemptOf(p) \in 0..MaxAttempts
        /\ PreparerKnows(p)
        /\ p \in Hosts => p \notin Attempts /\ OpenerKnows(p) /\ Unmarked
        /\ p \in Attempts => p \notin Hosts /\ ChildKnows(p) /\ manifest.status \in Active
        /\ p \in Attempts \/ pc[p] # "begin" => ~InService
    BY Preparer DEF PreparePlaces, CommitTimesOut
  <1>2. /\ db = SourceOf(AttemptOf(p)) /\ state # NoState /\ state.final
        /\ ~InService
    BY <1>1 DEF CommitTimesOut, PreparerKnows, PreparePlaces
  <1>3. PICK l \in {"pending"} :
             /\ pc' = [pc EXCEPT ![p] = l] /\ pc'[p] = l
             /\ l \notin {"closed", "exited"} => lock' = lock
             /\ lock' = lock \/ (lock = p /\ lock' = None)
             /\ p \in Attempts => l # "closed"
             /\ p \in Hosts => l # "exited"
             /\ writer' \in {writer, None, p}
    BY <1>1, <1>2 DEF CommitTimesOut, Spend, GoesOrEnds, Goes, Ends
  <1>4. /\ faults' \in 0..MaxFaults
        /\ UNCHANGED <<db, backup, manifest, state, poison, staged, draft, files, verdict,
             poisoned, attempts>>
    BY <1>1, <1>2, <1>3, ProcsAssumption DEF CommitTimesOut, Spend, disk, IInv, TypeOK
  <1>5. PlacesOK' => TypeOK'
    BY <1>1, <1>2, <1>3, <1>4, Kinds, ProcsAssumption DEF IInv, TypeOK, ManifestOK, Active
  <1>6. ~InService'
    BY <1>1, <1>2, <1>3, <1>4, StaysUnserved DEF InService
  <1>7. p \in Hosts => OpenerKnows(p)'
    BY <1>1, <1>2, <1>3, <1>4 DEF OpenerKnows, PreparePlaces, Unmarked
  <1>8. PreparerKnows(p)'
    BY <1>1, <1>2, <1>3, <1>4 DEF PreparerKnows, PreparePlaces
  <1>9. p \in Attempts => ChildKnows(p)'
    BY <1>1, <1>2, <1>3, <1>4 DEF ChildKnows
  <1>10. FinalIsKnown'
    BY <1>1, <1>2, <1>3, <1>4 DEF IInv, FinalIsKnown
  <1>11. DamageIsRecoverable'
    BY <1>1, <1>2, <1>3, <1>4 DEF IInv, DamageIsRecoverable
  <1>12. MarkersAreOwned'
    BY <1>1, <1>2, <1>3, <1>4 DEF IInv, MarkersAreOwned
  <1>13. l \in IF p \in Attempts THEN ChildPlaces \ {"none"} ELSE HostPlaces
    BY <1>1, <1>3 DEF HostPlaces, OperatorPlaces, ChildPlaces, PreparePlaces
  <1>14. pc[p] \in PreparePlaces \cup {"spawned"} /\ manifest' = manifest
    BY <1>1, <1>2, <1>3, <1>4 DEF PreparePlaces
  <1>15. /\ PlacesOK' /\ Locked' /\ Knowledge' /\ ChildIsGuarded'
        /\ ManifestFits' /\ ServesOnlyUnguarded'
    BY <1>1, <1>3, <1>6, <1>7, <1>8, <1>9, <1>13, <1>14, PreparerSteps
  <1>16. QED
    BY <1>5, <1>10, <1>11, <1>12, <1>15 DEF IInv

(* A commit nobody waits for lands. *)
LEMMA LandsPreserves ==
  ASSUME IInv, NEW p \in Hosts \cup Attempts,
         CommitLands(p)
  PROVE  IInv'
  <1>1. /\ pc[p] \in {"pending", "landing"} /\ p \in Hosts \cup Attempts
        /\ p \in Procs /\ pc \in [Procs -> HostPlaces \cup ChildPlaces]
        /\ manifest.id = AttemptOf(p) /\ draft = NoState
        /\ SourceOf(AttemptOf(p)) \in {"empty", "legacy"} /\ AttemptOf(p) \in 0..MaxAttempts
        /\ PreparerKnows(p)
        /\ p \in Hosts => p \notin Attempts /\ OpenerKnows(p) /\ Unmarked
        /\ p \in Attempts => p \notin Hosts /\ ChildKnows(p) /\ manifest.status \in Active
        /\ p \in Attempts \/ pc[p] # "begin" => ~InService
    BY Preparer DEF PreparePlaces, CommitLands
  <1>2. /\ state # NoState /\ state.final
        /\ ~InService
    BY <1>1 DEF CommitLands, PreparerKnows, PreparePlaces
  <1>3. PICK l \in {"pending", "landing"} :
             /\ pc' = [pc EXCEPT ![p] = l] /\ pc'[p] = l
             /\ l \notin {"closed", "exited"} => lock' = lock
             /\ lock' = lock \/ (lock = p /\ lock' = None)
             /\ p \in Attempts => l # "closed"
             /\ p \in Hosts => l # "exited"
             /\ writer' \in {writer, None, p}
             /\ l = pc[p]
    BY <1>1, <1>2 DEF CommitLands, GoesOrEnds, Goes, Ends
  <1>4. /\ db' = "final"
        /\ UNCHANGED <<backup, manifest, state, poison, staged, draft, files, verdict,
             poisoned, attempts, faults>>
    BY <1>1, <1>2, <1>3 DEF CommitLands, disk
  <1>5. PlacesOK' => TypeOK'
    BY <1>1, <1>2, <1>3, <1>4, Kinds, ProcsAssumption DEF IInv, TypeOK, ManifestOK, Active
  <1>6. ~InService'
    BY <1>1, <1>2, <1>3, <1>4, StaysUnserved DEF InService
  <1>7. p \in Hosts => OpenerKnows(p)'
    BY <1>1, <1>2, <1>3, <1>4 DEF OpenerKnows, PreparePlaces, Unmarked
  <1>8. PreparerKnows(p)'
    BY <1>1, <1>2, <1>3, <1>4 DEF PreparerKnows, PreparePlaces
  <1>9. p \in Attempts => ChildKnows(p)'
    BY <1>1, <1>2, <1>3, <1>4 DEF ChildKnows
  <1>10. FinalIsKnown'
    BY <1>1, <1>2, <1>3, <1>4 DEF IInv, FinalIsKnown
  <1>11. DamageIsRecoverable'
    BY <1>1, <1>2, <1>3, <1>4 DEF IInv, DamageIsRecoverable
  <1>12. MarkersAreOwned'
    BY <1>1, <1>2, <1>3, <1>4 DEF IInv, MarkersAreOwned
  <1>13. l \in IF p \in Attempts THEN ChildPlaces \ {"none"} ELSE HostPlaces
    BY <1>1, <1>3 DEF HostPlaces, OperatorPlaces, ChildPlaces, PreparePlaces
  <1>14. pc[p] \in PreparePlaces \cup {"spawned"} /\ manifest' = manifest
    BY <1>1, <1>2, <1>3, <1>4 DEF PreparePlaces
  <1>15. /\ PlacesOK' /\ Locked' /\ Knowledge' /\ ChildIsGuarded'
        /\ ManifestFits' /\ ServesOnlyUnguarded'
    BY <1>1, <1>3, <1>6, <1>7, <1>8, <1>9, <1>13, <1>14, PreparerSteps
  <1>16. QED
    BY <1>5, <1>10, <1>11, <1>12, <1>15 DEF IInv

(* The backup is restored. *)
LEMMA RestorePreserves ==
  ASSUME IInv, NEW p \in Hosts \cup Attempts, NEW ok \in BOOLEAN,
           NEW o \in Outcomes \cup {"torn"},
         RestoreBackup(p, ok, o)
  PROVE  IInv'
  <1>1. /\ pc[p] = "failing" /\ p \in Hosts \cup Attempts
        /\ p \in Procs /\ pc \in [Procs -> HostPlaces \cup ChildPlaces]
        /\ manifest.id = AttemptOf(p) /\ draft = NoState
        /\ SourceOf(AttemptOf(p)) \in {"empty", "legacy"} /\ AttemptOf(p) \in 0..MaxAttempts
        /\ PreparerKnows(p)
        /\ p \in Hosts => p \notin Attempts /\ OpenerKnows(p) /\ Unmarked
        /\ p \in Attempts => p \notin Hosts /\ ChildKnows(p) /\ manifest.status \in Active
        /\ p \in Attempts \/ pc[p] # "begin" => ~InService
    BY Preparer DEF PreparePlaces, RestoreBackup
  <1>2. /\ db \in {SourceOf(AttemptOf(p)), "other"} /\ state # NoState /\
             state.id = AttemptOf(p)
        /\ ~InService
    BY <1>1 DEF RestoreBackup, PreparerKnows, PreparePlaces, IInv, MarkersAreOwned
  <1>3. p \in Attempts => [files EXCEPT ![p] = @ \ {"restore"}]
            \in [Attempts -> SUBSET (Temps \cup {"ready", "ready_staging"})]
    BY <1>1, <1>2 DEF IInv, TypeOK
  <1>4. /\ [state EXCEPT !.status = "restore_failed"] \in States
        /\ [state EXCEPT !.status = "restore_failed"].status = "restore_failed"
        /\ [state EXCEPT !.status = "restore_failed"].id = state.id
        /\ state \in States /\ [state EXCEPT !.status = "restore_failed"] # NoState
    BY <1>1, <1>2, <1>3 DEF IInv, TypeOK, States, NoState
  <1>5. PICK l \in {"closed", "exited", "restored"} :
             /\ pc' = [pc EXCEPT ![p] = l] /\ pc'[p] = l
             /\ l \notin {"closed", "exited"} => lock' = lock
             /\ lock' = lock \/ (lock = p /\ lock' = None)
             /\ p \in Attempts => l # "closed"
             /\ p \in Hosts => l # "exited"
             /\ writer' \in {writer, None, p}
    BY <1>1, <1>2, <1>3, <1>4 DEF RestoreBackup, GoesOrEnds, Goes, Ends
  <1>6. /\ l = "restored" => db' = SourceOf(AttemptOf(p)) /\ state' = state /\
             draft' = NoState
        /\ l # "restored" => db' = db /\ files' = files
        /\ state' \in States /\ state'.id = state.id /\ state' # NoState
        /\ draft' \in States /\ (draft' # NoState => draft'.id = state.id)
        /\ files' = files \/ (p \in Attempts /\
             files' = [files EXCEPT ![p] = @ \ {"restore"}])
        /\ faults' \in 0..MaxFaults
        /\ UNCHANGED <<backup, manifest, poison, staged, verdict, poisoned, attempts>>
    <2>1. l = "restored" => db' = SourceOf(AttemptOf(p)) /\ state' = state /\
            draft' = NoState
      BY <1>1, <1>2, <1>3, <1>4, <1>5, Wrote, Nothings, ProcsAssumption DEF RestoreBackup,
         disk, Spend, GoesOrEnds, Goes, Ends, IInv, TypeOK
    <2>2. l # "restored" => db' = db /\ files' = files
      BY <1>1, <1>2, <1>3, <1>4, <1>5, Wrote, Nothings, ProcsAssumption DEF RestoreBackup,
         disk, Spend, GoesOrEnds, Goes, Ends, IInv, TypeOK
    <2>3. state' \in States /\ state'.id = state.id /\ state' # NoState
      BY <1>1, <1>2, <1>3, <1>4, <1>5, Wrote, Nothings, ProcsAssumption DEF RestoreBackup,
         disk, Spend, GoesOrEnds, Goes, Ends, IInv, TypeOK
    <2>4. draft' \in States /\ (draft' # NoState => draft'.id = state.id)
      BY <1>1, <1>2, <1>3, <1>4, <1>5, Wrote, Nothings, ProcsAssumption DEF RestoreBackup,
         disk, Spend, GoesOrEnds, Goes, Ends, IInv, TypeOK
    <2>5. files' = files \/ (p \in Attempts /\
            files' = [files EXCEPT ![p] = @ \ {"restore"}])
      BY <1>1, <1>2, <1>3, <1>4, <1>5, Wrote, Nothings, ProcsAssumption DEF RestoreBackup,
         disk, Spend, GoesOrEnds, Goes, Ends, IInv, TypeOK
    <2>6. faults' \in 0..MaxFaults
      BY <1>1, <1>2, <1>3, <1>4, <1>5, Wrote, Nothings, ProcsAssumption DEF RestoreBackup,
         disk, Spend, GoesOrEnds, Goes, Ends, IInv, TypeOK
    <2>7. UNCHANGED <<backup, manifest, poison, staged, verdict, poisoned, attempts>>
      BY <1>1, <1>2, <1>3, <1>4, <1>5, Wrote, Nothings, ProcsAssumption DEF RestoreBackup,
         disk, Spend, GoesOrEnds, Goes, Ends, IInv, TypeOK
    <2>8. QED
      BY <2>1, <2>2, <2>3, <2>4, <2>5, <2>6, <2>7
  <1>7. PlacesOK' => TypeOK'
    BY <1>1, <1>2, <1>3, <1>4, <1>5, <1>6, Kinds, ProcsAssumption DEF IInv, TypeOK,
       ManifestOK, Active
  <1>8. ~InService'
    BY <1>1, <1>2, <1>3, <1>4, <1>5, <1>6, StaysUnserved DEF InService
  <1>9. p \in Hosts => OpenerKnows(p)'
    BY <1>1, <1>2, <1>3, <1>4, <1>5, <1>6 DEF OpenerKnows, PreparePlaces, Unmarked
  <1>10. PreparerKnows(p)'
    BY <1>1, <1>2, <1>3, <1>4, <1>5, <1>6 DEF PreparerKnows, PreparePlaces
  <1>11. p \in Attempts => ChildKnows(p)'
    BY <1>1, <1>2, <1>3, <1>4, <1>5, <1>6 DEF ChildKnows
  <1>12. FinalIsKnown'
    BY <1>1, <1>2, <1>3, <1>4, <1>5, <1>6 DEF IInv, FinalIsKnown
  <1>13. DamageIsRecoverable'
    BY <1>1, <1>2, <1>3, <1>4, <1>5, <1>6 DEF IInv, DamageIsRecoverable
  <1>14. MarkersAreOwned'
    BY <1>1, <1>2, <1>3, <1>4, <1>5, <1>6 DEF IInv, MarkersAreOwned, TypeOK
  <1>15. l \in IF p \in Attempts THEN ChildPlaces \ {"none"} ELSE HostPlaces
    BY <1>1, <1>5 DEF HostPlaces, OperatorPlaces, ChildPlaces, PreparePlaces
  <1>16. pc[p] \in PreparePlaces \cup {"spawned"} /\ manifest' = manifest
    BY <1>1, <1>2, <1>3, <1>4, <1>5, <1>6 DEF PreparePlaces
  <1>17. /\ PlacesOK' /\ Locked' /\ Knowledge' /\ ChildIsGuarded'
        /\ ManifestFits' /\ ServesOnlyUnguarded'
    BY <1>1, <1>5, <1>8, <1>9, <1>10, <1>11, <1>15, <1>16, PreparerSteps
  <1>18. QED
    BY <1>7, <1>12, <1>13, <1>14, <1>17 DEF IInv

(* The restored source is noted. *)
LEMMA RestoredPreserves ==
  ASSUME IInv, NEW p \in Hosts \cup Attempts, NEW o \in Outcomes \cup {"torn"},
           NEW marks \in BOOLEAN,
         WriteRestored(p, o, marks)
  PROVE  IInv'
  <1>1. /\ pc[p] = "restored" /\ p \in Hosts \cup Attempts
        /\ p \in Procs /\ pc \in [Procs -> HostPlaces \cup ChildPlaces]
        /\ manifest.id = AttemptOf(p) /\ draft = NoState
        /\ SourceOf(AttemptOf(p)) \in {"empty", "legacy"} /\ AttemptOf(p) \in 0..MaxAttempts
        /\ PreparerKnows(p)
        /\ p \in Hosts => p \notin Attempts /\ OpenerKnows(p) /\ Unmarked
        /\ p \in Attempts => p \notin Hosts /\ ChildKnows(p) /\ manifest.status \in Active
        /\ p \in Attempts \/ pc[p] # "begin" => ~InService
    BY Preparer DEF PreparePlaces, WriteRestored
  <1>2. /\ db = SourceOf(AttemptOf(p)) /\ state.id = AttemptOf(p)
        /\ ~InService
    BY <1>1 DEF WriteRestored, PreparerKnows, PreparePlaces, IInv, MarkersAreOwned
  <1>3. /\ StateOf(p, "restored_source") \in States /\ StateOf(p,
             "restored_source").status # "none"
        /\ StateOf(p, "restored_source").id = AttemptOf(p)
    BY <1>1, <1>2 DEF States, StateOf
  <1>4. /\ state \in States
        /\ \A s \in States : /\ [s EXCEPT !.status = "restore_failed"] \in States
                            /\ [s EXCEPT !.status = "restore_failed"].id = s.id
    BY <1>1, <1>2, <1>3 DEF IInv, TypeOK, States
  <1>5. PICK l \in {"closed", "exited"} :
             /\ pc' = [pc EXCEPT ![p] = l] /\ pc'[p] = l
             /\ l \notin {"closed", "exited"} => lock' = lock
             /\ lock' = lock \/ (lock = p /\ lock' = None)
             /\ p \in Attempts => l # "closed"
             /\ p \in Hosts => l # "exited"
             /\ writer' \in {writer, None, p}
    BY <1>1, <1>2, <1>3, <1>4 DEF WriteRestored, GoesOrEnds, Goes, Ends
  <1>6. /\ \E s \in {state, StateOf(p, "restored_source")} : state' \in {s,
             [s EXCEPT !.status = "restore_failed"]}
        /\ draft' \in States /\ (draft' # NoState => draft'.id = AttemptOf(p))
        /\ faults' \in 0..MaxFaults
        /\ UNCHANGED <<db, backup, manifest, poison, staged, files, verdict, poisoned,
             attempts>>
    <2>1. \E s \in {state, StateOf(p, "restored_source")} : state' \in {s,
            [s EXCEPT !.status = "restore_failed"]}
      BY <1>1, <1>2, <1>3, <1>4, <1>5, Wrote, Nothings, ProcsAssumption DEF WriteRestored,
         disk, AtomicWrite, Spend, IInv, TypeOK, Written, PutState
    <2>2. draft' \in States /\ (draft' # NoState => draft'.id = AttemptOf(p))
      BY <1>1, <1>2, <1>3, <1>4, <1>5, Wrote, Nothings, ProcsAssumption DEF WriteRestored,
         disk, AtomicWrite, Spend, IInv, TypeOK, Written, PutState
    <2>3. faults' \in 0..MaxFaults
      BY <1>1, <1>2, <1>3, <1>4, <1>5, Wrote, Nothings, ProcsAssumption DEF WriteRestored,
         disk, AtomicWrite, Spend, IInv, TypeOK, Written, PutState
    <2>4. UNCHANGED <<db, backup, manifest, poison, staged, files, verdict, poisoned,
            attempts>>
      BY <1>1, <1>2, <1>3, <1>4, <1>5, Wrote, Nothings, ProcsAssumption DEF WriteRestored,
         disk, AtomicWrite, Spend, IInv, TypeOK, Written, PutState
    <2>5. QED
      BY <2>1, <2>2, <2>3, <2>4
  <1>7. PlacesOK' => TypeOK'
    BY <1>1, <1>2, <1>3, <1>4, <1>5, <1>6, Kinds, ProcsAssumption DEF IInv, TypeOK,
       ManifestOK, Active
  <1>8. ~InService'
    BY <1>1, <1>2, <1>3, <1>4, <1>5, <1>6, StaysUnserved DEF InService
  <1>9. p \in Hosts => OpenerKnows(p)'
    BY <1>1, <1>2, <1>3, <1>4, <1>5, <1>6 DEF OpenerKnows, PreparePlaces, Unmarked
  <1>10. PreparerKnows(p)'
    BY <1>1, <1>2, <1>3, <1>4, <1>5, <1>6 DEF PreparerKnows, PreparePlaces
  <1>11. p \in Attempts => ChildKnows(p)'
    BY <1>1, <1>2, <1>3, <1>4, <1>5, <1>6 DEF ChildKnows
  <1>12. FinalIsKnown'
    BY <1>1, <1>2, <1>3, <1>4, <1>5, <1>6 DEF IInv, FinalIsKnown
  <1>13. DamageIsRecoverable'
    BY <1>1, <1>2, <1>3, <1>4, <1>5, <1>6 DEF IInv, DamageIsRecoverable
  <1>14. MarkersAreOwned'
    BY <1>1, <1>2, <1>3, <1>4, <1>5, <1>6 DEF IInv, MarkersAreOwned
  <1>15. l \in IF p \in Attempts THEN ChildPlaces \ {"none"} ELSE HostPlaces
    BY <1>1, <1>5 DEF HostPlaces, OperatorPlaces, ChildPlaces, PreparePlaces
  <1>16. pc[p] \in PreparePlaces \cup {"spawned"} /\ manifest' = manifest
    BY <1>1, <1>2, <1>3, <1>4, <1>5, <1>6 DEF PreparePlaces
  <1>17. /\ PlacesOK' /\ Locked' /\ Knowledge' /\ ChildIsGuarded'
        /\ ManifestFits' /\ ServesOnlyUnguarded'
    BY <1>1, <1>5, <1>8, <1>9, <1>10, <1>11, <1>15, <1>16, PreparerSteps
  <1>18. QED
    BY <1>7, <1>12, <1>13, <1>14, <1>17 DEF IInv

(* The child is ready. *)
LEMMA ReadyPreserves ==
  ASSUME IInv, NEW p \in Attempts, NEW o \in Outcomes,
         AnnounceReady(p, o)
  PROVE  IInv'
  <1>1. /\ pc[p] = "spawned" /\ p \in Hosts \cup Attempts
        /\ p \in Procs /\ pc \in [Procs -> HostPlaces \cup ChildPlaces]
        /\ manifest.id = AttemptOf(p) /\ draft = NoState
        /\ SourceOf(AttemptOf(p)) \in {"empty", "legacy"} /\ AttemptOf(p) \in 0..MaxAttempts
        /\ PreparerKnows(p)
        /\ p \in Hosts => p \notin Attempts /\ OpenerKnows(p) /\ Unmarked
        /\ p \in Attempts => p \notin Hosts /\ ChildKnows(p) /\ manifest.status \in Active
        /\ p \in Attempts \/ pc[p] # "begin" => ~InService
    BY Preparer DEF PreparePlaces, AnnounceReady
  <1>2. /\ state = NoState
        /\ ~InService
    BY <1>1 DEF AnnounceReady, ChildKnows
  <1>3. \A f \in {"ready", "ready_staging"} :
           [files EXCEPT ![p] = @ \cup {f}] \in [Attempts -> SUBSET (Temps \cup {"ready",
             "ready_staging"})]
    BY <1>1, <1>2 DEF IInv, TypeOK
  <1>4. PICK l \in {"exited", "begin"} :
             /\ pc' = [pc EXCEPT ![p] = l] /\ pc'[p] = l
             /\ l \notin {"closed", "exited"} => lock' = lock
             /\ lock' = lock \/ (lock = p /\ lock' = None)
             /\ p \in Attempts => l # "closed"
             /\ p \in Hosts => l # "exited"
             /\ writer' \in {writer, None, p}
    BY <1>1, <1>2, <1>3 DEF AnnounceReady, Outcomes, Written, Dies, Spend, GoesOrEnds,
       Goes, Ends
  <1>5. /\ files' \in {files, [files EXCEPT ![p] = @ \cup {"ready"}],
             [files EXCEPT ![p] = @ \cup {"ready_staging"}]}
        /\ l = "begin" => {"restore", "ready"} \subseteq files'[p]
        /\ faults' \in 0..MaxFaults
        /\ UNCHANGED <<db, backup, manifest, state, poison, staged, draft, verdict,
             poisoned, attempts>>
    <2>1. files' \in {files, [files EXCEPT ![p] = @ \cup {"ready"}],
            [files EXCEPT ![p] = @ \cup {"ready_staging"}]}
      BY <1>1, <1>2, <1>3, <1>4, ProcsAssumption DEF AnnounceReady, Outcomes, Written,
         Dies, Spend, disk, Temps, IInv, TypeOK, GoesOrEnds, Goes, Ends
    <2>2. l = "begin" => {"restore", "ready"} \subseteq files'[p]
      BY <1>1, <1>2, <1>3, <1>4, ProcsAssumption DEF AnnounceReady, Outcomes, Written,
         Dies, Spend, disk, Temps, IInv, TypeOK, GoesOrEnds, Goes, Ends
    <2>3. faults' \in 0..MaxFaults
      BY <1>1, <1>2, <1>3, <1>4, ProcsAssumption DEF AnnounceReady, Outcomes, Written,
         Dies, Spend, disk, Temps, IInv, TypeOK, GoesOrEnds, Goes, Ends
    <2>4. UNCHANGED <<db, backup, manifest, state, poison, staged, draft, verdict,
            poisoned, attempts>>
      BY <1>1, <1>2, <1>3, <1>4, ProcsAssumption DEF AnnounceReady, Outcomes, Written,
         Dies, Spend, disk, Temps, IInv, TypeOK, GoesOrEnds, Goes, Ends
    <2>5. QED
      BY <2>1, <2>2, <2>3, <2>4
  <1>6. PlacesOK' => TypeOK'
    BY <1>1, <1>2, <1>3, <1>4, <1>5, Kinds, ProcsAssumption DEF IInv, TypeOK, ManifestOK,
       Active
  <1>7. ~InService'
    BY <1>1, <1>2, <1>3, <1>4, <1>5, StaysUnserved DEF InService
  <1>8. p \in Hosts => OpenerKnows(p)'
    BY <1>1, <1>2, <1>3, <1>4, <1>5 DEF OpenerKnows, PreparePlaces, Unmarked
  <1>9. PreparerKnows(p)'
    BY <1>1, <1>2, <1>3, <1>4, <1>5 DEF PreparerKnows, PreparePlaces
  <1>10. p \in Attempts => ChildKnows(p)'
    BY <1>1, <1>2, <1>3, <1>4, <1>5 DEF ChildKnows
  <1>11. FinalIsKnown'
    BY <1>1, <1>2, <1>3, <1>4, <1>5 DEF IInv, FinalIsKnown
  <1>12. DamageIsRecoverable'
    BY <1>1, <1>2, <1>3, <1>4, <1>5 DEF IInv, DamageIsRecoverable
  <1>13. MarkersAreOwned'
    BY <1>1, <1>2, <1>3, <1>4, <1>5 DEF IInv, MarkersAreOwned, AttemptOf, TypeOK
  <1>14. l \in IF p \in Attempts THEN ChildPlaces \ {"none"} ELSE HostPlaces
    BY <1>1, <1>4 DEF HostPlaces, OperatorPlaces, ChildPlaces, PreparePlaces
  <1>15. pc[p] \in PreparePlaces \cup {"spawned"} /\ manifest' = manifest
    BY <1>1, <1>2, <1>3, <1>4, <1>5 DEF PreparePlaces
  <1>16. /\ PlacesOK' /\ Locked' /\ Knowledge' /\ ChildIsGuarded'
        /\ ManifestFits' /\ ServesOnlyUnguarded'
    BY <1>1, <1>4, <1>7, <1>8, <1>9, <1>10, <1>14, <1>15, PreparerSteps
  <1>17. QED
    BY <1>6, <1>11, <1>12, <1>13, <1>16 DEF IInv

-----------------------------------------------------------------------------
(* The steps beside which a child may be at work, and those that start one *)
(* or learn of its end.                                                    *)

(* What is left to show of a step that keeps to the places beside a child. *)
LEMMA AsideSteps ==
  ASSUME IInv, NEW p \in Openers,
         NEW l \in {"closed", "check", "unknown", "poison"},
         pc' = [pc EXCEPT ![p] = l],
         \A q \in Openers \ {p} : pc[q] \in {"closed", "serving"},
         l # "closed" => lock' = p,
         p = Operator => l \in OperatorPlaces,
         UNCHANGED <<db, backup, state, draft, files>>,
         OpenerKnows(p)',
         \/ manifest' = manifest
         \/ /\ manifest.status \in {"prepared", "exit_unknown"}
            /\ manifest' = [manifest EXCEPT !.status = "exit_unknown"],
         UNCHANGED <<poison, staged>> \/ manifest.status \in {"prepared", "exit_unknown"}
  PROVE  /\ PlacesOK' /\ Locked' /\ Knowledge' /\ ManifestFits' /\ FinalIsKnown'
         /\ ChildIsGuarded' /\ DamageIsRecoverable' /\ MarkersAreOwned' /\
              ServesOnlyUnguarded'
  <1>1. pc \in [Procs -> HostPlaces \cup ChildPlaces] /\ p \in Procs /\ p \notin Attempts
    BY Kinds DEF IInv, TypeOK, PlacesOK
  <1>2. pc'[p] = l /\ \A q \in Procs \ {p} : pc'[q] = pc[q]
    BY <1>1
  <1>3. /\ manifest'.id = manifest.id
        /\ manifest' = manifest \/ (manifest.status \in {"prepared", "exit_unknown"} /\
             manifest'.status = "exit_unknown")
    BY DEF IInv, TypeOK, ManifestOK
  <1>4. PlacesOK'
    BY <1>1, <1>2, Kinds DEF IInv, TypeOK, PlacesOK, Openers, HostPlaces, OperatorPlaces
  <1>5. Locked'
    BY <1>2, Kinds DEF Locked
  <1>6. \A q \in Openers \ {p} : OpenerKnows(q)' /\ PreparerKnows(q)'
    BY <1>2, Quiet, Kinds
  <1>7. \A q \in Attempts : PreparerKnows(q)' /\ ChildKnows(q)'
    BY <1>1, <1>2, Kinds DEF IInv, Knowledge, PreparerKnows, ChildKnows
  <1>8. PreparerKnows(p)'
    BY <1>2 DEF PreparerKnows, PreparePlaces
  <1>9. Knowledge'
    BY <1>6, <1>7, <1>8, Kinds DEF Knowledge, Openers
  <1>10. ManifestFits' /\ FinalIsKnown'
    BY <1>3 DEF IInv, ManifestFits, FinalIsKnown, NoManifest
  <1>11. ChildIsGuarded'
    <2>1. SUFFICES ASSUME NEW a \in Attempts, pc'[a] \notin Done
                   PROVE  /\ manifest'.status \in {"prepared", "exit_unknown"} /\
                               manifest'.id = a
                          /\ \A q \in Procs \ {a} : pc'[q] \in Done \cup
                                {"closed", "check", "supervise", "unknown", "poison"}
      BY DEF ChildIsGuarded, Live
    <2>2. pc[a] \notin Done
      BY <1>1, <1>2, <2>1, Kinds
    <2>3. /\ manifest.status \in {"prepared", "exit_unknown"} /\ manifest.id = a
          /\ \A q \in Procs \ {a} : pc[q] \in Done \cup
                {"closed", "check", "supervise", "unknown", "poison"}
      BY <2>2 DEF IInv, ChildIsGuarded, Live
    <2>4. QED
      BY <1>2, <1>3, <2>3
  <1>12. DamageIsRecoverable'
    BY <1>3 DEF IInv, DamageIsRecoverable, Active
  <1>13. MarkersAreOwned'
    BY <1>3 DEF IInv, MarkersAreOwned
  <1>14. InService' => InService
    BY <1>1, <1>2, Kinds DEF InService, Openers
  <1>15. ServesOnlyUnguarded'
    BY <1>3, <1>14 DEF IInv, ServesOnlyUnguarded, NoManifest
  <1>16. QED
    BY <1>4, <1>5, <1>9, <1>10, <1>11, <1>12, <1>13, <1>15

(* A Host takes the lock. *)
LEMMA OpenPreserves ==
  ASSUME IInv, NEW p \in Hosts, Open(p)
  PROVE  IInv'
  <1>1. p \in Openers /\ p # Operator
    BY Kinds DEF Openers
  <1>2. \A q \in Openers \ {p} : pc[q] \in {"closed", "serving"}
    BY Kinds DEF Open, IInv, Locked
  <1>3. OpenerKnows(p)'
    BY <1>1, Kinds DEF Open, Goes, OpenerKnows, PreparePlaces, IInv, TypeOK, PlacesOK
  <1>4. /\ PlacesOK' /\ Locked' /\ Knowledge' /\ ManifestFits' /\ FinalIsKnown'
        /\ ChildIsGuarded' /\ DamageIsRecoverable' /\ MarkersAreOwned' /\
             ServesOnlyUnguarded'
    BY <1>1, <1>2, <1>3, AsideSteps DEF Open, Goes, disk, OperatorPlaces
  <1>5. TypeOK'
    BY <1>1, <1>4, Kinds DEF Open, disk, IInv, TypeOK, ManifestOK
  <1>6. QED
    BY <1>4, <1>5 DEF IInv

(* The outcome of the child is unknown. *)
LEMMA LosePreserves ==
  ASSUME IInv, NEW p \in Hosts, LoseChild(p)
  PROVE  IInv'
  <1>1. p \in Openers /\ p # Operator
    BY Kinds DEF Openers
  <1>2. lock = p /\ OpenerKnows(p) /\ \A q \in Openers \ {p} : pc[q] \in {"closed",
          "serving"}
    BY <1>1, OneHolder, Holder DEF LoseChild
  <1>3. OpenerKnows(p)'
    BY <1>1, <1>2, Kinds DEF LoseChild, Goes, OpenerKnows, PreparePlaces, IInv, TypeOK,
       PlacesOK, disk
  <1>4. /\ PlacesOK' /\ Locked' /\ Knowledge' /\ ManifestFits' /\ FinalIsKnown'
        /\ ChildIsGuarded' /\ DamageIsRecoverable' /\ MarkersAreOwned' /\
             ServesOnlyUnguarded'
    BY <1>1, <1>2, <1>3, AsideSteps DEF LoseChild, Goes, disk
  <1>5. TypeOK'
    BY <1>1, <1>4, Kinds, ProcsAssumption DEF LoseChild, Spend, disk, IInv, TypeOK,
       ManifestOK
  <1>6. QED
    BY <1>4, <1>5 DEF IInv

(* The manifest says so, ... *)
LEMMA ExitUnknownPreserves ==
  ASSUME IInv, NEW p \in Hosts, NEW o \in Outcomes, PublishExitUnknown(p, o)
  PROVE  IInv'
  <1>1. p \in Openers /\ p # Operator /\ p \in Procs
    BY Kinds DEF Openers
  <1>2. /\ lock = p /\ OpenerKnows(p) /\ manifest.status = "prepared"
        /\ \A q \in Openers \ {p} : pc[q] \in {"closed", "serving"}
    BY <1>1, OneHolder, Holder DEF PublishExitUnknown, OpenerKnows
  <1>3. PICK l \in {"closed", "poison"} :
          /\ pc' = [pc EXCEPT ![p] = l] /\ (l # "closed" => lock' = p)
          /\ lock' \in {lock, None} /\ writer' \in {writer, None}
    BY <1>1, <1>2, Kinds DEF PublishExitUnknown, GoesOrEnds, Goes, Ends
  <1>4. /\ manifest' \in {manifest, [manifest EXCEPT !.status = "exit_unknown"]}
        /\ staged' \subseteq staged \cup {"attempt"} /\ faults' \in 0..MaxFaults
        /\ poisoned' \subseteq poisoned
        /\ UNCHANGED <<db, backup, state, poison, draft, files, verdict, attempts>>
    BY ProcsAssumption DEF PublishExitUnknown, WriteManifest, AtomicWrite, Spend, IInv,
       TypeOK
  <1>5. OpenerKnows(p)'
    BY <1>1, <1>2, <1>3, <1>4 DEF OpenerKnows, PreparePlaces, IInv, TypeOK, PlacesOK,
       ManifestOK
  <1>6. /\ PlacesOK' /\ Locked' /\ Knowledge' /\ ManifestFits' /\ FinalIsKnown'
        /\ ChildIsGuarded' /\ DamageIsRecoverable' /\ MarkersAreOwned' /\
             ServesOnlyUnguarded'
    BY <1>1, <1>2, <1>3, <1>4, <1>5, AsideSteps DEF OperatorPlaces
  <1>7. [manifest EXCEPT !.status = "exit_unknown"]
          \in [status : {"none", "settled"} \cup Active, id : 0..MaxAttempts,
               result : {"none", "legacy", "final"}]
    BY DEF IInv, TypeOK, ManifestOK, Active
  <1>8. TypeOK'
    BY <1>1, <1>3, <1>4, <1>6, <1>7, Kinds DEF IInv, TypeOK, ManifestOK
  <1>9. QED
    BY <1>6, <1>8 DEF IInv

(* ... and so does the poison marker. *)
LEMMA PoisonPreserves ==
  ASSUME IInv, NEW p \in Hosts, NEW o \in Outcomes, PublishPoison(p, o)
  PROVE  IInv'
  <1>1. p \in Openers /\ p # Operator /\ p \in Procs /\ p \notin Attempts
    BY Kinds DEF Openers
  <1>2. /\ lock = p /\ OpenerKnows(p) /\ manifest.status \in {"prepared", "exit_unknown"}
        /\ \A q \in Openers \ {p} : pc[q] \in {"closed", "serving"}
    BY <1>1, OneHolder, Holder DEF PublishPoison, OpenerKnows
  <1>3. /\ pc' = [pc EXCEPT ![p] = "closed"]
        /\ lock' \in {lock, None} /\ writer' \in {writer, None}
    BY <1>1, <1>2 DEF PublishPoison, Goes, Ends
  <1>4. /\ staged' \subseteq staged \cup {"poison"} /\ faults' \in 0..MaxFaults
        /\ poisoned' \subseteq poisoned /\ poison' \in BOOLEAN
        /\ UNCHANGED <<db, backup, manifest, state, draft, files, verdict, attempts>>
    BY ProcsAssumption DEF PublishPoison, AtomicWrite, Spend, IInv, TypeOK, Written
  <1>5. OpenerKnows(p)'
    BY <1>1, <1>3, Quiet DEF IInv, TypeOK, PlacesOK
  <1>6. /\ PlacesOK' /\ Locked' /\ Knowledge' /\ ManifestFits' /\ FinalIsKnown'
        /\ ChildIsGuarded' /\ DamageIsRecoverable' /\ MarkersAreOwned' /\
             ServesOnlyUnguarded'
    BY <1>1, <1>2, <1>3, <1>4, <1>5, AsideSteps DEF OperatorPlaces
  <1>7. TypeOK'
    BY <1>1, <1>3, <1>4, <1>6, Kinds DEF IInv, TypeOK, ManifestOK
  <1>8. QED
    BY <1>6, <1>7 DEF IInv

(* Whoever ends leaves the disk to the others as it is. *)
LEMMA EndsPreserves ==
  ASSUME IInv, NEW p \in Procs, Ends(p), UNCHANGED <<disk, verdict, attempts>>,
         poisoned' \subseteq poisoned, faults' \in 0..MaxFaults
  PROVE  IInv'
  <1>1. pc \in [Procs -> HostPlaces \cup ChildPlaces]
    BY DEF IInv, TypeOK, PlacesOK
  <1>2. /\ pc'[p] = IF p \in Attempts THEN "exited" ELSE "closed"
        /\ \A q \in Procs \ {p} : pc'[q] = pc[q]
        /\ pc' \in [Procs -> HostPlaces \cup ChildPlaces]
    BY <1>1 DEF Ends, Goes, HostPlaces, OperatorPlaces, ChildPlaces
  <1>3. PlacesOK'
    BY <1>2, Kinds DEF IInv, TypeOK, PlacesOK, Openers, HostPlaces, OperatorPlaces,
       ChildPlaces
  <1>4. TypeOK'
    BY <1>3 DEF Ends, disk, IInv, TypeOK, ManifestOK
  <1>5. Locked'
    BY <1>2, Kinds DEF Ends, IInv, Locked
  <1>6. \A q \in Procs : /\ OpenerKnows(q) => OpenerKnows(q)'
                         /\ PreparerKnows(q) => PreparerKnows(q)'
                         /\ ChildKnows(q) => ChildKnows(q)'
    <2>1. SUFFICES ASSUME NEW q \in Procs
                   PROVE  /\ OpenerKnows(q) => OpenerKnows(q)'
                          /\ PreparerKnows(q) => PreparerKnows(q)'
                          /\ ChildKnows(q) => ChildKnows(q)'
      OBVIOUS
    <2>2. CASE q = p
      BY <1>2, <2>2, Quiet
    <2>3. CASE q # p
      BY <1>2, <2>3 DEF disk, OpenerKnows, PreparerKnows, ChildKnows, Unmarked
    <2>4. QED
      BY <2>2, <2>3
  <1>7. Knowledge'
    BY <1>6, Kinds DEF IInv, Knowledge, Openers
  <1>8. ChildIsGuarded'
    BY <1>2, Kinds DEF IInv, ChildIsGuarded, Live, Done, disk
  <1>9. InService' => InService
    BY <1>2, Kinds DEF InService, Openers, disk
  <1>10. ManifestFits' /\ FinalIsKnown' /\ DamageIsRecoverable' /\ MarkersAreOwned' /\
           ServesOnlyUnguarded'
    BY <1>9 DEF IInv, disk, ManifestFits, FinalIsKnown, DamageIsRecoverable,
       MarkersAreOwned, ServesOnlyUnguarded
  <1>11. QED
    BY <1>4, <1>5, <1>7, <1>8, <1>10 DEF IInv

(* The child is started, or could not be. *)
LEMMA SpawnPreserves ==
  ASSUME IInv, NEW p \in Hosts, Spawn(p)
  PROVE  IInv'
  <1>1. /\ p \in Openers /\ p \in Procs /\ p \notin Attempts /\ p # Operator
        /\ pc[p] = "spawn" /\ lock = p /\ Alone(p)
        /\ pc \in [Procs -> HostPlaces \cup ChildPlaces]
    BY Kinds, Holder DEF Openers, Aside, Spawn
  <1>2. /\ db = "legacy" /\ state = NoState /\ draft = NoState
        /\ manifest.status = "prepared" /\ manifest.id \in Attempts /\ ~InService
    BY <1>1, Holder, Unserved DEF OpenerKnows, IInv, ManifestFits
  <1>3. UNCHANGED disk /\ lock' = lock /\ writer' = writer /\ faults' \in 0..MaxFaults
        /\ verdict' \in {verdict, "legacy"} /\ poisoned' = poisoned /\ attempts' = attempts
    BY ProcsAssumption DEF Spawn, Spend, IInv, TypeOK
  <1>4. PlacesOK' => TypeOK'
    BY <1>3 DEF disk, IInv, TypeOK, ManifestOK
  <1>5. ManifestFits' /\ FinalIsKnown' /\ DamageIsRecoverable' /\ MarkersAreOwned'
    BY <1>3 DEF IInv, disk, ManifestFits, FinalIsKnown, DamageIsRecoverable, MarkersAreOwned
  <1>6. CASE pc' = [pc EXCEPT ![p] = "supervise", ![manifest.id] = "spawned"]
    <2>1. PICK c \in Attempts : c = manifest.id
      BY <1>2
    <2>2. /\ pc'[p] = "supervise" /\ pc'[c] = "spawned"
          /\ \A q \in Procs \ {p, c} : pc'[q] = pc[q]
          /\ \A q \in Openers \ {p} : pc'[q] \in {"closed", "serving"}
          /\ \A a \in Attempts \ {c} : pc'[a] \in {"none", "exited"}
      BY <1>1, <1>2, <1>6, <2>1, Kinds DEF Alone, Done
    <2>3. PlacesOK'
      BY <1>1, <1>2, <1>6, <2>1, <2>2, Kinds DEF IInv, TypeOK, PlacesOK, Openers,
         HostPlaces, ChildPlaces
    <2>4. Locked'
      BY <1>1, <1>3, <2>2, Kinds DEF Locked
    <2>5. /\ OpenerKnows(p)' /\ PreparerKnows(p)'
          /\ PreparerKnows(c)' /\ ChildKnows(c)'
      BY <1>1, <1>2, <1>3, <2>2 DEF disk, OpenerKnows, PreparerKnows, ChildKnows,
         PreparePlaces
    <2>6. \A q \in Procs \ {p, c} : OpenerKnows(q)' /\ PreparerKnows(q)' /\ ChildKnows(q)'
      BY <2>2, Quiet, Kinds
    <2>7. Knowledge'
      <3>1. \A q \in Openers : OpenerKnows(q)'
        BY <1>2, <2>5, <2>6, Kinds
      <3>2. \A q \in Hosts \cup Attempts : PreparerKnows(q)'
        BY <1>1, <2>5, <2>6, Kinds DEF Openers
      <3>3. \A a \in Attempts : ChildKnows(a)'
        BY <1>1, <1>2, <2>5, <2>6, Kinds
      <3>4. QED
        BY <3>1, <3>2, <3>3 DEF Knowledge
    <2>8. ChildIsGuarded'
      <3>1. SUFFICES ASSUME NEW a \in Attempts, pc'[a] \notin Done
                     PROVE  /\ manifest'.status \in {"prepared", "exit_unknown"} /\
                                 manifest'.id = a
                            /\ \A q \in Procs \ {a} : pc'[q] \in Done \cup
                                  {"closed", "check", "supervise", "unknown", "poison"}
        BY DEF ChildIsGuarded, Live
      <3>2. a = c
        BY <1>1, <2>2, <3>1, Kinds DEF Done, IInv, TypeOK, PlacesOK, ChildPlaces,
           PreparePlaces
      <3>3. ASSUME NEW q \in Procs \ {a}, pc'[q] = "serving"
            PROVE  FALSE
        BY <1>1, <1>2, <2>2, <3>2, <3>3, Kinds DEF InService, Openers, IInv, TypeOK,
           PlacesOK,
           OperatorPlaces, ChildPlaces, PreparePlaces
      <3>4. QED
        BY <1>2, <1>3, <2>1, <2>2, <3>2, <3>3, Kinds DEF disk, Done
    <2>9. ServesOnlyUnguarded'
      BY <1>1, <1>2, <1>3, <2>2, Kinds DEF disk, IInv, ServesOnlyUnguarded, InService,
         Openers
    <2>10. QED
      BY <1>4, <1>5, <2>3, <2>4, <2>7, <2>8, <2>9 DEF IInv
  <1>7. CASE pc' = [pc EXCEPT ![p] = "clean"] /\ verdict' = "legacy"
    <2>1. pc'[p] = "clean"
      BY <1>1, <1>7
    <2>2. OpenerKnows(p)' /\ PreparerKnows(p)'
      BY <1>2, <1>3, <1>7, <2>1 DEF disk, OpenerKnows, PreparerKnows, PreparePlaces, Active
    <2>3. PlacesOK' /\ Locked' /\ Knowledge' /\ ChildIsGuarded'
      BY <1>1, <1>3, <1>7, <2>2, OpenerSteps DEF HostPlaces, OperatorPlaces
    <2>4. ServesOnlyUnguarded'
      BY <1>1, <1>2, <1>3, <1>7, <2>1, Kinds DEF disk, IInv, ServesOnlyUnguarded,
         InService, Openers
    <2>5. QED
      BY <1>4, <1>5, <2>3, <2>4 DEF IInv
  <1>8. QED
    BY <1>6, <1>7 DEF Spawn, Goes

(* The child has been reaped. *)
LEMMA ReapPreserves ==
  ASSUME IInv, NEW p \in Hosts, ReapChild(p)
  PROVE  IInv'
  <1>1. /\ p \in Openers /\ p \in Procs /\ p \notin Attempts /\ p # Operator
        /\ pc[p] = "supervise" /\ lock = p
        /\ pc \in [Procs -> HostPlaces \cup ChildPlaces]
    BY Kinds, Holder DEF Openers, ReapChild
  <1>2. manifest.status = "prepared" /\ manifest.id \in Attempts /\ ~InService
    BY <1>1, Holder, Unserved DEF OpenerKnows, IInv, ManifestFits
  <1>3. UNCHANGED disk /\ lock' = lock /\ writer' \in {writer, None} /\
          faults' \in 0..MaxFaults
        /\ verdict' = verdict /\ poisoned' = poisoned /\ attempts' = attempts
    BY ProcsAssumption DEF ReapChild, Spend, IInv, TypeOK
  <1>4. PlacesOK' => TypeOK'
    BY <1>3, Kinds DEF disk, IInv, TypeOK, ManifestOK
  <1>5. ManifestFits' /\ FinalIsKnown' /\ DamageIsRecoverable' /\ MarkersAreOwned'
    BY <1>3 DEF IInv, disk, ManifestFits, FinalIsKnown, DamageIsRecoverable, MarkersAreOwned
  <1>6. \A a \in Attempts \ {manifest.id} : pc[a] \in Done
    BY DEF IInv, ChildIsGuarded, Live
  <1>7. /\ pc' = [pc EXCEPT ![p] = "settle", ![manifest.id] = "exited"]
        /\ pc'[p] = "settle" /\ pc'[manifest.id] = "exited"
        /\ \A q \in Procs \ {p, manifest.id} : pc'[q] = pc[q]
        /\ \A q \in Openers \ {p} : pc'[q] \in {"closed", "serving"}
        /\ \A a \in Attempts \ {manifest.id} : pc'[a] \in {"none", "exited"}
    BY <1>1, <1>2, <1>6, OneHolder, Kinds DEF ReapChild, Done
  <1>8. PlacesOK'
    BY <1>1, <1>2, <1>7, Kinds DEF IInv, TypeOK, PlacesOK, Openers, HostPlaces,
       OperatorPlaces, ChildPlaces
  <1>9. Locked'
    BY <1>1, <1>3, <1>7, Kinds DEF Locked
  <1>10. OpenerKnows(p)' /\ PreparerKnows(p)'
    BY <1>1, <1>2, <1>3, <1>7 DEF disk, OpenerKnows, PreparerKnows, PreparePlaces
  <1>11. \A q \in Procs \ {p} : OpenerKnows(q)' /\ PreparerKnows(q)' /\ ChildKnows(q)'
    <2>1. \A q \in Procs \ {p} : pc'[q] \in {"closed", "serving", "none", "exited"}
      BY <1>2, <1>7, Kinds
    <2>2. QED
      BY <2>1, Quiet
  <1>12. Knowledge'
    BY <1>10, <1>11, Kinds DEF Knowledge, Openers
  <1>13. ChildIsGuarded'
    BY <1>1, <1>2, <1>6, <1>7, Kinds DEF ChildIsGuarded, Live, Done
  <1>14. ServesOnlyUnguarded'
    BY <1>1, <1>2, <1>3, <1>7, Kinds DEF disk, IInv, ServesOnlyUnguarded, InService, Openers
  <1>15. QED
    BY <1>4, <1>5, <1>8, <1>9, <1>12, <1>13, <1>14 DEF IInv

(* The Operator takes the lock over an attempt whose worker is gone. *)
LEMMA OfflinePreserves ==
  ASSUME IInv, StartOfflineRecovery
  PROVE  IInv'
  <1>1. /\ Operator \in Openers /\ Operator \in Procs /\ Operator \notin Attempts /\
             Operator \notin Hosts
        /\ pc \in [Procs -> HostPlaces \cup ChildPlaces] /\ Alone(Operator)
    BY Kinds DEF Openers, IInv, TypeOK, PlacesOK, Locked, Alone, StartOfflineRecovery
  <1>2. PICK l \in {"clean", "check", "settle"} :
          /\ pc' = [pc EXCEPT ![Operator] = l] /\ pc'[Operator] = l /\ lock' = Operator
          /\ l = "clean" => manifest.status = "preparing" /\ verdict' = "legacy"
          /\ l = "check" => manifest.status = "settled"
          /\ l = "settle" => manifest.status \notin {"none", "preparing", "settled"}
          /\ verdict' \in {verdict, "legacy"}
    BY <1>1 DEF StartOfflineRecovery, Goes
  <1>3. UNCHANGED <<disk, writer, poisoned, attempts, faults>>
    BY DEF StartOfflineRecovery
  <1>4. PlacesOK' => TypeOK'
    BY <1>1, <1>2, <1>3 DEF disk, IInv, TypeOK, ManifestOK
  <1>5. ManifestFits' /\ FinalIsKnown' /\ DamageIsRecoverable' /\ MarkersAreOwned'
    BY <1>3 DEF IInv, disk, ManifestFits, FinalIsKnown, DamageIsRecoverable, MarkersAreOwned
  <1>6. OpenerKnows(Operator)' /\ PreparerKnows(Operator)'
    BY <1>2, <1>3 DEF disk, OpenerKnows, PreparerKnows, PreparePlaces, Active, IInv,
       ManifestFits, TypeOK, ManifestOK
  <1>7. PlacesOK' /\ Locked' /\ Knowledge' /\ ChildIsGuarded'
    BY <1>1, <1>2, <1>6, OpenerSteps DEF HostPlaces, OperatorPlaces
  <1>8. ServesOnlyUnguarded'
    BY <1>1, <1>2, <1>3, Kinds DEF disk, IInv, ServesOnlyUnguarded, InService, Openers
  <1>9. QED
    BY <1>4, <1>5, <1>7, <1>8 DEF IInv

(* A Host that serves writes. *)
LEMMA UsePreserves ==
  ASSUME IInv, NEW p \in Hosts, Use(p)
  PROVE  IInv'
  <1>1. /\ db \in {"final", "used"} /\ manifest = NoManifest
        /\ state = NoState /\ draft = NoState /\ ~poison /\ staged = {}
    BY DEF Use, IInv, ServesOnlyUnguarded, InService
  <1>2. db' = "used" /\ UNCHANGED <<backup, manifest, state, poison, staged, draft, files,
          pc,
                                   lock, writer, verdict, poisoned, attempts, faults>>
    BY DEF Use
  <1>3. TypeOK'
    BY <1>2 DEF IInv, TypeOK, ManifestOK, PlacesOK
  <1>4. Locked' /\ ChildIsGuarded'
    BY <1>2 DEF IInv, Locked, ChildIsGuarded, Live
  <1>5. ASSUME NEW q
        PROVE  /\ OpenerKnows(q) => OpenerKnows(q)'
               /\ PreparerKnows(q) /\ SourceOf(AttemptOf(q)) \in {"empty",
                    "legacy"} => PreparerKnows(q)'
               /\ ChildKnows(q) => ChildKnows(q)'
    BY <1>1, <1>2 DEF OpenerKnows, PreparerKnows, ChildKnows, Unmarked, PreparePlaces,
       NoManifest, Active
  <1>6. Knowledge'
    BY <1>5 DEF IInv, Knowledge, SourceOf
  <1>7. ManifestFits' /\ FinalIsKnown' /\ DamageIsRecoverable' /\ MarkersAreOwned' /\
          ServesOnlyUnguarded'
    BY <1>1, <1>2 DEF IInv, ManifestFits, FinalIsKnown, DamageIsRecoverable,
       MarkersAreOwned,
       ServesOnlyUnguarded, NoManifest
  <1>8. QED
    BY <1>3, <1>4, <1>6, <1>7 DEF IInv

-----------------------------------------------------------------------------
(* The invariant.                                                          *)

(* The steps of _prepare keep the invariant. *)
LEMMA PrepareKeeps ==
  ASSUME ~ReadsFail, IInv, NEW p \in Hosts \cup Attempts, Prepare(p)
  PROVE  IInv'
  <1>1. ASSUME GiveUp(p) PROVE IInv'
    BY <1>1, EndsPreserves, Kinds DEF GiveUp, Openers, IInv, TypeOK
  <1>2. ASSUME NEW o \in Outcomes \cup {"torn"},
               \/ WriteMigrating(p, o) \/ WriteCommitting(p, o)
               \/ WriteCommitUnknown(p, o) \/ WriteCommitted(p, o)
               \/ \E marks \in BOOLEAN : WriteRestored(p, o, marks)
               \/ \E ok \in BOOLEAN : RestoreBackup(p, ok, o)
        PROVE  IInv'
    BY <1>2, MigratingPreserves, CommittingPreserves, CommitUnknownPreserves,
       CommittedPreserves,
       RestoredPreserves, RestorePreserves
  <1>3. ASSUME NEW d \in {"final", db, "other"}, NEW r \in {"final", db, "other",
                 "unreadable"},
               Commit(p, d, r)
        PROVE  IInv'
    BY <1>3, CommitPreserves
  <1>4. QED
    BY <1>1, <1>2, <1>3, BeginPreserves, BackupPreserves, FailsPreserves, TimesOutPreserves,
       LandsPreserves DEF Prepare

(* So do those of the settlement of an attempt, ... *)
LEMMA SettleKeeps ==
  ASSUME ~ReadsFail, IInv, NEW p \in Openers, SettleAttempt(p)
  PROVE  IInv'
  BY HousekeepingPreserves, SettlePreserves, CleanupPreserves, SealPreserves, TidyPreserves
  DEF SettleAttempt

(* ... and all others of a Host in open. *)
LEMMA HostKeeps ==
  ASSUME ~ReadsFail, IInv, NEW h \in Hosts, HostSteps(h)
  PROVE  IInv'
  <1>1. h \in Openers /\ h \in Procs /\ faults \in 0..MaxFaults
    BY Kinds DEF Openers, IInv, TypeOK
  <1>2. ASSUME RefuseActiveAttempt(h) PROVE IInv'
    BY <1>1, <1>2, EndsPreserves DEF RefuseActiveAttempt
  <1>3. ASSUME NEW o \in Outcomes,
               \/ CreateAttempt(h, o) \/ PublishExitUnknown(h, o) \/ PublishPoison(h, o)
               \/ \E F \in SUBSET Temps : RegisterAttempt(h, o, F)
        PROVE  IInv'
    BY <1>3, CreateAttemptPreserves, ExitUnknownPreserves, PoisonPreserves,
       RegisterAttemptPreserves
  <1>4. QED
    BY <1>1, <1>2, <1>3, AdoptPreserves, InspectPreserves, RecoverPreserves, SpawnPreserves,
       ReapPreserves, LosePreserves, MakeTempsPreserves, SettleKeeps, PrepareKeeps,
       OpenCurrentPreserves, ClearPreserves DEF HostSteps

LEMMA Initially == Init => IInv
  <1>1. SUFFICES ASSUME Init PROVE IInv
    OBVIOUS
  <1>2. /\ pc \in [Procs -> HostPlaces \cup ChildPlaces]
        /\ \A p \in Procs : pc[p] = IF p \in Attempts THEN "none" ELSE "closed"
    BY <1>1 DEF Init, HostPlaces, OperatorPlaces, ChildPlaces
  <1>3. PlacesOK
    BY <1>2, Kinds DEF PlacesOK, Openers, HostPlaces, OperatorPlaces, ChildPlaces
  <1>4. NoState \in States /\ ManifestOK
    BY <1>1, Nothings DEF Init, ManifestOK
  <1>5. TypeOK
    <2>1. state \in States /\ draft \in States /\ poison \in BOOLEAN
      BY <1>1, <1>4 DEF Init
    <2>2. files \in [Attempts -> SUBSET (Temps \cup {"ready", "ready_staging"})]
      BY <1>1 DEF Init
    <2>3. attempts \in 0..MaxAttempts /\ faults \in 0..MaxFaults
      BY <1>1, ProcsAssumption DEF Init
    <2>4. /\ lock \in Procs \cup {None} /\ writer \in Procs \cup {None}
          /\ staged \subseteq {"attempt", "poison"} /\ poisoned \subseteq Hosts
          /\ backup \subseteq {"empty", "legacy"} /\ db \in {"empty", "legacy"} /\
               verdict = "none"
      BY <1>1 DEF Init
    <2>5. QED
      BY <1>3, <1>4, <2>1, <2>2, <2>3, <2>4 DEF TypeOK
  <1>6. Locked /\ ChildIsGuarded
    BY <1>2, Kinds DEF Locked, ChildIsGuarded, Live, Done
  <1>7. Knowledge
    BY <1>1, <1>2, Kinds DEF Init, Knowledge, OpenerKnows, PreparerKnows, ChildKnows,
       PreparePlaces, Openers
  <1>8. ManifestFits /\ FinalIsKnown /\ DamageIsRecoverable /\ MarkersAreOwned
    BY <1>1 DEF Init, ManifestFits, FinalIsKnown, DamageIsRecoverable, MarkersAreOwned,
       NoManifest
  <1>9. ServesOnlyUnguarded
    BY <1>1, <1>2, Kinds DEF Init, ServesOnlyUnguarded, InService, NoManifest, Openers
  <1>10. QED
    BY <1>5, <1>6, <1>7, <1>8, <1>9 DEF IInv

LEMMA Inductive ==
  ASSUME ~ReadsFail, IInv, [Next]_vars
  PROVE  IInv'
  <1>1. faults \in 0..MaxFaults
    BY DEF IInv, TypeOK
  <1>2. ASSUME NEW h \in Hosts, Close(h) PROVE IInv'
    BY <1>1, <1>2, EndsPreserves, Kinds DEF Close, Openers
  <1>3. ASSUME NEW p \in Procs, Crash(p) PROVE IInv'
    BY <1>1, <1>3, EndsPreserves, ProcsAssumption DEF Crash, Spend
  <1>4. ASSUME UNCHANGED <<disk, pc, lock, writer, verdict, attempts, faults>>,
                 poisoned' \subseteq poisoned
        PROVE  IInv'
    <2>1. TypeOK'
      BY <1>4 DEF disk, IInv, TypeOK, ManifestOK, PlacesOK
    <2>2. Locked' /\ ChildIsGuarded'
      BY <1>4 DEF disk, IInv, Locked, ChildIsGuarded, Live
    <2>3. Knowledge'
      BY <1>4 DEF disk, IInv, Knowledge, OpenerKnows, PreparerKnows, ChildKnows, Unmarked
    <2>4. ManifestFits' /\ FinalIsKnown' /\ DamageIsRecoverable' /\ MarkersAreOwned'
      BY <1>4 DEF disk, IInv, ManifestFits, FinalIsKnown, DamageIsRecoverable,
         MarkersAreOwned
    <2>5. ServesOnlyUnguarded'
      BY <1>4 DEF disk, IInv, ServesOnlyUnguarded, InService
    <2>6. QED
      BY <2>1, <2>2, <2>3, <2>4, <2>5 DEF IInv
  <1>5. ASSUME NEW h \in Hosts, Open(h) \/ HostSteps(h) \/ Use(h) \/ Close(h) \/ Restart(h)
        PROVE  IInv'
    BY <1>2, <1>4, <1>5, OpenPreserves, HostKeeps, UsePreserves DEF Restart
  <1>6. ASSUME NEW a \in Attempts, ChildSteps(a) PROVE IInv'
    BY <1>6, PrepareKeeps, ReadyPreserves DEF ChildSteps
  <1>7. ASSUME SettleAttempt(Operator) PROVE IInv'
    BY <1>7, SettleKeeps DEF Openers
  <1>8. CASE UNCHANGED vars
    BY <1>4, <1>8 DEF vars
  <1>9. QED
    BY <1>3, <1>5, <1>6, <1>7, <1>8, OfflinePreserves DEF Next

(* IInv is an invariant, if the main database can be read when it is there. *)
THEOREM Invariant == ASSUME ~ReadsFail PROVE Spec => []IInv
  <1>1. Init => IInv
    BY Initially
  <1>2. IInv /\ [Next]_vars => IInv'
    BY Inductive
  <1>3. QED
    BY <1>1, <1>2, PTL DEF Spec

(* Every process of open and of the offline command keeps to its own code,  *)
(* and every marker on disk to the values that code writes.                 *)
THEOREM TypeCorrect == ASSUME ~ReadsFail PROVE Spec => []TypeOK
  <1>1. IInv => TypeOK
    BY DEF IInv
  <1>2. QED
    BY <1>1, Invariant, PTL

(* No process recovers, migrates or starts to serve while a child of        *)
(* _run_legacy_migration_child may still touch the database, whichever of   *)
(* its Hosts have died.                                                     *)
THEOREM ChildrenAreGuarded == ASSUME ~ReadsFail PROVE Spec => []ChildIsGuarded
  <1>1. IInv => ChildIsGuarded
    BY DEF IInv
  <1>2. QED
    BY <1>1, Invariant, PTL

(* What _prepare leaves half migrated, _settle_owned and the recovery of a  *)
(* bootstrap find the state, the backup and the files to turn back.         *)
THEOREM DamageCanBeUndone == ASSUME ~ReadsFail PROVE Spec => []DamageIsRecoverable
  <1>1. IInv => DamageIsRecoverable
    BY DEF IInv
  <1>2. QED
    BY <1>1, Invariant, PTL

(* No order of failed writes and removals leaves a marker without the       *)
(* manifest that _check_migration_attempt_and_poison_sync looks for.        *)
THEOREM MarkersHaveOwners == ASSUME ~ReadsFail PROVE Spec => []MarkersAreOwned
  <1>1. IInv => MarkersAreOwned
    BY DEF IInv
  <1>2. QED
    BY <1>1, Invariant, PTL

(* open never returns a database beside which a marker is left, and a       *)
(* settled manifest says of the database what it is.                        *)
THEOREM ServiceIsUnguarded == ASSUME ~ReadsFail PROVE Spec => []ServesOnlyUnguarded
  <1>1. IInv => ServesOnlyUnguarded
    BY DEF IInv
  <1>2. QED
    BY <1>1, Invariant, PTL

-----------------------------------------------------------------------------
(* The refinement: what a step does to the database and to who serves it.  *)

Serving == {h \in Hosts : pc[h] = "serving"}
Data == IF Committed THEN db ELSE "source"

(* What AtomicUpgrade does not see. *)
Unseen == Serving' = Serving /\ (db' = db \/ (db \notin {"final", "used"} /\
  db' \notin {"final", "used"}))

(* Who moves from no serving place to another changes nobody's service. *)
LEMMA SameServing ==
  ASSUME NEW p, NEW l, pc \in [Procs -> HostPlaces \cup ChildPlaces],
         pc' = [pc EXCEPT ![p] = l], pc[p] # "serving", l # "serving"
  PROVE  Serving' = Serving
  BY DEF Serving, Procs

LEMMA SameByEnds ==
  ASSUME IInv, NEW p \in Procs, Ends(p), pc[p] # "serving"
  PROVE  Serving' = Serving
  <1>1. pc \in [Procs -> HostPlaces \cup ChildPlaces]
    BY DEF IInv, TypeOK, PlacesOK
  <1>2. PICK l \in {"exited", "closed"} : pc' = [pc EXCEPT ![p] = l]
    BY DEF Ends, Goes
  <1>3. QED
    BY <1>1, <1>2, SameServing

LEMMA SameByGoing ==
  ASSUME IInv, NEW p \in Procs, NEW ok, NEW l, GoesOrEnds(p, ok, l), pc[p] # "serving",
           l # "serving"
  PROVE  Serving' = Serving
  <1>1. pc \in [Procs -> HostPlaces \cup ChildPlaces]
    BY DEF IInv, TypeOK, PlacesOK
  <1>2. QED
    BY <1>1, SameServing, SameByEnds DEF GoesOrEnds, Goes

LEMMA SameByGoes ==
  ASSUME IInv, NEW p \in Procs, NEW l, Goes(p, l), pc[p] # "serving", l # "serving"
  PROVE  Serving' = Serving
  <1>1. pc \in [Procs -> HostPlaces \cup ChildPlaces]
    BY DEF IInv, TypeOK, PlacesOK
  <1>2. QED
    BY <1>1, SameServing DEF Goes

(* Of _prepare, only the commit that lands is seen. *)
LEMMA PrepareIsSeen ==
  ASSUME ~ReadsFail, IInv, NEW p \in Hosts \cup Attempts, Prepare(p)
  PROVE  Unseen \/ (Serving' = Serving /\ Data = "source" /\ db' = "final")
  <1>1. p \in Procs
    BY Kinds DEF Openers
  <1>2. CASE CommitLands(p)
    <2>1. db \in {"empty", "legacy", "final"}
      BY <1>2, Preparer DEF CommitLands, PreparePlaces, PreparerKnows
    <2>2. QED
      BY <1>2, <2>1 DEF CommitLands, Unseen, Serving, Data, Committed
  <1>3. ASSUME NEW d, NEW r, Commit(p, d, r)
        PROVE  Unseen \/ (Serving' = Serving /\ Data = "source" /\ db' = "final")
    <2>1. db \in {"empty", "legacy"}
      BY <1>3, Preparer DEF Commit, PreparePlaces, PreparerKnows
    <2>2. Serving' = Serving
      BY <1>1, <1>3, SameByGoes DEF Commit
    <2>3. QED
      BY <1>3, <2>1, <2>2 DEF Commit, Unseen, Data, Committed
  <1>4. ASSUME NEW ok \in BOOLEAN, NEW o \in Outcomes \cup {"torn"}, RestoreBackup(p, ok, o)
        PROVE  Unseen
    <2>1. db \in {"empty", "legacy", "other"} /\ SourceOf(AttemptOf(p)) \in {"empty",
            "legacy"}
      BY <1>4, Preparer DEF RestoreBackup, PreparePlaces, PreparerKnows
    <2>2. Serving' = Serving
      BY <1>1, <1>4, SameByGoes, SameByEnds DEF RestoreBackup
    <2>3. QED
      BY <1>4, <2>1, <2>2 DEF RestoreBackup, Unseen
  <1>5. ASSUME NEW o \in Outcomes \cup {"torn"},
               \/ WriteMigrating(p, o) \/ WriteCommitting(p, o)
               \/ WriteCommitUnknown(p, o) \/ WriteCommitted(p, o)
               \/ \E marks \in BOOLEAN : WriteRestored(p, o, marks)
        PROVE  Unseen
    BY <1>1, <1>5, SameByGoing, SameByEnds DEF WriteMigrating, WriteCommitting,
       WriteCommitUnknown,
       WriteCommitted, WriteRestored, PrepareWrites, Unseen
  <1>6. ASSUME BeginMigration(p) \/ CreateBackup(p) \/ MigrationFails(p) \/ CommitTimesOut(p) \/ GiveUp(p)
        PROVE  Unseen
    BY <1>1, <1>6, SameByEnds, SameByGoing, SameByGoes DEF BeginMigration, CreateBackup,
       MigrationFails,
       CommitTimesOut, GiveUp, disk, Unseen
  <1>7. QED
    BY <1>2, <1>3, <1>4, <1>5, <1>6 DEF Prepare

(* A settlement by the facts does not touch a committed database. *)
LEMMA SettleIsUnseen ==
  ASSUME ~ReadsFail, IInv, NEW p \in Openers, SettleAttempt(p)
  PROVE  Unseen
  <1>1. p \in Procs
    BY Kinds
  <1>2. ASSUME NEW r \in Readings, Settle(p, r) PROVE Unseen
    <2>1. ~InService /\ OpenerKnows(p) /\ r = db
      BY <1>2, Unserved, Holder DEF Settle, Readings
    <2>2. db # "used" /\ (db = "final" /\ state # NoState => state.final)
      BY <2>1 DEF InService, IInv, FinalIsKnown
    <2>3. Serving' = Serving
      BY <1>1, <1>2, SameByGoing DEF Settle
    <2>4. QED
      BY <1>2, <2>1, <2>2, <2>3 DEF Settle, CommittedByFacts, Unseen
  <1>3. ASSUME NEW n, Housekeeping(p, n) \/ TidyMarkers(p, n) PROVE Unseen
    BY <1>1, <1>3, SameByGoing, SameByEnds DEF Housekeeping, TidyMarkers, Unseen
  <1>4. ASSUME NEW F, CleanupAttemptTemps(p, F) PROVE Unseen
    BY <1>1, <1>4, SameByGoing DEF CleanupAttemptTemps, Unseen
  <1>5. ASSUME NEW o, SealAttempt(p, o) PROVE Unseen
    BY <1>1, <1>5, SameByGoing DEF SealAttempt, Unseen
  <1>6. QED
    BY <1>2, <1>3, <1>4, <1>5 DEF SettleAttempt

(* Of open, only its return is seen besides. *)
LEMMA HostIsSeen ==
  ASSUME ~ReadsFail, IInv, NEW h \in Hosts, HostSteps(h)
  PROVE  \/ Unseen
         \/ Serving' = Serving /\ Data = "source" /\ db' = "final"
         \/ h \notin Serving /\ Serving' = Serving \cup {h} /\ db' = db /\ Data # "source"
  <1>1. h \in Procs /\ h \in Openers /\ h \notin Attempts /\
          pc \in [Procs -> HostPlaces \cup ChildPlaces]
    BY Kinds DEF Openers, IInv, TypeOK, PlacesOK
  <1>2. ASSUME NEW r \in Readings, RecoverInterruptedMigration(h, r) PROVE Unseen
    <2>1. r = db /\ Unmarked
      BY <1>1, <1>2, Holder DEF Readings, RecoverInterruptedMigration, OpenerKnows,
         PreparePlaces
    <2>2. state # NoState => db # "used" /\ state.id = 0 /\ (db = "final" => state.final)
      BY <2>1 DEF IInv, ServesOnlyUnguarded, InService, FinalIsKnown, MarkersAreOwned,
         Unmarked, NoManifest
    <2>3. Serving' = Serving
      BY <1>1, <1>2, SameByGoing, SameByGoes DEF RecoverInterruptedMigration
    <2>4. QED
      BY <1>2, <2>1, <2>2, <2>3 DEF RecoverInterruptedMigration, Unseen, SourceOf
  <1>3. ASSUME Spawn(h) \/ ReapChild(h) PROVE Unseen
    <2>1. manifest.id \in Attempts /\ manifest.id \notin Hosts
      BY <1>1, <1>3, Holder, Kinds DEF Spawn, ReapChild, OpenerKnows, IInv, ManifestFits
    <2>2. Serving' = Serving
      <3>1. \A g \in Hosts : pc'[g] = "serving" <=> pc[g] = "serving"
        <4>1. CASE Spawn(h)
          BY <1>1, <2>1, <4>1, Kinds DEF Spawn, Goes, Openers
        <4>2. CASE ReapChild(h)
          BY <1>1, <2>1, <4>2, Kinds DEF ReapChild, Openers
        <4>3. QED
          BY <1>3, <4>1, <4>2
      <3>2. QED
        BY <3>1 DEF Serving
    <2>3. QED
      BY <1>3, <2>2 DEF Spawn, ReapChild, disk, Unseen
  <1>4. ASSUME OpenCurrent(h) \/ ClearMigrationState(h)
        PROVE  Unseen \/ (h \notin Serving /\ Serving' = Serving \cup {h} /\ db' = db /\
                 Data # "source")
    <2>1. db' = db /\ db \in {"final", "used"} /\ h \notin Serving
      BY <1>1, <1>4, Preparer DEF OpenCurrent, ClearMigrationState, disk, Serving,
         PreparerKnows, PreparePlaces
    <2>2. CASE pc' = [pc EXCEPT ![h] = "serving"]
      BY <1>1, <2>1, <2>2 DEF Serving, Data, Committed
    <2>3. CASE Ends(h)
      BY <1>1, <2>1, <2>3, SameByEnds DEF Unseen, Serving
    <2>4. QED
      BY <1>4, <2>2, <2>3 DEF OpenCurrent, ClearMigrationState, Goes
  <1>5. ASSUME NEW o \in Outcomes,
               \/ CreateAttempt(h, o) \/ PublishExitUnknown(h, o) \/ PublishPoison(h, o)
               \/ \E F \in SUBSET Temps : RegisterAttempt(h, o, F)
        PROVE  Unseen
    BY <1>1, <1>5, SameByEnds, SameByGoing, SameByGoes DEF CreateAttempt,
       PublishExitUnknown, PublishPoison, RegisterAttempt, Unseen
  <1>6. ASSUME NEW F \in SUBSET Temps, MakeTemps(h, F) PROVE Unseen
    BY <1>1, <1>6, SameByEnds, SameByGoing, SameByGoes DEF MakeTemps, Unseen
  <1>7. ASSUME RefuseActiveAttempt(h) \/ AdoptOrphanMarkers(h) \/ Inspect(h) \/ LoseChild(h) PROVE Unseen
    BY <1>1, <1>7, SameByEnds, SameByGoing, SameByGoes DEF RefuseActiveAttempt,
       AdoptOrphanMarkers, Inspect, LoseChild, disk, Unseen
  <1>8. QED
    BY <1>1, <1>2, <1>3, <1>4, <1>5, <1>6, <1>7, PrepareIsSeen, SettleIsUnseen DEF HostSteps

(* What a step looks like to AtomicUpgrade. *)
LEMMA StepIsSeen ==
  ASSUME ~ReadsFail, IInv, [Next]_vars
  PROVE  \/ Unseen
         \/ Serving' = Serving /\ Data = "source" /\ db' = "final"
         \/ \E h \in Hosts : h \notin Serving /\ Serving' = Serving \cup {h} /\ db' = db /\
              Data # "source"
         \/ \E h \in Hosts : h \in Serving /\ Serving' = Serving /\ db' = "used"
         \/ \E h \in Hosts : h \in Serving /\ Serving' = Serving \ {h} /\ db' = db
  <1>1. pc \in [Procs -> HostPlaces \cup ChildPlaces]
    BY DEF IInv, TypeOK, PlacesOK
  <1>2. ASSUME NEW h \in Hosts, Open(h) \/ Restart(h) PROVE Unseen
    BY <1>2, SameByGoes, Kinds DEF Open, Restart, disk, Unseen, Openers, Serving
  <1>3. ASSUME NEW h \in Hosts, Use(h)
        PROVE  h \in Serving /\ Serving' = Serving /\ db' = "used"
    BY <1>3 DEF Use, Serving
  <1>4. ASSUME NEW h \in Hosts, Close(h)
        PROVE  h \in Serving /\ Serving' = Serving \ {h} /\ db' = db
    BY <1>1, <1>4, Kinds DEF Close, Ends, Goes, disk, Serving, Openers
  <1>5. CASE StartOfflineRecovery
    BY <1>5, SameByGoes, Kinds DEF StartOfflineRecovery, disk, Unseen, Openers
  <1>6. CASE SettleAttempt(Operator)
    BY <1>6, SettleIsUnseen DEF Openers
  <1>7. ASSUME NEW a \in Attempts, NEW o \in Outcomes, AnnounceReady(a, o) PROVE Unseen
    BY <1>7, SameByGoing, SameByEnds, Kinds DEF AnnounceReady, Unseen
  <1>8. ASSUME NEW p \in Procs, Crash(p) PROVE Unseen
    BY <1>8, SameByEnds DEF Crash, disk, Unseen
  <1>9. CASE UNCHANGED vars
    BY <1>9 DEF vars, disk, Unseen, Serving
  <1>10. QED
    BY <1>2, <1>3, <1>4, <1>5, <1>6, <1>7, <1>8, <1>9, HostIsSeen, PrepareIsSeen DEF Next,
       ChildSteps

(* Through every crash, failed write and retry, open upgrades the database  *)
(* in one step, never takes that back, and serves it only afterwards.       *)
THEOREM ImplementsAtomicUpgrade == ASSUME ~ReadsFail PROVE Spec => ImplementsUpgrade
  <1>1. Init => Upgrade!Init
    BY Kinds DEF Init, Upgrade!Init, Committed, Openers
  <1>2. IInv /\ [Next]_vars => [Upgrade!Next]_(Upgrade!vars)
    <2>1. SUFFICES ASSUME IInv, [Next]_vars PROVE [Upgrade!Next]_(Upgrade!vars)
      OBVIOUS
    <2>2. CASE Unseen
      BY <2>2 DEF Unseen, Serving, Committed, Upgrade!vars
    <2>3. CASE Serving' = Serving /\ Data = "source" /\ db' = "final"
      BY <2>3 DEF Serving, Data, Committed, Upgrade!Next, Upgrade!Upgrade
    <2>4. ASSUME NEW h \in Hosts, h \notin Serving, Serving' = Serving \cup {h}, db' = db,
                   Data # "source"
          PROVE  Upgrade!Next
      BY <2>4 DEF Serving, Data, Committed, Upgrade!Next, Upgrade!Serve
    <2>5. ASSUME NEW h \in Hosts, h \in Serving, Serving' = Serving, db' = "used"
          PROVE  Upgrade!Next
      BY <2>5 DEF Serving, Committed, Upgrade!Next, Upgrade!Write
    <2>6. ASSUME NEW h \in Hosts, h \in Serving, Serving' = Serving \ {h}, db' = db
          PROVE  Upgrade!Next
      BY <2>6 DEF Serving, Committed, Upgrade!Next, Upgrade!Leave
    <2>7. QED
      BY <2>1, <2>2, <2>3, <2>4, <2>5, <2>6, StepIsSeen
  <1>3. QED
    BY <1>1, <1>2, Invariant, PTL DEF Spec, ImplementsUpgrade, Upgrade!Spec
=============================================================================
