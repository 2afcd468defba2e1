------------------------ MODULE ComposeSessionProofs ------------------------
(***************************************************************************)
(* What a Compose suite keeps, whatever compose.abandon, cancellations,    *)
(* crashes and edits of its files do beside a Turn, for any Threads that   *)
(* may share their goals, and so the files.                                *)
(***************************************************************************)
EXTENDS ComposeSession, TLAPS

(* A record with the approvals it claims. *)
Held(r, a) ==
    /\ r \in Rows
    /\ r # NoRow => r.work \in Works /\ r.slug \in Goals /\ r.status # "none"
    /\ Backed(r, a)

(* The document of the stage is next to be confirmed. *)
Fits(r, stage) ==
    /\ stage \in {"grill", "spec", "plan"}
    /\ stage = "spec" => r.task # Absent /\ r.plan = Absent
    /\ stage = "plan" => r.spec # Absent

(* What holds of Thread t with the row R, the Turn T and a compose.abandon *)
(* that has loaded D.  No one but its Turn makes a row of a Thread         *)
(* current, so that the row a Turn loads again is its own, if any; and     *)
(* what its user sent back is not under review.                            *)
Threaded(t, R, T, D, a, rej) ==
    /\ Held(R, a) /\ Held(T.rec, a) /\ Held(D, a)
    /\ T \in Turns
    /\ T.pc \notin {"idle", "dropping"} => T.rec # NoRow
    /\ T.pc \in Building => T.rec.plan # Absent
    /\ T.pc \in {"writing", "asking"} => Fits(T.rec, T.stage)
    /\ T.pc \in {"created", "entering", "writing"} /\ IsCurrent(R) => R = T.rec
    /\ T.pc \in {"dropping", "creating", "created", "entering"}
          => T.rec.status # "completed"
    /\ T.pc \in {"reviewing", "judging"} => <<t, T.rec.slug>> \notin rej

(* An implementation that counts is not one that was sent back. *)
MarkedIsReworked == \A t \in Threads, g \in ok : <<t, g>> \notin rejected

Shared ==
    /\ docs \in [Goals -> [Documents -> Contents \cup {Absent}]]
    /\ ok \subseteq Goals
    /\ works \in {NoWork} \cup Works
    /\ approved \subseteq Works \X Documents
    /\ rejected \subseteq Threads \X Goals
    /\ MarkedIsReworked

Shaped ==
    /\ row \in [Threads -> Rows]
    /\ turn \in [Threads -> Turns]
    /\ dropping \in [Threads -> Rows]

IInv ==
    /\ Shared
    /\ Shaped
    /\ \A t \in Threads :
          Threaded(t, row[t], turn[t], dropping[t], approved, rejected)

(* A step of one Thread: it keeps its own state in order, the others' as   *)
(* it is, withdraws no approval and sends back nothing of another Thread.  *)
Local(t) ==
    /\ \E R \in Rows : row' = [row EXCEPT ![t] = R]
    /\ \E T \in Turns : turn' = [turn EXCEPT ![t] = T]
    /\ \E D \in Rows : dropping' = [dropping EXCEPT ![t] = D]
    /\ approved \subseteq approved'
    /\ \A u \in Threads \ {t}, g \in Goals : <<u, g>> \in rejected' => <<u, g>> \in rejected
    /\ Threaded(t, row'[t], turn'[t], dropping'[t], approved', rejected')

LEMMA Constants ==
    /\ NoRow \in Rows /\ NoTurn \in Turns
    /\ \A a : Held(NoRow, a)
    /\ NoTurn.pc = "idle" /\ NoTurn.rec = NoRow
  <1>1. NoRow \in Rows
    BY DEF NoRow, Rows, NoWork
  <1>2. NoTurn \in Turns
    BY <1>1 DEF NoTurn, Turns
  <1>3. \A a : Held(NoRow, a)
    BY <1>1 DEF Held, Backed, NoRow
  <1> QED BY <1>1, <1>2, <1>3 DEF NoTurn

LEMMA OthersKeep ==
    ASSUME NEW t, NEW R, NEW T, NEW D, NEW a, NEW rej, NEW a2, NEW rej2,
           Threaded(t, R, T, D, a, rej),
           a \subseteq a2,
           \A g \in Goals : <<t, g>> \in rej2 => <<t, g>> \in rej
    PROVE  Threaded(t, R, T, D, a2, rej2)
  <1>1. \A r : Held(r, a) => Held(r, a2)
    BY DEF Held, Backed
  <1>2. T.pc \in {"reviewing", "judging"} => T.rec.slug \in Goals
    BY DEF Threaded, Held
  <1> QED BY <1>1, <1>2 DEF Threaded

LEMMA LocalSteps ==
    ASSUME IInv, Shared', NEW t \in Threads, Local(t)
    PROVE  IInv'
  <1>1. Shaped'
    BY DEF IInv, Shaped, Local
  <1>2. \A u \in Threads \ {t} : /\ row'[u] = row[u] /\ turn'[u] = turn[u]
                                 /\ dropping'[u] = dropping[u]
    BY DEF IInv, Shaped, Local
  <1>3. ASSUME NEW u \in Threads
        PROVE  Threaded(u, row'[u], turn'[u], dropping'[u], approved', rejected')
    <2>1. CASE u = t
      BY <2>1 DEF Local
    <2>2. CASE u # t
      <3>1. Threaded(u, row[u], turn[u], dropping[u], approved, rejected)
        BY DEF IInv
      <3>2. \A g \in Goals : <<u, g>> \in rejected' => <<u, g>> \in rejected
        BY <2>2 DEF Local
      <3>3. approved \subseteq approved'
        BY DEF Local
      <3>4. Threaded(u, row[u], turn[u], dropping[u], approved', rejected')
        BY <3>1, <3>2, <3>3, OthersKeep
      <3> QED BY <2>2, <3>4, <1>2
    <2> QED BY <2>1, <2>2
  <1> QED BY <1>1, <1>3 DEF IInv

-----------------------------------------------------------------------------
(* The operators of the session.                                           *)

LEMMA StageIsNext ==
    ASSUME NEW r, NEW a, Held(r, a)
    PROVE  /\ OpenStage(r) \in Stages
           /\ OpenStage(r) \in {"grill", "spec", "plan"} => Fits(r, OpenStage(r))
           /\ OpenStage(r) \in {"implement", "review"} => r.plan # Absent
           /\ OpenStage(r) = "review" /\ r.status # "completed" => r.slug \in ok
  BY DEF Held, Backed, OpenStage, Stages, Fits

(* A confirmation is approved, and for the next document of the suite. *)
LEMMA ConfirmationIsHeld ==
    ASSUME Shared, NEW r, Held(r, approved), r # NoRow,
           NEW stage \in {"grill", "spec", "plan", "review"},
           stage = "review" => r.plan # Absent,
           stage # "review" => Fits(r, stage),
           NEW text \in TaskTexts(r.slug),
           Approve(r, stage)
    PROVE  /\ Held(Confirmed(r, stage, text), approved')
           /\ Confirmed(r, stage, text) # NoRow
           /\ Confirmed(r, stage, text).slug = r.slug
           /\ Confirmed(r, stage, text).status
                 = IF stage = "review" THEN "completed" ELSE "active"
           /\ text \in Contents
           /\ approved \subseteq approved'
           /\ approved' \subseteq Works \X Documents
  <1> DEFINE c == Confirmed(r, stage, text)
  <1>1. r \in Rows /\ r.work \in Works /\ r.slug \in Goals
    BY DEF Held
  <1>2. text \in Contents
    BY <1>1 DEF Shared, TaskTexts, Documents
  <1>3. text # Absent
    BY <1>2, ComposeAssumption
  <1>4. /\ approved' = approved \cup {<<r.work, Artifact(stage)>>}
        /\ Artifact(stage) \in Documents
    BY DEF Approve, Artifact, Documents
  <1>5. \A d \in Documents : docs[r.slug][d] \in Contents \cup {Absent}
    BY <1>1 DEF Shared
  <1>6. Held(c, approved') /\ c # NoRow /\ c.slug = r.slug
        /\ c.status = IF stage = "review" THEN "completed" ELSE "active"
    <2>1. CASE stage = "grill"
      <3>1. c = [r EXCEPT !.task = text, !.status = "active"]
        BY <2>1 DEF Confirmed
      <3>2. Artifact(stage) = "task"
        BY <2>1 DEF Artifact
      <3>3. /\ c \in Rows /\ c.work = r.work /\ c.slug = r.slug
            /\ c.task = text /\ c.spec = r.spec /\ c.plan = r.plan
            /\ c.status = "active"
        BY <1>1, <1>2, <3>1 DEF Rows, Documents
      <3>4. Backed(r, approved) /\ Fits(r, "grill")
        BY <2>1 DEF Held
      <3> HIDE DEF c
      <3>5. Backed(c, approved')
        BY <1>3, <1>4, <2>1, <3>2, <3>3, <3>4 DEF Backed, Fits
      <3> QED BY <1>1, <2>1, <3>3, <3>5 DEF Held, NoRow
    <2>2. CASE stage = "spec"
      <3>1. c = [r EXCEPT !.spec = docs[r.slug]["spec"], !.status = "active"]
        BY <2>2 DEF Confirmed
      <3>2. Artifact(stage) = "spec"
        BY <2>2 DEF Artifact
      <3>3. /\ c \in Rows /\ c.work = r.work /\ c.slug = r.slug
            /\ c.task = r.task /\ c.spec = docs[r.slug]["spec"] /\ c.plan = r.plan
            /\ c.status = "active"
        BY <1>1, <1>5, <3>1 DEF Rows, Documents
      <3>4. Backed(r, approved) /\ Fits(r, "spec")
        BY <2>2 DEF Held
      <3> HIDE DEF c
      <3>5. Backed(c, approved')
        BY <1>3, <1>4, <2>2, <3>2, <3>3, <3>4 DEF Backed, Fits
      <3> QED BY <1>1, <2>2, <3>3, <3>5 DEF Held, NoRow
    <2>3. CASE stage = "plan"
      <3>1. c = [r EXCEPT !.plan = docs[r.slug]["plan"], !.status = "active"]
        BY <2>3 DEF Confirmed
      <3>2. Artifact(stage) = "plan"
        BY <2>3 DEF Artifact
      <3>3. /\ c \in Rows /\ c.work = r.work /\ c.slug = r.slug
            /\ c.task = r.task /\ c.spec = r.spec /\ c.plan = docs[r.slug]["plan"]
            /\ c.status = "active"
        BY <1>1, <1>5, <3>1 DEF Rows, Documents
      <3>4. Backed(r, approved) /\ Fits(r, "plan")
        BY <2>3 DEF Held
      <3> HIDE DEF c
      <3>5. Backed(c, approved')
        BY <1>3, <1>4, <2>3, <3>2, <3>3, <3>4 DEF Backed, Fits
      <3> QED BY <1>1, <2>3, <3>3, <3>5 DEF Held, NoRow
    <2>4. CASE stage = "review"
      <3>1. c = [r EXCEPT !.status = "completed"]
        BY <2>4 DEF Confirmed
      <3>2. Artifact(stage) = "review"
        BY <2>4 DEF Artifact
      <3>3. /\ c \in Rows /\ c.work = r.work /\ c.slug = r.slug
            /\ c.task = r.task /\ c.spec = r.spec /\ c.plan = r.plan
            /\ c.status = "completed"
        BY <1>1, <3>1 DEF Rows, Documents
      <3>4. Backed(r, approved)
        BY <2>4 DEF Held
      <3> HIDE DEF c
      <3>5. Backed(c, approved')
        BY <1>3, <1>4, <2>4, <3>2, <3>3, <3>4 DEF Backed, Fits
      <3> QED BY <1>1, <2>4, <3>3, <3>5 DEF Held, NoRow
    <2> QED BY <2>1, <2>2, <2>3, <2>4
  <1> QED BY <1>1, <1>2, <1>4, <1>6 DEF Shared

LEMMA Producing ==
    ASSUME IInv, NEW t \in Threads, NEW r, NEW R, NEW D, NEW a,
           NEW depth \in 0..5,
           r # NoRow, Held(r, a), Held(R, a), Held(D, a),
           IsCurrent(R) => R = r,
           Produce(t, OpenStage(r), r, depth)
    PROVE  \E T \in Turns : /\ turn' = [turn EXCEPT ![t] = T]
                            /\ Threaded(t, R, T, D, a, rejected)
  <1> DEFINE stage == OpenStage(r)
             T == [NoTurn EXCEPT !.pc = IF stage \in {"implement", "review"}
                                        THEN IF r.slug \in ok THEN "reviewing"
                                                              ELSE "implementing"
                                        ELSE "writing",
                                 !.stage = stage, !.rec = r, !.depth = depth]
  <1>1. CASE depth > 4
    <2>1. turn' = [turn EXCEPT ![t] = NoTurn]
      BY <1>1 DEF Produce, End
    <2>2. Threaded(t, R, NoTurn, D, a, rejected)
      BY Constants DEF Threaded, Building
    <2> QED BY <2>1, <2>2, Constants
  <1>2. CASE ~(depth > 4)
    <2>1. turn' = [turn EXCEPT ![t] = T]
      BY <1>2 DEF Produce, Goto
    <2>2. depth \in 0..4
      BY <1>2
    <2>3. stage \in Stages /\ r \in Rows /\ r.slug \in Goals
      BY StageIsNext DEF Held
    <2>4. /\ T \in Turns /\ T.rec = r /\ T.stage = stage
          /\ T.pc = IF stage \in {"implement", "review"}
                    THEN IF r.slug \in ok THEN "reviewing" ELSE "implementing"
                    ELSE "writing"
      BY <2>2, <2>3 DEF NoTurn, Turns
    <2>5. r.slug \in ok => <<t, r.slug>> \notin rejected
      BY DEF IInv, Shared, MarkedIsReworked
    <2>6. stage \in {"implement", "review"} => r.plan # Absent
      BY StageIsNext
    <2>7. stage \notin {"implement", "review"} => Fits(r, stage)
      BY <2>3, StageIsNext DEF Stages
    <2>8. Threaded(t, R, T, D, a, rejected)
      BY <2>4, <2>5, <2>6, <2>7 DEF Threaded, Building
    <2> QED BY <2>1, <2>4, <2>8
  <1> QED BY <1>1, <1>2

-----------------------------------------------------------------------------
(* The steps.                                                              *)

LEMMA Own ==
    ASSUME IInv, NEW t \in Threads
    PROVE  /\ Threaded(t, row[t], turn[t], dropping[t], approved, rejected)
           /\ row[t] \in Rows /\ turn[t] \in Turns /\ dropping[t] \in Rows
           /\ turn[t].rec \in Rows
           /\ row = [row EXCEPT ![t] = row[t]]
           /\ turn = [turn EXCEPT ![t] = turn[t]]
           /\ dropping = [dropping EXCEPT ![t] = dropping[t]]
  BY DEF IInv, Shaped, Threaded, Held

LEMMA IsLocal ==
    ASSUME IInv, NEW t \in Threads, NEW R \in Rows, NEW T \in Turns, NEW D \in Rows,
           row' = [row EXCEPT ![t] = R],
           turn' = [turn EXCEPT ![t] = T],
           dropping' = [dropping EXCEPT ![t] = D],
           approved \subseteq approved',
           \A u \in Threads \ {t}, g \in Goals :
               <<u, g>> \in rejected' => <<u, g>> \in rejected,
           Threaded(t, R, T, D, approved', rejected')
    PROVE  Local(t)
  <1>1. row'[t] = R /\ turn'[t] = T /\ dropping'[t] = D
    BY DEF IInv, Shaped
  <1> QED BY <1>1 DEF Local

(* The beginning of a Turn. *)
LEMMA Begins ==
    ASSUME IInv, NEW t \in Threads,
           \/ \E p \in BOOLEAN : \/ BeginTurn(t, p)
                                 \/ \E g \in Goals : BeginSuite(t, g, p)
           \/ BeginAbandon(t)
    PROVE  Shared' /\ Local(t)
  <1> DEFINE R == row[t]  D == dropping[t]
  <1>1. ASSUME NEW p \in BOOLEAN, BeginTurn(t, p)
        PROVE  Shared' /\ Local(t)
    <2> DEFINE T == [NoTurn EXCEPT !.pc = "entering", !.rec = row[t], !.proceed = p]
    <2>1. T \in Turns /\ T.pc = "entering" /\ T.rec = row[t]
      <3>1. row[t] \in Rows
        BY Own
      <3>2. NoTurn \in Turns
        BY Constants
      <3> QED BY <3>1, <3>2 DEF Turns
    <2>2. row[t] # NoRow /\ row[t].status # "completed"
      <3>1. IsCurrent(row[t])
        BY <1>1 DEF BeginTurn
      <3> QED BY <3>1 DEF IsCurrent, NoRow
    <2>3. Threaded(t, R, T, D, approved, rejected)
      BY <2>1, <2>2, Own DEF Threaded, Building
    <2>4. turn' = [turn EXCEPT ![t] = T]
      BY <1>1 DEF BeginTurn
    <2>5. UNCHANGED <<row, docs, ok, dropping, works, approved, rejected>>
      BY <1>1 DEF BeginTurn
    <2> HIDE DEF T
    <2>6. Local(t)
      BY <2>1, <2>3, <2>4, <2>5, Own, IsLocal
    <2>7. Shared'
      BY <2>5 DEF IInv, Shared, MarkedIsReworked
    <2> QED BY <2>6, <2>7
  <1>2. ASSUME NEW p \in BOOLEAN, NEW g \in Goals, BeginSuite(t, g, p)
        PROVE  Shared' /\ Local(t)
    <2> DEFINE r == [NoRow EXCEPT !.work = works + 1, !.slug = g, !.status = "active"]
               T == [NoTurn EXCEPT
                        !.pc = IF IsCurrent(row[t]) THEN "dropping" ELSE "creating",
                        !.rec = r, !.proceed = p]
    <2>1. works + 1 \in Works
      <3>1. works < MaxWorks
        BY <1>2 DEF BeginSuite
      <3>2. works \in {NoWork} \cup Works
        BY DEF IInv, Shared
      <3> QED BY <3>1, <3>2, ComposeAssumption DEF Works, NoWork
    <2>2. /\ r \in Rows /\ r.work \in Works /\ r.slug \in Goals /\ r.status = "active"
          /\ r # NoRow
          /\ r.task = Absent /\ r.spec = Absent /\ r.plan = Absent
      BY <2>1 DEF NoRow, Rows
    <2>3. Held(r, approved)
      <3> HIDE DEF r
      <3> QED BY <2>2 DEF Held, Backed
    <2>4. T \in Turns /\ T.pc \in {"dropping", "creating"} /\ T.rec = r
      <3> HIDE DEF r
      <3>1. NoTurn \in Turns
        BY Constants
      <3> QED BY <2>2, <3>1 DEF Turns
    <2>5. /\ turn' = [turn EXCEPT ![t] = T] /\ works' = works + 1
          /\ UNCHANGED <<row, docs, ok, dropping, approved, rejected>>
      BY <1>2 DEF BeginSuite
    <2> HIDE DEF T, r
    <2>6. Threaded(t, R, T, D, approved, rejected)
      BY <2>2, <2>3, <2>4, Own DEF Threaded, Building
    <2>7. Local(t)
      BY <2>4, <2>5, <2>6, Own, IsLocal
    <2>8. Shared'
      BY <2>1, <2>5 DEF IInv, Shared, MarkedIsReworked
    <2> QED BY <2>7, <2>8
  <1>3. ASSUME BeginAbandon(t)
        PROVE  Shared' /\ Local(t)
    <2> DEFINE T == [NoTurn EXCEPT !.pc = "dropping"]
    <2>1. T \in Turns /\ T.pc = "dropping" /\ T.rec = NoRow
      BY Constants DEF NoTurn, Turns
    <2>2. Threaded(t, R, T, D, approved, rejected)
      <3>1. NoRow.status # "completed"
        BY DEF NoRow
      <3> QED BY <2>1, <3>1, Own, Constants DEF Threaded, Building
    <2>3. /\ turn' = [turn EXCEPT ![t] = T]
          /\ UNCHANGED <<row, docs, ok, dropping, works, approved, rejected>>
      BY <1>3 DEF BeginAbandon
    <2> HIDE DEF T
    <2>4. Local(t)
      BY <2>1, <2>2, <2>3, Own, IsLocal
    <2>5. Shared'
      BY <2>3 DEF IInv, Shared, MarkedIsReworked
    <2> QED BY <2>4, <2>5
  <1> QED BY <1>1, <1>2, <1>3

(* A record with another status that claims no approval. *)
LEMMA StatusOnly ==
    ASSUME NEW r, NEW a, Held(r, a), r # NoRow,
           NEW s \in {"active", "waiting_user", "abandoned"}
    PROVE  /\ Held([r EXCEPT !.status = s], a)
           /\ [r EXCEPT !.status = s] \in Rows
           /\ [r EXCEPT !.status = s] # NoRow
           /\ [r EXCEPT !.status = s].status = s
           /\ [r EXCEPT !.status = s].slug = r.slug
           /\ [r EXCEPT !.status = s].plan = r.plan
  <1> DEFINE q == [r EXCEPT !.status = s]
  <1>1. r \in Rows /\ r.work \in Works /\ r.slug \in Goals /\ Backed(r, a)
    BY DEF Held
  <1>2. /\ q \in Rows /\ q.status = s /\ q.work = r.work /\ q.slug = r.slug
        /\ q.task = r.task /\ q.spec = r.spec /\ q.plan = r.plan
    BY <1>1 DEF Rows
  <1> HIDE DEF q
  <1>3. Held(q, a) /\ q # NoRow
    BY <1>1, <1>2 DEF Held, Backed, NoRow
  <1> QED BY <1>2, <1>3 DEF q

(* A Turn that has ended leaves the row and the request that it finds. *)
LEMMA Resting ==
    ASSUME NEW t, NEW R, NEW D, NEW a, NEW rej, Held(R, a), Held(D, a)
    PROVE  Threaded(t, R, NoTurn, D, a, rej)
  BY Constants DEF Threaded, Building

(* The same Turn at another place. *)
LEMMA PlaceOnly ==
    ASSUME IInv, NEW t \in Threads,
           NEW pc \in {"creating", "created", "entering", "reviewing", "returning"},
           turn' = [turn EXCEPT ![t].pc = pc]
    PROVE  \E T \in Turns : /\ turn' = [turn EXCEPT ![t] = T]
                            /\ T.pc = pc /\ T.rec = turn[t].rec /\ T.stage = turn[t].stage
  <1> DEFINE T == [turn[t] EXCEPT !.pc = pc]
  <1>1. T \in Turns /\ T.pc = pc /\ T.rec = turn[t].rec /\ T.stage = turn[t].stage
    <2>1. turn[t] \in Turns
      BY Own
    <2> QED BY <2>1 DEF Turns
  <1>2. turn' = [turn EXCEPT ![t] = T]
    BY DEF IInv, Shaped
  <1> QED BY <1>1, <1>2

LEMMA Drops ==
    ASSUME IInv, NEW t \in Threads, Drop(t)
    PROVE  Shared' /\ Local(t)
  <1> DEFINE R == [row[t] EXCEPT !.status = "abandoned"]  D == dropping[t]
  <1>1. /\ turn[t].pc = "dropping"
        /\ UNCHANGED <<docs, ok, dropping, works, approved, rejected>>
    BY DEF Drop, At
  <1>2. Shared'
    BY <1>1 DEF IInv, Shared, MarkedIsReworked
  <1>3. Held(row[t], approved) /\ Held(D, approved) /\ Held(turn[t].rec, approved)
    BY Own DEF Threaded
  <1>4. CASE ~IsCurrent(row[t])
    <2>1. turn' = [turn EXCEPT ![t] = NoTurn] /\ UNCHANGED row
      BY <1>4 DEF Drop, End
    <2>2. Threaded(t, row[t], NoTurn, D, approved, rejected)
      BY <1>3, Resting
    <2> QED BY <1>1, <1>2, <2>1, <2>2, Own, Constants, IsLocal
  <1>5. CASE IsCurrent(row[t])
    <2>1. row' = [row EXCEPT ![t] = R]
      BY <1>5 DEF Drop, Upsert
    <2>2. row[t] # NoRow
      BY <1>5 DEF IsCurrent, NoRow
    <2>3. Held(R, approved) /\ R \in Rows /\ R.status = "abandoned"
      BY <1>3, <2>2, StatusOnly
    <2> HIDE DEF R
    <2>4. CASE turn[t].rec = NoRow
      <3>1. turn' = [turn EXCEPT ![t] = NoTurn]
        BY <1>5, <2>4 DEF Drop, End
      <3>2. Threaded(t, R, NoTurn, D, approved, rejected)
        BY <1>3, <2>3, Resting
      <3> QED BY <1>1, <1>2, <2>1, <2>3, <3>1, <3>2, Own, Constants, IsLocal
    <2>5. CASE turn[t].rec # NoRow
      <3>1. turn' = [turn EXCEPT ![t].pc = "creating"]
        BY <1>5, <2>5 DEF Drop
      <3>2. PICK T \in Turns : /\ turn' = [turn EXCEPT ![t] = T]
                               /\ T.pc = "creating" /\ T.rec = turn[t].rec
        BY <3>1, PlaceOnly
      <3>3. turn[t].rec.status # "completed"
        BY <1>1, Own DEF Threaded
      <3>4. Threaded(t, R, T, D, approved, rejected)
        BY <1>3, <2>3, <2>5, <3>2, <3>3 DEF Threaded, Building
      <3> QED BY <1>1, <1>2, <2>1, <2>3, <3>2, <3>4, Own, IsLocal
    <2> QED BY <2>4, <2>5
  <1> QED BY <1>4, <1>5

LEMMA Creates ==
    ASSUME IInv, NEW t \in Threads, Create(t)
    PROVE  Shared' /\ Local(t)
  <1> DEFINE R == turn[t].rec  D == dropping[t]
  <1>1. /\ turn[t].pc = "creating"
        /\ row' = [row EXCEPT ![t] = R]
        /\ turn' = [turn EXCEPT ![t].pc = "created"]
        /\ UNCHANGED <<docs, ok, dropping, works, approved, rejected>>
    BY DEF Create, At, Upsert
  <1>2. /\ Held(R, approved) /\ Held(D, approved) /\ R # NoRow /\ R \in Rows
        /\ R.status # "completed"
    BY <1>1, Own DEF Threaded
  <1>3. PICK T \in Turns : /\ turn' = [turn EXCEPT ![t] = T]
                           /\ T.pc = "created" /\ T.rec = turn[t].rec
    BY <1>1, PlaceOnly
  <1>4. Threaded(t, R, T, D, approved, rejected)
    BY <1>2, <1>3 DEF Threaded, Building
  <1>5. Shared'
    BY <1>1 DEF IInv, Shared, MarkedIsReworked
  <1> QED BY <1>1, <1>2, <1>3, <1>4, <1>5, Own, IsLocal

LEMMA TaskIsWritten ==
    ASSUME Shared, NEW slug \in Goals, NEW text \in TaskTexts(slug), WriteTask(slug, text)
    PROVE  docs' \in [Goals -> [Documents -> Contents \cup {Absent}]]
  BY DEF Shared, TaskTexts, WriteTask, Documents

LEMMA WritesTask ==
    ASSUME IInv, NEW t \in Threads, WriteNewTask(t)
    PROVE  Shared' /\ Local(t)
  <1> DEFINE R == row[t]  D == dropping[t]
  <1>1. /\ turn[t].pc = "created"
        /\ turn' = [turn EXCEPT ![t].pc = "entering"]
        /\ UNCHANGED <<row, ok, dropping, works, approved, rejected>>
    BY DEF WriteNewTask, At
  <1>2. PICK T \in Turns : /\ turn' = [turn EXCEPT ![t] = T]
                           /\ T.pc = "entering" /\ T.rec = turn[t].rec
    BY <1>1, PlaceOnly
  <1>3. Threaded(t, R, T, D, approved, rejected)
    BY <1>1, <1>2, Own DEF Threaded, Building
  <1>4. turn[t].rec.slug \in Goals
    BY <1>1, Own DEF Threaded, Held
  <1>5. Shared'
    <2>1. docs' \in [Goals -> [Documents -> Contents \cup {Absent}]]
      BY <1>4, TaskIsWritten DEF WriteNewTask, IInv
    <2> QED BY <1>1, <2>1 DEF IInv, Shared, MarkedIsReworked
  <1>6. /\ R \in Rows /\ D \in Rows
        /\ row' = [row EXCEPT ![t] = R] /\ dropping' = [dropping EXCEPT ![t] = D]
    BY <1>1, Own
  <1> QED BY <1>1, <1>2, <1>3, <1>5, <1>6, IsLocal

LEMMA EntersProceeding ==
    ASSUME IInv, NEW t \in Threads, EnterProceeding(t)
    PROVE  Shared' /\ Local(t)
  <1> DEFINE r == turn[t].rec
             stage == OpenStage(r)
             D == dropping[t]
  <1>1. /\ turn[t].pc = "entering"
        /\ stage = "grill" \/ IsReady(r.slug, stage)
        /\ Approve(r, stage)
        /\ UNCHANGED <<ok, dropping, works, rejected>>
    BY DEF EnterProceeding, At
  <1>2. Held(r, approved) /\ r # NoRow /\ r.status # "completed" /\ r.slug \in Goals
    BY <1>1, Own DEF Threaded, Held
  <1>3. stage \in {"grill", "spec", "plan", "review"}
    <2>1. stage \in Stages
      BY <1>2, StageIsNext
    <2> QED BY <1>1, <2>1 DEF Stages, IsReady
  <1>4. /\ stage = "review" => r.plan # Absent
        /\ stage # "review" => Fits(r, stage)
    BY <1>2, <1>3, StageIsNext
  <1>5. PICK text \in TaskTexts(r.slug) :
            /\ Upsert(t, Confirmed(r, stage, text))
            /\ IF stage = "grill" THEN WriteTask(r.slug, text) ELSE UNCHANGED docs
            /\ Produce(t, OpenStage(Confirmed(r, stage, text)), Confirmed(r, stage, text), 0)
    BY DEF EnterProceeding
  <1> DEFINE c == Confirmed(r, stage, text)
  <1>6. /\ Held(c, approved') /\ c # NoRow /\ c \in Rows
        /\ approved \subseteq approved' /\ approved' \subseteq Works \X Documents
    BY <1>1, <1>2, <1>3, <1>4, ConfirmationIsHeld DEF IInv, Held
  <1>7. Held(D, approved') /\ D \in Rows
    BY <1>6, Own DEF Threaded, Held, Backed
  <1>8. row' = [row EXCEPT ![t] = c]
    BY <1>5 DEF Upsert
  <1>9. PICK T \in Turns : /\ turn' = [turn EXCEPT ![t] = T]
                           /\ Threaded(t, c, T, D, approved', rejected)
    <2>1. Produce(t, OpenStage(c), c, 0)
      BY <1>5
    <2> HIDE DEF c
    <2> QED BY <1>6, <1>7, <2>1, Producing
  <1>10. Shared'
    <2>1. docs' \in [Goals -> [Documents -> Contents \cup {Absent}]]
      BY <1>2, <1>5, TaskIsWritten DEF IInv, Shared
    <2> QED BY <1>1, <1>6, <2>1 DEF IInv, Shared, MarkedIsReworked
  <1> HIDE DEF c
  <1>11. dropping' = [dropping EXCEPT ![t] = D]
    BY <1>1, Own
  <1>12. Local(t)
    BY <1>1, <1>6, <1>7, <1>8, <1>9, <1>11, IsLocal
  <1> QED BY <1>10, <1>12

LEMMA Accepts ==
    ASSUME IInv, NEW t \in Threads, Accept(t)
    PROVE  Shared' /\ Local(t)
  <1> DEFINE r == turn[t].rec
             stage == turn[t].stage
             D == dropping[t]
  <1>1. /\ turn[t].pc = "asking"
        /\ Approve(r, stage)
        /\ UNCHANGED <<ok, dropping, works, rejected>>
    BY DEF Accept, At
  <1>2. Held(r, approved) /\ r # NoRow /\ r.slug \in Goals /\ Fits(r, stage)
    BY <1>1, Own DEF Threaded, Held
  <1>3. stage \in {"grill", "spec", "plan"}
    BY <1>2 DEF Fits
  <1>4. PICK text \in TaskTexts(r.slug) :
            /\ Upsert(t, Confirmed(r, stage, text))
            /\ IF stage = "grill" THEN WriteTask(r.slug, text) ELSE UNCHANGED docs
            /\ IF OpenStage(Confirmed(r, stage, text)) = stage THEN End(t)
               ELSE Produce(t, OpenStage(Confirmed(r, stage, text)),
                            Confirmed(r, stage, text), turn[t].depth + 1)
    BY DEF Accept
  <1> DEFINE c == Confirmed(r, stage, text)
  <1>5. /\ Held(c, approved') /\ c # NoRow /\ c \in Rows
        /\ approved \subseteq approved' /\ approved' \subseteq Works \X Documents
    BY <1>1, <1>2, <1>3, ConfirmationIsHeld DEF IInv, Held
  <1>6. Held(D, approved') /\ D \in Rows
    BY <1>5, Own DEF Threaded, Held, Backed
  <1>7. row' = [row EXCEPT ![t] = c]
    BY <1>4 DEF Upsert
  <1>8. PICK T \in Turns : /\ turn' = [turn EXCEPT ![t] = T]
                           /\ Threaded(t, c, T, D, approved', rejected)
    <2>1. CASE OpenStage(c) = stage
      <3>1. turn' = [turn EXCEPT ![t] = NoTurn]
        BY <1>4, <2>1 DEF End
      <3>2. Threaded(t, c, NoTurn, D, approved', rejected)
        <4> HIDE DEF c
        <4> QED BY <1>5, <1>6, Resting
      <3> QED BY <3>1, <3>2, Constants
    <2>2. CASE OpenStage(c) # stage
      <3>1. Produce(t, OpenStage(c), c, turn[t].depth + 1)
        BY <1>4, <2>2
      <3>2. turn[t].depth + 1 \in 0..5
        <4>1. turn[t].depth \in 0..4
          BY Own DEF Turns
        <4> QED BY <4>1
      <3> HIDE DEF c
      <3> QED BY <1>5, <1>6, <3>1, <3>2, Producing
    <2> QED BY <2>1, <2>2
  <1>9. Shared'
    <2>1. docs' \in [Goals -> [Documents -> Contents \cup {Absent}]]
      BY <1>2, <1>4, TaskIsWritten DEF IInv, Shared
    <2> QED BY <1>1, <1>5, <2>1 DEF IInv, Shared, MarkedIsReworked
  <1> HIDE DEF c
  <1>10. dropping' = [dropping EXCEPT ![t] = D]
    BY <1>1, Own
  <1>11. Local(t)
    BY <1>1, <1>5, <1>6, <1>7, <1>8, <1>10, IsLocal
  <1> QED BY <1>9, <1>11

LEMMA Enters ==
    ASSUME IInv, NEW t \in Threads, Enter(t)
    PROVE  Shared' /\ Local(t)
  <1> DEFINE r == turn[t].rec
             stage == OpenStage(r)
             q == IF stage \in {"implement", "review"} THEN Reopened(r) ELSE r
             D == dropping[t]
  <1>1. /\ turn[t].pc = "entering"
        /\ Produce(t, stage, q, 0)
        /\ IF r # q THEN row' = [row EXCEPT ![t] = q] ELSE UNCHANGED row
        /\ UNCHANGED <<docs, ok, dropping, works, approved, rejected>>
    BY DEF Enter, At, Upsert
  <1>2. /\ Held(r, approved) /\ r # NoRow /\ r.status # "completed"
        /\ Held(row[t], approved) /\ Held(D, approved)
        /\ IsCurrent(row[t]) => row[t] = r
    BY <1>1, Own DEF Threaded
  <1>3. /\ Held(q, approved) /\ q # NoRow /\ q \in Rows
        /\ OpenStage(q) = stage
    <2>1. CASE q = r
      BY <1>2, <2>1 DEF Held
    <2>2. CASE q # r
      <3>1. q = [r EXCEPT !.status = "active"]
        BY <2>2 DEF Reopened
      <3>2. Held(q, approved) /\ q # NoRow /\ q \in Rows
        <4>1. /\ Held([r EXCEPT !.status = "active"], approved)
              /\ [r EXCEPT !.status = "active"] # NoRow
              /\ [r EXCEPT !.status = "active"] \in Rows
          BY <1>2, StatusOnly
        <4> HIDE DEF q
        <4> QED BY <3>1, <4>1
      <3>3. /\ q.status = "active" /\ q.slug = r.slug
            /\ q.task = r.task /\ q.spec = r.spec /\ q.plan = r.plan
        BY <1>2, <3>1 DEF Held, Rows
      <3>4. OpenStage(q) = stage
        <4> HIDE DEF q
        <4> QED BY <1>2, <3>3 DEF OpenStage
      <3> QED BY <3>2, <3>4
    <2> QED BY <2>1, <2>2
  <1>4. PICK R \in Rows : /\ row' = [row EXCEPT ![t] = R] /\ Held(R, approved)
                          /\ IsCurrent(R) => R = q
    <2>1. CASE r # q
      BY <1>1, <1>3, <2>1
    <2>2. CASE r = q
      BY <1>1, <1>2, <2>2, Own
    <2> QED BY <2>1, <2>2
  <1> HIDE DEF q
  <1>5. PICK T \in Turns : /\ turn' = [turn EXCEPT ![t] = T]
                           /\ Threaded(t, R, T, D, approved, rejected)
    <2>1. Produce(t, OpenStage(q), q, 0)
      BY <1>1, <1>3
    <2> QED BY <1>2, <1>3, <1>4, <2>1, Producing
  <1>6. Shared'
    BY <1>1 DEF IInv, Shared, MarkedIsReworked
  <1>7. D \in Rows /\ dropping' = [dropping EXCEPT ![t] = D]
    BY <1>1, Own
  <1> QED BY <1>1, <1>4, <1>5, <1>6, <1>7, IsLocal

LEMMA WritingIsOver ==
    ASSUME IInv, NEW t \in Threads, WritingEnds(t)
    PROVE  Shared' /\ Local(t)
  <1> DEFINE r == turn[t].rec  R == row[t]  D == dropping[t]  stage == turn[t].stage
             T == [NoTurn EXCEPT !.pc = "asking", !.stage = stage, !.rec = r,
                                 !.depth = turn[t].depth]
  <1>1. /\ turn[t].pc = "writing"
        /\ UNCHANGED <<row, docs, ok, dropping, works, approved, rejected>>
    BY DEF WritingEnds, At
  <1>2. /\ Held(r, approved) /\ r # NoRow /\ Fits(r, stage)
        /\ Held(R, approved) /\ Held(D, approved)
        /\ IsCurrent(R) => R = r
    BY <1>1, Own DEF Threaded
  <1>3. turn' = [turn EXCEPT ![t] = T] \/ turn' = [turn EXCEPT ![t] = NoTurn]
    BY <1>2 DEF WritingEnds, Goto, End
  <1>4. T \in Turns /\ T.pc = "asking" /\ T.rec = r /\ T.stage = stage
    <2>1. /\ r \in Rows /\ stage \in Stages \cup {"none"} /\ turn[t].depth \in 0..4
          /\ NoTurn \in Turns
      BY Own, Constants DEF Turns
    <2> QED BY <2>1 DEF Turns
  <1> HIDE DEF T
  <1>5. Threaded(t, R, T, D, approved, rejected)
    BY <1>2, <1>4 DEF Threaded, Building
  <1>6. Threaded(t, R, NoTurn, D, approved, rejected)
    BY <1>2, Resting
  <1>7. PICK U \in {T, NoTurn} : turn' = [turn EXCEPT ![t] = U]
    BY <1>3
  <1>8. U \in Turns /\ Threaded(t, R, U, D, approved, rejected)
    BY <1>4, <1>5, <1>6, <1>7, Constants
  <1>9. Shared'
    BY <1>1 DEF IInv, Shared, MarkedIsReworked
  <1>10. /\ R \in Rows /\ D \in Rows
         /\ row' = [row EXCEPT ![t] = R] /\ dropping' = [dropping EXCEPT ![t] = D]
    BY <1>1, Own
  <1> QED BY <1>1, <1>7, <1>8, <1>9, <1>10, IsLocal

LEMMA Ends ==
    ASSUME IInv, NEW t \in Threads, Revise(t) \/ TurnIsCutOff(t)
    PROVE  Shared' /\ Local(t)
  <1>1. /\ turn' = [turn EXCEPT ![t] = NoTurn]
        /\ UNCHANGED <<row, docs, ok, dropping, works, approved, rejected>>
    BY DEF Revise, TurnIsCutOff, End
  <1>2. Threaded(t, row[t], NoTurn, dropping[t], approved, rejected)
    BY Own, Resting DEF Threaded
  <1>3. Shared'
    BY <1>1 DEF IInv, Shared, MarkedIsReworked
  <1> QED BY <1>1, <1>2, <1>3, Own, Constants, IsLocal

LEMMA Implements ==
    ASSUME IInv, NEW t \in Threads, ImplementingEnds(t)
    PROVE  Shared' /\ Local(t)
  <1> DEFINE R == row[t]  D == dropping[t]  slug == turn[t].rec.slug
  <1>1. /\ turn[t].pc = "implementing"
        /\ ok' = ok \cup {slug}
        /\ rejected' = {p \in rejected : p[2] # slug}
        /\ turn' = [turn EXCEPT ![t].pc = "reviewing"]
        /\ UNCHANGED <<row, docs, dropping, works, approved>>
    BY DEF ImplementingEnds, At
  <1>2. slug \in Goals
    BY <1>1, Own DEF Threaded, Held
  <1>3. PICK T \in Turns : /\ turn' = [turn EXCEPT ![t] = T]
                           /\ T.pc = "reviewing" /\ T.rec = turn[t].rec
    BY <1>1, PlaceOnly
  <1>4. <<t, slug>> \notin rejected'
    BY <1>1
  <1>5. Threaded(t, R, T, D, approved, rejected')
    BY <1>1, <1>3, <1>4, Own DEF Threaded, Building
  <1>6. Shared'
    <2>1. MarkedIsReworked'
      BY <1>1 DEF IInv, Shared, MarkedIsReworked
    <2> QED BY <1>1, <1>2, <2>1 DEF IInv, Shared
  <1>7. /\ R \in Rows /\ D \in Rows
        /\ row' = [row EXCEPT ![t] = R] /\ dropping' = [dropping EXCEPT ![t] = D]
    BY <1>1, Own
  <1> QED BY <1>1, <1>3, <1>5, <1>6, <1>7, IsLocal

LEMMA Reviews ==
    ASSUME IInv, NEW t \in Threads, ReviewingEnds(t)
    PROVE  Shared' /\ Local(t)
  <1> DEFINE r == turn[t].rec
             q == [r EXCEPT !.status = "waiting_user"]
             D == dropping[t]
             T == [NoTurn EXCEPT !.pc = "judging", !.stage = "review", !.rec = q,
                                 !.depth = turn[t].depth]
  <1>1. /\ turn[t].pc = "reviewing"
        /\ UNCHANGED <<docs, ok, dropping, works, approved, rejected>>
        /\ \/ row' = [row EXCEPT ![t] = q] /\ turn' = [turn EXCEPT ![t] = T]
           \/ turn' = [turn EXCEPT ![t] = NoTurn] /\ UNCHANGED row
    BY DEF ReviewingEnds, At, Upsert, Goto, End
  <1>2. /\ Held(r, approved) /\ r # NoRow /\ r.plan # Absent
        /\ <<t, r.slug>> \notin rejected
        /\ Held(row[t], approved) /\ Held(D, approved)
    BY <1>1, Own DEF Threaded, Building
  <1>3. /\ Held(q, approved) /\ q # NoRow /\ q \in Rows
        /\ q.slug = r.slug /\ q.plan = r.plan
    BY <1>2, StatusOnly
  <1> HIDE DEF q
  <1>4. T \in Turns /\ T.pc = "judging" /\ T.rec = q
    <2>1. turn[t].depth \in 0..4 /\ NoTurn \in Turns
      BY Own, Constants DEF Turns
    <2> QED BY <1>3, <2>1 DEF Turns, Stages
  <1> HIDE DEF T
  <1>5. Threaded(t, q, T, D, approved, rejected)
    BY <1>2, <1>3, <1>4 DEF Threaded, Building
  <1>6. Threaded(t, row[t], NoTurn, D, approved, rejected)
    BY <1>2, Resting
  <1>7. Shared'
    BY <1>1 DEF IInv, Shared, MarkedIsReworked
  <1>8. D \in Rows /\ dropping' = [dropping EXCEPT ![t] = D]
    BY <1>1, Own
  <1>9. CASE row' = [row EXCEPT ![t] = q] /\ turn' = [turn EXCEPT ![t] = T]
    BY <1>1, <1>3, <1>4, <1>5, <1>7, <1>8, <1>9, IsLocal
  <1>10. CASE turn' = [turn EXCEPT ![t] = NoTurn] /\ UNCHANGED row
    <2>1. row' = [row EXCEPT ![t] = row[t]] /\ row[t] \in Rows
      BY <1>10, Own
    <2>2. NoTurn \in Turns
      BY Constants
    <2> QED BY <1>1, <1>6, <1>7, <1>8, <1>10, <2>1, <2>2, IsLocal
  <1> QED BY <1>1, <1>9, <1>10

LEMMA AcceptsReview ==
    ASSUME IInv, NEW t \in Threads, AcceptReview(t)
    PROVE  Shared' /\ Local(t)
  <1> DEFINE r == turn[t].rec
             c == Confirmed(r, "review", Absent)
             D == dropping[t]
  <1>1. /\ turn[t].pc = "judging"
        /\ row' = [row EXCEPT ![t] = c]
        /\ turn' = [turn EXCEPT ![t] = NoTurn]
        /\ Approve(r, "review")
        /\ UNCHANGED <<docs, ok, dropping, works, rejected>>
    BY DEF AcceptReview, At, Upsert, End
  <1>2. /\ Held(r, approved) /\ r # NoRow /\ r.plan # Absent /\ Held(D, approved)
        /\ r.slug \in Goals
    BY <1>1, Own DEF Threaded, Building, Held
  <1>3. PICK text : text \in TaskTexts(r.slug)
    BY ComposeAssumption DEF TaskTexts
  <1>4. c = Confirmed(r, "review", text)
    BY DEF Confirmed
  <1>5. /\ Held(c, approved') /\ c \in Rows
        /\ approved \subseteq approved' /\ approved' \subseteq Works \X Documents
    <2>1. /\ Held(Confirmed(r, "review", text), approved')
          /\ approved \subseteq approved' /\ approved' \subseteq Works \X Documents
      BY <1>1, <1>2, <1>3, ConfirmationIsHeld DEF IInv
    <2> HIDE DEF c
    <2> QED BY <1>4, <2>1 DEF Held
  <1> HIDE DEF c
  <1>6. Held(D, approved')
    BY <1>2, <1>5 DEF Held, Backed
  <1>7. Threaded(t, c, NoTurn, D, approved', rejected)
    BY <1>5, <1>6, Resting
  <1>8. Shared'
    BY <1>1, <1>5 DEF IInv, Shared, MarkedIsReworked
  <1>9. D \in Rows /\ dropping' = [dropping EXCEPT ![t] = D]
    BY <1>1, Own
  <1> QED BY <1>1, <1>5, <1>7, <1>8, <1>9, Constants, IsLocal

LEMMA RejectsReview ==
    ASSUME IInv, NEW t \in Threads, RejectReview(t)
    PROVE  Shared' /\ Local(t)
  <1> DEFINE R == row[t]  D == dropping[t]  slug == turn[t].rec.slug
  <1>1. /\ turn[t].pc = "judging"
        /\ ok' = ok \ {slug}
        /\ rejected' = rejected \cup {<<t, slug>>}
        /\ turn' = [turn EXCEPT ![t].pc = "returning"]
        /\ UNCHANGED <<row, docs, dropping, works, approved>>
    BY DEF RejectReview, At
  <1>2. slug \in Goals
    BY <1>1, Own DEF Threaded, Held
  <1>3. PICK T \in Turns : /\ turn' = [turn EXCEPT ![t] = T]
                           /\ T.pc = "returning" /\ T.rec = turn[t].rec
    BY <1>1, PlaceOnly
  <1>4. Threaded(t, R, T, D, approved, rejected')
    BY <1>1, <1>3, Own DEF Threaded, Building
  <1>5. Shared'
    <2>1. MarkedIsReworked'
      BY <1>1 DEF IInv, Shared, MarkedIsReworked
    <2> QED BY <1>1, <1>2, <2>1 DEF IInv, Shared
  <1>6. /\ R \in Rows /\ D \in Rows
        /\ row' = [row EXCEPT ![t] = R] /\ dropping' = [dropping EXCEPT ![t] = D]
    BY <1>1, Own
  <1> QED BY <1>1, <1>3, <1>4, <1>5, <1>6, IsLocal

LEMMA Returns ==
    ASSUME IInv, NEW t \in Threads, ReturnToImplement(t)
    PROVE  Shared' /\ Local(t)
  <1> DEFINE q == [turn[t].rec EXCEPT !.status = "active"]  D == dropping[t]
  <1>1. /\ turn[t].pc = "returning"
        /\ row' = [row EXCEPT ![t] = q]
        /\ turn' = [turn EXCEPT ![t] = NoTurn]
        /\ UNCHANGED <<docs, ok, dropping, works, approved, rejected>>
    BY DEF ReturnToImplement, At, Upsert, End
  <1>2. Held(turn[t].rec, approved) /\ turn[t].rec # NoRow /\ Held(D, approved)
    BY <1>1, Own DEF Threaded
  <1>3. Held(q, approved) /\ q \in Rows
    BY <1>2, StatusOnly
  <1> HIDE DEF q
  <1>4. Threaded(t, q, NoTurn, D, approved, rejected)
    BY <1>2, <1>3, Resting
  <1>5. Shared'
    BY <1>1 DEF IInv, Shared, MarkedIsReworked
  <1>6. D \in Rows /\ dropping' = [dropping EXCEPT ![t] = D]
    BY <1>1, Own
  <1> QED BY <1>1, <1>3, <1>4, <1>5, <1>6, Constants, IsLocal

(* compose.abandon writes a copy of the row that may be stale; it never    *)
(* makes one current.                                                      *)
LEMMA Abandons ==
    ASSUME IInv, NEW t \in Threads,
           AbandonLoads(t) \/ AbandonSaves(t) \/ AbandonIsCutOff(t)
    PROVE  Shared' /\ Local(t)
  <1> DEFINE T == turn[t]
  <1>1. UNCHANGED <<docs, ok, turn, works, approved, rejected>>
    BY DEF AbandonLoads, AbandonSaves, AbandonIsCutOff
  <1>2. Shared'
    BY <1>1 DEF IInv, Shared, MarkedIsReworked
  <1>3. T \in Turns /\ turn' = [turn EXCEPT ![t] = T]
    BY <1>1, Own
  <1>4. Threaded(t, row[t], T, dropping[t], approved, rejected)
    BY Own
  <1>5. ASSUME AbandonLoads(t) PROVE Local(t)
    <2>1. dropping' = [dropping EXCEPT ![t] = row[t]] /\ UNCHANGED row
      BY <1>5 DEF AbandonLoads
    <2>2. Threaded(t, row[t], T, row[t], approved, rejected)
      BY <1>4 DEF Threaded
    <2>3. row[t] \in Rows /\ row' = [row EXCEPT ![t] = row[t]]
      BY <2>1, Own
    <2> QED BY <1>1, <1>3, <2>1, <2>2, <2>3, IsLocal
  <1>6. ASSUME AbandonSaves(t) PROVE Local(t)
    <2> DEFINE R == [dropping[t] EXCEPT !.status = "abandoned"]
    <2>1. /\ dropping[t] # NoRow
          /\ row' = [row EXCEPT ![t] = R]
          /\ dropping' = [dropping EXCEPT ![t] = NoRow]
      BY <1>6 DEF AbandonSaves, Upsert
    <2>2. Held(dropping[t], approved)
      BY <1>4 DEF Threaded
    <2>3. Held(R, approved) /\ R \in Rows /\ R.status = "abandoned"
      BY <2>1, <2>2, StatusOnly
    <2> HIDE DEF R
    <2>4. ~IsCurrent(R)
      BY <2>3 DEF IsCurrent
    <2>5. Threaded(t, R, T, NoRow, approved, rejected)
      BY <1>4, <2>3, <2>4, Constants DEF Threaded
    <2> QED BY <1>1, <1>3, <2>1, <2>3, <2>5, Constants, IsLocal
  <1>7. ASSUME AbandonIsCutOff(t) PROVE Local(t)
    <2>1. dropping' = [dropping EXCEPT ![t] = NoRow] /\ UNCHANGED row
      BY <1>7 DEF AbandonIsCutOff
    <2>2. Threaded(t, row[t], T, NoRow, approved, rejected)
      BY <1>4, Constants DEF Threaded
    <2>3. row[t] \in Rows /\ row' = [row EXCEPT ![t] = row[t]]
      BY <2>1, Own
    <2> QED BY <1>1, <1>3, <2>1, <2>2, <2>3, Constants, IsLocal
  <1> QED BY <1>2, <1>5, <1>6, <1>7

LEMMA Crashes ==
    ASSUME IInv, Crash
    PROVE  IInv'
  <1>1. /\ turn' = [t \in Threads |-> NoTurn]
        /\ dropping' = [t \in Threads |-> NoRow]
        /\ UNCHANGED <<row, docs, ok, works, approved, rejected>>
    BY DEF Crash
  <1>2. Shared'
    BY <1>1 DEF IInv, Shared, MarkedIsReworked
  <1>3. Shaped'
    BY <1>1, Constants DEF IInv, Shaped
  <1>4. ASSUME NEW t \in Threads
        PROVE  Threaded(t, row'[t], turn'[t], dropping'[t], approved', rejected')
    <2>1. Held(row[t], approved)
      BY Own DEF Threaded
    <2>2. Threaded(t, row[t], NoTurn, NoRow, approved, rejected)
      BY <2>1, Constants, Resting
    <2> QED BY <1>1, <2>2
  <1> QED BY <1>2, <1>3, <1>4 DEF IInv

LEMMA Edits ==
    ASSUME IInv, NEW g \in Goals, NEW d \in Documents, NEW text \in Contents \cup {Absent},
           EditDocument(g, d, text)
    PROVE  IInv'
  BY DEF EditDocument, IInv, Shared, Shaped, MarkedIsReworked, Documents

LEMMA InductiveStep == IInv /\ [Next]_vars => IInv'
  <1> SUFFICES ASSUME IInv, [Next]_vars
               PROVE  IInv'
    OBVIOUS
  <1>1. ASSUME NEW t \in Threads,
               \/ \E p \in BOOLEAN : BeginTurn(t, p) \/ \E g \in Goals : BeginSuite(t, g, p)
               \/ BeginAbandon(t)
        PROVE  IInv'
    BY <1>1, Begins, LocalSteps
  <1>2. ASSUME NEW t \in Threads, Proceeds(t)
        PROVE  IInv'
    <2>1. Shared' /\ Local(t)
      BY <1>2, Drops, Creates, WritesTask, EntersProceeding, Enters, WritingIsOver, Accepts,
         Ends, Implements, Reviews, AcceptsReview, RejectsReview, Returns DEF Proceeds
    <2> QED BY <2>1, LocalSteps
  <1>3. ASSUME NEW t \in Threads,
               AbandonLoads(t) \/ AbandonSaves(t) \/ AbandonIsCutOff(t)
        PROVE  IInv'
    BY <1>3, Abandons, LocalSteps
  <1>4. ASSUME NEW t \in Threads, TurnIsCutOff(t)
        PROVE  IInv'
    BY <1>4, Ends, LocalSteps
  <1>5. CASE Crash
    BY <1>5, Crashes
  <1>6. ASSUME NEW g \in Goals, NEW d \in Documents, NEW text \in Contents \cup {Absent},
               EditDocument(g, d, text)
        PROVE  IInv'
    BY <1>6, Edits
  <1>7. CASE UNCHANGED vars
    BY <1>7 DEF vars, IInv, Shared, Shaped, MarkedIsReworked
  <1> QED BY <1>1, <1>2, <1>3, <1>4, <1>5, <1>6, <1>7 DEF Next

LEMMA InvariantHolds == Spec => []IInv
  <1>1. Init => IInv
    <2> SUFFICES ASSUME Init
                 PROVE  IInv
      OBVIOUS
    <2>1. Shared
      BY DEF Init, Shared, MarkedIsReworked, Documents, NoWork
    <2>2. Shaped
      BY Constants DEF Init, Shaped
    <2>3. \A t \in Threads : /\ row[t] = NoRow /\ turn[t] = NoTurn /\ dropping[t] = NoRow
      BY DEF Init
    <2>4. \A t \in Threads : Threaded(t, NoRow, NoTurn, NoRow, approved, rejected)
      BY Constants, Resting
    <2> QED BY <2>1, <2>2, <2>3, <2>4 DEF IInv
  <1> QED BY <1>1, InductiveStep, PTL DEF Spec
-----------------------------------------------------------------------------

(* Every row, every Turn and every pending compose.abandon has its type, and *)
(* a record that is worked with names a suite (ComposeSessionRecord).        *)
THEOREM TypeCorrect == Spec => []TypeOK
  <1>1. ASSUME IInv PROVE TypeOK
    <2>1. \A t \in Threads :
             /\ \A r \in {row[t], turn[t].rec, dropping[t]} :
                   r # NoRow => r.work \in Works /\ r.slug \in Goals /\ r.status # "none"
             /\ turn[t].pc \notin {"idle", "dropping"} => turn[t].rec # NoRow
      BY <1>1, Own DEF Threaded, Held
    <2> QED BY <1>1, <2>1 DEF IInv, Shared, Shaped, TypeOK
  <1> QED BY <1>1, InvariantHolds, PTL

(* No confirmation without the user's, none out of order, and no agent      *)
(* builds an unconfirmed plan (_confirm_open_stage, _open_stage, abandon).   *)
THEOREM UserConfirms == Spec => []OnlyTheUserConfirms
  <1>1. ASSUME IInv PROVE OnlyTheUserConfirms
    BY <1>1, Own DEF Threaded, Held, OnlyTheUserConfirms
  <1> QED BY <1>1, InvariantHolds, PTL

(* A review that was sent back is not followed by completion before an       *)
(* implementation, of whichever Thread (_run_implement_and_review,           *)
(* _clear_implement_ok, is_proceed_message).                                 *)
THEOREM SentBackIsReworked == Spec => RejectedReviewIsReworked
  <1>1. ASSUME IInv, Next, NEW t \in Threads, CompletesUnreworked(t)
        PROVE  FALSE
    <2>1. /\ row'[t] # row[t] /\ row'[t].status = "completed"
          /\ <<t, row'[t].slug>> \in rejected
      BY <1>1 DEF CompletesUnreworked
    <2>2. ASSUME NEW u \in Threads, Local(u), u # t
          PROVE  FALSE
      BY <1>1, <2>1, <2>2 DEF Local, IInv, Shaped
    <2>3. ASSUME UNCHANGED row PROVE FALSE
      BY <2>1, <2>3
    <2>4. ASSUME NEW R, row' = [row EXCEPT ![t] = R]
          PROVE  R.status = "completed" /\ <<t, R.slug>> \in rejected
      BY <1>1, <2>1, <2>4 DEF IInv, Shaped
    <2>5. Threaded(t, row[t], turn[t], dropping[t], approved, rejected)
      BY <1>1, Own
    <2>6. ASSUME Drop(t) PROVE FALSE
      <3>1. row' = [row EXCEPT ![t] = [row[t] EXCEPT !.status = "abandoned"]]
        BY <2>3, <2>6 DEF Drop, Upsert
      <3>2. [row[t] EXCEPT !.status = "abandoned"].status = "abandoned"
        BY <1>1, Own DEF Rows
      <3> QED BY <2>4, <3>1, <3>2
    <2>7. ASSUME Create(t) PROVE FALSE
      <3>1. /\ turn[t].pc = "creating"
            /\ row' = [row EXCEPT ![t] = turn[t].rec]
        BY <2>7 DEF Create, Upsert, At
      <3> QED BY <2>4, <2>5, <3>1 DEF Threaded
    <2>8. ASSUME EnterProceeding(t) PROVE FALSE
      <3> DEFINE r == turn[t].rec
                 stage == OpenStage(r)
      <3>1. /\ turn[t].pc = "entering"
            /\ stage = "grill" \/ IsReady(r.slug, stage)
            /\ Approve(r, stage)
        BY <2>8 DEF EnterProceeding, At
      <3>2. Held(r, approved) /\ r # NoRow /\ r.status # "completed" /\ r.slug \in Goals
        BY <2>5, <3>1 DEF Threaded, Held
      <3>3. stage \in {"grill", "spec", "plan", "review"}
        <4>1. stage \in Stages
          BY <3>2, StageIsNext
        <4> QED BY <3>1, <4>1 DEF Stages, IsReady
      <3>4. /\ stage = "review" => r.plan # Absent /\ r.slug \in ok
            /\ stage # "review" => Fits(r, stage)
        BY <3>2, <3>3, StageIsNext
      <3>5. PICK text \in TaskTexts(r.slug) :
                row' = [row EXCEPT ![t] = Confirmed(r, stage, text)]
        BY <2>8 DEF EnterProceeding, Upsert
      <3>6. /\ Confirmed(r, stage, text).slug = r.slug
            /\ Confirmed(r, stage, text).status
                  = IF stage = "review" THEN "completed" ELSE "active"
        BY <1>1, <3>1, <3>2, <3>3, <3>4, ConfirmationIsHeld DEF IInv
      <3>7. stage = "review" /\ <<t, r.slug>> \in rejected
        BY <2>4, <3>5, <3>6
      <3> QED BY <1>1, <3>4, <3>7 DEF IInv, Shared, MarkedIsReworked
    <2>9. ASSUME Enter(t) PROVE FALSE
      <3> DEFINE r == turn[t].rec
      <3>1. turn[t].pc = "entering" /\ r # Reopened(r)
            /\ row' = [row EXCEPT ![t] = Reopened(r)]
        BY <2>3, <2>9 DEF Enter, At, Upsert
      <3>2. Reopened(r).status = "active"
        BY <1>1, <3>1, Own DEF Reopened, Rows
      <3> QED BY <2>4, <3>1, <3>2
    <2>10. ASSUME Accept(t) PROVE FALSE
      <3> DEFINE r == turn[t].rec
                 stage == turn[t].stage
      <3>1. turn[t].pc = "asking" /\ Approve(r, stage)
        BY <2>10 DEF Accept, At
      <3>2. Held(r, approved) /\ r # NoRow /\ Fits(r, stage)
        BY <2>5, <3>1 DEF Threaded
      <3>3. stage \in {"grill", "spec", "plan"}
        BY <3>2 DEF Fits
      <3>4. PICK text \in TaskTexts(r.slug) :
                row' = [row EXCEPT ![t] = Confirmed(r, stage, text)]
        BY <2>10 DEF Accept, Upsert
      <3>5. Confirmed(r, stage, text).status = "active"
        BY <1>1, <3>1, <3>2, <3>3, ConfirmationIsHeld DEF IInv
      <3> QED BY <2>4, <3>4, <3>5
    <2>11. ASSUME ReviewingEnds(t) PROVE FALSE
      <3>1. row' = [row EXCEPT ![t] = [turn[t].rec EXCEPT !.status = "waiting_user"]]
        BY <2>3, <2>11 DEF ReviewingEnds, Upsert
      <3>2. [turn[t].rec EXCEPT !.status = "waiting_user"].status = "waiting_user"
        BY <1>1, Own DEF Rows
      <3> QED BY <2>4, <3>1, <3>2
    <2>12. ASSUME AcceptReview(t) PROVE FALSE
      <3>1. /\ turn[t].pc = "judging"
            /\ row' = [row EXCEPT ![t] = [turn[t].rec EXCEPT !.status = "completed"]]
        BY <2>12 DEF AcceptReview, At, Upsert, Confirmed
      <3>2. [turn[t].rec EXCEPT !.status = "completed"].slug = turn[t].rec.slug
        BY <1>1, Own DEF Rows
      <3> QED BY <2>4, <2>5, <3>1, <3>2 DEF Threaded
    <2>13. ASSUME ReturnToImplement(t) PROVE FALSE
      <3>1. row' = [row EXCEPT ![t] = [turn[t].rec EXCEPT !.status = "active"]]
        BY <2>13 DEF ReturnToImplement, Upsert
      <3>2. [turn[t].rec EXCEPT !.status = "active"].status = "active"
        BY <1>1, Own DEF Rows
      <3> QED BY <2>4, <3>1, <3>2
    <2>14. ASSUME AbandonSaves(t) PROVE FALSE
      <3>1. row' = [row EXCEPT ![t] = [dropping[t] EXCEPT !.status = "abandoned"]]
        BY <2>14 DEF AbandonSaves, Upsert
      <3>2. [dropping[t] EXCEPT !.status = "abandoned"].status = "abandoned"
        BY <1>1, Own DEF Rows
      <3> QED BY <2>4, <3>1, <3>2
    <2>15. ASSUME NEW u \in Threads, Proceeds(u) PROVE FALSE
      <3>1. Local(u)
        BY <1>1, <2>15, Drops, Creates, WritesTask, EntersProceeding, Enters, WritingIsOver,
           Accepts, Ends, Implements, Reviews, AcceptsReview, RejectsReview, Returns
           DEF Proceeds
      <3>2. u = t
        BY <2>2, <3>1
      <3>3. WriteNewTask(t) \/ WritingEnds(t) \/ Revise(t) \/ ImplementingEnds(t)
               \/ RejectReview(t)
        BY <2>6, <2>7, <2>8, <2>9, <2>10, <2>11, <2>12, <2>13, <2>15, <3>2 DEF Proceeds
      <3>4. UNCHANGED row
        BY <3>3 DEF WriteNewTask, WritingEnds, Revise, ImplementingEnds, RejectReview
      <3> QED BY <2>3, <3>4
    <2>16. ASSUME NEW u \in Threads, AbandonSaves(u) PROVE FALSE
      <3>1. Local(u)
        BY <1>1, <2>16, Abandons
      <3> QED BY <2>2, <2>14, <2>16, <3>1
    <2>17. \/ \E u \in Threads : Proceeds(u) \/ AbandonSaves(u)
           \/ UNCHANGED row
      BY <1>1 DEF Next, BeginTurn, BeginSuite, BeginAbandon, AbandonLoads, AbandonIsCutOff,
                  TurnIsCutOff, Crash, EditDocument
    <2> QED BY <2>3, <2>15, <2>16, <2>17
  <1>2. IInv /\ [Next]_vars => [\A t \in Threads : ~CompletesUnreworked(t)]_vars
    BY <1>1
  <1> QED BY <1>2, InvariantHolds, PTL DEF Spec, RejectedReviewIsReworked
=============================================================================
