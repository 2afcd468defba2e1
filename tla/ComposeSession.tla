--------------------------- MODULE ComposeSession ---------------------------
(***************************************************************************)
(* The Compose mode of a project: compose/session.py, its row per Thread   *)
(* (threads/compose_progress_store.py), the Run that executes a Turn of it *)
(* (ComposeRunAdapter, host/run_execution.py) and the compose.abandon      *)
(* handler (host/agent_host.py), which may come at any time.               *)
(*                                                                         *)
(* A Turn is one Run, and a Thread has one Run at a time.  It suspends     *)
(* while an agent works, while the user is asked, and at the store.  What  *)
(* agents and the user write into a suite's directory is EditDocument, at  *)
(* any time; which file an agent of which stage writes is left to it.      *)
(* A digest is the text it is the digest of.  fix_rounds and complexity    *)
(* are never changed and revision is never compared here: left out.        *)
(***************************************************************************)
EXTENDS Naturals

CONSTANTS Threads,
          Goals,      \* goal texts, one slug each (make_compose_slug)
          Contents,   \* the texts a document may have
          Absent,     \* no file, or an empty one; and no digest (None)
          NoGoal,
          MaxWorks    \* bound: suites that are started

ASSUME ComposeAssumption ==
    /\ Absent \notin Contents /\ Contents # {}
    /\ NoGoal \notin Goals
    /\ MaxWorks \in Nat

Works == 1..MaxWorks
Documents == {"task", "spec", "plan", "review"}
NoWork == 0

VARIABLES
    row,        \* harness_compose_sessions: the row of each Thread
    docs,       \* docs/compose/<slug>: its documents
    ok,         \* the slugs that have an implement.ok
    turn,       \* the Turn under way of each Thread, with the record it holds
    dropping,   \* the record that a compose.abandon has loaded
    works,      \* how many suites were started
    approved,   \* history: what the user approved of each suite
    rejected    \* history: <<Thread, slug>> of reviews that await rework

vars == <<row, docs, ok, turn, dropping, works, approved, rejected>>

NoRow == [work |-> NoWork, slug |-> NoGoal, status |-> "none",
          task |-> Absent, spec |-> Absent, plan |-> Absent]
NoTurn == [pc |-> "idle", stage |-> "none", rec |-> NoRow, depth |-> 0,
           proceed |-> FALSE]

Init == /\ row = [t \in Threads |-> NoRow]
        /\ docs = [g \in Goals |-> [d \in Documents |-> Absent]]
        /\ ok = {}
        /\ turn = [t \in Threads |-> NoTurn]
        /\ dropping = [t \in Threads |-> NoRow]
        /\ works = 0
        /\ approved = {} /\ rejected = {}

-----------------------------------------------------------------------------
(* The store's load: a settled suite is not a current one.                 *)
IsCurrent(r) == r.status \in {"active", "waiting_user"}

Upsert(t, r) == row' = [row EXCEPT ![t] = r]

(* The first stage that is not confirmed; digests and texts are never      *)
(* compared.                                                               *)
OpenStage(r) ==
    CASE r.status = "completed" -> "review"
      [] r.status # "completed" /\ r.task = Absent -> "grill"
      [] r.status # "completed" /\ r.task # Absent /\ r.spec = Absent -> "spec"
      [] r.status # "completed" /\ r.task # Absent /\ r.spec # Absent
            /\ r.plan = Absent -> "plan"
      [] OTHER -> IF r.slug \in ok THEN "review" ELSE "implement"

Artifact(stage) == IF stage = "grill" THEN "task" ELSE stage
IsReady(slug, stage) ==
    stage # "implement" /\ docs[slug][Artifact(stage)] # Absent

(* _write_task_document: an existing text is kept. *)
TaskTexts(slug) == IF docs[slug]["task"] = Absent THEN Contents ELSE {docs[slug]["task"]}
WriteTask(slug, text) == docs' = [docs EXCEPT ![slug]["task"] = text]

(* _confirm_open_stage: the record that it writes; text is what task.md has. *)
Confirmed(r, stage, text) ==
    CASE stage = "grill" -> [r EXCEPT !.task = text, !.status = "active"]
      [] stage = "spec" -> [r EXCEPT !.spec = docs[r.slug]["spec"], !.status = "active"]
      [] stage = "plan" -> [r EXCEPT !.plan = docs[r.slug]["plan"], !.status = "active"]
      [] stage = "review" -> [r EXCEPT !.status = "completed"]
      [] OTHER -> [r EXCEPT !.status = "active"]

Approve(r, stage) == approved' = approved \cup {<<r.work, Artifact(stage)>>}

At(t, pc) == turn[t].pc = pc
End(t) == turn' = [turn EXCEPT ![t] = NoTurn]
Goto(t, pc, stage, r, depth) ==
    turn' = [turn EXCEPT ![t] = [NoTurn EXCEPT !.pc = pc, !.stage = stage,
                                               !.rec = r, !.depth = depth]]

(* _produce_and_offer_confirm up to its first suspension. *)
Produce(t, stage, r, depth) ==
    IF depth > 4 THEN End(t)
    ELSE IF stage \in {"implement", "review"}
         THEN Goto(t, IF r.slug \in ok THEN "reviewing" ELSE "implementing",
                   stage, r, depth)
         ELSE Goto(t, "writing", stage, r, depth)

(* The status a suite works under: a question left open by an interrupted  *)
(* Turn is taken back.                                                     *)
Reopened(r) == IF r.status = "waiting_user" THEN [r EXCEPT !.status = "active"] ELSE r
-----------------------------------------------------------------------------
(* execute_turn: a message, /new-work with a goal, or /abandon.  Does the  *)
(* text read as an order to proceed (is_proceed_message)?                  *)

BeginTurn(t, proceed) ==
    /\ At(t, "idle") /\ IsCurrent(row[t])
    /\ turn' = [turn EXCEPT ![t] = [NoTurn EXCEPT !.pc = "entering", !.rec = row[t],
                                                  !.proceed = proceed]]
    /\ UNCHANGED <<row, docs, ok, dropping, works, approved, rejected>>

(* A new suite, on /new-work or because there is no current one. *)
BeginSuite(t, goal, proceed) ==
    /\ At(t, "idle")
    /\ works < MaxWorks
    /\ works' = works + 1
    /\ turn' = [turn EXCEPT ![t] = [NoTurn EXCEPT
                    !.pc = IF IsCurrent(row[t]) THEN "dropping" ELSE "creating",
                    !.rec = [NoRow EXCEPT !.work = works', !.slug = goal, !.status = "active"],
                    !.proceed = proceed]]
    /\ UNCHANGED <<row, docs, ok, dropping, approved, rejected>>

BeginAbandon(t) ==
    /\ At(t, "idle")
    /\ turn' = [turn EXCEPT ![t] = [NoTurn EXCEPT !.pc = "dropping"]]
    /\ UNCHANGED <<row, docs, ok, dropping, works, approved, rejected>>

(* abandon of a Turn; it fails when another abandon came first. *)
Drop(t) ==
    /\ At(t, "dropping")
    /\ IF IsCurrent(row[t])
       THEN /\ Upsert(t, [row[t] EXCEPT !.status = "abandoned"])
            /\ IF turn[t].rec = NoRow THEN End(t)
               ELSE turn' = [turn EXCEPT ![t].pc = "creating"]
       ELSE End(t) /\ UNCHANGED row
    /\ UNCHANGED <<docs, ok, dropping, works, approved, rejected>>

(* _create: first the row, whatever it held, ... *)
Create(t) ==
    /\ At(t, "creating")
    /\ Upsert(t, turn[t].rec)
    /\ turn' = [turn EXCEPT ![t].pc = "created"]
    /\ UNCHANGED <<docs, ok, dropping, works, approved, rejected>>

(* ... and then task.md, unless there is one. *)
WriteNewTask(t) ==
    /\ At(t, "created")
    /\ \E text \in TaskTexts(turn[t].rec.slug) : WriteTask(turn[t].rec.slug, text)
    /\ turn' = [turn EXCEPT ![t].pc = "entering"]
    /\ UNCHANGED <<row, ok, dropping, works, approved, rejected>>

(* An order to proceed confirms the open stage when it has its document;   *)
(* the Turn goes on with the stage that is open then.                      *)
EnterProceeding(t) ==
    LET r == turn[t].rec
        stage == OpenStage(r) IN
    /\ At(t, "entering") /\ turn[t].proceed
    /\ stage = "grill" \/ IsReady(r.slug, stage)
    /\ \E text \in TaskTexts(r.slug) :
         LET c == Confirmed(r, stage, text) IN
         /\ Upsert(t, c)
         /\ IF stage = "grill" THEN WriteTask(r.slug, text) ELSE UNCHANGED docs
         /\ Produce(t, OpenStage(c), c, 0)
    /\ Approve(r, stage)
    /\ UNCHANGED <<ok, dropping, works, rejected>>

(* Any other message goes to the agent of the open stage. *)
Enter(t) ==
    LET r == turn[t].rec
        stage == OpenStage(r)
        working == stage \in {"implement", "review"} IN
    /\ At(t, "entering")
    /\ ~(turn[t].proceed /\ (stage = "grill" \/ IsReady(r.slug, stage)))
    /\ Produce(t, stage, IF working THEN Reopened(r) ELSE r, 0)
    /\ IF working /\ r # Reopened(r) THEN Upsert(t, Reopened(r)) ELSE UNCHANGED row
    /\ UNCHANGED <<docs, ok, dropping, works, approved, rejected>>
-----------------------------------------------------------------------------
(* The stages.                                                             *)

(* The agent of a document returns: the row is loaded again, with the      *)
(* Turn's own copy if there is no current one.                             *)
WritingEnds(t) ==
    LET r == IF IsCurrent(row[t]) THEN row[t] ELSE turn[t].rec IN
    /\ At(t, "writing")
    /\ IF IsReady(r.slug, turn[t].stage)
       THEN Goto(t, "asking", turn[t].stage, r, turn[t].depth)
       ELSE End(t)
    /\ UNCHANGED <<row, docs, ok, dropping, works, approved, rejected>>

(* The user confirms the document: its text as it is now, perhaps none. *)
Accept(t) ==
    LET r == turn[t].rec
        stage == turn[t].stage IN
    /\ At(t, "asking")
    /\ \E text \in TaskTexts(r.slug) :
         LET c == Confirmed(r, stage, text) IN
         /\ Upsert(t, c)
         /\ IF stage = "grill" THEN WriteTask(r.slug, text) ELSE UNCHANGED docs
         /\ IF OpenStage(c) = stage THEN End(t)
            ELSE Produce(t, OpenStage(c), c, turn[t].depth + 1)
    /\ Approve(r, stage)
    /\ UNCHANGED <<ok, dropping, works, rejected>>

(* Mutant: the answer "revise" is taken for a confirmation. *)
ReviseConfirms(t) ==
    LET c == Confirmed(turn[t].rec, turn[t].stage, docs[turn[t].rec.slug]["task"]) IN
    /\ At(t, "asking")
    /\ Upsert(t, c)
    /\ End(t)
    /\ UNCHANGED <<docs, ok, dropping, works, approved, rejected>>

Revise(t) ==
    /\ At(t, "asking")
    /\ End(t)
    /\ UNCHANGED <<row, docs, ok, dropping, works, approved, rejected>>

(* The implementing agent returns; a review follows at once. *)
ImplementingEnds(t) ==
    LET slug == turn[t].rec.slug IN
    /\ At(t, "implementing")
    /\ ok' = ok \cup {slug}
    /\ rejected' = {p \in rejected : p[2] # slug}
    /\ turn' = [turn EXCEPT ![t].pc = "reviewing"]
    /\ UNCHANGED <<row, docs, dropping, works, approved>>

(* The reviewing agent returns; a review.md, of whatever round, is offered. *)
ReviewingEnds(t) ==
    LET r == [turn[t].rec EXCEPT !.status = "waiting_user"] IN
    /\ At(t, "reviewing")
    /\ IF IsReady(r.slug, "review")
       THEN Upsert(t, r) /\ Goto(t, "judging", "review", r, turn[t].depth)
       ELSE End(t) /\ UNCHANGED row
    /\ UNCHANGED <<docs, ok, dropping, works, approved, rejected>>

AcceptReview(t) ==
    LET r == turn[t].rec IN
    /\ At(t, "judging")
    /\ Upsert(t, Confirmed(r, "review", Absent))
    /\ End(t)
    /\ Approve(r, "review")
    /\ UNCHANGED <<docs, ok, dropping, works, rejected>>

(* Mutant: a rejected review leaves the mark of the implementation. *)
RejectReviewKeepsMark(t) ==
    /\ At(t, "judging")
    /\ rejected' = rejected \cup {<<t, turn[t].rec.slug>>}
    /\ turn' = [turn EXCEPT ![t].pc = "returning"]
    /\ UNCHANGED <<row, docs, ok, dropping, works, approved>>

(* A rejected review takes the mark away, and then the status back. *)
RejectReview(t) ==
    LET slug == turn[t].rec.slug IN
    /\ At(t, "judging")
    /\ ok' = ok \ {slug}
    /\ rejected' = rejected \cup {<<t, slug>>}
    /\ turn' = [turn EXCEPT ![t].pc = "returning"]
    /\ UNCHANGED <<row, docs, dropping, works, approved>>

(* Mutant: a rejected review starts the implementation in the same Turn. *)
ReturnToImplementAtOnce(t) ==
    LET r == [turn[t].rec EXCEPT !.status = "active"] IN
    /\ At(t, "returning")
    /\ Upsert(t, r)
    /\ Produce(t, OpenStage(r), r, 0)
    /\ UNCHANGED <<docs, ok, dropping, works, approved, rejected>>

ReturnToImplement(t) ==
    /\ At(t, "returning")
    /\ Upsert(t, [turn[t].rec EXCEPT !.status = "active"])
    /\ End(t)
    /\ UNCHANGED <<docs, ok, dropping, works, approved, rejected>>
-----------------------------------------------------------------------------
(* What happens beside a Turn.                                             *)

(* _handle_compose_abandon, whether or not a Turn is under way. *)
AbandonLoads(t) ==
    /\ dropping[t] = NoRow
    /\ IsCurrent(row[t])
    /\ dropping' = [dropping EXCEPT ![t] = row[t]]
    /\ UNCHANGED <<row, docs, ok, turn, works, approved, rejected>>

AbandonSaves(t) ==
    /\ dropping[t] # NoRow
    /\ Upsert(t, [dropping[t] EXCEPT !.status = "abandoned"])
    /\ dropping' = [dropping EXCEPT ![t] = NoRow]
    /\ UNCHANGED <<docs, ok, turn, works, approved, rejected>>

(* The Run is cancelled or fails, or the request is. *)
TurnIsCutOff(t) ==
    /\ ~At(t, "idle")
    /\ End(t)
    /\ UNCHANGED <<row, docs, ok, dropping, works, approved, rejected>>

AbandonIsCutOff(t) ==
    /\ dropping[t] # NoRow
    /\ dropping' = [dropping EXCEPT ![t] = NoRow]
    /\ UNCHANGED <<row, docs, ok, turn, works, approved, rejected>>

Crash ==
    /\ turn' = [t \in Threads |-> NoTurn]
    /\ dropping' = [t \in Threads |-> NoRow]
    /\ UNCHANGED <<row, docs, ok, works, approved, rejected>>

EditDocument(g, d, text) ==
    /\ docs' = [docs EXCEPT ![g][d] = text]
    /\ UNCHANGED <<row, ok, turn, dropping, works, approved, rejected>>

Proceeds(t) ==
    \/ Drop(t) \/ Create(t) \/ WriteNewTask(t) \/ EnterProceeding(t) \/ Enter(t)
    \/ WritingEnds(t) \/ Accept(t) \/ Revise(t)
    \/ ImplementingEnds(t) \/ ReviewingEnds(t)
    \/ AcceptReview(t) \/ RejectReview(t) \/ ReturnToImplement(t)

Next ==
    \/ \E t \in Threads :
         \/ \E p \in BOOLEAN : BeginTurn(t, p) \/ \E g \in Goals : BeginSuite(t, g, p)
         \/ BeginAbandon(t)
         \/ Proceeds(t)
         \/ AbandonLoads(t) \/ AbandonSaves(t)
         \/ TurnIsCutOff(t) \/ AbandonIsCutOff(t)
    \/ Crash
    \/ \E g \in Goals, d \in Documents, text \in Contents \cup {Absent} :
         EditDocument(g, d, text)

Spec == Init /\ [][Next]_vars

(* The event loop runs what is ready; agents return and the user answers   *)
(* (or their Run is cancelled).                                            *)
FairSpec == Spec /\ \A t \in Threads : WF_vars(Proceeds(t))
-----------------------------------------------------------------------------
(* Properties.                                                             *)

Rows == [work : {NoWork} \cup Works, slug : Goals \cup {NoGoal},
         status : {"none", "active", "waiting_user", "completed", "abandoned"},
         task : Contents \cup {Absent}, spec : Contents \cup {Absent},
         plan : Contents \cup {Absent}]
Stages == {"grill", "spec", "plan", "implement", "review"}
Turns == [pc : {"idle", "dropping", "creating", "created", "entering", "writing",
                "asking", "implementing", "reviewing", "judging", "returning"},
          stage : Stages \cup {"none"}, rec : Rows, depth : 0..4, proceed : BOOLEAN]

(* Type correctness; a record that is worked with has a suite. *)
TypeOK ==
    /\ row \in [Threads -> Rows]
    /\ docs \in [Goals -> [Documents -> Contents \cup {Absent}]]
    /\ ok \subseteq Goals
    /\ turn \in [Threads -> Turns]
    /\ dropping \in [Threads -> Rows]
    /\ works \in {NoWork} \cup Works
    /\ approved \subseteq Works \X Documents
    /\ rejected \subseteq Threads \X Goals
    /\ \A t \in Threads :
          /\ \A r \in {row[t], turn[t].rec, dropping[t]} :
                r # NoRow => r.work \in Works /\ r.slug \in Goals /\ r.status # "none"
          /\ turn[t].pc \notin {"idle", "dropping"} => turn[t].rec # NoRow

(* What a record claims is approved by the user, in the order of the       *)
(* stages: a later document is confirmed after the earlier ones.           *)
Backed(r, approvals) ==
    /\ r.task # Absent => <<r.work, "task">> \in approvals
    /\ r.spec # Absent => r.task # Absent /\ <<r.work, "spec">> \in approvals
    /\ r.plan # Absent => r.spec # Absent /\ <<r.work, "plan">> \in approvals
    /\ r.status = "completed" => r.plan # Absent /\ <<r.work, "review">> \in approvals

Building == {"implementing", "reviewing", "judging", "returning"}

(* A suite has only the confirmations that its user gave it, each after    *)
(* those of the stages before, it is completed only by the approval of a   *)
(* review, and agents implement and review only a confirmed plan: whatever *)
(* copies of the row the Turn and a concurrent compose.abandon write back, *)
(* and whatever files an earlier suite of the same goal left.              *)
OnlyTheUserConfirms ==
    \A t \in Threads :
        /\ Backed(row[t], approved)
        /\ turn[t].pc \in Building => turn[t].rec.plan # Absent

(* Once its user has sent a review back, a Thread does not complete the    *)
(* suite before an agent has implemented it anew, in spite of the old      *)
(* review.md, Turns that are cut off at any step, and orders to proceed.   *)
CompletesUnreworked(t) ==
    /\ row'[t] # row[t] /\ row'[t].status = "completed"
    /\ <<t, row'[t].slug>> \in rejected
RejectedReviewIsReworked == [][\A t \in Threads : ~CompletesUnreworked(t)]_vars

(* A Turn ends when agents return and questions are answered: each         *)
(* confirmation opens a later stage, and what is sent back ends the Turn.  *)
TurnsEnd == \A t \in Threads : ~At(t, "idle") ~> At(t, "idle")
=============================================================================
