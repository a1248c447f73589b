----------------------------- MODULE Questions -----------------------------
(***************************************************************************)
(* Open questions and the ledger's blocked state (lib/messages.js,         *)
(* scanOpenQuestions, with the queries it uses in lib/db.js), on the rows  *)
(* the plan gate reads.  Like a plan's verdict, whether a question is open *)
(* is kept nowhere: it is derived from the rows stored now.                *)
(***************************************************************************)
EXTENDS PlanGate

CONSTANTS
  Askers,   \* who asks questions
  Replies   \* how they are answered: subset of ReplyKinds

(* A message naming the task that lands on some inbox; a type:answer, or a *)
(* message whose ref_id is the question's, that lands anywhere.            *)
ReplyKinds == {"reply", "answer"}

ASSUME QuestionsAssumption == Askers \subseteq Workers /\ Replies \subseteq ReplyKinds

(* Rows that are on the inbox they are addressed to; the others are on the *)
(* status channel, or anywhere.                                            *)
OnInbox(r) == r.type \in {"task", "plan-decision", "reply"}

(* Mutant: an answer counts for the last question of its task alone. *)
Answers_LastOnly(r, q) ==
  /\ r.task = q.task /\ r.id > Latest(OfTask("question", q.task)).id
  /\ \/ OnInbox(r) /\ r.to = q.to
     \/ r.type = "answer"
     \/ r.type = "result" /\ r.sender = q.sender

(* stmtQuestionReply, stmtQuestionAnswerAnywhere, stmtQuestionSelfResult. *)
Answers(r, q) ==
  /\ r.task = q.task /\ r.id > q.id
  /\ \/ OnInbox(r) /\ r.to = q.to
     \/ r.type = "answer"
     \/ r.type = "result" /\ r.sender = q.sender

Open(q)          == \A r \in rows : ~Answers(r, q)
OpenQuestions    == {q \in rows : q.type = "question" /\ Open(q)}
OpenQuestion(t)  == {q \in OpenQuestions : q.task = t}

(* get_task_ledger's last word on a task. *)
ShownState(t) ==
  IF OpenQuestion(t) # {} /\ Result(t) = None /\ LedgerState(t) # "failed"
    THEN "blocked" ELSE LedgerState(t)

----------------------------------------------------------------------------

(* ask: w is the inbox the answer is expected on, the asker's by default. *)
Ask(t, s, w) == Post("question", t, s, w, "none") /\ UNCHANGED gateLive

Reply(t, s, w, kind) == Post(kind, t, s, w, "none") /\ UNCHANGED gateLive

QuestionsNext ==
  \/ Next
  \/ \E t \in Tasks, w \in Workers :
       \/ \E s \in Askers : Ask(t, s, w)
       \/ \E s \in Orchestrators, k \in Replies : Reply(t, s, w, k)

QuestionsSpec == Init /\ [][QuestionsNext]_vars

----------------------------------------------------------------------------

(* A message posted never opens a question once answered, whatever is      *)
(* asked, planned, decided or dispatched; and a task in the ledger goes    *)
(* blocked by a question asked about it alone, or when a reject is lifted  *)
(* that hid one still open.                                                *)
AnswersStand ==
  [][lastId' > lastId =>
       /\ OpenQuestions' \subseteq OpenQuestions \cup Added("question")
       /\ \A t \in Tasks :
            /\ OpenQuestion(t)' # {} /\ \A q \in Added("question") : q.task # t
            /\ InLedger(t) /\ ShownState(t)' = "blocked" /\ ShownState(t) # "blocked"
            => LedgerVerdict(t).state = "rejected" /\ OpenQuestion(t) # {}]_vars
=============================================================================
