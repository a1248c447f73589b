------------------------------ MODULE PlanGate ------------------------------
(***************************************************************************)
(* The plan gate of one gated namespace: lib/tools/sprint.js (planVerdict, *)
(* planApproval, gateLiveId, scanOpenPlans and the ledger's plan states)   *)
(* and the tools that write what it reads (lib/tools/typed.js).  There is  *)
(* no state machine in the broker: every reader derives a task's state     *)
(* from the rows stored now, and the only state kept beside them is the    *)
(* gate-live marker each broker process caches.                            *)
(***************************************************************************)
EXTENDS Integers, FiniteSets

CONSTANTS
  Tasks, Workers,
  Orchestrators,  \* orchestratorNames: whose dispatches and decisions count
  Reviewers,      \* workers whose tasks need no plan unless they say so
  Authors,        \* who posts plans
  Dispatchers,    \* who dispatches tasks, and
  Deciders,       \* who posts plan-decisions
  Values,         \* what clients put in messages, out of AllValues
  SignalTypes,    \* PRUNE_SIGNAL_TYPES
  Losses,         \* how rows go away: subset of LossKinds
  SignalCuts,     \* how far the long cutoff of AutoPrune may have got
  MaxId           \* bound: rows ever inserted

(* A dispatch says plan_required, or leaves it to its scope. *)
DispatchKinds == {"required", "exempt", "medium", "small"}
Decisions     == {"approve", "amend", "reject", "waive"}
Summaries     == {"PASS", "FAIL", "SKIP"}
Progress      == {"working", "handoff"}
AllValues     == DispatchKinds \cup Decisions \cup Summaries \cup Progress
LossKinds     == {"delete", "purge", "prune"}

ASSUME PlanGateAssumption ==
  /\ Values \subseteq AllValues /\ MaxId \in Nat /\ Losses \subseteq LossKinds
  /\ Reviewers \subseteq Workers /\ SignalCuts \subseteq Nat

Names == Workers \cup Orchestrators \cup Authors \cup Dispatchers \cup Deciders

Row == [id : Nat,
        type : {"task", "plan", "plan-decision", "result", "status"}
               \cup {"question", "reply", "answer"},   \* those of Questions
        task : Tasks, sender : Names, to : Workers,
        val : AllValues \cup {"plan", "none"}]

VARIABLES
  rows,       \* the namespace's messages stored now
  lastId,
  gateLive,   \* the cached gate-live marker; 0 before one is found
  firstPlan   \* history: id of the first plan ever posted; 0 when none
vars == <<rows, lastId, gateLive, firstPlan>>

None == [id |-> 0, type |-> "none", task |-> "none", sender |-> "none", to |-> "none",
         val |-> "none"]
Latest(S) == IF S = {} THEN None ELSE CHOOSE r \in S : \A k \in S : k.id <= r.id
First(S)  == IF S = {} THEN None ELSE CHOOSE r \in S : \A k \in S : r.id <= k.id

OfTask(type, t) == {r \in rows : r.type = type /\ r.task = t}

----------------------------------------------------------------------------
(* Deriving the verdict. *)

(* planRequired over a non-empty set of dispatches: the latest explicit    *)
(* value, else the first one's scope.                                      *)
Required(ds) ==
  LET explicit == {d \in ds : d.val \in {"required", "exempt"}}
  IN  IF explicit # {} THEN Latest(explicit).val = "required"
      ELSE First(ds).to \notin Reviewers /\ First(ds).val = "medium"

LatestPlan(t) == Latest(OfTask("plan", t))

(* Mutant: whoever posts a plan-decision decides. *)
LatestDecision_Anyone(t) == Latest(OfTask("plan-decision", t))

(* stmtLatestDecisions / stmtLatestDecisionFor: the orchestrator decides. *)
LatestDecision(t) == Latest({d \in OfTask("plan-decision", t) : d.sender \in Orchestrators})

(* planVerdict. *)
Verdict(plan, dec, author, lastDispatch) ==
  LET own      == IF dec = None \/ dec.sender = author THEN None ELSE dec
      reopened == own # None /\ own.val = "reject" /\ lastDispatch > own.id
      d        == IF reopened THEN None ELSE own
      p        == IF reopened /\ plan.id < lastDispatch THEN None ELSE plan
      rejected == d # None /\ d.val = "reject"
      decided  == IF d # None /\ (rejected \/ d.id > p.id) THEN d ELSE None
      approved == decided # None /\ \/ decided.val = "approve" /\ p # None
                                    \/ decided.val = "waive"
  IN  [state |-> IF rejected THEN "rejected"
                 ELSE IF p # None /\ decided = None THEN "plan-review"
                 ELSE IF approved THEN "approved" ELSE "planning",
       plan |-> p, decided |-> decided]

AuthorOf(plan, worker) == IF plan = None THEN worker ELSE plan.sender

(* gateLiveId: the cached marker, else the first plan on the channel. *)
LiveMarker ==
  LET plans == {r \in rows : r.type = "plan"}
  IN  IF gateLive # 0 THEN gateLive ELSE IF plans = {} THEN 0 ELSE First(plans).id

(* planApproval, from the orchestrator's dispatches only. *)
Trusted(t) == {d \in OfTask("task", t) : d.sender \in Orchestrators}

(* Mutant: the marker is compared with the latest dispatch. *)
Gated_Latest(t) ==
  LET ds == Trusted(t)
  IN  ds # {} /\ LiveMarker # 0 /\ Latest(ds).id >= LiveMarker /\ Required(ds)

Gated(t) ==
  LET ds == Trusted(t)
  IN  ds # {} /\ LiveMarker # 0 /\ First(ds).id >= LiveMarker /\ Required(ds)

GateVerdict(t) ==
  LET ds == Trusted(t)
  IN  Verdict(LatestPlan(t), LatestDecision(t),
              AuthorOf(LatestPlan(t), First(ds).to), Latest(ds).id)

MayPass(t) == ~Gated(t) \/ GateVerdict(t).state = "approved"

----------------------------------------------------------------------------
(* get_task_ledger: one row per task with a dispatch or a result. *)

Dispatches(t) == OfTask("task", t)
Result(t)     == Latest(OfTask("result", t))
Status(t)     == Latest(OfTask("status", t))
InLedger(t)   == Dispatches(t) # {} \/ Result(t) # None

LedgerWorker(t)   == IF Dispatches(t) = {} THEN Result(t).sender ELSE First(Dispatches(t)).to
LedgerRequired(t) == Dispatches(t) # {} /\ Required(Dispatches(t))

(* Mutant: the re-dispatch that reopens a reject is looked for in the first dispatch. *)
LedgerVerdict_First(t) ==
  Verdict(LatestPlan(t), LatestDecision(t), AuthorOf(LatestPlan(t), LedgerWorker(t)),
          IF Dispatches(t) = {} THEN 0 ELSE First(Dispatches(t)).id)

LedgerVerdict(t) ==
  Verdict(LatestPlan(t), LatestDecision(t), AuthorOf(LatestPlan(t), LedgerWorker(t)),
          Latest(Dispatches(t)).id)

LedgerGated(t) ==
  LedgerRequired(t) /\ LiveMarker # 0 /\ First(Dispatches(t)).id >= LiveMarker

(* plan_unapproved: the result is one an unapproved task may not post. *)
Unapproved(t) ==
  /\ Result(t) # None /\ Result(t).val = "PASS"
  /\ LedgerGated(t) /\ LedgerVerdict(t).state # "approved"

Reported(t) ==
  IF Result(t) # None
    THEN CASE Result(t).val = "FAIL" -> "failed"
           [] Result(t).val = "SKIP" -> "skipped"
           [] OTHER -> "done"
  ELSE IF Status(t) = None THEN "pending"
  ELSE IF Status(t).val = "handoff" THEN "handoff" ELSE "in-progress"

LedgerState(t) ==
  LET v == LedgerVerdict(t)
      ordinary == ~LedgerRequired(t) /\ (LatestPlan(t) = None \/ v.plan = None)
      fresh    == Reported(t) = "handoff" /\ Status(t).id > v.decided.id
  IN  IF Result(t) # None THEN (IF Unapproved(t) THEN "failed" ELSE Reported(t))
      ELSE IF ordinary THEN Reported(t)
      ELSE CASE v.state = "plan-review" -> "plan-review"
             [] v.state = "rejected" -> "failed"
             [] v.state = "approved" ->
                  IF Reported(t) = "pending" THEN "in-progress" ELSE Reported(t)
             [] OTHER -> IF fresh THEN "handoff" ELSE "planning"

(* Mutant: any earlier decision takes a plan off the review queue. *)
AwaitingDecision_Any(t) ==
  LET p == LatestPlan(t) d == LatestDecision(t)
  IN  p # None /\ (d = None \/ d.sender = p.sender)
      /\ \A r \in OfTask("result", t) : r.id < p.id

(* scanOpenPlans: plans_awaiting_decision. *)
AwaitingDecision(t) ==
  LET p == LatestPlan(t) d == LatestDecision(t)
  IN  p # None /\ (d = None \/ d.id < p.id \/ d.sender = p.sender)
      /\ \A r \in OfTask("result", t) : r.id < p.id

----------------------------------------------------------------------------
(* Writing. *)

(* Mutant: the row is stored under the last id instead of the next one. *)
Post_LastId(type, t, s, to, val) ==
  /\ lastId < MaxId
  /\ lastId' = lastId + 1
  /\ rows' = rows \cup {[id |-> lastId, type |-> type, task |-> t, sender |-> s,
                         to |-> to, val |-> val]}
  /\ firstPlan' = IF type = "plan" /\ firstPlan = 0 THEN lastId + 1 ELSE firstPlan

Post(type, t, s, to, val) ==
  /\ lastId < MaxId
  /\ lastId' = lastId + 1
  /\ rows' = rows \cup {[id |-> lastId + 1, type |-> type, task |-> t, sender |-> s,
                         to |-> to, val |-> val]}
  /\ firstPlan' = IF type = "plan" /\ firstPlan = 0 THEN lastId + 1 ELSE firstPlan

(* dispatch_task, and a type:task sent with send_message. *)
Dispatch(t, s, w, kind) == Post("task", t, s, w, kind) /\ UNCHANGED gateLive

PostPlan(t, s, w) == Post("plan", t, s, w, "plan") /\ UNCHANGED gateLive

(* decide_plan: for the latest plan and never by its author; a waiver only *)
(* for a task the orchestrator dispatched that has no plan.                *)
DecidePlan(t, s, w, decision) ==
  LET plan == LatestPlan(t)
  IN  /\ IF decision = "waive" THEN plan = None /\ Trusted(t) # {} /\ First(Trusted(t)).to # s
                               ELSE plan # None /\ plan.sender # s
      /\ Post("plan-decision", t, s, w, decision) /\ UNCHANGED gateLive

(* A plan-decision sent with send_message is checked by nobody. *)
SendDecision(t, s, w, decision) ==
  Post("plan-decision", t, s, w, decision) /\ UNCHANGED gateLive

Allowed(t, summary) == summary \in {"FAIL", "SKIP"} \/ MayPass(t)

(* post_result: a PASS asks planApproval, which fills the marker's cache. *)
PostResult(t, w, summary) ==
  /\ Allowed(t, summary)
  /\ Post("result", t, w, w, summary)
  /\ gateLive' = IF summary = "PASS" THEN LiveMarker ELSE gateLive

(* A type:result sent with send_message meets no gate. *)
SendResult(t, w, summary) == Post("result", t, w, w, summary) /\ UNCHANGED gateLive

PostStatus(t, w, progress) == Post("status", t, w, w, progress) /\ UNCHANGED gateLive

(* get_task_ledger, GET /verifications/pending: reads that fill the cache. *)
ReadLedger ==
  /\ \E t \in Tasks : InLedger(t) /\ (LedgerRequired(t) \/ LatestPlan(t) # None)
  /\ gateLive' = LiveMarker
  /\ UNCHANGED <<rows, lastId, firstPlan>>

Restart == gateLive' = 0 /\ UNCHANGED <<rows, lastId, firstPlan>>

----------------------------------------------------------------------------
(* Losing rows (BrokerStore's operations, on this namespace's rows). *)

DeleteRow(r) == rows' = rows \ {r} /\ UNCHANGED <<lastId, gateLive, firstPlan>>

(* purge_channel of the status channel. *)
PurgeStatus(n) ==
  /\ rows' = {r \in rows : r.id > n \/ r.type \notin {"plan", "result", "status", "question"}}
  /\ UNCHANGED <<lastId, gateLive, firstPlan>>

AutoPrune(chatterCut, signalCut) ==
  /\ signalCut <= chatterCut
  /\ rows' = {r \in rows : r.id > IF r.type \in SignalTypes THEN signalCut ELSE chatterCut}
  /\ UNCHANGED <<lastId, gateLive, firstPlan>>

Lose ==
  \/ "delete" \in Losses /\ \E r \in rows : DeleteRow(r)
  \/ "purge" \in Losses /\ \E r \in rows : PurgeStatus(r.id)
  \/ "prune" \in Losses /\ \E r \in rows, m \in SignalCuts : AutoPrune(r.id, m)

----------------------------------------------------------------------------

Init == rows = {} /\ lastId = 0 /\ gateLive = 0 /\ firstPlan = 0

Next ==
  \/ \E t \in Tasks, w \in Workers :
       \/ \E s \in Dispatchers, k \in Values \cap DispatchKinds : Dispatch(t, s, w, k)
       \/ \E s \in Authors : PostPlan(t, s, w)
       \/ \E s \in Deciders, d \in Values \cap Decisions :
            DecidePlan(t, s, w, d) \/ SendDecision(t, s, w, d)
       \/ \E summary \in Values \cap Summaries :
            PostResult(t, w, summary) \/ SendResult(t, w, summary)
       \/ \E p \in Values \cap Progress : PostStatus(t, w, p)
  \/ ReadLedger
  \/ Restart
  \/ Lose

Spec == Init /\ [][Next]_vars

----------------------------------------------------------------------------

(* Every variable has its type; a stored row, the marker and the first     *)
(* plan have ids that were given out.                                      *)
TypeOK ==
  /\ rows \subseteq Row
  /\ lastId \in 0..MaxId /\ gateLive \in 0..lastId /\ firstPlan \in 0..lastId
  /\ \A r \in rows : r.id \in 1..lastId

(* What anyone's type:task changes for the ledger, which reads them all,    *)
(* and not for the gate, which reads the orchestrators'.  A task is taken  *)
(* over when its first dispatch is a peer's: worker, scope and age are     *)
(* then another's.                                                         *)
ByPeer(d)    == d.sender \notin Orchestrators
TakenOver(t) == ByPeer(First(Dispatches(t)))

Relabelled(t) ==
  LET explicit == {d \in Dispatches(t) : d.val \in {"required", "exempt"}}
  IN  explicit # {} /\ ByPeer(Latest(explicit))

ReopenedByPeer(t) ==
  LET last == Latest(Dispatches(t))
  IN  /\ ByPeer(last) /\ LatestDecision(t).val = "reject"
      /\ last.id > LatestDecision(t).id

(* The ledger and post_result, which read different rows through different *)
(* code (:225, :138), judge a task alike but for what a peer's type:task   *)
(* changes: whether its PASS needs an approved plan, unless a peer was the *)
(* first to dispatch it or the last to say plan_required; where its plan   *)
(* stands, unless a peer dispatched it after a reject; and that its plan   *)
(* is approved, whatever peers dispatch.                                   *)
OneRule ==
  \A t \in Tasks : Trusted(t) # {} =>
    /\ LedgerGated(t) = Gated(t) \/ TakenOver(t) \/ Relabelled(t)
    /\ LedgerVerdict(t).state = GateVerdict(t).state \/ TakenOver(t) \/ ReopenedByPeer(t)
    /\ LatestPlan(t) # None =>
         ((LedgerVerdict(t).state = "approved") = (GateVerdict(t).state = "approved"))

(* Without those exceptions, false: there is one rule, and two sets of     *)
(* dispatches it is applied to.                                            *)
OneRuleOneReading ==
  \A t \in Tasks : Trusted(t) # {} =>
    LedgerGated(t) = Gated(t) /\ LedgerVerdict(t).state = GateVerdict(t).state

(* A task first dispatched before any plan was ever posted predates the    *)
(* gate: its PASS is accepted and never marked unapproved, whichever       *)
(* process answers.                                                        *)
HistoryNotRewritten ==
  \A t \in Tasks :
    (\E d \in Trusted(t) : firstPlan = 0 \/ d.id < firstPlan) => MayPass(t) /\ ~Unapproved(t)

(* No plan waits for a decision nobody is told to make, a plan included    *)
(* whose task is shown as blocked by a question instead.                   *)
ReviewQueueComplete ==
  \A t \in Tasks : InLedger(t) /\ LedgerState(t) = "plan-review" => AwaitingDecision(t)

(* What a step added: its one new row, if any. *)
Added(type) == {r \in rows' : r.id > lastId /\ r.type = type}
NewOf(t)    == {r \in rows' : r.id > lastId /\ r.task = t}

(* An orchestrator decides again, or the one whose decision it is turns    *)
(* out to be the plan's author or the task's worker, and nobody decides    *)
(* about their own.                                                        *)
Overrules(r, t) ==
  /\ r.sender \in Orchestrators
  /\ \/ r.type = "plan-decision"
     \/ r.type \in {"plan", "result"} /\ r.sender = LatestDecision(t).sender

(* No message lifts a reject but a dispatch of the task or one that        *)
(* overrules it: no plan, result, status, question, answer or decision of  *)
(* anyone else.  For post_result the dispatch is an orchestrator's; for    *)
(* the ledger it may be anybody's.  (Losing the decision lifts it as well.) *)
RejectStands ==
  [][lastId' > lastId => \A t \in Tasks :
       /\ /\ InLedger(t) /\ LedgerVerdict(t).state = "rejected"
          /\ LedgerVerdict(t)'.state # "rejected"
          => \E r \in NewOf(t) : r.type = "task" \/ Overrules(r, t)
       /\ /\ Trusted(t) # {} /\ GateVerdict(t).state = "rejected"
          /\ GateVerdict(t)'.state # "rejected"
          => \E r \in NewOf(t) : (r.type = "task" /\ ~ByPeer(r)) \/ Overrules(r, t)]_vars

(* As planVerdict's comment has it (:104), false: a reject is terminal     *)
(* until the orchestrator re-dispatches the task.                          *)
RejectIsTerminal ==
  [][\A t \in Tasks :
       (InLedger(t) /\ LedgerVerdict(t).state = "rejected" /\ LedgerVerdict(t)'.state # "rejected") =>
         \E r \in Added("task") : r.task = t /\ r.sender \in Orchestrators]_vars
=============================================================================
