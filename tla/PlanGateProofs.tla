--------------------------- MODULE PlanGateProofs ---------------------------
(***************************************************************************)
(* Proofs about the plan gate, the ledger and its open questions, for any  *)
(* tasks, people, messages and losses.                                     *)
(*                                                                         *)
(* Verdicts are functions of the rows stored; the invariant says what the  *)
(* rows can be: ids are given out once and upwards, and no plan and no     *)
(* marker is older than the first plan there ever was.                     *)
(***************************************************************************)
EXTENDS Questions, SetLemmas

UniqueIds == \A r, k \in rows : r.id = k.id => r = k

MarkerInv ==
  /\ \A r \in rows : r.type = "plan" => firstPlan # 0 /\ firstPlan <= r.id
  /\ gateLive # 0 => firstPlan # 0 /\ firstPlan <= gateLive

IInv == TypeOK /\ UniqueIds /\ MarkerInv

----------------------------------------------------------------------------
(* The first and the latest row of a set. *)

LEMMA FirstAmong ==
  ASSUME NEW S, S # {}, \A r \in S : r.id \in Nat
  PROVE  First(S) \in S /\ \A k \in S : First(S).id <= k.id
<1>. DEFINE T == {r.id : r \in S}
<1>1. T \in SUBSET Nat /\ T # {}
  OBVIOUS
<1>2. PICK n \in T : \A k \in T : n <= k
  BY <1>1, MinNat
<1>3. PICK r \in S : r.id = n
  BY <1>2
<1>4. \A k \in S : r.id <= k.id
  <2>. TAKE k \in S
  <2>1. k.id \in T
    OBVIOUS
  <2>. QED
    BY <1>2, <1>3, <2>1
<1>. QED
  BY <1>4 DEF First

LEMMA LatestAmong ==
  ASSUME NEW S, S # {}, NEW m \in Int, \A r \in S : r.id \in Int /\ r.id <= m
  PROVE  Latest(S) \in S /\ \A k \in S : k.id <= Latest(S).id
<1>. DEFINE T == {m - r.id : r \in S}
<1>1. T \in SUBSET Nat /\ T # {}
  <2>1. \A r \in S : m - r.id \in Nat
    OBVIOUS
  <2>. QED
    BY <2>1
<1>2. PICK n \in T : \A k \in T : n <= k
  BY <1>1, MinNat
<1>3. PICK r \in S : m - r.id = n
  BY <1>2
<1>4. \A k \in S : k.id <= r.id
  <2>. TAKE k \in S
  <2>1. m - r.id <= m - k.id
    BY <1>2, <1>3
  <2>. QED
    BY <2>1
<1>. QED
  BY <1>4 DEF Latest

LEMMA FirstRow ==
  ASSUME TypeOK, NEW S \in SUBSET rows, S # {}
  PROVE  First(S) \in S /\ \A k \in S : First(S).id <= k.id
<1>1. \A r \in S : r.id \in Nat
  BY DEF TypeOK
<1>. QED
  BY <1>1, FirstAmong

LEMMA LatestRow ==
  ASSUME TypeOK, NEW S \in SUBSET rows, S # {}
  PROVE  Latest(S) \in S /\ \A k \in S : k.id <= Latest(S).id
<1>1. lastId \in Int /\ \A r \in S : r.id \in Int /\ r.id <= lastId
  BY PlanGateAssumption DEF TypeOK
<1>. QED
  BY <1>1, LatestAmong

(* A row is never None, so that the latest of a set is None only when the  *)
(* set is empty.                                                           *)
LEMMA NoRow ==
  ASSUME TypeOK, NEW S \in SUBSET rows
  PROVE  Latest(S) = None <=> S = {}
<1>1. \A r \in S : r.type # "none"
  BY DEF TypeOK, Row
<1>2. None.type = "none"
  BY DEF None
<1>3. S = {} => Latest(S) = None
  BY DEF Latest
<1>4. ASSUME S # {} PROVE Latest(S) # None
  <2>1. Latest(S) \in S
    BY <1>4, LatestRow
  <2>. QED
    BY <2>1, <1>1, <1>2
<1>. QED
  BY <1>3, <1>4

LEMMA OfTaskRows == \A type, t : OfTask(type, t) \in SUBSET rows
BY DEF OfTask

----------------------------------------------------------------------------
(* What a step may do to the rows. *)

Sent(type, s) ==
  \/ type = "task" /\ s \in Dispatchers
  \/ type = "plan" /\ s \in Authors
  \/ type = "plan-decision" /\ s \in Deciders
  \/ type \in {"result", "status"} /\ s \in Workers
  \/ type = "question" /\ s \in Askers
  \/ type \in {"reply", "answer"} /\ s \in Orchestrators

(* A message is posted, *)
Adds ==
  /\ \E type, s, val : \E t \in Tasks, w \in Workers :
        /\ Sent(type, s) /\ val \in AllValues \cup {"plan", "none"}
        /\ Post(type, t, s, w, val)
  /\ gateLive' \in {gateLive, LiveMarker}

(* the marker is found or forgotten, or *)
Rereads ==
  /\ gateLive' \in {0, LiveMarker}
  /\ UNCHANGED <<rows, lastId, firstPlan>>

(* rows go away. *)
Drops == rows' \subseteq rows /\ UNCHANGED <<lastId, gateLive, firstPlan>>

LEMMA StepShapes ==
  ASSUME [QuestionsNext]_vars
  PROVE  Adds \/ Rereads \/ Drops
<1>1. CASE UNCHANGED vars
  BY <1>1 DEF vars, Drops
<1>2. ASSUME NEW t \in Tasks, NEW w \in Workers,
             \/ \E s \in Dispatchers, k \in Values \cap DispatchKinds : Dispatch(t, s, w, k)
             \/ \E s \in Authors : PostPlan(t, s, w)
             \/ \E s \in Deciders, d \in Values \cap Decisions :
                  DecidePlan(t, s, w, d) \/ SendDecision(t, s, w, d)
             \/ \E summary \in Values \cap Summaries :
                  PostResult(t, w, summary) \/ SendResult(t, w, summary)
             \/ \E q \in Values \cap Progress : PostStatus(t, w, q)
             \/ \E s \in Askers : Ask(t, s, w)
             \/ \E s \in Orchestrators, k \in Replies : Reply(t, s, w, k)
      PROVE  Adds
  <2>1. CASE \E s \in Dispatchers, k \in Values \cap DispatchKinds : Dispatch(t, s, w, k)
    BY <2>1, Zenon DEF Dispatch, Adds, Sent, AllValues
  <2>2. CASE \E s \in Authors : PostPlan(t, s, w)
    BY <2>2, Zenon DEF PostPlan, Adds, Sent
  <2>3. CASE \E s \in Deciders, d \in Values \cap Decisions :
               DecidePlan(t, s, w, d) \/ SendDecision(t, s, w, d)
    BY <2>3, Zenon DEF DecidePlan, SendDecision, Adds, Sent, AllValues
  <2>4. CASE \E summary \in Values \cap Summaries :
               PostResult(t, w, summary) \/ SendResult(t, w, summary)
    <3>1. PICK summary \in Values \cap Summaries :
                 PostResult(t, w, summary) \/ SendResult(t, w, summary)
      BY <2>4
    <3>2. Post("result", t, w, w, summary) /\ gateLive' \in {gateLive, LiveMarker}
      BY <3>1 DEF PostResult, SendResult
    <3>3. Sent("result", w) /\ summary \in AllValues
      BY DEF Sent, AllValues
    <3>. QED
      BY <3>2, <3>3, Zenon DEF Adds
  <2>5. CASE \E q \in Values \cap Progress : PostStatus(t, w, q)
    BY <2>5, Zenon DEF PostStatus, Adds, Sent, AllValues
  <2>6. CASE \E s \in Askers : Ask(t, s, w)
    BY <2>6, Zenon DEF Ask, Adds, Sent
  <2>7. CASE \E s \in Orchestrators, k \in Replies : Reply(t, s, w, k)
    <3>1. PICK s \in Orchestrators, k \in Replies : Reply(t, s, w, k)
      BY <2>7
    <3>2. Sent(k, s)
      BY QuestionsAssumption DEF Sent, ReplyKinds
    <3>. QED
      BY <3>1, <3>2, Zenon DEF Reply, Adds
  <2>. QED
    BY <1>2, <2>1, <2>2, <2>3, <2>4, <2>5, <2>6, <2>7
<1>3. CASE ReadLedger \/ Restart
  BY <1>3 DEF ReadLedger, Restart, Rereads
<1>4. CASE Lose
  <2>1. ASSUME NEW r \in rows, DeleteRow(r) PROVE Drops
    BY <2>1 DEF DeleteRow, Drops
  <2>2. ASSUME NEW r \in rows, PurgeStatus(r.id) PROVE Drops
    BY <2>2 DEF PurgeStatus, Drops
  <2>3. ASSUME NEW r \in rows, NEW m \in SignalCuts, AutoPrune(r.id, m) PROVE Drops
    <3>1. rows' \subseteq rows
      BY <2>3, Zenon DEF AutoPrune
    <3>. QED
      BY <3>1, <2>3 DEF AutoPrune, Drops
  <2>. QED
    BY <1>4, <2>1, <2>2, <2>3 DEF Lose
<1>. QED
  BY <1>1, <1>2, <1>3, <1>4, Zenon DEF QuestionsNext, Next

(* A posted row. *)
LEMMA Posted ==
  ASSUME IInv, NEW type, NEW t \in Tasks, NEW s, NEW w \in Workers,
         NEW val \in AllValues \cup {"plan", "none"}, Sent(type, s), Post(type, t, s, w, val)
  PROVE  \E new \in Row :
           /\ rows' = rows \cup {new} /\ new.id = lastId + 1
           /\ new.type = type /\ new.task = t /\ new.sender = s /\ new.to = w /\ new.val = val
           /\ \A r \in rows : r.id < new.id
<1>. DEFINE new == [id |-> lastId + 1, type |-> type, task |-> t, sender |-> s,
                    to |-> w, val |-> val]
<1>1. lastId \in Nat /\ lastId + 1 \in Nat
  BY PlanGateAssumption DEF IInv, TypeOK
<1>2. type \in {"task", "plan", "plan-decision", "result", "status"}
               \cup {"question", "reply", "answer"}
  BY DEF Sent
<1>3. s \in Names
  BY QuestionsAssumption DEF Sent, Names
<1>4. new \in Row
  BY <1>1, <1>2, <1>3 DEF Row
<1>5. \A r \in rows : r.id < lastId + 1
  BY <1>1 DEF IInv, TypeOK
<1>6. rows' = rows \cup {new}
  BY DEF Post
<1>7. /\ new.id = lastId + 1 /\ new.type = type /\ new.task = t /\ new.sender = s
      /\ new.to = w /\ new.val = val
  OBVIOUS
<1>. HIDE DEF new
<1>. QED
  BY <1>4, <1>5, <1>6, <1>7

----------------------------------------------------------------------------
(* The invariant. *)

LEMMA MarkerFound ==
  ASSUME IInv
  PROVE  LiveMarker \in 0..lastId /\ (LiveMarker # 0 => firstPlan # 0 /\ firstPlan <= LiveMarker)
<1>. DEFINE plans == {r \in rows : r.type = "plan"}
<1>1. CASE gateLive # 0
  BY <1>1 DEF LiveMarker, IInv, MarkerInv, TypeOK
<1>2. CASE gateLive = 0 /\ plans = {}
  BY <1>2, PlanGateAssumption DEF LiveMarker, IInv, TypeOK
<1>3. CASE gateLive = 0 /\ plans # {}
  <2>1. First(plans) \in plans
    BY <1>3, FirstRow DEF IInv
  <2>2. LiveMarker = First(plans).id
    BY <1>3 DEF LiveMarker
  <2>3. First(plans).id \in 1..lastId /\ firstPlan # 0 /\ firstPlan <= First(plans).id
    BY <2>1 DEF IInv, MarkerInv, TypeOK
  <2>. QED
    BY <2>2, <2>3, PlanGateAssumption DEF IInv, TypeOK
<1>. QED
  BY <1>1, <1>2, <1>3

LEMMA InitInv == Init => IInv
BY PlanGateAssumption DEF Init, IInv, TypeOK, UniqueIds, MarkerInv

LEMMA AddsInv ==
  ASSUME IInv, Adds
  PROVE  IInv'
<1>1. PICK type, s, val : \E t \in Tasks, w \in Workers :
        /\ Sent(type, s) /\ val \in AllValues \cup {"plan", "none"}
        /\ Post(type, t, s, w, val)
  BY DEF Adds
<1>2. PICK t \in Tasks, w \in Workers :
        /\ Sent(type, s) /\ val \in AllValues \cup {"plan", "none"}
        /\ Post(type, t, s, w, val)
  BY <1>1
<1>3. PICK new \in Row :
        /\ rows' = rows \cup {new} /\ new.id = lastId + 1
        /\ new.type = type /\ new.task = t /\ new.sender = s /\ new.to = w /\ new.val = val
        /\ \A r \in rows : r.id < new.id
  BY <1>2, Posted
<1>4. /\ lastId' = lastId + 1 /\ lastId < MaxId
      /\ firstPlan' = IF type = "plan" /\ firstPlan = 0 THEN lastId + 1 ELSE firstPlan
      /\ gateLive' \in {gateLive, LiveMarker}
  BY <1>2 DEF Post, Adds
<1>5. /\ lastId \in Nat /\ firstPlan \in 0..lastId /\ gateLive \in 0..lastId /\ MaxId \in Nat
      /\ rows \subseteq Row /\ \A r \in rows : r.id \in 1..lastId
  BY PlanGateAssumption DEF IInv, TypeOK
<1>6. gateLive' \in 0..lastId /\ (gateLive' # 0 => firstPlan # 0 /\ firstPlan <= gateLive')
  BY <1>4, <1>5, MarkerFound DEF IInv, MarkerInv
<1>7. TypeOK'
  BY <1>3, <1>4, <1>5, <1>6 DEF TypeOK
<1>8. UniqueIds'
  <2>1. ASSUME NEW r \in rows', NEW k \in rows', r.id = k.id PROVE r = k
    <3>1. CASE r \in rows /\ k \in rows
      BY <2>1, <3>1 DEF IInv, UniqueIds
    <3>2. CASE ~(r \in rows /\ k \in rows)
      BY <1>3, <1>5, <2>1, <3>2
    <3>. QED
      BY <3>1, <3>2
  <2>. QED
    BY <2>1 DEF UniqueIds
<1>9. MarkerInv'
  <2>1. ASSUME NEW r \in rows', r.type = "plan"
        PROVE  firstPlan' # 0 /\ firstPlan' <= r.id
    <3>1. CASE r \in rows
      <4>1. firstPlan # 0 /\ firstPlan <= r.id
        BY <2>1, <3>1 DEF IInv, MarkerInv
      <4>. QED
        BY <4>1, <1>4
    <3>2. CASE r = new
      BY <1>3, <1>4, <1>5, <2>1, <3>2
    <3>. QED
      BY <1>3, <3>1, <3>2
  <2>2. gateLive' # 0 => firstPlan' # 0 /\ firstPlan' <= gateLive'
    BY <1>4, <1>6
  <2>. QED
    BY <2>1, <2>2 DEF MarkerInv
<1>. QED
  BY <1>7, <1>8, <1>9 DEF IInv

LEMMA NextInv == IInv /\ [QuestionsNext]_vars => IInv'
<1>. SUFFICES ASSUME IInv, [QuestionsNext]_vars PROVE IInv'
  OBVIOUS
<1>1. CASE Adds
  BY <1>1, AddsInv
<1>2. CASE Rereads
  <2>1. /\ gateLive' \in 0..lastId
        /\ gateLive' # 0 => firstPlan # 0 /\ firstPlan <= gateLive'
    BY <1>2, MarkerFound, PlanGateAssumption DEF Rereads, IInv, TypeOK
  <2>. QED
    BY <1>2, <2>1 DEF Rereads, IInv, TypeOK, UniqueIds, MarkerInv
<1>3. CASE Drops
  BY <1>3 DEF Drops, IInv, TypeOK, UniqueIds, MarkerInv
<1>. QED
  BY <1>1, <1>2, <1>3, StepShapes

LEMMA AlwaysInv == QuestionsSpec => []IInv
BY InitInv, NextInv, PTL DEF QuestionsSpec

(* Every row is well formed, and its id was given out. *)
THEOREM PlanGateTypeCorrect == QuestionsSpec => []TypeOK
<1>1. IInv => TypeOK
  BY DEF IInv
<1>. QED
  BY AlwaysInv, <1>1, PTL

----------------------------------------------------------------------------
(* What holds of every state. *)

LEMMA FirstBefore ==
  ASSUME IInv, NEW S \in SUBSET rows, NEW d \in S, d.id < LiveMarker
  PROVE  S # {} /\ ~(First(S).id >= LiveMarker)
<1>1. First(S) \in S /\ First(S).id <= d.id
  BY FirstRow DEF IInv
<1>2. First(S).id \in Nat /\ d.id \in Nat /\ LiveMarker \in Int
  BY <1>1, MarkerFound, PlanGateAssumption DEF IInv, TypeOK
<1>. QED
  BY <1>1, <1>2

(* Nothing dispatched before the first plan is ever gated, whatever is     *)
(* removed and however often the broker is restarted.                      *)
THEOREM NeverRewritesHistory == QuestionsSpec => []HistoryNotRewritten
<1>1. ASSUME IInv
      PROVE  HistoryNotRewritten
  <2>. SUFFICES ASSUME NEW t \in Tasks, NEW d \in Trusted(t), firstPlan = 0 \/ d.id < firstPlan
                PROVE  ~Gated(t) /\ ~Unapproved(t)
    BY DEF HistoryNotRewritten, MayPass
  <2>1. Trusted(t) \in SUBSET rows /\ Dispatches(t) \in SUBSET rows /\ d \in Dispatches(t)
    BY DEF Trusted, Dispatches, OfTask
  <2>2. CASE LiveMarker = 0
    BY <2>2 DEF Gated, Unapproved, LedgerGated
  <2>3. CASE LiveMarker # 0
    <3>1. d.id < LiveMarker
      <4>1. firstPlan # 0 /\ firstPlan <= LiveMarker /\ d.id < firstPlan
        BY <2>3, <1>1, MarkerFound
      <4>2. d.id \in Nat /\ LiveMarker \in Int /\ firstPlan \in Int
        BY <2>1, <1>1, MarkerFound, PlanGateAssumption DEF IInv, TypeOK
      <4>. QED
        BY <4>1, <4>2
    <3>2. ~(First(Trusted(t)).id >= LiveMarker) /\ ~(First(Dispatches(t)).id >= LiveMarker)
      BY <1>1, <2>1, <3>1, FirstBefore
    <3>. QED
      BY <3>2 DEF Gated, Unapproved, LedgerGated
  <2>. QED
    BY <2>2, <2>3
<1>. QED
  BY AlwaysInv, <1>1, PTL

(* The review queue is complete: the ledger shows no plan under review     *)
(* that the queue does not list.                                           *)
THEOREM ReviewQueueAlwaysComplete == QuestionsSpec => []ReviewQueueComplete
<1>1. ASSUME IInv, NEW t \in Tasks, LedgerState(t) = "plan-review"
      PROVE  AwaitingDecision(t)
  <2>. DEFINE plan == LatestPlan(t)
              dec  == LatestDecision(t)
              last == Latest(Dispatches(t)).id
              v    == LedgerVerdict(t)
  <2>1. OfTask("result", t) \in SUBSET rows /\ OfTask("plan", t) \in SUBSET rows
    BY OfTaskRows
  <2>2. Result(t) = None
    BY <1>1 DEF LedgerState, Reported
  <2>3. OfTask("result", t) = {}
    BY <1>1, <2>1, <2>2, NoRow DEF Result, IInv
  <2>4. v.state = "plan-review"
    BY <1>1, <2>2 DEF LedgerState, Reported
  <2>5. v = Verdict(plan, dec, AuthorOf(plan, LedgerWorker(t)), last)
    BY DEF LedgerVerdict
  <2>. DEFINE own == IF dec = None \/ dec.sender = AuthorOf(plan, LedgerWorker(t)) THEN None ELSE dec
              reopened == own # None /\ own.val = "reject" /\ last > own.id
              d == IF reopened THEN None ELSE own
              p == IF reopened /\ plan.id < last THEN None ELSE plan
  <2>. DEFINE rejected == d # None /\ d.val = "reject"
              decided  == IF d # None /\ (rejected \/ d.id > p.id) THEN d ELSE None
  <2>6. p # None /\ (d # None => ~(d.val = "reject") /\ ~(d.id > p.id))
    <3>. DEFINE approved == decided # None /\ \/ decided.val = "approve" /\ p # None
                                              \/ decided.val = "waive"
                state == IF rejected THEN "rejected"
                         ELSE IF p # None /\ decided = None THEN "plan-review"
                         ELSE IF approved THEN "approved" ELSE "planning"
    <3>0. Verdict(plan, dec, AuthorOf(plan, LedgerWorker(t)), last)
            = [state |-> state, plan |-> p, decided |-> decided]
      BY Zenon DEF Verdict
    <3>. HIDE DEF rejected, decided, approved, p, plan, dec, last
    <3>1. v.state = IF rejected THEN "rejected"
                    ELSE IF p # None /\ decided = None THEN "plan-review"
                    ELSE IF approved THEN "approved" ELSE "planning"
      BY <2>5, <3>0
    <3>2. ~rejected /\ p # None /\ decided = None
      BY <2>4, <3>1
    <3>. QED
      BY <3>2 DEF rejected, decided
  <2>7. plan # None /\ p = plan /\ (reopened => ~(plan.id < last))
    BY <2>6
  <2>8. plan \in OfTask("plan", t) /\ plan.id \in Nat
    <3>1. OfTask("plan", t) # {}
      BY <1>1, <2>1, <2>7, NoRow DEF LatestPlan, IInv
    <3>2. plan \in OfTask("plan", t)
      BY <1>1, <2>1, <3>1, LatestRow DEF LatestPlan, IInv
    <3>. QED
      BY <1>1, <2>1, <3>2 DEF IInv, TypeOK
  <2>9. CASE dec = None
    BY <2>3, <2>7, <2>9 DEF AwaitingDecision
  <2>10. CASE dec # None /\ dec.sender = AuthorOf(plan, LedgerWorker(t))
    <3>1. dec.sender = plan.sender
      BY <2>7, <2>10 DEF AuthorOf
    <3>. QED
      BY <2>3, <2>7, <3>1 DEF AwaitingDecision
  <2>11. CASE dec # None /\ dec.sender # AuthorOf(plan, LedgerWorker(t))
    <3>. DEFINE ds == {r \in OfTask("plan-decision", t) : r.sender \in Orchestrators}
    <3>1. ds \in SUBSET rows /\ dec = Latest(ds)
      BY DEF OfTask, LatestDecision
    <3>2. dec \in ds
      BY <1>1, <2>11, <3>1, NoRow, LatestRow DEF IInv
    <3>3. dec \in rows /\ dec.type = "plan-decision" /\ dec.id \in Nat
      BY <1>1, <3>2 DEF OfTask, IInv, TypeOK
    <3>4. dec.id # plan.id
      <4>1. plan \in rows /\ plan.type = "plan"
        BY <2>8 DEF OfTask
      <4>. QED
        BY <1>1, <3>3, <4>1 DEF IInv, UniqueIds
    <3>5. own = dec
      BY <2>11
    <3>6. last \in Int
      <4>1. Dispatches(t) \in SUBSET rows
        BY DEF Dispatches, OfTask
      <4>2. CASE Dispatches(t) = {}
        BY <4>2 DEF Latest, None
      <4>3. CASE Dispatches(t) # {}
        BY <1>1, <4>1, <4>3, LatestRow DEF IInv, TypeOK
      <4>. QED
        BY <4>2, <4>3
    <3>7. dec.id < plan.id
      <4>1. CASE reopened
        <5>1. last > dec.id /\ ~(plan.id < last)
          BY <2>7, <3>5, <4>1
        <5>. QED
          BY <5>1, <2>8, <3>3, <3>6
      <4>2. CASE ~reopened
        <5>1. ~(dec.id > plan.id)
          BY <2>6, <2>7, <2>11, <3>5, <4>2
        <5>. QED
          BY <5>1, <2>8, <3>3, <3>4
      <4>. QED
        BY <4>1, <4>2
    <3>. QED
      BY <2>3, <2>7, <3>7 DEF AwaitingDecision
  <2>. QED
    BY <2>9, <2>10, <2>11
<1>2. IInv => ReviewQueueComplete
  BY <1>1 DEF ReviewQueueComplete
<1>. QED
  BY AlwaysInv, <1>2, PTL

----------------------------------------------------------------------------
(* One rule. *)

(* What is first, or latest, of all is so of those it is among. *)
LEMMA SameFirst ==
  ASSUME IInv, NEW T \in SUBSET rows, NEW S \in SUBSET T, S # {}, First(T) \in S
  PROVE  First(S) = First(T)
<1>1. First(S) \in rows /\ First(S).id <= First(T).id /\ First(T).id <= First(S).id
  BY FirstRow DEF IInv
<1>2. First(S).id \in Nat /\ First(T).id \in Nat
  BY <1>1 DEF IInv, TypeOK
<1>. QED
  BY <1>1, <1>2 DEF IInv, UniqueIds

LEMMA SameLatest ==
  ASSUME IInv, NEW T \in SUBSET rows, NEW S \in SUBSET T, S # {}, Latest(T) \in S
  PROVE  Latest(S) = Latest(T)
<1>1. Latest(S) \in rows /\ Latest(S).id <= Latest(T).id /\ Latest(T).id <= Latest(S).id
  BY LatestRow DEF IInv
<1>2. Latest(S).id \in Nat /\ Latest(T).id \in Nat
  BY <1>1 DEF IInv, TypeOK
<1>. QED
  BY <1>1, <1>2 DEF IInv, UniqueIds

(* The last dispatch matters to a verdict by reopening a reject, and only  *)
(* so.                                                                     *)
LEMMA VerdictSame ==
  ASSUME NEW plan, NEW dec, NEW author, NEW l, NEW m,
         dec.val = "reject" => ~(l > dec.id) /\ ~(m > dec.id)
  PROVE  Verdict(plan, dec, author, l) = Verdict(plan, dec, author, m)
<1>. DEFINE own == IF dec = None \/ dec.sender = author THEN None ELSE dec
<1>1. /\ ~(own # None /\ own.val = "reject" /\ l > own.id)
      /\ ~(own # None /\ own.val = "reject" /\ m > own.id)
  OBVIOUS
<1>. QED
  BY <1>1 DEF Verdict

(* Whether a plan is approved does not depend on the last dispatch. *)
LEMMA ApprovedVerdict ==
  ASSUME NEW plan, NEW dec, NEW author, NEW last
  PROVE  Verdict(plan, dec, author, last).state = "approved"
           <=> /\ dec # None /\ dec.sender # author /\ dec.id > plan.id
               /\ (dec.val = "approve" /\ plan # None) \/ dec.val = "waive"
<1>1. CASE dec = None \/ dec.sender = author
  BY <1>1 DEF Verdict
<1>2. CASE dec # None /\ dec.sender # author /\ dec.val = "reject" /\ last > dec.id
  BY <1>2 DEF Verdict
<1>3. CASE dec # None /\ dec.sender # author /\ dec.val = "reject" /\ ~(last > dec.id)
  BY <1>3 DEF Verdict
<1>4. CASE dec # None /\ dec.sender # author /\ dec.val # "reject"
  BY <1>4 DEF Verdict
<1>. QED
  BY <1>1, <1>2, <1>3, <1>4

LEMMA DecisionRow ==
  ASSUME IInv, NEW t
  PROVE  /\ LatestDecision(t) # None =>
              /\ LatestDecision(t) \in OfTask("plan-decision", t)
              /\ LatestDecision(t).sender \in Orchestrators
         /\ LatestDecision(t).id \in Nat
<1>. DEFINE ds == {d \in OfTask("plan-decision", t) : d.sender \in Orchestrators}
<1>1. ds \in SUBSET rows /\ LatestDecision(t) = Latest(ds)
  BY DEF OfTask, LatestDecision
<1>2. CASE ds = {}
  BY <1>1, <1>2, NoRow DEF IInv, Latest, None
<1>3. CASE ds # {}
  <2>1. Latest(ds) \in ds
    BY <1>1, <1>3, LatestRow DEF IInv
  <2>. QED
    BY <1>1, <2>1 DEF IInv, TypeOK
<1>. QED
  BY <1>2, <1>3

(* The ledger and post_result come to one verdict on every task, but for   *)
(* what a peer's type:task changes, whoever dispatches: the first dispatch *)
(* the ledger sees, the last plan_required, and the dispatch after a       *)
(* reject.  A plan the one holds approved, the other does.                 *)
THEOREM LedgerAndGateAgree == QuestionsSpec => []OneRule
<1>1. ASSUME IInv, NEW t \in Tasks, Trusted(t) # {}
      PROVE  /\ LedgerGated(t) = Gated(t) \/ TakenOver(t) \/ Relabelled(t)
             /\ LedgerVerdict(t).state = GateVerdict(t).state \/ TakenOver(t) \/ ReopenedByPeer(t)
             /\ LatestPlan(t) # None =>
                  ((LedgerVerdict(t).state = "approved") = (GateVerdict(t).state = "approved"))
  <2>. DEFINE all == Dispatches(t)
              own == Trusted(t)
  <2>1. /\ all \in SUBSET rows /\ own \in SUBSET all /\ own # {} /\ all # {}
        /\ \A d \in all : ~ByPeer(d) => d \in own
    BY <1>1 DEF Dispatches, Trusted, OfTask, ByPeer
  <2>2. First(all) \in all /\ Latest(all) \in all /\ Latest(own) \in own
        /\ Latest(own).id <= Latest(all).id
    <3>1. own \in SUBSET rows
      BY <2>1
    <3>. QED
      BY <1>1, <2>1, <3>1, FirstRow, LatestRow DEF IInv
  <2>3. ~TakenOver(t) => First(own) = First(all)
    BY <1>1, <2>1, <2>2, SameFirst DEF TakenOver
  <2>. DEFINE said(ds) == {d \in ds : d.val \in {"required", "exempt"}}
  <2>4. ~Relabelled(t) => /\ said(own) = {} <=> said(all) = {}
                          /\ said(all) # {} => Latest(said(own)) = Latest(said(all))
    <3>1. said(all) \in SUBSET rows /\ said(own) \in SUBSET said(all)
      BY <2>1
    <3>2. ASSUME ~Relabelled(t), said(all) # {}
          PROVE  Latest(said(all)) \in said(own)
      <4>1. Latest(said(all)) \in said(all)
        BY <1>1, <3>1, <3>2, LatestRow DEF IInv
      <4>2. ~ByPeer(Latest(said(all)))
        BY <3>2 DEF Relabelled
      <4>. QED
        BY <2>1, <4>1, <4>2
    <3>. HIDE DEF said
    <3>. QED
      BY <1>1, <3>1, <3>2, SameLatest
  <2>. HIDE DEF said
  <2>5. ASSUME ~TakenOver(t), ~Relabelled(t)
        PROVE  LedgerGated(t) = Gated(t)
    <3>1. Required(all) <=> Required(own)
      BY <2>3, <2>4, <2>5 DEF Required, said
    <3>2. LedgerGated(t) <=> Gated(t)
      BY <2>1, <2>3, <2>5, <3>1 DEF LedgerGated, LedgerRequired, Gated
    <3>3. LedgerGated(t) \in BOOLEAN /\ Gated(t) \in BOOLEAN
      BY DEF LedgerGated, Gated
    <3>. QED
      BY <3>2, <3>3
  <2>. DEFINE plan == LatestPlan(t)
              dec  == LatestDecision(t)
  <2>6. LedgerVerdict(t) = Verdict(plan, dec, AuthorOf(plan, LedgerWorker(t)), Latest(all).id)
    BY DEF LedgerVerdict
  <2>7. GateVerdict(t) = Verdict(plan, dec, AuthorOf(plan, First(own).to), Latest(own).id)
    BY DEF GateVerdict
  <2>8. /\ Latest(all).id \in Nat /\ Latest(own).id \in Nat /\ dec.id \in Nat
        /\ LedgerWorker(t) = First(all).to
    <3>1. \A r \in rows : r.id \in Nat
      BY <1>1 DEF IInv, TypeOK
    <3>2. LedgerWorker(t) = First(all).to
      BY <2>1 DEF LedgerWorker
    <3>. QED
      BY <1>1, <2>1, <2>2, <3>1, <3>2, DecisionRow
  <2>. HIDE DEF all, own, plan, dec
  <2>9. ASSUME ~TakenOver(t), ~ReopenedByPeer(t)
        PROVE  LedgerVerdict(t) = GateVerdict(t)
    <3>1. CASE ~ByPeer(Latest(all))
      <4>1. Latest(own) = Latest(all)
        BY <1>1, <2>1, <2>2, <3>1, SameLatest
      <4>. QED
        BY <2>3, <2>6, <2>7, <2>8, <2>9, <4>1
    <3>2. CASE ByPeer(Latest(all))
      <4>1. dec.val = "reject" => ~(Latest(all).id > dec.id)
        BY <2>9, <3>2 DEF ReopenedByPeer, all, dec
      <4>2. dec.val = "reject" => ~(Latest(own).id > dec.id)
        BY <2>2, <2>8, <4>1
      <4>. QED
        BY <2>3, <2>6, <2>7, <2>8, <2>9, <4>1, <4>2, VerdictSame
    <3>. QED
      BY <3>1, <3>2
  <2>10. plan # None =>
           ((LedgerVerdict(t).state = "approved") = (GateVerdict(t).state = "approved"))
    <3>. SUFFICES ASSUME plan # None
                  PROVE  LedgerVerdict(t).state = "approved" <=> GateVerdict(t).state = "approved"
      OBVIOUS
    <3>1. /\ LedgerVerdict(t) = Verdict(plan, dec, plan.sender, Latest(all).id)
          /\ GateVerdict(t) = Verdict(plan, dec, plan.sender, Latest(own).id)
      BY <2>6, <2>7 DEF AuthorOf
    <3>. QED
      BY <3>1, ApprovedVerdict
  <2>. QED
    BY <2>5, <2>9, <2>10 DEF plan
<1>2. IInv => OneRule
  BY <1>1 DEF OneRule
<1>. QED
  BY AlwaysInv, <1>2, PTL

----------------------------------------------------------------------------
(* What no step does. *)

(* When a decision counts as a reject. *)
LEMMA RejectedVerdict ==
  ASSUME NEW plan, NEW dec, NEW author, NEW last
  PROVE  Verdict(plan, dec, author, last).state = "rejected"
           <=> dec # None /\ dec.sender # author /\ dec.val = "reject" /\ ~(last > dec.id)
<1>1. CASE dec = None \/ dec.sender = author
  BY <1>1 DEF Verdict
<1>2. CASE dec # None /\ dec.sender # author /\ dec.val = "reject" /\ ~(last > dec.id)
  BY <1>2 DEF Verdict
<1>3. CASE dec # None /\ dec.sender # author /\ dec.val = "reject" /\ last > dec.id
  BY <1>3 DEF Verdict
<1>4. CASE dec # None /\ dec.sender # author /\ dec.val # "reject"
  BY <1>4 DEF Verdict
<1>. QED
  BY <1>1, <1>2, <1>3, <1>4

LedgerRows ==
  \A t \in Tasks : /\ Result(t) # None <=> OfTask("result", t) # {}
                   /\ LedgerState(t) # "blocked"

LEMMA LedgerHasRows == IInv => LedgerRows
<1>. SUFFICES ASSUME IInv, NEW t \in Tasks
              PROVE  /\ Result(t) # None <=> OfTask("result", t) # {}
                     /\ LedgerState(t) # "blocked"
  BY DEF LedgerRows
<1>1. Result(t) # None <=> OfTask("result", t) # {}
  BY NoRow, OfTaskRows DEF Result, IInv
<1>2. Reported(t) # "blocked"
  BY DEF Reported
<1>. QED
  BY <1>1, <1>2 DEF LedgerState

(* A row that was not there before has a new id. *)
LEMMA NewRows ==
  ASSUME IInv, [QuestionsNext]_vars
  PROVE  \A r \in rows' : r \in rows \/ r.id > lastId
<1>1. CASE Adds
  <2>1. PICK type, s, val : \E t \in Tasks, w \in Workers :
          /\ Sent(type, s) /\ val \in AllValues \cup {"plan", "none"}
          /\ Post(type, t, s, w, val)
    BY <1>1 DEF Adds
  <2>2. PICK t \in Tasks, w \in Workers :
          /\ Sent(type, s) /\ val \in AllValues \cup {"plan", "none"}
          /\ Post(type, t, s, w, val)
    BY <2>1
  <2>3. PICK new \in Row : rows' = rows \cup {new} /\ new.id = lastId + 1
    BY <2>2, Posted
  <2>4. lastId + 1 > lastId
    BY PlanGateAssumption DEF IInv, TypeOK
  <2>. QED
    BY <2>3, <2>4
<1>2. CASE Rereads \/ Drops
  BY <1>2 DEF Rereads, Drops
<1>. QED
  BY <1>1, <1>2, StepShapes

(* A message posted takes none away. *)
LEMMA PostKeepsRows ==
  ASSUME IInv, [QuestionsNext]_vars, lastId' > lastId
  PROVE  rows \subseteq rows'
<1>1. lastId \in Nat
  BY PlanGateAssumption DEF IInv, TypeOK
<1>2. Adds
  BY <1>1, StepShapes DEF Rereads, Drops
<1>. QED
  BY <1>2 DEF Adds, Post

(* Without loss, the rows about a task are those there were and the new. *)
LEMMA OfTaskGrows ==
  ASSUME IInv, [QuestionsNext]_vars, rows \subseteq rows', NEW t, NEW type
  PROVE  /\ OfTask(type, t) \in SUBSET rows /\ OfTask(type, t)' \in SUBSET rows'
         /\ OfTask(type, t) \subseteq OfTask(type, t)'
         /\ \A r \in OfTask(type, t)' :
              r \in OfTask(type, t) \/ (r \in NewOf(t) /\ r.type = type)
BY NewRows DEF OfTask, NewOf

(* The latest row of a set that grows is the one it was, or is new. *)
LEMMA LatestGrows ==
  ASSUME IInv, IInv', NEW S \in SUBSET rows, NEW T \in SUBSET rows', S \subseteq T,
         \A r \in T : r \in S \/ r.id > lastId, Latest(T) # Latest(S)
  PROVE  Latest(T) \in T \ S
<1>1. T # {}
  OBVIOUS
<1>2. lastId' \in Int /\ \A r \in T : r.id \in Int /\ r.id <= lastId'
  BY PlanGateAssumption DEF IInv, TypeOK
<1>3. Latest(T) \in T /\ \A k \in T : k.id <= Latest(T).id
  BY <1>1, <1>2, LatestAmong
<1>4. ASSUME Latest(T) \in S PROVE FALSE
  <2>1. Latest(S) \in S /\ Latest(T).id <= Latest(S).id
    BY <1>4, LatestRow DEF IInv
  <2>2. Latest(S).id <= Latest(T).id
    BY <1>3, <2>1
  <2>3. Latest(S).id = Latest(T).id
    BY <1>2, <1>3, <2>1, <2>2
  <2>. QED
    BY <1>4, <2>1, <2>3 DEF IInv, UniqueIds
<1>. QED
  BY <1>3, <1>4

(* A reject holds on, and is not about its author's own, while nobody      *)
(* overrules it.                                                           *)
LEMMA DecisionKept ==
  ASSUME IInv, IInv', [QuestionsNext]_vars, rows \subseteq rows', NEW t,
         LatestDecision(t) # None, \A r \in NewOf(t) : ~Overrules(r, t),
         NEW worker, NEW worker2,
         worker2 = worker \/ worker2 # LatestDecision(t).sender,
         AuthorOf(LatestPlan(t), worker) # LatestDecision(t).sender
  PROVE  /\ LatestDecision(t)' = LatestDecision(t)
         /\ AuthorOf(LatestPlan(t)', worker2) # LatestDecision(t).sender
<1>. DEFINE dec == LatestDecision(t)
<1>1. LatestDecision(t)' = LatestDecision(t)
  <2>. DEFINE S == {d \in OfTask("plan-decision", t) : d.sender \in Orchestrators}
              T == {d \in OfTask("plan-decision", t)' : d.sender \in Orchestrators}
  <2>1. \A r \in T : r \in S
    BY OfTaskGrows DEF Overrules
  <2>2. S \in SUBSET rows /\ T = S
    BY <2>1, OfTaskGrows
  <2>. QED
    BY <2>2 DEF LatestDecision
<1>2. dec.sender \in Orchestrators
  BY DecisionRow
<1>3. LatestPlan(t)' # LatestPlan(t) =>
        LatestPlan(t)' \in NewOf(t) /\ LatestPlan(t)'.type = "plan"
  <2>. DEFINE S == OfTask("plan", t)
              T == OfTask("plan", t)'
  <2>1. /\ S \in SUBSET rows /\ T \in SUBSET rows' /\ S \subseteq T
        /\ \A r \in T : r \in S \/ (r \in NewOf(t) /\ r.type = "plan")
    BY OfTaskGrows
  <2>2. \A r \in T : r \in S \/ r.id > lastId
    BY <2>1 DEF NewOf
  <2>3. LatestPlan(t) = Latest(S) /\ LatestPlan(t)' = Latest(T)
    BY DEF LatestPlan
  <2>. HIDE DEF S, T
  <2>. QED
    BY <2>1, <2>2, <2>3, LatestGrows
<1>4. CASE LatestPlan(t)' # LatestPlan(t)
  <2>1. LatestPlan(t)'.sender # dec.sender
    BY <1>2, <1>3, <1>4 DEF Overrules
  <2>2. LatestPlan(t)' # None
    BY <1>3, <1>4 DEF None
  <2>. QED
    BY <1>1, <2>1, <2>2 DEF AuthorOf
<1>5. CASE LatestPlan(t)' = LatestPlan(t)
  BY <1>1, <1>5 DEF AuthorOf
<1>. QED
  BY <1>1, <1>4, <1>5

LEMMA LedgerReject ==
  ASSUME IInv, IInv', [QuestionsNext]_vars, rows \subseteq rows', NEW t, InLedger(t),
         LedgerVerdict(t).state = "rejected",
         \A r \in NewOf(t) : r.type # "task" /\ ~Overrules(r, t)
  PROVE  LedgerVerdict(t)'.state = "rejected"
<1>. DEFINE dec  == LatestDecision(t)
            last == Latest(Dispatches(t)).id
<1>1. LedgerVerdict(t) = Verdict(LatestPlan(t), dec, AuthorOf(LatestPlan(t), LedgerWorker(t)), last)
  BY DEF LedgerVerdict
<1>2. /\ dec # None /\ dec.sender # AuthorOf(LatestPlan(t), LedgerWorker(t))
      /\ dec.val = "reject" /\ ~(last > dec.id)
  <2>. HIDE DEF dec, last
  <2>. QED
    BY <1>1, RejectedVerdict
<1>3. Dispatches(t)' = Dispatches(t)
  BY OfTaskGrows DEF Dispatches
<1>4. LedgerWorker(t)' = LedgerWorker(t) \/ LedgerWorker(t)' # dec.sender
  <2>1. CASE Dispatches(t) # {}
    BY <1>3, <2>1 DEF LedgerWorker
  <2>2. CASE Dispatches(t) = {} /\ Result(t)' = Result(t)
    BY <1>3, <2>2 DEF LedgerWorker
  <2>3. CASE Dispatches(t) = {} /\ Result(t)' # Result(t)
    <3>. DEFINE S == OfTask("result", t)
                T == OfTask("result", t)'
    <3>1. /\ S \in SUBSET rows /\ T \in SUBSET rows' /\ S \subseteq T
          /\ \A r \in T : r \in S \/ (r \in NewOf(t) /\ r.type = "result")
      BY OfTaskGrows
    <3>2. \A r \in T : r \in S \/ r.id > lastId
      BY <3>1 DEF NewOf
    <3>3. Result(t) = Latest(S) /\ Result(t)' = Latest(T)
      BY DEF Result
    <3>. HIDE DEF S, T
    <3>4. Result(t)' \in NewOf(t) /\ Result(t)'.type = "result"
      BY <2>3, <3>1, <3>2, <3>3, LatestGrows
    <3>5. dec.sender \in Orchestrators
      BY <1>2, DecisionRow
    <3>6. LedgerWorker(t)' = Result(t)'.sender
      BY <1>3, <2>3 DEF LedgerWorker
    <3>. QED
      BY <3>4, <3>5, <3>6 DEF Overrules
  <2>. QED
    BY <2>1, <2>2, <2>3
<1>5. /\ LatestDecision(t)' = dec
      /\ AuthorOf(LatestPlan(t)', LedgerWorker(t)') # dec.sender
  BY <1>2, <1>4, DecisionKept
<1>6. LedgerVerdict(t)' = Verdict(LatestPlan(t)', dec,
                                  AuthorOf(LatestPlan(t)', LedgerWorker(t)'), last)
  BY <1>3, <1>5 DEF LedgerVerdict
<1>. HIDE DEF dec, last
<1>. QED
  BY <1>2, <1>5, <1>6, RejectedVerdict

LEMMA GateReject ==
  ASSUME IInv, IInv', [QuestionsNext]_vars, rows \subseteq rows', NEW t,
         GateVerdict(t).state = "rejected",
         \A r \in NewOf(t) : ~(r.type = "task" /\ ~ByPeer(r)) /\ ~Overrules(r, t)
  PROVE  GateVerdict(t)'.state = "rejected"
<1>. DEFINE dec    == LatestDecision(t)
            last   == Latest(Trusted(t)).id
            worker == First(Trusted(t)).to
<1>1. GateVerdict(t) = Verdict(LatestPlan(t), dec, AuthorOf(LatestPlan(t), worker), last)
  BY DEF GateVerdict
<1>2. /\ dec # None /\ dec.sender # AuthorOf(LatestPlan(t), worker)
      /\ dec.val = "reject" /\ ~(last > dec.id)
  <2>. HIDE DEF dec, last, worker
  <2>. QED
    BY <1>1, RejectedVerdict
<1>3. Trusted(t)' = Trusted(t)
  BY OfTaskGrows DEF Trusted, ByPeer
<1>4. LatestDecision(t)' = dec /\ AuthorOf(LatestPlan(t)', worker) # dec.sender
  BY <1>2, DecisionKept
<1>5. GateVerdict(t)' = Verdict(LatestPlan(t)', dec, AuthorOf(LatestPlan(t)', worker), last)
  BY <1>3, <1>4 DEF GateVerdict
<1>. HIDE DEF dec, last, worker
<1>. QED
  BY <1>2, <1>4, <1>5, RejectedVerdict

(* Of the messages, only a dispatch - for post_result an orchestrator's -  *)
(* and one that overrules it lift a reject.                                *)
THEOREM RejectsStand == QuestionsSpec => RejectStands
<1>. DEFINE Stands ==
       lastId' > lastId => \A t \in Tasks :
         /\ /\ InLedger(t) /\ LedgerVerdict(t).state = "rejected"
            /\ LedgerVerdict(t)'.state # "rejected"
            => \E r \in NewOf(t) : r.type = "task" \/ Overrules(r, t)
         /\ /\ Trusted(t) # {} /\ GateVerdict(t).state = "rejected"
            /\ GateVerdict(t)'.state # "rejected"
            => \E r \in NewOf(t) : (r.type = "task" /\ ~ByPeer(r)) \/ Overrules(r, t)
<1>1. IInv /\ IInv' /\ [QuestionsNext]_vars => Stands
  BY PostKeepsRows, LedgerReject, GateReject
<1>. HIDE DEF Stands
<1>2. QuestionsSpec => [][Stands]_vars
  BY AlwaysInv, <1>1, PTL DEF QuestionsSpec
<1>. QED
  BY <1>2 DEF RejectStands, Stands

----------------------------------------------------------------------------
(* Questions. *)

(* A message posted opens no question but the one it asks. *)
LEMMA OpenedByAsking ==
  ASSUME IInv, [QuestionsNext]_vars, lastId' > lastId
  PROVE  rows \subseteq rows' /\ OpenQuestions' \subseteq OpenQuestions \cup Added("question")
<1>1. rows \subseteq rows'
  BY PostKeepsRows
<1>2. ASSUME NEW q \in OpenQuestions'
      PROVE  q \in OpenQuestions \cup Added("question")
  <2>1. q \in rows' /\ q.type = "question" /\ \A r \in rows' : ~Answers(r, q)
    BY <1>2 DEF OpenQuestions, Open, Answers, OnInbox
  <2>2. CASE q \in rows
    BY <1>1, <2>1, <2>2 DEF OpenQuestions, Open
  <2>3. CASE q \notin rows
    BY <2>1, <2>3, NewRows DEF Added
  <2>. QED
    BY <2>2, <2>3
<1>. QED
  BY <1>1, <1>2

(* A task without a result is shown as failed only by a reject. *)
LEMMA FailedByReject ==
  ASSUME NEW t \in Tasks, Result(t) = None, LedgerState(t) = "failed"
  PROVE  LedgerVerdict(t).state = "rejected"
<1>1. Reported(t) \in {"pending", "handoff", "in-progress"}
  BY DEF Reported
<1>. QED
  BY <1>1 DEF LedgerState

LEMMA BlockedStep ==
  ASSUME IInv, LedgerRows, LedgerRows', [QuestionsNext]_vars, lastId' > lastId, NEW t \in Tasks,
         OpenQuestion(t)' # {}, \A q \in Added("question") : q.task # t,
         ShownState(t)' = "blocked", ShownState(t) # "blocked"
  PROVE  LedgerVerdict(t).state = "rejected" /\ OpenQuestion(t) # {}
<1>1. rows \subseteq rows' /\ OpenQuestions' \subseteq OpenQuestions \cup Added("question")
  BY OpenedByAsking
<1>2. OpenQuestion(t) # {}
  BY <1>1 DEF OpenQuestion
<1>3. Result(t)' = None
  BY DEF ShownState, LedgerRows
<1>4. Result(t) = None
  BY <1>1, <1>3 DEF LedgerRows, OfTask
<1>. QED
  BY <1>2, <1>4, FailedByReject DEF ShownState

(* An answered question stays answered, and a task goes blocked only by a  *)
(* question about it, or when a reject is lifted that hid an open one.     *)
THEOREM AnswersAlwaysStand == QuestionsSpec => AnswersStand
<1>. DEFINE Stands ==
       lastId' > lastId =>
         /\ OpenQuestions' \subseteq OpenQuestions \cup Added("question")
         /\ \A t \in Tasks :
              /\ OpenQuestion(t)' # {} /\ \A q \in Added("question") : q.task # t
              /\ InLedger(t) /\ ShownState(t)' = "blocked" /\ ShownState(t) # "blocked"
              => LedgerVerdict(t).state = "rejected" /\ OpenQuestion(t) # {}
<1>1. IInv => LedgerRows
  BY LedgerHasRows
<1>2. IInv /\ LedgerRows /\ IInv' /\ LedgerRows' /\ [QuestionsNext]_vars => Stands
  BY OpenedByAsking, BlockedStep
<1>. HIDE DEF Stands
<1>3. QuestionsSpec => [][Stands]_vars
  BY AlwaysInv, <1>1, <1>2, PTL DEF QuestionsSpec
<1>. QED
  BY <1>3 DEF AnswersStand, Stands
=============================================================================
