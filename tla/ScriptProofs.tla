---------------------------- MODULE ScriptProofs ----------------------------
(***************************************************************************)
(* Proofs about the shell scripts: the main loop of watchdog.sh            *)
(* (Watchdog), for any tasks and limits; the slots its sessions wait for   *)
(* (Slots), for any number of watchdogs, slots and deaths; and             *)
(* sprint-close-merge.sh (SprintClose), for any workers, pieces of work,   *)
(* runs and faults.                                                        *)
(***************************************************************************)
EXTENDS Watchdog, Slots, SprintClose, SetLemmas

----------------------------------------------------------------------------
(* The main loop. *)

(* A dispatched task's message is where its dispatch says. *)
Dispatched ==
  \A t \in Tasks : task[t] # "none" => dispatch[t] >= 1 /\ inbox[dispatch[t]] = t

(* What a launch leaves behind, until the session has started its turn and *)
(* until the watchdog has taken note of its end.                           *)
Launched ==
  /\ ~turned => seen = {}
  /\ force # "inbox"
  /\ pc # "loop" => /\ force = "none" /\ reason # "none"
                    /\ reason = "inbox" => Pending

(* RelaunchSeesWork, from the moment the last session was dealt with. *)
WorkDue ==
  (pc = "loop" \/ (pc = "session" /\ ~turned)) /\ excuse = "none" =>
    \A t \in Open : dispatch[t] > fileCursor => Due(t)

(* What the launches so far are paid for by, in the loop: with messages    *)
(* waiting, by the silent runs counted; with a follow-up due, by those and *)
(* the follow-ups.  Progress since the last count renews the budget.       *)
SpentInLoop ==
  pc = "loop" =>
    /\ Pending => spent <= noOutput
    /\ ~Pending /\ force # "none" => spent <= NO_OUTPUT_MAX + followups - 1
    /\ Cardinality(Open) < prevOpen => spent <= noOutput \/ (~Pending /\ force = "none")

(* The same with the launch that is running. *)
SpentInSession ==
  pc # "loop" =>
    /\ reason = "inbox" => spent <= noOutput + 1
    /\ reason # "inbox" => spent <= NO_OUTPUT_MAX + followups
    /\ Len(inbox) > maxId => spent = 0
    /\ Cardinality(Open) < prevOpen => spent <= noOutput + 1

WatchInv == /\ TypeOK /\ Dispatched /\ Launched /\ WorkDue /\ IdleOnlyAfterGivingUp
            /\ SpendBounded /\ SpentInLoop /\ SpentInSession

LEMMA LowPair ==
  ASSUME NEW a \in Int, NEW b \in Int
  PROVE  Low({a, b}) \in {a, b} /\ Low({a, b}) <= a /\ Low({a, b}) <= b
<1>1. \E n \in {a, b} : \A k \in {a, b} : n <= k
  BY SMT
<1>. QED
  BY <1>1 DEF Low

LEMMA LowSet ==
  ASSUME NEW S \in SUBSET Nat, S # {}
  PROVE  Low(S) \in S /\ \A k \in S : Low(S) <= k
BY MinNat DEF Low

(* A message beyond the cursor makes its task due. *)
LEMMA DueBeyond ==
  ASSUME TypeOK, Dispatched, NEW t \in Open, brokerCursor < dispatch[t]
  PROVE  Due(t)
<1>1. task[t] = "open" /\ t \in Tasks
  BY DEF Open
<1>2. dispatch[t] >= 1 /\ inbox[dispatch[t]] = t
  BY <1>1 DEF Dispatched
<1>3. dispatch[t] \in 0..Len(inbox) /\ brokerCursor \in 0..Len(inbox) /\ Len(inbox) \in Nat
  BY <1>1 DEF TypeOK
<1>4. dispatch[t] \in brokerCursor + 1..Len(inbox)
  BY <1>3
<1>. QED
  BY <1>2, <1>4 DEF Due

(* A rewind that reached the broker leaves its cursor no further than asked. *)
LEMMA Rewound ==
  ASSUME TypeOK, NEW pos \in 0..Len(inbox), NEW n \in 0..Len(inbox), RewindFrom(pos, n)
  PROVE  /\ brokerCursor' \in 0..Len(inbox)
         /\ excuse' \in {"none", "missed"}
         /\ excuse' = "none" => brokerCursor' <= n
<1>1. pos \in Int /\ n \in Int
  BY DEF TypeOK
<1>2. Low({pos, n}) \in {pos, n} /\ Low({pos, n}) <= n
  BY <1>1, LowPair
<1>. QED
  BY <1>2 DEF RewindFrom

(* A fallback handoff leaves the broker's cursor within the inbox. *)
LEMMA FallbackInRange ==
  ASSUME TypeOK, Dispatched, NEW pos \in FallbackHandoff(brokerCursor)
  PROVE  pos \in 0..Len(inbox)
<1>1. brokerCursor \in 0..Len(inbox) /\ Len(inbox) \in Nat
  BY DEF TypeOK
<1>2. CASE pos = brokerCursor
  BY <1>1, <1>2
<1>3. ASSUME NEW t \in Tasks, task[t] \in {"open", "waiting"}, pos = Low({brokerCursor, dispatch[t] - 1})
      PROVE  pos \in 0..Len(inbox)
  <2>1. dispatch[t] \in 1..Len(inbox)
    BY <1>3, <1>1 DEF TypeOK, Dispatched
  <2>2. dispatch[t] - 1 \in 0..Len(inbox) /\ dispatch[t] - 1 \in Int /\ brokerCursor \in Int
    BY <2>1, <1>1
  <2>3. pos \in {brokerCursor, dispatch[t] - 1}
    BY <1>3, <2>2, LowPair
  <2>. QED
    BY <2>2, <2>3, <1>1
<1>. QED
  BY <1>2, <1>3 DEF FallbackHandoff

(* What a follow-up rewinds to: before the dispatch of every open task. *)
LEMMA FollowUpTarget ==
  ASSUME TypeOK, Dispatched, NEW led \in LedgerOpen, led # {}
  PROVE  /\ led = Open
         /\ Low({dispatch[t] : t \in led}) - 1 \in 0..Len(inbox)
         /\ \A t \in Open : Low({dispatch[k] : k \in led}) - 1 < dispatch[t]
<1>. DEFINE S == {dispatch[t] : t \in led}
<1>1. led = Open
  BY DEF LedgerOpen
<1>2. \A t \in led : t \in Tasks /\ task[t] # "none"
  BY <1>1 DEF Open
<1>3. \A t \in led : dispatch[t] \in 1..Len(inbox) /\ dispatch[t] \in Nat
  BY <1>2 DEF TypeOK, Dispatched
<1>4. S \in SUBSET Nat /\ S # {}
  BY <1>3
<1>5. Low(S) \in S /\ \A k \in S : Low(S) <= k
  BY <1>4, LowSet
<1>6. Low(S) \in 1..Len(inbox) /\ \A t \in led : Low(S) <= dispatch[t]
  BY <1>3, <1>5
<1>7. Len(inbox) \in Nat
  BY DEF TypeOK
<1>. HIDE DEF S
<1>8. Low(S) - 1 \in 0..Len(inbox) /\ \A t \in Open : Low(S) - 1 < dispatch[t]
  BY <1>1, <1>3, <1>6, <1>7
<1>. QED
  BY <1>1, <1>8 DEF S

LEMMA OpenCounted ==
  /\ Open \in SUBSET Tasks /\ IsFiniteSet(Open)
  /\ Cardinality(Open) \in 0..Cardinality(Tasks)
  /\ \A led \in LedgerOpen : Cardinality(led) \in 0..Cardinality(Tasks)
<1>1. Open \in SUBSET Tasks
  BY DEF Open
<1>2. IsFiniteSet(Open) /\ Cardinality(Open) <= Cardinality(Tasks)
  BY <1>1, TasksAssumption, FS_Subset
<1>3. Cardinality(Open) \in Nat /\ Cardinality(Tasks) \in Nat /\ Cardinality({}) = 0
  BY <1>2, TasksAssumption, FS_CardinalityType, FS_EmptySet
<1>4. \A led \in LedgerOpen : led = Open \/ led = {}
  BY DEF LedgerOpen
<1>5. Cardinality(Open) \in 0..Cardinality(Tasks) /\ 0 \in 0..Cardinality(Tasks)
  BY <1>2, <1>3
<1>. QED
  BY <1>1, <1>2, <1>3, <1>4, <1>5

LEMMA WatchInitInv == Init => WatchInv
<1>. SUFFICES ASSUME Init PROVE WatchInv
  OBVIOUS
<1>1. Len(inbox) = 0 /\ inbox \in Seq(Tasks)
  BY DEF Init
<1>2. 0 \in 0..Cardinality(Tasks)
  BY TasksAssumption, FS_CardinalityType
<1>3. TypeOK
  <2>1. /\ Len(inbox) <= MaxInbox /\ dispatch \in [Tasks -> 0..Len(inbox)]
        /\ task \in [Tasks -> {"none", "open", "waiting", "done"}]
        /\ brokerCursor \in 0..Len(inbox) /\ fileCursor \in 0..Len(inbox) /\ maxId \in 0..Len(inbox)
    BY <1>1, NumbersAssumption DEF Init
  <2>2. /\ noOutput \in 0..NO_OUTPUT_MAX - 1 /\ followups \in 0..FOLLOWUP_MAX
        /\ prevOpen \in 0..Cardinality(Tasks) /\ spent \in Nat
    BY <1>2, NumbersAssumption DEF Init
  <2>3. /\ pc \in {"loop", "session", "ended"} /\ {reason, force} \subseteq Reasons
        /\ output \subseteq {"own", "peer"} /\ seen \subseteq Tasks /\ turned \in BOOLEAN
        /\ outcome \in AllOutcomes \cup {"none"} /\ excuse \in Excuses
    BY DEF Init, Reasons, Excuses
  <2>. QED
    BY <1>1, <2>1, <2>2, <2>3 DEF TypeOK
<1>4. Open = {}
  BY DEF Init, Open
<1>5. Dispatched /\ Launched /\ WorkDue /\ IdleOnlyAfterGivingUp
  BY <1>4 DEF Init, Dispatched, Launched, WorkDue, IdleOnlyAfterGivingUp
<1>6. SpendBounded /\ SpentInLoop /\ SpentInSession
  BY <1>1, NumbersAssumption DEF Init, SpendBounded, SpentInLoop, SpentInSession, Pending
<1>. QED
  BY <1>3, <1>5, <1>6 DEF WatchInv

(* A message arrives: nothing is owed any more, and its task is due. *)
LEMMA SendStep ==
  ASSUME WatchInv, NEW t \in Tasks, Send(t), task[t] \in {"none", "waiting"},
         task' = [task EXCEPT ![t] = "open"],
         NEW d \in {dispatch[t], Len(inbox')}, dispatch' = [dispatch EXCEPT ![t] = d],
         task[t] = "none" => d = Len(inbox')
  PROVE  WatchInv'
<1>. DEFINE L == Len(inbox)
<1>1. TypeOK /\ Dispatched /\ Launched /\ WorkDue
  BY DEF WatchInv
<1>2. /\ L \in Nat /\ L < MaxInbox /\ inbox \in Seq(Tasks)
      /\ dispatch \in [Tasks -> 0..L] /\ fileCursor \in 0..L /\ brokerCursor \in 0..L
      /\ noOutput \in 0..NO_OUTPUT_MAX - 1 /\ followups \in 0..FOLLOWUP_MAX
      /\ task \in [Tasks -> {"none", "open", "waiting", "done"}] /\ maxId \in 0..L
  BY <1>1 DEF TypeOK, Send
<1>3. inbox' = Append(inbox, t) /\ spent' = 0
  BY DEF Send
<1>4. UNCHANGED <<brokerCursor, fileCursor, pc, reason, maxId, output, seen, turned, outcome,
                  force, noOutput, followups, prevOpen, excuse>>
  BY DEF Send, launchVars, sessionVars, counterVars
<1>5. /\ inbox' \in Seq(Tasks) /\ Len(inbox') = L + 1 /\ inbox'[L + 1] = t
      /\ \A n \in 1..L : inbox'[n] = inbox[n]
  BY <1>2, <1>3
<1>6. d \in 0..L + 1 /\ \A k \in Tasks : dispatch[k] \in 0..L + 1
  BY <1>2, <1>5
<1>7. dispatch' \in [Tasks -> 0..L + 1]
  BY <1>2, <1>6
<1>8. TypeOK'
  <2>1. Len(inbox') <= MaxInbox /\ dispatch' \in [Tasks -> 0..Len(inbox')] /\ spent' \in Nat
    BY <1>2, <1>3, <1>5, <1>7, NumbersAssumption
  <2>3. \A c \in 0..L : c \in 0..L + 1
    BY <1>2
  <2>4. /\ brokerCursor' \in 0..Len(inbox') /\ fileCursor' \in 0..Len(inbox')
        /\ maxId' \in 0..Len(inbox')
    BY <1>2, <1>4, <1>5, <2>3
  <2>2. task' \in [Tasks -> {"none", "open", "waiting", "done"}]
    BY <1>2
  <2>. QED
    BY <1>1, <1>4, <1>5, <2>1, <2>2, <2>4 DEF TypeOK
<1>9. Dispatched'
  <2>. SUFFICES ASSUME NEW k \in Tasks, task'[k] # "none"
                PROVE  dispatch'[k] >= 1 /\ inbox'[dispatch'[k]] = k
    BY DEF Dispatched
  <2>1. CASE k # t \/ d # L + 1
    <3>1. dispatch'[k] = dispatch[k] /\ task[k] # "none"
      <4>1. CASE k # t
        BY <1>2, <4>1
      <4>2. CASE k = t
        <5>1. d = dispatch[t] /\ task[t] # "none"
          BY <1>5, <2>1, <4>2
        <5>. QED
          BY <1>2, <4>2, <5>1
      <4>. QED
        BY <4>1, <4>2
    <3>2. dispatch[k] >= 1 /\ inbox[dispatch[k]] = k /\ dispatch[k] \in 1..L
      BY <1>1, <1>2, <3>1 DEF Dispatched
    <3>. QED
      BY <1>5, <3>1, <3>2
  <2>2. CASE k = t /\ d = L + 1
    BY <1>2, <1>5, <2>2
  <2>. QED
    BY <2>1, <2>2
<1>10. Pending'
  BY <1>2, <1>4, <1>5 DEF Pending
<1>11. Launched' /\ IdleOnlyAfterGivingUp'
  BY <1>1, <1>4, <1>10 DEF Launched, IdleOnlyAfterGivingUp, Reason
<1>12. WorkDue'
  <2>. SUFFICES ASSUME (pc = "loop" \/ (pc = "session" /\ ~turned)) /\ excuse = "none",
                       NEW k \in Tasks, task'[k] = "open", dispatch'[k] > fileCursor
                PROVE  \E n \in brokerCursor + 1..L + 1 : inbox'[n] = k
    BY <1>4, <1>5 DEF WorkDue, Open, Due
  <2>1. CASE k = t
    <3>1. L + 1 \in brokerCursor + 1..L + 1
      BY <1>2
    <3>. QED
      BY <1>5, <2>1, <3>1
  <2>2. CASE k # t
    <3>1. k \in Open /\ dispatch[k] > fileCursor
      BY <1>2, <2>2 DEF Open
    <3>2. PICK n \in brokerCursor + 1..L : inbox[n] = k
      BY <1>1, <3>1 DEF WorkDue, Due
    <3>3. n \in 1..L /\ n \in brokerCursor + 1..L + 1
      BY <1>2
    <3>. QED
      BY <1>5, <3>2, <3>3
  <2>. QED
    BY <2>1, <2>2
<1>13. SpendBounded' /\ SpentInLoop' /\ SpentInSession'
  <2>1. spent' <= noOutput' /\ spent' <= NO_OUTPUT_MAX + followups' - 1 /\ spent' <= noOutput' + 1
    BY <1>2, <1>3, <1>4, NumbersAssumption
  <2>2. spent' <= NO_OUTPUT_MAX + FOLLOWUP_MAX /\ spent' <= NO_OUTPUT_MAX + followups'
    BY <1>2, <1>3, <1>4, NumbersAssumption
  <2>. QED
    BY <1>3, <2>1, <2>2 DEF SpendBounded, SpentInLoop, SpentInSession
<1>. QED
  BY <1>8, <1>9, <1>11, <1>12, <1>13 DEF WatchInv

LEMMA DispatchStep ==
  ASSUME WatchInv, NEW t \in Tasks, Dispatch(t)
  PROVE  WatchInv'
BY SendStep DEF Dispatch

LEMMA AnswerStep ==
  ASSUME WatchInv, NEW t \in Tasks, Answer(t)
  PROVE  WatchInv'
<1>1. dispatch' = [dispatch EXCEPT ![t] = dispatch[t]]
  BY DEF Answer, WatchInv, TypeOK
<1>. QED
  BY <1>1, SendStep DEF Answer

(* Nothing the loop decides by changes. *)
LEMMA PeerPostsStep ==
  ASSUME WatchInv, PeerPosts
  PROVE  WatchInv'
<1>1. output' = output \cup {"peer"}
      /\ UNCHANGED <<inbox, dispatch, task, brokerCursor, fileCursor, pc, reason, maxId, seen, turned,
                     outcome, force, noOutput, followups, prevOpen, excuse, spent>>
  BY DEF PeerPosts, brokerVars, launchVars, counterVars
<1>2. Open' = Open
  BY <1>1 DEF Open
<1>3. TypeOK'
  BY <1>1 DEF WatchInv, TypeOK
<1>4. Dispatched' /\ Launched'
  BY <1>1 DEF WatchInv, Dispatched, Launched, Pending
<1>5. WorkDue' /\ IdleOnlyAfterGivingUp'
  BY <1>1, <1>2 DEF WatchInv, WorkDue, IdleOnlyAfterGivingUp, Due, Reason, Pending
<1>6. SpendBounded' /\ SpentInLoop' /\ SpentInSession'
  BY <1>1, <1>2 DEF WatchInv, SpendBounded, SpentInLoop, SpentInSession, Pending
<1>. QED
  BY <1>3, <1>4, <1>5, <1>6 DEF WatchInv

(* From turn_start on the session has been given what was due. *)
LEMMA TurnStartStep ==
  ASSUME WatchInv, TurnStart
  PROVE  WatchInv'
<1>1. /\ pc = "session" /\ turned' = TRUE /\ brokerCursor' = Len(inbox)
      /\ seen' = seen \cup {inbox[n] : n \in brokerCursor + 1..Len(inbox)}
      /\ UNCHANGED <<inbox, dispatch, task, fileCursor, pc, reason, maxId, output, outcome, force,
                     noOutput, followups, prevOpen, excuse, spent>>
  BY DEF TurnStart, brokerVars, launchVars, counterVars
<1>2. Open' = Open
  BY <1>1 DEF Open
<1>3. TypeOK'
  <2>1. inbox \in Seq(Tasks) /\ brokerCursor \in 0..Len(inbox) /\ Len(inbox) \in Nat
    BY DEF WatchInv, TypeOK
  <2>2. \A n \in brokerCursor + 1..Len(inbox) : n \in 1..Len(inbox) /\ inbox[n] \in Tasks
    BY <2>1
  <2>3. seen' \subseteq Tasks /\ brokerCursor' \in 0..Len(inbox)
    BY <1>1, <2>1, <2>2 DEF WatchInv, TypeOK
  <2>. QED
    BY <1>1, <2>3 DEF WatchInv, TypeOK
<1>4. Dispatched' /\ Launched' /\ WorkDue' /\ IdleOnlyAfterGivingUp'
  BY <1>1 DEF WatchInv, Dispatched, Launched, Pending, WorkDue, IdleOnlyAfterGivingUp
<1>5. SpendBounded' /\ SpentInLoop' /\ SpentInSession'
  BY <1>1, <1>2 DEF WatchInv, SpendBounded, SpentInLoop, SpentInSession, Pending
<1>. QED
  BY <1>3, <1>4, <1>5 DEF WatchInv

(* Only a session that has started its turn reports, and what it finishes  *)
(* is progress.                                                            *)
LEMMA ReportStep ==
  ASSUME WatchInv, NEW t \in Tasks, NEW s \in {"open", "waiting", "done"}, Report(t, s)
  PROVE  WatchInv'
<1>1. /\ pc = "session" /\ turned = TRUE /\ task[t] = "open"
      /\ task' = [task EXCEPT ![t] = s] /\ output' = output \cup {"own"}
      /\ spent' = IF s = "open" THEN spent ELSE 0
      /\ UNCHANGED <<inbox, dispatch, brokerCursor, fileCursor, pc, reason, maxId, seen, turned,
                     outcome, force, noOutput, followups, prevOpen, excuse>>
  BY DEF Report, launchVars, counterVars, WatchInv, Launched, TypeOK
<1>2. task \in [Tasks -> {"none", "open", "waiting", "done"}] /\ spent \in Nat
  BY DEF WatchInv, TypeOK
<1>3. TypeOK'
  <2>1. task' \in [Tasks -> {"none", "open", "waiting", "done"}] /\ spent' \in Nat
    BY <1>1, <1>2
  <2>. QED
    BY <1>1, <2>1 DEF WatchInv, TypeOK
<1>4. Dispatched'
  BY <1>1, <1>2 DEF WatchInv, Dispatched
<1>5. Launched' /\ WorkDue' /\ IdleOnlyAfterGivingUp'
  BY <1>1 DEF WatchInv, Launched, Pending, WorkDue, IdleOnlyAfterGivingUp
<1>6. SpendBounded' /\ SpentInLoop' /\ SpentInSession'
  <2>1. CASE s = "open"
    <3>1. task' = task /\ spent' = spent
      BY <1>1, <1>2, <2>1
    <3>2. Open' = Open
      BY <3>1 DEF Open
    <3>. QED
      BY <1>1, <3>1, <3>2 DEF WatchInv, SpendBounded, SpentInLoop, SpentInSession
  <2>2. CASE s # "open"
    <3>1. spent' = 0 /\ noOutput \in 0..NO_OUTPUT_MAX - 1 /\ followups \in 0..FOLLOWUP_MAX
      BY <1>1, <2>2 DEF WatchInv, TypeOK
    <3>2. spent' <= NO_OUTPUT_MAX + FOLLOWUP_MAX /\ spent' <= noOutput' + 1
          /\ spent' <= NO_OUTPUT_MAX + followups'
      BY <1>1, <3>1, NumbersAssumption
    <3>. QED
      BY <1>1, <3>1, <3>2 DEF SpendBounded, SpentInLoop, SpentInSession
  <2>. QED
    BY <2>1, <2>2
<1>. QED
  BY <1>3, <1>4, <1>5, <1>6 DEF WatchInv

(* The broker rewinds the cursor of a session that has started its turn. *)
LEMMA HandoffStep ==
  ASSUME WatchInv, NEW t \in Tasks, Handoff(t)
  PROVE  WatchInv'
<1>1. /\ pc = "session" /\ turned = TRUE /\ task[t] = "open"
      /\ output' = output \cup {"own"} /\ brokerCursor' = Low({brokerCursor, dispatch[t] - 1})
      /\ UNCHANGED <<inbox, dispatch, task, fileCursor, pc, reason, maxId, seen, turned, outcome,
                     force, noOutput, followups, prevOpen, excuse, spent>>
  BY DEF Handoff, Lower, brokerVars, launchVars, counterVars, WatchInv, Launched, TypeOK
<1>2. Open' = Open
  BY <1>1 DEF Open
<1>3. brokerCursor' \in 0..Len(inbox)
  <2>1. brokerCursor' \in FallbackHandoff(brokerCursor)
    BY <1>1 DEF FallbackHandoff
  <2>. QED
    BY <2>1, FallbackInRange DEF WatchInv
<1>4. TypeOK'
  BY <1>1, <1>3 DEF WatchInv, TypeOK
<1>5. Dispatched' /\ Launched' /\ WorkDue' /\ IdleOnlyAfterGivingUp'
  BY <1>1 DEF WatchInv, Dispatched, Launched, Pending, WorkDue, IdleOnlyAfterGivingUp
<1>6. SpendBounded' /\ SpentInLoop' /\ SpentInSession'
  BY <1>1, <1>2 DEF WatchInv, SpendBounded, SpentInLoop, SpentInSession, Pending
<1>. QED
  BY <1>4, <1>5, <1>6 DEF WatchInv

LEMMA EndStep ==
  ASSUME WatchInv, NEW o \in Outcomes, End(o)
  PROVE  WatchInv'
<1>1. /\ pc = "session" /\ pc' = "ended" /\ outcome' \in AllOutcomes
      /\ UNCHANGED <<inbox, dispatch, task, brokerCursor, fileCursor, reason, maxId, output, seen,
                     turned, force, noOutput, followups, prevOpen, excuse, spent>>
  BY OutcomesAssumption DEF End, brokerVars, launchVars, counterVars
<1>2. Open' = Open
  BY <1>1 DEF Open
<1>3. TypeOK'
  BY <1>1 DEF WatchInv, TypeOK
<1>4. Dispatched' /\ Launched' /\ WorkDue' /\ IdleOnlyAfterGivingUp'
  BY <1>1 DEF WatchInv, Dispatched, Launched, Pending, WorkDue, IdleOnlyAfterGivingUp
<1>5. SpendBounded' /\ SpentInLoop' /\ SpentInSession'
  BY <1>1, <1>2 DEF WatchInv, SpendBounded, SpentInLoop, SpentInSession, Pending
<1>. QED
  BY <1>3, <1>4, <1>5 DEF WatchInv

(* A launch is one more, on the account its reason stands for. *)
LEMMA LaunchStep ==
  ASSUME WatchInv, Launch
  PROVE  WatchInv'
<1>1. /\ pc = "loop" /\ pc' = "session" /\ force' = "none" /\ reason' # "none"
      /\ followups' = IF reason' = "inbox" THEN 0 ELSE followups
      /\ output' = {} /\ seen' = {} /\ turned' = FALSE /\ outcome' = "none"
      /\ UNCHANGED <<inbox, dispatch, task, brokerCursor, fileCursor, noOutput, prevOpen, excuse>>
  BY DEF Launch, brokerVars
<1>2. \/ reason' = Reason /\ maxId' = Len(inbox) /\ spent' = spent + 1
      \/ reason' = force /\ maxId' = 0 /\ spent' = 0
  BY DEF Launch
<1>3. /\ Len(inbox) \in Nat /\ spent \in Nat /\ noOutput \in 0..NO_OUTPUT_MAX - 1
      /\ followups \in 0..FOLLOWUP_MAX /\ force \in Reasons /\ prevOpen \in Nat
  BY DEF WatchInv, TypeOK
<1>4. Open' = Open
  BY <1>1 DEF Open
<1>5. reason' = "inbox" => Pending
  BY <1>2 DEF Reason, WatchInv, Launched
<1>6. TypeOK'
  <2>1. reason' \in Reasons
    BY <1>2, <1>3 DEF Reason, Reasons
  <2>2. maxId' \in 0..Len(inbox) /\ spent' \in Nat
    BY <1>2, <1>3
  <2>3. followups' \in 0..FOLLOWUP_MAX
    BY <1>1, <1>3, NumbersAssumption
  <2>4. force' \in Reasons /\ outcome' \in AllOutcomes \cup {"none"}
    BY <1>1 DEF Reasons
  <2>. QED
    BY <1>1, <2>1, <2>2, <2>3, <2>4 DEF WatchInv, TypeOK
<1>7. Dispatched' /\ IdleOnlyAfterGivingUp'
  BY <1>1 DEF WatchInv, Dispatched, IdleOnlyAfterGivingUp
<1>8. Launched'
  BY <1>1, <1>5 DEF Launched, Pending
<1>9. WorkDue'
  BY <1>1, <1>4 DEF WatchInv, WorkDue, Due
<1>10. SpendBounded' /\ SpentInSession'
  <2>1. CASE spent' = 0
    BY <1>1, <1>3, <2>1, NumbersAssumption DEF SpendBounded, SpentInSession
  <2>2. CASE reason' = Reason /\ maxId' = Len(inbox) /\ spent' = spent + 1
    <3>1. CASE Pending
      <4>1. reason' = "inbox" /\ spent <= noOutput
        BY <1>1, <2>2, <3>1 DEF Reason, WatchInv, SpentInLoop
      <4>2. spent' <= noOutput' + 1 /\ spent' <= NO_OUTPUT_MAX + FOLLOWUP_MAX
        BY <1>1, <1>3, <2>2, <4>1, NumbersAssumption
      <4>3. ~(Len(inbox') > maxId')
        BY <1>1, <1>3, <2>2
      <4>. QED
        BY <4>1, <4>2, <4>3 DEF SpendBounded, SpentInSession
    <3>2. CASE ~Pending
      <4>1. reason' = force /\ force # "none" /\ reason' # "inbox"
        BY <1>1, <1>5, <2>2, <3>2 DEF Reason
      <4>2. spent <= NO_OUTPUT_MAX + followups - 1
        BY <1>1, <3>2, <4>1 DEF WatchInv, SpentInLoop
      <4>3. spent' <= NO_OUTPUT_MAX + followups' /\ spent' <= NO_OUTPUT_MAX + FOLLOWUP_MAX
        BY <1>1, <1>3, <2>2, <4>1, <4>2, NumbersAssumption
      <4>4. Cardinality(Open) < prevOpen => spent' <= noOutput' + 1
        BY <1>1, <1>3, <2>2, <4>1, NumbersAssumption DEF WatchInv, SpentInLoop
      <4>5. ~(Len(inbox') > maxId')
        BY <1>1, <1>3, <2>2
      <4>. QED
        BY <1>1, <1>4, <4>1, <4>3, <4>4, <4>5 DEF SpendBounded, SpentInSession
    <3>. QED
      BY <3>1, <3>2
  <2>. QED
    BY <1>2, <2>1, <2>2
<1>11. SpentInLoop'
  BY <1>1 DEF SpentInLoop
<1>. QED
  BY <1>6, <1>7, <1>8, <1>9, <1>10, <1>11 DEF WatchInv

(* A forced start that met busy slots is lost, and that is the excuse. *)
LEMMA SlotsBusyStep ==
  ASSUME WatchInv, SlotsBusy
  PROVE  WatchInv'
<1>1. /\ pc = "loop" /\ Reason # "none" /\ force' = "none"
      /\ followups' = IF Pending THEN 0 ELSE followups
      /\ excuse' = IF force = "none" THEN excuse ELSE "missed"
      /\ UNCHANGED <<inbox, dispatch, task, brokerCursor, fileCursor, pc, reason, maxId, output, seen,
                     turned, outcome, noOutput, prevOpen, spent>>
  BY DEF SlotsBusy, brokerVars, launchVars, sessionVars
<1>2. Open' = Open /\ Pending' = Pending
  BY <1>1 DEF Open, Pending
<1>3. TypeOK'
  <2>1. followups' \in 0..FOLLOWUP_MAX
    BY <1>1, NumbersAssumption DEF WatchInv, TypeOK
  <2>2. force' \in Reasons /\ excuse' \in Excuses
    BY <1>1 DEF Reasons, Excuses, WatchInv, TypeOK
  <2>. QED
    BY <1>1, <2>1, <2>2 DEF WatchInv, TypeOK
<1>4. Dispatched' /\ Launched'
  BY <1>1, <1>2 DEF WatchInv, Dispatched, Launched
<1>5. WorkDue'
  BY <1>1, <1>2 DEF WatchInv, WorkDue, Due
<1>6. IdleOnlyAfterGivingUp'
  <2>1. ~Pending => force # "none"
    BY <1>1 DEF Reason
  <2>. QED
    BY <1>1, <1>2, <2>1 DEF IdleOnlyAfterGivingUp, Reason
<1>7. SpendBounded' /\ SpentInLoop' /\ SpentInSession'
  BY <1>1, <1>2 DEF WatchInv, SpendBounded, SpentInLoop, SpentInSession
<1>. QED
  BY <1>3, <1>4, <1>5, <1>6, <1>7 DEF WatchInv

----------------------------------------------------------------------------
(* After a session. *)

(* What is left to show of a step back into the loop. *)
LEMMA BackToLoop ==
  ASSUME WatchInv, Back,
         brokerCursor' \in 0..Len(inbox), fileCursor' \in 0..Len(inbox),
         force' \in {"none", "followup", "rotate"}, noOutput' \in 0..NO_OUTPUT_MAX - 1,
         followups' \in 0..FOLLOWUP_MAX, prevOpen' \in 0..Cardinality(Tasks),
         excuse' \in Excuses, spent' \in Nat,
         WorkDue', IdleOnlyAfterGivingUp', SpendBounded', SpentInLoop'
  PROVE  WatchInv'
<1>1. /\ pc' = "loop"
      /\ UNCHANGED <<inbox, dispatch, task, reason, maxId, output, seen, turned, outcome>>
  BY DEF Back, brokerVars, launchVars, sessionVars
<1>2. TypeOK'
  <2>1. force' \in Reasons
    BY DEF Reasons
  <2>. QED
    BY <1>1, <2>1 DEF WatchInv, TypeOK
<1>3. Dispatched' /\ Launched' /\ SpentInSession'
  BY <1>1 DEF WatchInv, Dispatched, Launched, SpentInSession
<1>. QED
  BY <1>2, <1>3 DEF WatchInv

(* A cursor at or behind the watchdog's own finds every open task due.     *)
LEMMA BehindIsDue ==
  ASSUME WatchInv, UNCHANGED <<inbox, dispatch, task>>, brokerCursor' \in 0..Len(inbox),
         excuse' = "none" => \A t \in Open : dispatch[t] > fileCursor' => brokerCursor' < dispatch[t]
  PROVE  WorkDue'
<1>. SUFFICES ASSUME excuse' = "none", NEW t \in Open', dispatch[t] > fileCursor'
              PROVE  \E n \in brokerCursor' + 1..Len(inbox) : inbox[n] = t
  BY DEF WorkDue, Due
<1>1. t \in Open /\ t \in Tasks /\ task[t] = "open"
  BY DEF Open
<1>2. brokerCursor' < dispatch[t]
  BY <1>1
<1>3. dispatch[t] >= 1 /\ inbox[dispatch[t]] = t
  BY <1>1 DEF WatchInv, Dispatched
<1>4. dispatch[t] \in 0..Len(inbox) /\ Len(inbox) \in Nat
  BY <1>1 DEF WatchInv, TypeOK
<1>5. dispatch[t] \in brokerCursor' + 1..Len(inbox)
  BY <1>2, <1>4
<1>. QED
  BY <1>3, <1>5

(* The session is to be repeated: its reason stands, or its messages do.   *)
LEMMA Retried ==
  ASSUME WatchInv, pc = "ended", Back,
         brokerCursor' \in 0..Len(inbox), excuse' \in Excuses,
         excuse' = "none" => brokerCursor' <= fileCursor,
         force' \in {"none", "followup", "rotate"}, force' = "none" => reason = "inbox",
         noOutput' \in 0..NO_OUTPUT_MAX - 1, spent' \in Nat, spent' <= noOutput',
         UNCHANGED <<fileCursor, followups, prevOpen>>
  PROVE  WatchInv'
<1>1. UNCHANGED <<inbox, dispatch, task>> /\ pc' = "loop"
  BY DEF Back, brokerVars
<1>2. /\ fileCursor \in 0..Len(inbox) /\ Len(inbox) \in Nat /\ followups \in 0..FOLLOWUP_MAX
      /\ prevOpen \in 0..Cardinality(Tasks) /\ brokerCursor' \in Int
  BY DEF WatchInv, TypeOK
<1>8. \A t \in Open : dispatch[t] \in Int
  <2>1. dispatch \in [Tasks -> 0..Len(inbox)]
    BY DEF WatchInv, TypeOK
  <2>. QED
    BY <2>1 DEF Open
<1>3. WorkDue'
  <2>1. excuse' = "none" => \A t \in Open : dispatch[t] > fileCursor' => brokerCursor' < dispatch[t]
    BY <1>2, <1>8
  <2>. QED
    BY <1>1, <2>1, BehindIsDue
<1>4. force' = "none" => Pending'
  BY <1>1 DEF WatchInv, Launched, Pending
<1>5. IdleOnlyAfterGivingUp'
  BY <1>4 DEF IdleOnlyAfterGivingUp, Reason
<1>6. SpendBounded' /\ SpentInLoop'
  <2>1. spent' <= NO_OUTPUT_MAX + FOLLOWUP_MAX /\ spent' <= NO_OUTPUT_MAX + followups' - 1
    BY <1>2, NumbersAssumption
  <2>. QED
    BY <2>1 DEF SpendBounded, SpentInLoop
<1>7. fileCursor' \in 0..Len(inbox) /\ followups' \in 0..FOLLOWUP_MAX
      /\ prevOpen' \in 0..Cardinality(Tasks)
  BY <1>2
<1>. QED
  BY <1>3, <1>5, <1>6, <1>7, BackToLoop

(* The watchdog keeps the reason of a session it has to repeat. *)
LEMMA KeptReason ==
  ASSUME WatchInv, pc = "ended"
  PROVE  Kept \in {"none", "followup", "rotate"} /\ (Kept = "none" => reason = "inbox")
<1>1. reason \in Reasons /\ force = "none" /\ reason # "none"
  BY DEF WatchInv, TypeOK, Launched
<1>. QED
  BY <1>1 DEF Kept, Reasons

(* Failures: nothing is charged, everything read since the watchdog's own  *)
(* cursor is due again.                                                    *)
LEMMA FailureStep ==
  ASSUME WatchInv, AfterFailure \/ AfterNetDown \/ AfterRotation
  PROVE  WatchInv'
<1>1. /\ Back /\ pc = "ended" /\ spent' = 0 /\ force' \in {Kept, "rotate"}
      /\ UNCHANGED <<fileCursor, noOutput, followups, prevOpen>>
  BY DEF AfterFailure, AfterNetDown, AfterRotation, Back
<1>2. /\ TypeOK /\ Dispatched /\ brokerCursor \in 0..Len(inbox) /\ fileCursor \in 0..Len(inbox)
      /\ noOutput \in 0..NO_OUTPUT_MAX - 1
  BY DEF WatchInv, TypeOK
<1>3. PICK pos \in 0..Len(inbox) : RewindFrom(pos, fileCursor)
  BY <1>2, FallbackInRange DEF AfterFailure, AfterNetDown, AfterRotation
<1>4. /\ brokerCursor' \in 0..Len(inbox) /\ excuse' \in Excuses
      /\ excuse' = "none" => brokerCursor' <= fileCursor
  BY <1>2, <1>3, Rewound DEF Excuses
<1>5. force' \in {"none", "followup", "rotate"} /\ (force' = "none" => reason = "inbox")
  BY <1>1, KeptReason
<1>6. noOutput' \in 0..NO_OUTPUT_MAX - 1 /\ spent' \in Nat /\ spent' <= noOutput'
  BY <1>1, <1>2
<1>. QED
  BY <1>1, <1>4, <1>5, <1>6, Retried

LEMMA LimitStep ==
  ASSUME WatchInv, AfterLimit
  PROVE  WatchInv'
<1>1. /\ Back /\ pc = "ended" /\ spent' = 0 /\ force' = Kept /\ excuse' = "limited"
      /\ UNCHANGED <<brokerCursor, fileCursor, noOutput, followups, prevOpen>>
  BY DEF AfterLimit, Back
<1>2. brokerCursor' \in 0..Len(inbox) /\ noOutput' \in 0..NO_OUTPUT_MAX - 1
      /\ spent' \in Nat /\ spent' <= noOutput' /\ excuse' \in Excuses
  BY <1>1 DEF WatchInv, TypeOK, Excuses
<1>. QED
  BY <1>1, <1>2, KeptReason, Retried

(* Messages beyond the written cursor are news. *)
LEMMA CursorWritten ==
  ASSUME WatchInv, WriteCursor
  PROVE  /\ fileCursor' \in 0..Len(inbox)
         /\ Len(inbox) > fileCursor' => Len(inbox) > maxId
<1>1. maxId \in 0..Len(inbox) /\ fileCursor \in 0..Len(inbox) /\ Len(inbox) \in Nat
  BY DEF WatchInv, TypeOK
<1>2. fileCursor' = IF maxId > fileCursor THEN maxId ELSE fileCursor
  BY DEF WriteCursor
<1>3. CASE maxId > fileCursor
  BY <1>1, <1>2, <1>3
<1>4. CASE ~(maxId > fileCursor)
  BY <1>1, <1>2, <1>4
<1>. QED
  BY <1>3, <1>4

(* A follow-up is charged to its budget, which only progress renews. *)
LEMMA OutputStep ==
  ASSUME WatchInv, AfterOutput
  PROVE  WatchInv'
<1>1. /\ Back /\ pc = "ended" /\ pc' = "loop" /\ WriteCursor /\ noOutput' = 0
      /\ UNCHANGED <<inbox, dispatch, task>>
  BY DEF AfterOutput, Back, brokerVars
<1>2. PICK led \in LedgerOpen :
        /\ prevOpen' = Cardinality(led)
        /\ FollowUp(led, IF Cardinality(led) < prevOpen THEN 0 ELSE followups)
        /\ spent' = IF led = Open THEN spent ELSE 0
  BY DEF AfterOutput
<1>. DEFINE due == IF Cardinality(led) < prevOpen THEN 0 ELSE followups
<1>3. /\ TypeOK /\ Dispatched /\ force = "none" /\ reason # "none" /\ Len(inbox) \in Nat
      /\ brokerCursor \in 0..Len(inbox) /\ noOutput \in 0..NO_OUTPUT_MAX - 1
      /\ followups \in 0..FOLLOWUP_MAX /\ spent \in Nat
  BY <1>1 DEF WatchInv, Launched, TypeOK
<1>4. led = Open \/ (led = {} /\ led # Open)
  BY DEF LedgerOpen
<1>5. Open' = Open
  BY <1>1 DEF Open
<1>6. /\ fileCursor' \in 0..Len(inbox)
      /\ Pending' => Len(inbox) > maxId
  BY <1>1, CursorWritten DEF Pending
<1>7. /\ Cardinality(Open) \in Nat /\ Cardinality({}) = 0
      /\ prevOpen' \in 0..Cardinality(Tasks) /\ prevOpen \in Nat
  BY <1>2, <1>3, OpenCounted, FS_EmptySet DEF TypeOK
<1>8. ~(Cardinality(Open) < prevOpen')
  BY <1>2, <1>4, <1>7
<1>9. due \in 0..FOLLOWUP_MAX
  BY <1>3, NumbersAssumption
<1>10. (spent <= NO_OUTPUT_MAX + due /\ spent <= NO_OUTPUT_MAX + FOLLOWUP_MAX) \/ led # Open
  <2>. SUFFICES ASSUME led = Open
                PROVE  spent <= NO_OUTPUT_MAX + due /\ spent <= NO_OUTPUT_MAX + FOLLOWUP_MAX
    OBVIOUS
  <2>1. spent <= NO_OUTPUT_MAX + FOLLOWUP_MAX
    BY DEF WatchInv, SpendBounded
  <2>2. CASE Cardinality(Open) < prevOpen \/ reason = "inbox"
    <3>1. spent <= noOutput + 1
      BY <1>1, <2>2 DEF WatchInv, SpentInSession
    <3>. QED
      BY <1>3, <1>9, <2>1, <3>1, NumbersAssumption
  <2>3. CASE ~(Cardinality(Open) < prevOpen \/ reason = "inbox")
    <3>1. spent <= NO_OUTPUT_MAX + followups /\ due = followups
      BY <1>1, <2>3 DEF WatchInv, SpentInSession
    <3>. QED
      BY <2>1, <3>1
  <2>. QED
    BY <2>2, <2>3
<1>11. Pending' => spent' = 0
  BY <1>1, <1>2, <1>6 DEF WatchInv, SpentInSession
<1>12. /\ spent' \in Nat /\ spent' <= NO_OUTPUT_MAX + due
       /\ spent' <= NO_OUTPUT_MAX + FOLLOWUP_MAX
  BY <1>2, <1>3, <1>9, <1>10, NumbersAssumption
<1>13. SpendBounded'
  BY <1>12 DEF SpendBounded
<1>14. FollowUp(led, due)
  BY <1>2
<1>. HIDE DEF due
<1>15. CASE led # {} /\ due < FOLLOWUP_MAX
  <2>. DEFINE n == Low({dispatch[t] : t \in led}) - 1
  <2>1. /\ followups' = due + 1 /\ force' = "followup" /\ RewindFrom(brokerCursor, n)
    BY <1>14, <1>15 DEF FollowUp
  <2>2. n \in 0..Len(inbox) /\ \A t \in Open : n < dispatch[t]
    BY <1>3, <1>15, FollowUpTarget
  <2>. HIDE DEF n
  <2>3. /\ brokerCursor' \in 0..Len(inbox) /\ excuse' \in {"none", "missed"}
        /\ excuse' = "none" => brokerCursor' <= n
    BY <1>3, <2>1, <2>2, Rewound
  <2>4. WorkDue'
    <3>1. excuse' = "none" => \A t \in Open : brokerCursor' < dispatch[t]
      <4>1. \A t \in Open : dispatch[t] \in Int
        BY <1>3 DEF TypeOK, Open
      <4>. QED
        BY <2>2, <2>3, <4>1
    <3>. QED
      BY <1>1, <2>3, <3>1, BehindIsDue
  <2>5. IdleOnlyAfterGivingUp'
    BY <2>1 DEF IdleOnlyAfterGivingUp, Reason
  <2>6. SpentInLoop'
    <3>1. spent' <= NO_OUTPUT_MAX + followups' - 1
      BY <1>9, <1>12, <2>1, NumbersAssumption
    <3>. QED
      BY <1>1, <1>5, <1>8, <1>11, <3>1 DEF SpentInLoop
  <2>7. followups' \in 0..FOLLOWUP_MAX /\ noOutput' \in 0..NO_OUTPUT_MAX - 1 /\ excuse' \in Excuses
    BY <1>1, <1>9, <1>15, <2>1, <2>3, NumbersAssumption DEF Excuses
  <2>. QED
    BY <1>1, <1>6, <1>7, <1>12, <1>13, <2>1, <2>3, <2>4, <2>5, <2>6, <2>7, BackToLoop
<1>16. CASE ~(led # {} /\ due < FOLLOWUP_MAX)
  <2>1. /\ followups' = due /\ force' = "none" /\ brokerCursor' = brokerCursor
        /\ excuse' = IF led # {} THEN "gave_up" ELSE IF Open # {} THEN "missed" ELSE "none"
    BY <1>3, <1>14, <1>16 DEF FollowUp
  <2>2. excuse' \in {"gave_up", "missed"} \/ (excuse' = "none" /\ Open = {})
    BY <1>4, <2>1
  <2>3. WorkDue' /\ IdleOnlyAfterGivingUp'
    BY <1>5, <2>2 DEF WorkDue, IdleOnlyAfterGivingUp
  <2>4. SpentInLoop'
    BY <1>1, <1>5, <1>8, <1>11, <2>1 DEF SpentInLoop
  <2>5. followups' \in 0..FOLLOWUP_MAX /\ noOutput' \in 0..NO_OUTPUT_MAX - 1 /\ excuse' \in Excuses
    BY <1>1, <1>9, <2>1, <2>2, NumbersAssumption DEF Excuses
  <2>6. brokerCursor' \in 0..Len(inbox)
    BY <1>3, <2>1
  <2>. QED
    BY <1>1, <1>6, <1>7, <1>12, <1>13, <2>1, <2>3, <2>4, <2>5, <2>6, BackToLoop
<1>. QED
  BY <1>15, <1>16

(* Silence is charged to the silent runs; the last one takes the batch off. *)
LEMMA SilenceStep ==
  ASSUME WatchInv, AfterSilence
  PROVE  WatchInv'
<1>1. /\ Back /\ pc = "ended" /\ pc' = "loop" /\ reason = "inbox"
      /\ spent' = IF CountsAsOutput THEN 0 ELSE spent
      /\ UNCHANGED <<inbox, dispatch, task, force, followups, prevOpen>>
  BY DEF AfterSilence, Back, brokerVars, CountsAsOutput
<1>2. /\ TypeOK /\ force = "none" /\ Len(inbox) \in Nat /\ noOutput \in 0..NO_OUTPUT_MAX - 1
      /\ brokerCursor \in 0..Len(inbox) /\ fileCursor \in 0..Len(inbox) /\ spent \in Nat
      /\ followups \in 0..FOLLOWUP_MAX /\ prevOpen \in 0..Cardinality(Tasks)
  BY <1>1 DEF WatchInv, TypeOK, Launched
<1>3. spent' \in Nat /\ spent' <= noOutput + 1
  <2>1. spent <= noOutput + 1
    BY <1>1 DEF WatchInv, SpentInSession
  <2>. QED
    BY <1>1, <1>2, <2>1
<1>4. CASE noOutput + 1 >= NO_OUTPUT_MAX
  <2>1. WriteCursor /\ noOutput' = 0 /\ excuse' = "gave_up" /\ brokerCursor' = brokerCursor
    BY <1>4 DEF AfterSilence
  <2>2. fileCursor' \in 0..Len(inbox) /\ (Pending' => Len(inbox) > maxId)
    BY <1>1, <2>1, CursorWritten DEF Pending
  <2>3. Pending' => spent' = 0
    BY <1>1, <2>2 DEF WatchInv, SpentInSession
  <2>4. SpentInLoop'
    BY <1>1, <1>2, <2>1, <2>3 DEF SpentInLoop
  <2>5. SpendBounded'
    <3>1. spent' <= NO_OUTPUT_MAX + FOLLOWUP_MAX
      BY <1>2, <1>3, NumbersAssumption
    <3>. QED
      BY <3>1 DEF SpendBounded
  <2>6. WorkDue' /\ IdleOnlyAfterGivingUp'
    BY <2>1 DEF WorkDue, IdleOnlyAfterGivingUp
  <2>7. /\ noOutput' \in 0..NO_OUTPUT_MAX - 1 /\ excuse' \in Excuses
        /\ brokerCursor' \in 0..Len(inbox) /\ force' \in {"none", "followup", "rotate"}
        /\ followups' \in 0..FOLLOWUP_MAX /\ prevOpen' \in 0..Cardinality(Tasks)
    BY <1>1, <1>2, <2>1, NumbersAssumption DEF Excuses
  <2>. QED
    BY <1>1, <1>3, <2>2, <2>4, <2>5, <2>6, <2>7, BackToLoop
<1>5. CASE ~(noOutput + 1 >= NO_OUTPUT_MAX)
  <2>1. noOutput' = noOutput + 1 /\ RewindFrom(brokerCursor, fileCursor) /\ fileCursor' = fileCursor
    BY <1>5 DEF AfterSilence
  <2>2. /\ brokerCursor' \in 0..Len(inbox) /\ excuse' \in Excuses
        /\ excuse' = "none" => brokerCursor' <= fileCursor
    BY <1>2, <2>1, Rewound DEF Excuses
  <2>3. noOutput' \in 0..NO_OUTPUT_MAX - 1 /\ spent' <= noOutput'
    BY <1>2, <1>3, <1>5, <2>1, NumbersAssumption
  <2>4. force' \in {"none", "followup", "rotate"} /\ (force' = "none" => reason = "inbox")
    BY <1>1, <1>2
  <2>. QED
    BY <1>1, <1>3, <2>1, <2>2, <2>3, <2>4, Retried
<1>. QED
  BY <1>4, <1>5

(* Of the loop only the file survives; the startup follow-up finds the     *)
(* rest in the ledger.                                                     *)
LEMMA RestartStep ==
  ASSUME WatchInv, Restart
  PROVE  WatchInv'
<1>1. /\ pc' = "loop" /\ noOutput' = 0 /\ spent' = 0 /\ reason' = "none" /\ maxId' = 0
      /\ output' = {} /\ seen' = {} /\ turned' = FALSE /\ outcome' = "none"
      /\ UNCHANGED <<inbox, dispatch, task, fileCursor>>
  BY DEF Restart, brokerVars
<1>2. PICK led \in LedgerOpen :
        /\ prevOpen' = Cardinality(led)
        /\ IF led # {} /\ FOLLOWUP_MAX > 0
             THEN /\ followups' = 1 /\ force' = "followup"
                  /\ RewindFrom(brokerCursor, Low({dispatch[t] : t \in led}) - 1)
             ELSE /\ followups' = 0 /\ force' = "none" /\ UNCHANGED brokerCursor
                  /\ excuse' = IF Open = {} THEN "none" ELSE "missed"
  BY DEF Restart
<1>3. TypeOK /\ Dispatched /\ brokerCursor \in 0..Len(inbox) /\ Len(inbox) \in Nat
  BY DEF WatchInv, TypeOK
<1>4. Open' = Open
  BY <1>1 DEF Open
<1>5. /\ brokerCursor' \in 0..Len(inbox) /\ excuse' \in {"none", "missed"} /\ WorkDue'
      /\ followups' \in 0..FOLLOWUP_MAX /\ force' \in {"none", "followup"}
      /\ force' = "none" => excuse' = "missed" \/ Open = {}
  <2>1. CASE led # {} /\ FOLLOWUP_MAX > 0
    <3>. DEFINE n == Low({dispatch[t] : t \in led}) - 1
    <3>1. followups' = 1 /\ force' = "followup" /\ RewindFrom(brokerCursor, n)
      BY <1>2, <2>1
    <3>2. n \in 0..Len(inbox) /\ \A t \in Open : n < dispatch[t]
      BY <1>3, <2>1, FollowUpTarget
    <3>. HIDE DEF n
    <3>3. /\ brokerCursor' \in 0..Len(inbox) /\ excuse' \in {"none", "missed"}
          /\ excuse' = "none" => brokerCursor' <= n
      BY <1>3, <3>1, <3>2, Rewound
    <3>4. excuse' = "none" => \A t \in Open : brokerCursor' < dispatch[t]
      <4>1. \A t \in Open : dispatch[t] \in Int
        BY <1>3 DEF TypeOK, Open
      <4>. QED
        BY <3>2, <3>3, <4>1
    <3>5. WorkDue'
      BY <1>1, <3>3, <3>4, BehindIsDue
    <3>6. followups' \in 0..FOLLOWUP_MAX
      BY <2>1, <3>1, NumbersAssumption
    <3>. QED
      BY <3>1, <3>3, <3>5, <3>6
  <2>2. CASE ~(led # {} /\ FOLLOWUP_MAX > 0)
    <3>1. /\ followups' = 0 /\ force' = "none" /\ brokerCursor' = brokerCursor
          /\ excuse' = IF Open = {} THEN "none" ELSE "missed"
      BY <1>2, <2>2
    <3>2. WorkDue'
      BY <1>4, <3>1 DEF WorkDue
    <3>3. followups' \in 0..FOLLOWUP_MAX
      BY <3>1, NumbersAssumption
    <3>. QED
      BY <1>3, <3>1, <3>2, <3>3
  <2>. QED
    BY <2>1, <2>2
<1>6. prevOpen' \in 0..Cardinality(Tasks)
  BY <1>2, OpenCounted
<1>7. TypeOK'
  <2>1. /\ {reason', force'} \subseteq Reasons /\ excuse' \in Excuses
        /\ outcome' \in AllOutcomes \cup {"none"} /\ output' \subseteq {"own", "peer"}
        /\ seen' \subseteq Tasks /\ turned' \in BOOLEAN
    BY <1>1, <1>5 DEF Reasons, Excuses
  <2>2. maxId' \in 0..Len(inbox) /\ noOutput' \in 0..NO_OUTPUT_MAX - 1 /\ spent' \in Nat
    BY <1>1, <1>3, NumbersAssumption
  <2>. QED
    BY <1>1, <1>3, <1>5, <1>6, <2>1, <2>2 DEF TypeOK
<1>8. Dispatched' /\ Launched' /\ IdleOnlyAfterGivingUp'
  BY <1>1, <1>3, <1>4, <1>5 DEF Dispatched, Launched, IdleOnlyAfterGivingUp, Reason
<1>9. SpendBounded' /\ SpentInLoop' /\ SpentInSession'
  <2>1. /\ NO_OUTPUT_MAX \in Int /\ FOLLOWUP_MAX \in Int /\ followups' \in Int
        /\ NO_OUTPUT_MAX >= 1 /\ FOLLOWUP_MAX >= 0 /\ followups' >= 0
    BY <1>5, NumbersAssumption
  <2>2. spent' = 0 /\ noOutput' = 0
    BY <1>1
  <2>3. 0 <= NO_OUTPUT_MAX + FOLLOWUP_MAX /\ 0 <= NO_OUTPUT_MAX + followups' - 1
    <3>. DEFINE N == NO_OUTPUT_MAX
                f == followups'
                F == FOLLOWUP_MAX
    <3>1. N \in Int /\ F \in Int /\ f \in Int /\ N >= 1 /\ F >= 0 /\ f >= 0
      BY <2>1
    <3>. HIDE DEF N, f, F
    <3>2. 0 <= N + F /\ 0 <= N + f - 1
      BY <3>1
    <3>. QED
      BY <3>2 DEF N, f, F
  <2>. QED
    BY <1>1, <2>2, <2>3 DEF SpendBounded, SpentInLoop, SpentInSession
<1>. QED
  BY <1>5, <1>7, <1>8, <1>9 DEF WatchInv

LEMMA WatchNextInv == WatchInv /\ [Next]_vars => WatchInv'
<1>. SUFFICES ASSUME WatchInv, [Next]_vars PROVE WatchInv'
  OBVIOUS
<1>1. CASE UNCHANGED vars
  <2>1. /\ UNCHANGED <<inbox, dispatch, task, brokerCursor, fileCursor, pc, reason, maxId, output,
                       seen, turned, outcome, force, noOutput, followups, prevOpen, excuse, spent>>
    BY <1>1 DEF vars, brokerVars, launchVars, sessionVars, counterVars
  <2>2. Open' = Open
    BY <2>1 DEF Open
  <2>3. TypeOK' /\ Dispatched' /\ Launched'
    BY <2>1 DEF WatchInv, TypeOK, Dispatched, Launched, Pending
  <2>4. WorkDue' /\ IdleOnlyAfterGivingUp'
    BY <2>1, <2>2 DEF WatchInv, WorkDue, IdleOnlyAfterGivingUp, Due, Reason, Pending
  <2>5. SpendBounded' /\ SpentInLoop' /\ SpentInSession'
    BY <2>1, <2>2 DEF WatchInv, SpendBounded, SpentInLoop, SpentInSession, Pending
  <2>. QED
    BY <2>3, <2>4, <2>5 DEF WatchInv
<1>2. ASSUME NEW t \in Tasks, Dispatch(t) \/ Answer(t)
      PROVE  WatchInv'
  BY <1>2, DispatchStep, AnswerStep
<1>3. CASE Session
  BY <1>3, TurnStartStep, HandoffStep, ReportStep, EndStep DEF Session
<1>4. CASE After
  BY <1>4, FailureStep, LimitStep, OutputStep, SilenceStep DEF After
<1>. QED
  BY <1>1, <1>2, <1>3, <1>4, PeerPostsStep, LaunchStep, SlotsBusyStep, RestartStep DEF Next

LEMMA WatchAlways == Spec => []WatchInv
BY WatchInitInv, WatchNextInv, PTL DEF Spec

(* The watchdog's state is well formed; neither cursor leads the inbox. *)
THEOREM WatchdogTypeCorrect == Spec => []TypeOK
<1>1. WatchInv => TypeOK
  BY DEF WatchInv
<1>. QED
  BY WatchAlways, <1>1, PTL

(* A relaunched session finds its work: whatever way the last one ended,   *)
(* until turn_start every open task beyond the watchdog's own cursor has a *)
(* message beyond the broker's, or there is an excuse on record.           *)
THEOREM RelaunchFindsWork == Spec => []RelaunchSeesWork
<1>1. WatchInv => RelaunchSeesWork
  BY DEF WatchInv, WorkDue, RelaunchSeesWork
<1>. QED
  BY WatchAlways, <1>1, PTL

(* No worker idles with a task open, except after its budget was used up,  *)
(* a call failed or a forced start met busy slots.                         *)
THEOREM NoIdleWithOpenWork == Spec => []IdleOnlyAfterGivingUp
<1>1. WatchInv => IdleOnlyAfterGivingUp
  BY DEF WatchInv
<1>. QED
  BY WatchAlways, <1>1, PTL

(* Between two events worth a launch, at most NO_OUTPUT_MAX + FOLLOWUP_MAX *)
(* sessions are launched.                                                  *)
THEOREM LaunchesBounded == Spec => []SpendBounded
<1>1. WatchInv => SpendBounded
  BY DEF WatchInv
<1>. QED
  BY WatchAlways, <1>1, PTL

----------------------------------------------------------------------------
(* The slots.  A watchdog that was not robbed has the file it created,     *)
(* under the number it keeps; and a file about to be removed was read from *)
(* a dead watchdog, or nothing was read.                                   *)

Holds(w) == at[w] \in {"write", "session"}

MineInv ==
  \A w \in Watchdogs : Holds(w) =>
    /\ mine[w] \in Files
    /\ at[w] = "write" => i[w] = mine[w]
    /\ w \notin robbed => slot[mine[w]].by = w

ReadInv ==
  \A w \in Watchdogs : at[w] = "remove" /\ read[w].written => at[read[w].by] = "dead"

SlotsInv == SlotsTypeOK /\ MineInv /\ ReadInv

LEMMA Pids == \A w \in Watchdogs : w # 0 /\ w # NoFile.by
BY WatchdogsAssumption DEF NoFile

LEMMA SlotsInitInv == SlotsInit => SlotsInv
<1>. SUFFICES ASSUME SlotsInit PROVE SlotsInv
  OBVIOUS
<1>1. SlotsTypeOK
  BY SlotsAssumption DEF SlotsInit, SlotsTypeOK, Files, Places
<1>2. \A w \in Watchdogs : at[w] = "idle"
  BY DEF SlotsInit
<1>. QED
  BY <1>1, <1>2 DEF SlotsInv, MineInv, ReadInv, Holds

(* Steps of a watchdog that leave files, numbers and losses alone. *)
LEMMA BeginStep ==
  ASSUME SlotsInv, NEW w \in Watchdogs, Begin(w)
  PROVE  SlotsInv'
<1>1. SlotsTypeOK'
  BY SlotsAssumption DEF Begin, Goto, SlotsInv, SlotsTypeOK, Files, Places
<1>2. /\ at' = [at EXCEPT ![w] = "look"] /\ at[w] = "idle" /\ at \in [Watchdogs -> Places]
      /\ UNCHANGED <<slot, i, mine, read, robbed>>
  BY DEF Begin, Goto, SlotsInv, SlotsTypeOK
<1>3. MineInv'
  BY <1>2 DEF SlotsInv, MineInv, Holds
<1>4. ReadInv'
  BY <1>2 DEF SlotsInv, ReadInv, SlotsTypeOK
<1>. QED
  BY <1>1, <1>3, <1>4 DEF SlotsInv

(* The dead stay dead, so that what was read of them stays true. *)
LEMMA ReadKept ==
  ASSUME SlotsInv, NEW w \in Watchdogs, NEW spot \in Places,
         at[w] # "dead", at' = [at EXCEPT ![w] = spot],
         \A v \in Watchdogs \ {w} : read'[v] = read[v],
         spot = "remove" /\ read'[w].written => at[read'[w].by] = "dead" /\ read'[w].by \in Watchdogs
  PROVE  ReadInv'
<1>. SUFFICES ASSUME NEW v \in Watchdogs, at'[v] = "remove", read'[v].written
              PROVE  at'[read'[v].by] = "dead"
  BY DEF ReadInv
<1>1. at \in [Watchdogs -> Places]
  BY DEF SlotsInv, SlotsTypeOK
<1>2. CASE v = w
  BY <1>1, <1>2
<1>3. CASE v # w
  <2>1. at[v] = "remove" /\ read'[v] = read[v]
    BY <1>1, <1>3
  <2>2. at[read[v].by] = "dead"
    BY <2>1 DEF SlotsInv, ReadInv
  <2>3. read[v].by \in Watchdogs
    BY <2>1, Pids DEF SlotsInv, SlotsTypeOK, NoFile
  <2>. QED
    BY <1>1, <2>1, <2>2, <2>3
<1>. QED
  BY <1>2, <1>3

LEMMA LookStep ==
  ASSUME SlotsInv, NEW w \in Watchdogs, Look(w)
  PROVE  SlotsInv'
<1>. DEFINE spot == IF slot[i[w]] = NoFile THEN "create" ELSE "read"
<1>1. /\ at' = [at EXCEPT ![w] = spot] /\ at[w] = "look" /\ at \in [Watchdogs -> Places]
      /\ UNCHANGED <<slot, i, mine, read, robbed>>
  BY DEF Look, Goto, SlotsInv, SlotsTypeOK
<1>2. SlotsTypeOK'
  BY <1>1 DEF SlotsInv, SlotsTypeOK, Places
<1>3. MineInv'
  BY <1>1 DEF SlotsInv, MineInv, Holds
<1>4. ReadInv'
  BY <1>1, ReadKept DEF Places
<1>. QED
  BY <1>2, <1>3, <1>4 DEF SlotsInv

LEMMA ReadStep ==
  ASSUME SlotsInv, NEW w \in Watchdogs, ReadPid(w)
  PROVE  SlotsInv'
<1>. DEFINE f    == slot[i[w]]
            spot == IF f.written THEN "test" ELSE "remove"
<1>1. i[w] \in Files /\ f \in {NoFile} \cup [by : Watchdogs, written : BOOLEAN]
  BY DEF SlotsInv, SlotsTypeOK
<1>2. /\ at' = [at EXCEPT ![w] = spot] /\ at[w] = "read" /\ at \in [Watchdogs -> Places]
      /\ read' = [read EXCEPT ![w] = f] /\ read'[w] = f
      /\ UNCHANGED <<slot, i, mine, robbed>>
  BY DEF ReadPid, Goto, SlotsInv, SlotsTypeOK
<1>3. SlotsTypeOK'
  BY <1>1, <1>2 DEF SlotsInv, SlotsTypeOK, Places
<1>4. MineInv'
  BY <1>2 DEF SlotsInv, MineInv, Holds
<1>5. ReadInv'
  <2>1. spot = "remove" => ~read'[w].written
    BY <1>2
  <2>2. \A v \in Watchdogs \ {w} : read'[v] = read[v]
    BY <1>2 DEF SlotsInv, SlotsTypeOK
  <2>. QED
    BY <1>2, <2>1, <2>2, ReadKept DEF Places
<1>. QED
  BY <1>3, <1>4, <1>5 DEF SlotsInv

LEMMA TestStep ==
  ASSUME SlotsInv, NEW w \in Watchdogs, TestPid(w)
  PROVE  SlotsInv'
<1>. DEFINE dead == Stale(read[w].by)
            spot == IF dead THEN "remove" ELSE "create"
            r    == IF dead THEN read[w] ELSE NoFile
<1>1. read[w] \in {NoFile} \cup [by : Watchdogs, written : BOOLEAN]
  BY DEF SlotsInv, SlotsTypeOK
<1>2. /\ at' = [at EXCEPT ![w] = spot] /\ at[w] = "test" /\ at \in [Watchdogs -> Places]
      /\ read' = [read EXCEPT ![w] = r] /\ read'[w] = r
      /\ UNCHANGED <<slot, i, mine, robbed>>
  BY DEF TestPid, Goto, SlotsInv, SlotsTypeOK
<1>3. SlotsTypeOK'
  BY <1>1, <1>2 DEF SlotsInv, SlotsTypeOK, Places
<1>4. MineInv'
  BY <1>2 DEF SlotsInv, MineInv, Holds
<1>5. ReadInv'
  <2>1. spot = "remove" /\ read'[w].written => at[read'[w].by] = "dead" /\ read'[w].by \in Watchdogs
    BY <1>1, <1>2, Pids DEF Stale, NoFile
  <2>2. \A v \in Watchdogs \ {w} : read'[v] = read[v]
    BY <1>2 DEF SlotsInv, SlotsTypeOK
  <2>. QED
    BY <1>2, <2>1, <2>2, ReadKept DEF Places
<1>. QED
  BY <1>3, <1>4, <1>5 DEF SlotsInv

(* Nobody loses a file unnoticed: the one removed was read from a dead     *)
(* watchdog, or its owner counts as robbed.                                *)
LEMMA RemoveStep ==
  ASSUME SlotsInv, NEW w \in Watchdogs, RemoveFile(w)
  PROVE  SlotsInv'
<1>. DEFINE f == slot[i[w]]
<1>1. i[w] \in Files /\ f \in {NoFile} \cup [by : Watchdogs, written : BOOLEAN]
  BY DEF SlotsInv, SlotsTypeOK
<1>2. /\ at' = [at EXCEPT ![w] = "create"] /\ at[w] = "remove" /\ at \in [Watchdogs -> Places]
      /\ slot' = [slot EXCEPT ![i[w]] = NoFile]
      /\ robbed' = robbed \cup (IF f.by # read[w].by \/ ~read[w].written THEN Loses(f.by) ELSE {})
      /\ read' = [read EXCEPT ![w] = NoFile]
      /\ UNCHANGED <<i, mine>>
  BY DEF RemoveFile, Goto, SlotsInv, SlotsTypeOK
<1>3. Loses(f.by) \subseteq Watchdogs
  BY DEF Loses
<1>4. SlotsTypeOK'
  BY <1>1, <1>2, <1>3 DEF SlotsInv, SlotsTypeOK, Places
<1>5. ReadInv'
  BY <1>2, ReadKept DEF SlotsInv, SlotsTypeOK, Places
<1>6. MineInv'
  <2>. SUFFICES ASSUME NEW v \in Watchdogs, at'[v] \in {"write", "session"}
                PROVE  /\ mine[v] \in Files
                       /\ at'[v] = "write" => i[v] = mine[v]
                       /\ v \notin robbed' => slot'[mine[v]].by = v
    BY <1>2 DEF MineInv, Holds
  <2>1. at'[v] = at[v] /\ v # w
    BY <1>2
  <2>2. /\ mine[v] \in Files /\ (at[v] = "write" => i[v] = mine[v])
        /\ v \notin robbed => slot[mine[v]].by = v
    BY <2>1 DEF SlotsInv, MineInv, Holds
  <2>3. ASSUME v \notin robbed'
        PROVE  slot'[mine[v]].by = v
    <3>1. slot[mine[v]].by = v
      BY <1>2, <2>2, <2>3
    <3>2. CASE mine[v] # i[w]
      BY <1>2, <2>2, <3>1, <3>2 DEF SlotsInv, SlotsTypeOK
    <3>3. CASE mine[v] = i[w]
      <4>1. f.by = v /\ Loses(v) = {v}
        BY <2>1, <3>1, <3>3 DEF Loses
      <4>2. v = read[w].by /\ read[w].written
        BY <1>2, <2>3, <4>1
      <4>3. at[v] = "dead"
        BY <1>2, <4>2 DEF SlotsInv, ReadInv
      <4>. QED
        BY <2>1, <4>3
    <3>. QED
      BY <3>2, <3>3
  <2>. QED
    BY <2>1, <2>2, <2>3
<1>. QED
  BY <1>4, <1>5, <1>6 DEF SlotsInv

LEMMA CreateStep ==
  ASSUME SlotsInv, NEW w \in Watchdogs, Create(w)
  PROVE  SlotsInv'
<1>1. i[w] \in Files /\ at[w] = "create" /\ UNCHANGED <<read, robbed>>
  BY DEF Create, SlotsInv, SlotsTypeOK
<1>2. CASE slot[i[w]] = NoFile
  <2>1. /\ slot' = [slot EXCEPT ![i[w]] = File(w)] /\ at' = [at EXCEPT ![w] = "write"]
        /\ mine' = [mine EXCEPT ![w] = i[w]] /\ i' = i
    BY <1>2 DEF Create, Goto
  <2>2. File(w) \in [by : Watchdogs, written : BOOLEAN] /\ File(w).by = w
    BY DEF File
  <2>3. SlotsTypeOK'
    BY <1>1, <2>1, <2>2 DEF SlotsInv, SlotsTypeOK, Places
  <2>4. ReadInv'
    BY <1>1, <2>1, ReadKept DEF Places
  <2>5. MineInv'
    <3>. SUFFICES ASSUME NEW v \in Watchdogs, at'[v] \in {"write", "session"}
                  PROVE  /\ mine'[v] \in Files
                         /\ at'[v] = "write" => i[v] = mine'[v]
                         /\ v \notin robbed => slot'[mine'[v]].by = v
      BY <1>1, <2>1 DEF MineInv, Holds
    <3>1. CASE v = w
      BY <1>1, <2>1, <2>2, <3>1 DEF SlotsInv, SlotsTypeOK
    <3>2. CASE v # w
      <4>1. at'[v] = at[v] /\ mine'[v] = mine[v]
        BY <2>1, <3>2 DEF SlotsInv, SlotsTypeOK
      <4>2. /\ mine[v] \in Files /\ (at[v] = "write" => i[v] = mine[v])
            /\ v \notin robbed => slot[mine[v]].by = v
        BY <4>1 DEF SlotsInv, MineInv, Holds
      <4>3. v \notin robbed => mine[v] # i[w]
        BY <1>2, <4>2, Pids
      <4>. QED
        BY <2>1, <4>1, <4>2, <4>3 DEF SlotsInv, SlotsTypeOK
    <3>. QED
      BY <3>1, <3>2
  <2>. QED
    BY <2>3, <2>4, <2>5 DEF SlotsInv
<1>3. CASE slot[i[w]] # NoFile
  <2>. DEFINE spot == IF i[w] < MAX_CONCURRENT THEN "look" ELSE "idle"
  <2>1. /\ at' = [at EXCEPT ![w] = spot] /\ UNCHANGED <<slot, mine>>
        /\ i' = [i EXCEPT ![w] = IF @ < MAX_CONCURRENT THEN @ + 1 ELSE 1]
    BY <1>3 DEF Create, Goto
  <2>2. SlotsTypeOK'
    BY <1>1, <2>1, SlotsAssumption DEF SlotsInv, SlotsTypeOK, Places, Files
  <2>3. ReadInv'
    BY <1>1, <2>1, ReadKept DEF Places
  <2>4. MineInv'
    BY <1>1, <2>1 DEF SlotsInv, SlotsTypeOK, MineInv, Holds
  <2>. QED
    BY <2>2, <2>3, <2>4 DEF SlotsInv
<1>. QED
  BY <1>2, <1>3

LEMMA WriteStep ==
  ASSUME SlotsInv, NEW w \in Watchdogs, WritePid(w)
  PROVE  SlotsInv'
<1>. DEFINE f == slot[i[w]]
            g == IF f.by = w THEN [f EXCEPT !.written = TRUE] ELSE f
<1>1. i[w] \in Files /\ f \in {NoFile} \cup [by : Watchdogs, written : BOOLEAN]
  BY DEF SlotsInv, SlotsTypeOK
<1>2. /\ at' = [at EXCEPT ![w] = "session"] /\ at[w] = "write" /\ slot' = [slot EXCEPT ![i[w]] = g]
      /\ i' = [i EXCEPT ![w] = 1]
      /\ UNCHANGED <<mine, read, robbed>>
  BY DEF WritePid, Goto
<1>3. g.by = f.by /\ g \in {NoFile} \cup [by : Watchdogs, written : BOOLEAN]
  BY <1>1, Pids
<1>. HIDE DEF g
<1>4. SlotsTypeOK'
  BY <1>1, <1>2, <1>3, SlotsAssumption DEF SlotsInv, SlotsTypeOK, Places, Files
<1>5. ReadInv'
  BY <1>2, ReadKept DEF Places
<1>6. \A n \in Files : slot'[n].by = slot[n].by
  BY <1>1, <1>2, <1>3 DEF SlotsInv, SlotsTypeOK
<1>7. MineInv'
  BY <1>2, <1>6 DEF SlotsInv, SlotsTypeOK, MineInv, Holds
<1>. QED
  BY <1>4, <1>5, <1>7 DEF SlotsInv

LEMMA ReleaseStep ==
  ASSUME SlotsInv, NEW w \in Watchdogs, EndSession(w)
  PROVE  SlotsInv'
<1>. DEFINE f == slot[mine[w]]
<1>1. mine[w] \in Files /\ at[w] = "session" /\ (w \notin robbed => f.by = w)
  BY DEF EndSession, SlotsInv, MineInv, Holds
<1>2. /\ at' = [at EXCEPT ![w] = "idle"] /\ slot' = [slot EXCEPT ![mine[w]] = NoFile]
      /\ mine' = [mine EXCEPT ![w] = 0]
      /\ robbed' = IF w \in robbed THEN (robbed \ {w}) \cup (Loses(f.by) \ {w}) ELSE robbed
      /\ UNCHANGED <<i, read>>
  BY DEF EndSession, Goto
<1>3. Loses(f.by) \subseteq Watchdogs
  BY DEF Loses
<1>4. SlotsTypeOK'
  BY <1>1, <1>2, <1>3 DEF SlotsInv, SlotsTypeOK, Places
<1>5. ReadInv'
  BY <1>1, <1>2, ReadKept DEF Places
<1>6. MineInv'
  <2>. SUFFICES ASSUME NEW v \in Watchdogs, at'[v] \in {"write", "session"}
                PROVE  /\ mine'[v] \in Files
                       /\ at'[v] = "write" => i[v] = mine'[v]
                       /\ v \notin robbed' => slot'[mine'[v]].by = v
    BY <1>2 DEF MineInv, Holds
  <2>1. v # w /\ at'[v] = at[v] /\ mine'[v] = mine[v]
    BY <1>2 DEF SlotsInv, SlotsTypeOK
  <2>2. /\ mine[v] \in Files /\ (at[v] = "write" => i[v] = mine[v])
        /\ v \notin robbed => slot[mine[v]].by = v
    BY <2>1 DEF SlotsInv, MineInv, Holds
  <2>3. ASSUME v \notin robbed'
        PROVE  slot'[mine[v]].by = v
    <3>1. slot[mine[v]].by = v
      BY <1>2, <2>1, <2>2, <2>3
    <3>2. CASE mine[v] # mine[w]
      BY <1>1, <1>2, <2>2, <3>1, <3>2 DEF SlotsInv, SlotsTypeOK
    <3>3. CASE mine[v] = mine[w]
      <4>1. w \in robbed /\ f.by = v /\ Loses(v) = {v}
        BY <1>1, <2>1, <3>1, <3>3 DEF Loses
      <4>. QED
        BY <1>2, <2>1, <2>3, <4>1
    <3>. QED
      BY <3>2, <3>3
  <2>. QED
    BY <2>1, <2>2, <2>3
<1>. QED
  BY <1>4, <1>5, <1>6 DEF SlotsInv

LEMMA DieStep ==
  ASSUME SlotsInv, NEW w \in Watchdogs, Die(w)
  PROVE  SlotsInv'
<1>1. /\ at' = [at EXCEPT ![w] = "dead"] /\ at[w] # "dead"
      /\ i' = [i EXCEPT ![w] = 1] /\ mine' = [mine EXCEPT ![w] = 0]
      /\ read' = [read EXCEPT ![w] = NoFile]
      /\ UNCHANGED <<slot, robbed>>
  BY DEF Die, Goto
<1>2. SlotsTypeOK'
  BY <1>1, SlotsAssumption DEF SlotsInv, SlotsTypeOK, Places, Files
<1>3. ReadInv'
  BY <1>1, ReadKept DEF Places, SlotsInv, SlotsTypeOK
<1>4. MineInv'
  BY <1>1 DEF SlotsInv, SlotsTypeOK, MineInv, Holds
<1>. QED
  BY <1>2, <1>3, <1>4 DEF SlotsInv

LEMMA SlotsNextInv == SlotsInv /\ [SlotsNext]_slotsVars => SlotsInv'
<1>. SUFFICES ASSUME SlotsInv, [SlotsNext]_slotsVars PROVE SlotsInv'
  OBVIOUS
<1>1. CASE UNCHANGED slotsVars
  BY <1>1 DEF slotsVars, SlotsInv, SlotsTypeOK, MineInv, ReadInv, Holds
<1>2. ASSUME NEW w \in Watchdogs, Step(w) \/ Die(w)
      PROVE  SlotsInv'
  BY <1>2, BeginStep, LookStep, ReadStep, TestStep, RemoveStep, CreateStep, WriteStep, ReleaseStep, DieStep DEF Step
<1>. QED
  BY <1>1, <1>2 DEF SlotsNext

LEMMA SlotsAlways == SlotsSpec => []SlotsInv
BY SlotsInitInv, SlotsNextInv, PTL DEF SlotsSpec

(* Every slot file, number and loss is well formed. *)
THEOREM SlotsTypeCorrect == SlotsSpec => []SlotsTypeOK
<1>1. SlotsInv => SlotsTypeOK
  BY DEF SlotsInv
<1>. QED
  BY SlotsAlways, <1>1, PTL

(* A watchdog in session owns its slot, unless it was robbed of it. *)
THEOREM SlotsAreOwned == SlotsSpec => []SlotIsMine
<1>1. SlotsInv => SlotIsMine
  BY Pids DEF SlotsInv, MineInv, Holds, SlotIsMine, InSession, Files
<1>. QED
  BY SlotsAlways, <1>1, PTL

(* The fleet limit: the sessions of watchdogs not robbed of their slots    *)
(* never outnumber the slots.                                              *)
THEOREM FleetLimit == SlotsSpec => []SessionsBounded
<1>1. ASSUME SlotsInv PROVE SessionsBounded
  <2>. DEFINE S == InSession \ robbed
              f == [w \in S |-> mine[w]]
  <2>1. \A w \in S : mine[w] \in Files /\ slot[mine[w]].by = w
    BY <1>1 DEF SlotsInv, MineInv, Holds, InSession
  <2>2. f \in Injection(S, Files)
    <3>1. f \in [S -> Files]
      BY <2>1
    <3>2. ASSUME NEW v \in S, NEW w \in S, f[v] = f[w] PROVE v = w
      BY <2>1, <3>2
    <3>. QED
      BY <3>1, <3>2 DEF Injection, IsInjective
  <2>3. IsFiniteSet(Files) /\ Cardinality(Files) = MAX_CONCURRENT
    BY FS_Interval, SlotsAssumption DEF Files
  <2>4. Cardinality(S) <= Cardinality(Files)
    BY <2>2, <2>3, FS_Injection
  <2>. QED
    BY <2>3, <2>4 DEF SessionsBounded
<1>. QED
  BY SlotsAlways, <1>1, PTL

----------------------------------------------------------------------------
(* The close of a sprint. *)

(* A commit on top of a history. *)
LEMMA ExtendLemma ==
  ASSUME NEW h, IsHistory(h), NEW k \in 0 .. MaxWork
  PROVE  /\ IsHistory(Extend(h, k)) /\ h \subseteq Extend(h, k)
         /\ Works(Extend(h, k)) = Works(h) \cup ({k} \ {NoWork})
<1>. DEFINE c == [work |-> k, on |-> h]
<1>1. Extend(h, k) = h \cup {c} /\ c.work = k /\ c.on = h
  BY DEF Extend
<1>. HIDE DEF c
<1>2. IsFiniteSet(Extend(h, k))
  BY <1>1, FS_AddElement DEF IsHistory
<1>3. IsHistory(Extend(h, k))
  BY <1>1, <1>2 DEF IsHistory
<1>4. Works(Extend(h, k)) = Works(h) \cup ({k} \ {NoWork})
  BY <1>1 DEF Works
<1>. QED
  BY <1>1, <1>3, <1>4

(* Both histories are in a merge, and no work besides theirs. *)
LEMMA MergeLemma ==
  ASSUME NEW g, IsHistory(g), NEW h, IsHistory(h)
  PROVE  /\ IsHistory(Merge(g, h)) /\ g \cup h \subseteq Merge(g, h)
         /\ Works(Merge(g, h)) = Works(g) \cup Works(h)
<1>1. IsFiniteSet(g \cup h)
  BY FS_Union DEF IsHistory
<1>2. IsHistory(g \cup h)
  BY <1>1 DEF IsHistory
<1>3. NoWork \in 0 .. MaxWork
  BY CloseBounds DEF NoWork
<1>4. Works(g \cup h) = Works(g) \cup Works(h)
  BY DEF Works
<1>5. /\ IsHistory(Extend(g \cup h, NoWork)) /\ g \cup h \subseteq Extend(g \cup h, NoWork)
      /\ Works(Extend(g \cup h, NoWork)) = Works(g \cup h) \cup ({NoWork} \ {NoWork})
  BY <1>2, <1>3, ExtendLemma
<1>. QED
  BY <1>4, <1>5 DEF Merge

(* What is in a history is in a larger one. *)
LEMMA WorksMonotone ==
  ASSUME NEW g, NEW h, g \subseteq h
  PROVE  Works(g) \subseteq Works(h)
BY DEF Works

(* A pick adds its work, or had no need to. *)
LEMMA PickLemma ==
  ASSUME NEW h, IsHistory(h), NEW c, c.work \in 1 .. MaxWork
  PROVE  /\ IsHistory(Pick(h, c)) /\ h \subseteq Pick(h, c)
         /\ Works(Pick(h, c)) = Works(h) \cup {c.work}
<1>1. c.work \in 0 .. MaxWork /\ c.work # NoWork
  BY CloseBounds DEF NoWork
<1>2. CASE c.work \in Works(h)
  BY <1>2 DEF Pick
<1>3. CASE c.work \notin Works(h)
  BY <1>1, <1>3, ExtendLemma DEF Pick
<1>. QED
  BY <1>2, <1>3

(* A sequence of all the elements of a finite set. *)
LEMMA SeqOfSet ==
  ASSUME NEW S, IsFiniteSet(S), NEW s \in SetToSeqs(S)
  PROVE  /\ s \in Seq(S) /\ Range(s) = S
         /\ \A m, n \in DOMAIN s : s[m] = s[n] => m = n
<1>. DEFINE D == 1 .. Cardinality(S)
<1>1. Cardinality(S) \in Nat
  BY FS_CardinalityType
<1>2. s \in [D -> S] /\ \A m, n \in D : s[m] = s[n] => m = n
  BY DEF SetToSeqs
<1>3. IsFiniteSet(D) /\ Cardinality(D) = Cardinality(S)
  BY <1>1, FS_Interval
<1>. HIDE DEF D
<1>4. s \in Injection(D, S)
  BY <1>2 DEF Injection, IsInjective
<1>5. s \in Surjection(D, S)
  BY <1>3, <1>4, FS_Injection
<1>6. \A x \in S : \E n \in D : s[n] = x
  BY <1>5 DEF Surjection
<1>7. s \in Seq(S)
  BY <1>1, <1>2 DEF D
<1>8. DOMAIN s = D
  BY <1>2
<1>9. Range(s) = S
  BY <1>2, <1>6, <1>8 DEF Range
<1>. QED
  BY <1>2, <1>7, <1>8, <1>9

(* The heads a rebase passes through, from a base. *)
Heads(head, base, order, len) ==
  head = [n \in 0 .. len |-> IF n = 0 THEN base ELSE Pick(head[n - 1], order[n])]

(* They exist: the recursion has a solution. *)
LEMMA HeadsExist ==
  ASSUME NEW base, NEW order, NEW len \in Nat
  PROVE  \E head : Heads(head, base, order, len)
<1>. DEFINE Bad == {k \in Nat : ~ \E head : Heads(head, base, order, k)}
<1>. SUFFICES ASSUME Bad # {}
              PROVE  FALSE
  OBVIOUS
<1>1. PICK k \in Bad : \A m \in Bad : k <= m
  BY MinNat
<1>2. k \in Nat /\ ~ \E head : Heads(head, base, order, k)
  OBVIOUS
<1>3. CASE k = 0
  <2>. DEFINE head == [n \in 0 .. k |-> base]
  <2>1. Heads(head, base, order, k)
    BY <1>3 DEF Heads
  <2>. QED
    BY <2>1, <1>2
<1>4. CASE k # 0
  <2>1. k - 1 \in Nat /\ k - 1 \notin Bad
    BY <1>1, <1>2, <1>4
  <2>2. PICK g : Heads(g, base, order, k - 1)
    BY <2>1
  <2>. DEFINE head == [n \in 0 .. k |-> IF n = k THEN Pick(g[k - 1], order[k]) ELSE g[n]]
  <2>3. \A n \in 0 .. k - 1 : g[n] = IF n = 0 THEN base ELSE Pick(g[n - 1], order[n])
    BY <2>2, Zenon DEF Heads
  <2>4. \A n \in 0 .. k : head[n] = IF n = 0 THEN base ELSE Pick(head[n - 1], order[n])
    <3>. SUFFICES ASSUME NEW n \in 0 .. k
                  PROVE  head[n] = IF n = 0 THEN base ELSE Pick(head[n - 1], order[n])
      OBVIOUS
    <3>1. CASE n = k
      BY <3>1, <1>2, <1>4, <2>1
    <3>2. CASE n # k
      <4>1. n \in 0 .. k - 1 /\ (n # 0 => n - 1 \in 0 .. k /\ n - 1 # k)
        BY <3>2, <1>2
      <4>. QED
        BY <4>1, <2>3, <3>2
    <3>. QED
      BY <3>1, <3>2
  <2>5. Heads(head, base, order, k)
    <3>1. head = [n \in 0 .. k |-> head[n]]
      OBVIOUS
    <3>. HIDE DEF head
    <3>. QED
      BY <2>4, <3>1 DEF Heads
  <2>. QED
    BY <2>5, <1>2
<1>. QED
  BY <1>3, <1>4

(* A rebase puts the works of its picks on top of origin. *)
LEMMA RebaseLemma ==
  ASSUME IsHistory(origin), NEW S, \A c \in S : c.work \in 1 .. MaxWork, NEW order \in Seq(S)
  PROVE  /\ IsHistory(Rebase(order)) /\ origin \subseteq Rebase(order)
         /\ Works(Rebase(order)) \subseteq Works(origin) \cup {c.work : c \in S}
         /\ \A m \in DOMAIN order : order[m].work \in Works(Rebase(order))
         /\ order = <<>> => Rebase(order) = origin
<1>. DEFINE len  == Len(order)
<1>1. len \in Nat /\ DOMAIN order = 1 .. len /\ (order = <<>> => len = 0)
  OBVIOUS
<1>2. \E f : Heads(f, origin, order, len)
  BY <1>1, HeadsExist
<1>. DEFINE head == CHOOSE f : f = [n \in 0 .. len |->
                                      IF n = 0 THEN origin ELSE Pick(f[n - 1], order[n])]
            Good(n) == /\ IsHistory(head[n]) /\ origin \subseteq head[n]
                       /\ Works(head[n]) \subseteq Works(origin) \cup {c.work : c \in S}
                       /\ \A m \in 1 .. n : order[m].work \in Works(head[n])
            Bad == {n \in 0 .. len : ~Good(n)}
<1>3. Rebase(order) = head[len]
  BY DEF Rebase
<1>4. head = [n \in 0 .. len |-> IF n = 0 THEN origin ELSE Pick(head[n - 1], order[n])]
  BY <1>2, Zenon DEF Heads
<1>. HIDE DEF head
<1>5. head[0] = origin /\ \A n \in 1 .. len : head[n] = Pick(head[n - 1], order[n])
  <2>1. \A n \in 0 .. len : head[n] = IF n = 0 THEN origin ELSE Pick(head[n - 1], order[n])
    BY <1>4, Zenon
  <2>. QED
    BY <1>1, <2>1
<1>6. Bad = {}
  <2>. SUFFICES ASSUME Bad # {}
                PROVE  FALSE
    OBVIOUS
  <2>1. PICK n \in Bad : \A k \in Bad : n <= k
    <3>1. Bad \in SUBSET Nat
      BY <1>1
    <3>. HIDE DEF Bad
    <3>. QED
      BY <3>1, MinNat
  <2>2. n \in 0 .. len /\ ~Good(n)
    OBVIOUS
  <2>. HIDE DEF Good
  <2>3. CASE n = 0
    <3>1. Good(0)
      BY <1>5 DEF Good
    <3>. QED
      BY <2>2, <2>3, <3>1
  <2>4. CASE n # 0
    <3>1. n \in 1 .. len /\ n - 1 \in 0 .. len /\ ~(n <= n - 1)
      BY <1>1, <2>2, <2>4
    <3>2. Good(n - 1)
      BY <2>1, <3>1
    <3>3. head[n] = Pick(head[n - 1], order[n]) /\ order[n] \in S
      BY <1>1, <1>5, <3>1
    <3>4. /\ IsHistory(head[n]) /\ head[n - 1] \subseteq head[n]
          /\ Works(head[n]) = Works(head[n - 1]) \cup {order[n].work}
      <4>1. IsHistory(head[n - 1]) /\ order[n].work \in 1 .. MaxWork
        BY <3>2, <3>3 DEF Good
      <4>. QED
        BY <3>3, <4>1, PickLemma
    <3>5. \A m \in 1 .. n : m = n \/ m \in 1 .. n - 1
      BY <1>1, <3>1
    <3>6. Good(n)
      BY <3>2, <3>3, <3>4, <3>5 DEF Good
    <3>. QED
      BY <2>2, <3>6
  <2>. QED
    BY <2>3, <2>4
<1>7. Good(len)
  BY <1>1, <1>6
<1>. QED
  BY <1>1, <1>3, <1>5, <1>7

----------------------------------------------------------------------------
(* The inductive invariant of a close. *)

(* Every piece of work that exists has been begun. *)
WorksBegun ==
  /\ Works(main) \cup Works(origin) \subseteq 1 .. begun
  /\ \A w \in Workers : Works(branch[w]) \subseteq 1 .. begun

(* An edit is in a worktree, and nowhere else. *)
DraftsApart ==
  \A w \in Workers : draft[w] # NoWork =>
    /\ w \in trees /\ draft[w] \in 1 .. begun
    /\ draft[w] \notin aside \cup Works(main) \cup Works(origin)
    /\ \A v \in Workers : /\ draft[w] \notin Works(branch[v])
                          /\ v # w => draft[w] # draft[v]

(* The list names nobody twice; it is walked from its start. *)
Listing ==
  /\ \A m, n \in DOMAIN list : list[m] = list[n] => m = n
  /\ phase = "sync" => place = 1

(* What a reset will throw away is late, or is in main. *)
ResetIsSafe ==
  /\ phase \in {"merge", "push", "reset"} => ~dirty
  /\ \A w \in Workers : Looked(w) /\ ~dirty => draft[w] \in late \cup {NoWork}
  /\ \A w \in Workers : Merged(w) => Works(branch[w]) \subseteq Works(main) \cup late

(* The run merged something, or had nothing to push from the beginning. *)
Level == merged \/ ~behind

(* Of a run that is level, origin has the main it resets the worktrees to. *)
OriginHasMain ==
  remote =>
    /\ phase \in {"reset", "done"} /\ Level => main \subseteq origin
    /\ Running /\ ~merged /\ ~behind => main \subseteq origin

Handed ==
  phase \in {"reset", "done"} /\ (remote => Level) =>
    \A w \in Range(list) \ stuck :
      (phase = "done" \/ Passed(w)) /\ branch[w] # {} => Works(main) \subseteq Works(branch[w])

CloseInv ==
  /\ CloseTypeOK /\ WorksBegun /\ DraftsApart /\ Listing
  /\ ResetIsSafe /\ OriginHasMain /\ Handed /\ NoWorkLost

(* Steps of the script that touch no branch and no worktree. *)
LEMMA ScriptOnly ==
  ASSUME CloseInv, UNCHANGED refs, UNCHANGED session
  PROVE  WorksBegun' /\ DraftsApart' /\ NoWorkLost'
<1>1. WorksBegun'
  BY DEF CloseInv, WorksBegun, refs, session
<1>2. DraftsApart'
  BY DEF CloseInv, DraftsApart, refs, session
<1>3. NoWorkLost'
  BY DEF CloseInv, NoWorkLost, refs, session
<1>. QED
  BY <1>1, <1>2, <1>3

(* What a step may rely on when the script has come to a name of its list. *)
LEMMA AtHand ==
  ASSUME CloseInv, NEW w \in Workers, Here(w)
  PROVE  /\ w \in Range(list) /\ ~Passed(w) /\ place + 1 \in 1 .. Len(list) + 1
         /\ \A v : (\E n \in DOMAIN list : list[n] = v /\ n < place + 1) <=> Passed(v) \/ v = w
<1>1. /\ list \in Seq(Workers) /\ place \in 1 .. Len(list) + 1 /\ place <= Len(list)
      /\ list[place] = w /\ \A m, n \in DOMAIN list : list[m] = list[n] => m = n
  BY DEF CloseInv, CloseTypeOK, Listing, Here
<1>2. /\ place \in DOMAIN list /\ DOMAIN list = 1 .. Len(list)
      /\ place + 1 \in 1 .. Len(list) + 1
  BY <1>1
<1>3. w \in Range(list)
  BY <1>1, <1>2 DEF Range
<1>4. ~Passed(w)
  BY <1>1, <1>2 DEF Passed
<1>5. \A v : (\E n \in DOMAIN list : list[n] = v /\ n < place + 1) <=> Passed(v) \/ v = w
  BY <1>1, <1>2 DEF Passed
<1>. QED
  BY <1>2, <1>3, <1>4, <1>5

(* What it may rely on when it has come to the end of its list, and at its *)
(* beginning.                                                              *)
LEMMA AtEnd ==
  ASSUME CloseInv
  PROVE  /\ place > Len(list) => \A w \in Range(list) : Passed(w)
         /\ \A w : ~ \E n \in DOMAIN list : list[n] = w /\ n < 1
<1>1. list \in Seq(Workers) /\ place \in 1 .. Len(list) + 1 /\ Len(list) \in Nat
      /\ DOMAIN list = 1 .. Len(list)
  BY DEF CloseInv, CloseTypeOK
<1>. QED
  BY <1>1 DEF Range, Passed

LEMMA StartKeeps ==
  ASSUME CloseInv, Start
  PROVE  CloseInv'
<1>1. PICK W \in SUBSET Workers \ {{}} : list' \in SetToSeqs(W)
  BY DEF Start
<1>2. list' \in Seq(W) /\ \A m, n \in DOMAIN list' : list'[m] = list'[n] => m = n
  <2>1. IsFiniteSet(W)
    BY WorkersAssumption, FS_Subset
  <2>. QED
    BY <1>1, <2>1, SeqOfSet
<1>3. list' \in Seq(Workers) /\ Len(list') \in Nat /\ 1 \in 1 .. Len(list') + 1
  BY <1>2
<1>4. CloseTypeOK'
  <2>1. behind' \in BOOLEAN
    BY DEF Start
  <2>2. runs' \in 0 .. MaxRuns
    BY CloseBounds DEF CloseInv, CloseTypeOK, Start
  <2>. QED
    BY <1>3, <2>1, <2>2 DEF CloseInv, CloseTypeOK, Start, Running, refs, session
<1>5. WorksBegun' /\ DraftsApart' /\ NoWorkLost'
  BY ScriptOnly DEF Start
<1>6. Listing'
  BY <1>2 DEF Start, Listing
<1>7. ResetIsSafe'
  BY DEF Start, ResetIsSafe, Looked, Merged
<1>8. OriginHasMain' /\ Handed'
  BY DEF Start, OriginHasMain, Handed, Running, refs
<1>. QED
  BY <1>4, <1>5, <1>6, <1>7, <1>8 DEF CloseInv

(* The works of main after a rebase. *)
LEMMA SyncedMain ==
  ASSUME CloseInv, Sync, remote
  PROVE  /\ IsHistory(main') /\ Works(main) \cup Works(origin) \subseteq Works(main')
         /\ Works(main') \subseteq Works(main) \cup Works(origin)
         /\ main \subseteq origin => main' = origin
<1>1. PICK order \in PickOrders(ToPick) : main' = Rebase(order)
  BY DEF Sync
<1>2. IsHistory(main) /\ IsHistory(origin)
  BY DEF CloseInv, CloseTypeOK
<1>3. IsFiniteSet(ToPick)
  BY <1>2, FS_Subset DEF ToPick, IsHistory
<1>4. order \in Seq(ToPick) /\ Range(order) = ToPick
  <2>1. order \in SetToSeqs(ToPick)
    BY <1>1 DEF PickOrders
  <2>. QED
    BY <1>3, <2>1, SeqOfSet
<1>5. \A c \in ToPick : c.work \in 1 .. MaxWork
  <2>1. \A c \in ToPick : c.work \in 0 .. MaxWork /\ c.work # 0
    BY <1>2 DEF ToPick, IsHistory, NoWork
  <2>. QED
    BY <2>1, CloseBounds
<1>6. /\ IsHistory(main') /\ origin \subseteq main'
      /\ Works(main') \subseteq Works(origin) \cup {c.work : c \in ToPick}
      /\ \A m \in DOMAIN order : order[m].work \in Works(main')
      /\ order = <<>> => main' = origin
  BY <1>1, <1>2, <1>4, <1>5, RebaseLemma
<1>7. {c.work : c \in ToPick} \subseteq Works(main)
  BY DEF ToPick, Works
<1>8. Works(origin) \subseteq Works(main')
  BY <1>6, WorksMonotone
<1>9. Works(main) \subseteq Works(main')
  <2>. SUFFICES ASSUME NEW c \in main, c.work # NoWork
                PROVE  c.work \in Works(main')
    BY DEF Works
  <2>1. CASE c \in origin
    BY <1>8, <2>1 DEF Works
  <2>2. CASE c \notin origin
    <3>1. c \in Range(order)
      BY <1>4, <2>2 DEF ToPick
    <3>2. PICK m \in DOMAIN order : order[m] = c
      BY <3>1 DEF Range
    <3>. QED
      BY <1>6, <3>2
  <2>. QED
    BY <2>1, <2>2
<1>10. ASSUME main \subseteq origin
       PROVE  main' = origin
  <2>1. ToPick = {}
    BY <1>10 DEF ToPick
  <2>2. order = <<>>
    BY <1>4, <2>1
  <2>. QED
    BY <1>6, <2>2
<1>. QED
  BY <1>6, <1>7, <1>8, <1>9, <1>10

LEMMA SyncKeeps ==
  ASSUME CloseInv, Sync
  PROVE  CloseInv'
<1>1. /\ phase = "sync" /\ phase' = "preflight" /\ place = 1
      /\ UNCHANGED <<remote, origin, branch, session, faults, lock, list, place, dirty, merged,
                     stuck, runs, behind>>
  BY DEF Sync, CloseInv, Listing
<1>2. /\ IsHistory(main') /\ Works(main) \subseteq Works(main')
      /\ Works(main') \subseteq Works(main) \cup Works(origin)
  <2>1. CASE remote
    BY <2>1, SyncedMain
  <2>2. CASE ~remote
    BY <2>2 DEF Sync, CloseInv, CloseTypeOK
  <2>. QED
    BY <2>1, <2>2
<1>3. CloseTypeOK'
  BY <1>1, <1>2 DEF CloseInv, CloseTypeOK, Running, session
<1>4. WorksBegun'
  BY <1>1, <1>2 DEF CloseInv, WorksBegun, session
<1>5. DraftsApart'
  BY <1>1, <1>2 DEF CloseInv, DraftsApart, session
<1>6. NoWorkLost'
  BY <1>1, <1>2 DEF CloseInv, NoWorkLost, session
<1>7. Listing'
  BY <1>1 DEF CloseInv, Listing
<1>8. ResetIsSafe'
  <2>1. \A w : ~Passed(w)'
    BY <1>1, AtEnd DEF Passed
  <2>. QED
    BY <1>1, <2>1 DEF ResetIsSafe, Looked, Merged
<1>9. OriginHasMain'
  <2>1. remote /\ ~merged /\ ~behind => main' \subseteq origin
    <3>1. remote /\ ~merged /\ ~behind => main \subseteq origin
      BY <1>1 DEF CloseInv, OriginHasMain, Running
    <3>. QED
      BY <3>1, SyncedMain
  <2>. QED
    BY <1>1, <2>1 DEF OriginHasMain
<1>10. Handed'
  BY <1>1 DEF Handed
<1>. QED
  BY <1>3, <1>4, <1>5, <1>6, <1>7, <1>8, <1>9, <1>10 DEF CloseInv

LEMMA LookAtKeeps ==
  ASSUME CloseInv, NEW w \in Workers, LookAt(w)
  PROVE  CloseInv'
<1>1. /\ phase = "preflight" /\ Here(w) /\ place' = place + 1
      /\ dirty' = (dirty \/ (w \in trees /\ draft[w] # NoWork))
      /\ UNCHANGED refs /\ UNCHANGED session
      /\ UNCHANGED <<faults, lock, phase, list, merged, stuck, runs, behind>>
  BY DEF LookAt
<1>2. /\ w \in Range(list) /\ ~Passed(w) /\ place + 1 \in 1 .. Len(list) + 1
      /\ \A v : Passed(v)' <=> Passed(v) \/ v = w
  BY <1>1, AtHand DEF Passed
<1>3. CloseTypeOK'
  BY <1>1, <1>2 DEF CloseInv, CloseTypeOK, Running, refs, session
<1>4. WorksBegun' /\ DraftsApart' /\ NoWorkLost'
  BY <1>1, ScriptOnly
<1>5. Listing'
  BY <1>1 DEF CloseInv, Listing
<1>6. ResetIsSafe'
  <2>1. \A v \in Workers : Looked(v)' /\ ~dirty' => draft[v] \in late \cup {NoWork}
    <3>1. ~dirty' => draft[w] = NoWork
      BY <1>1 DEF CloseInv, DraftsApart
    <3>2. \A v \in Workers : Looked(v)' => Looked(v) \/ v = w
      BY <1>1, <1>2 DEF Looked
    <3>. QED
      BY <1>1, <3>1, <3>2 DEF CloseInv, ResetIsSafe
  <2>2. \A v : ~Merged(v)'
    BY <1>1 DEF Merged
  <2>. QED
    BY <1>1, <2>1, <2>2 DEF ResetIsSafe, session
<1>7. OriginHasMain' /\ Handed'
  BY <1>1 DEF CloseInv, OriginHasMain, Handed, Running, refs
<1>. QED
  BY <1>3, <1>4, <1>5, <1>6, <1>7 DEF CloseInv

(* Wherever a run ends early, nothing is promised any more. *)
LEMMA EndedKeeps ==
  ASSUME CloseInv, UNCHANGED refs, UNCHANGED session, phase' = "idle",
         UNCHANGED <<list, place, dirty, merged, stuck, runs, behind>>,
         lock' \in BOOLEAN, faults' \in 0 .. MaxFaults
  PROVE  CloseInv'
<1>1. CloseTypeOK'
  BY DEF CloseInv, CloseTypeOK, Running, refs, session
<1>2. WorksBegun' /\ DraftsApart' /\ NoWorkLost'
  BY ScriptOnly
<1>3. Listing' /\ ResetIsSafe' /\ OriginHasMain' /\ Handed'
  BY DEF CloseInv, Listing, ResetIsSafe, Looked, Merged, OriginHasMain, Handed, Running
<1>. QED
  BY <1>1, <1>2, <1>3 DEF CloseInv

LEMMA PreflightPassedKeeps ==
  ASSUME CloseInv, PreflightPassed
  PROVE  CloseInv'
<1>1. /\ phase = "preflight" /\ place > Len(list) /\ ~dirty /\ phase' = "merge" /\ place' = 1
      /\ UNCHANGED refs /\ UNCHANGED session
      /\ UNCHANGED <<faults, lock, list, dirty, merged, stuck, runs, behind>>
  BY DEF PreflightPassed
<1>2. (\A v \in Range(list) : Passed(v)) /\ \A v : ~Passed(v)'
  BY <1>1, AtEnd DEF Passed
<1>3. CloseTypeOK'
  <2>1. list \in Seq(Workers) => 1 \in 1 .. Len(list) + 1
    OBVIOUS
  <2>. QED
    BY <1>1, <2>1 DEF CloseInv, CloseTypeOK, Running, refs, session
<1>4. WorksBegun' /\ DraftsApart' /\ NoWorkLost'
  BY <1>1, ScriptOnly
<1>5. Listing'
  BY <1>1 DEF CloseInv, Listing
<1>6. ResetIsSafe'
  <2>1. \A v \in Workers : Looked(v)' => Looked(v)
    BY <1>1, <1>2 DEF Looked
  <2>2. \A v \in Workers : ~Merged(v)'
    BY <1>1, <1>2 DEF Merged
  <2>. QED
    BY <1>1, <2>1, <2>2 DEF CloseInv, ResetIsSafe, session
<1>7. OriginHasMain' /\ Handed'
  BY <1>1 DEF CloseInv, OriginHasMain, Handed, Running, refs
<1>. QED
  BY <1>3, <1>4, <1>5, <1>6, <1>7 DEF CloseInv

LEMMA MergeBranchKeeps ==
  ASSUME CloseInv, NEW w \in Workers, MergeBranch(w)
  PROVE  CloseInv'
<1>1. /\ phase = "merge" /\ Here(w) /\ place' = place + 1
      /\ IF branch[w] \subseteq main
         THEN UNCHANGED <<main, merged>>
         ELSE main' = Merge(main, branch[w]) /\ merged' = TRUE
      /\ UNCHANGED session
      /\ UNCHANGED <<remote, origin, branch, faults, lock, phase, list, dirty, stuck, runs, behind>>
  BY DEF MergeBranch
<1>2. /\ w \in Range(list) /\ ~Passed(w) /\ place + 1 \in 1 .. Len(list) + 1
      /\ \A v : Passed(v)' <=> Passed(v) \/ v = w
  BY <1>1, AtHand DEF Passed
<1>3. /\ IsHistory(main') /\ main \cup branch[w] \subseteq main'
      /\ Works(main') \subseteq Works(main) \cup Works(branch[w])
  <2>1. IsHistory(main) /\ (IsHistory(branch[w]) \/ branch[w] = {})
    BY DEF CloseInv, CloseTypeOK
  <2>2. CASE branch[w] \subseteq main
    BY <1>1, <2>1, <2>2
  <2>3. CASE ~(branch[w] \subseteq main)
    BY <1>1, <2>1, <2>3, MergeLemma
  <2>. QED
    BY <2>2, <2>3
<1>4. Works(main) \cup Works(branch[w]) \subseteq Works(main')
  BY <1>3, WorksMonotone
<1>5. CloseTypeOK'
  <2>1. merged' \in BOOLEAN
    BY <1>1 DEF CloseInv, CloseTypeOK
  <2>. QED
    BY <1>1, <1>2, <1>3, <2>1 DEF CloseInv, CloseTypeOK, Running, session
<1>6. WorksBegun'
  BY <1>1, <1>3 DEF CloseInv, WorksBegun, session
<1>7. DraftsApart'
  BY <1>1, <1>3 DEF CloseInv, DraftsApart, session
<1>8. NoWorkLost'
  BY <1>1, <1>4 DEF CloseInv, NoWorkLost, session
<1>9. Listing'
  BY <1>1 DEF CloseInv, Listing
<1>10. ResetIsSafe'
  <2>1. \A v \in Workers : Looked(v)' => Looked(v)
    BY <1>1 DEF Looked
  <2>2. \A v \in Workers : Merged(v)' => Merged(v) \/ v = w
    BY <1>1, <1>2 DEF Merged
  <2>3. \A v \in Workers : Merged(v)' => Works(branch[v]) \subseteq Works(main') \cup late
    BY <1>4, <2>2 DEF CloseInv, ResetIsSafe
  <2>. QED
    BY <1>1, <2>1, <2>3 DEF CloseInv, ResetIsSafe, session
<1>11. OriginHasMain' /\ Handed'
  BY <1>1 DEF CloseInv, OriginHasMain, Handed, Running
<1>. QED
  BY <1>5, <1>6, <1>7, <1>8, <1>9, <1>10, <1>11 DEF CloseInv

LEMMA AllMergedKeeps ==
  ASSUME CloseInv, AllMerged
  PROVE  CloseInv'
<1>1. /\ phase = "merge" /\ place > Len(list) /\ phase' = "push"
      /\ UNCHANGED refs /\ UNCHANGED session
      /\ UNCHANGED <<faults, lock, list, place, dirty, merged, stuck, runs, behind>>
  BY DEF AllMerged
<1>2. \A v \in Range(list) : Passed(v)
  BY <1>1, AtEnd
<1>3. CloseTypeOK'
  BY <1>1 DEF CloseInv, CloseTypeOK, Running, refs, session
<1>4. WorksBegun' /\ DraftsApart' /\ NoWorkLost'
  BY <1>1, ScriptOnly
<1>5. Listing'
  BY <1>1 DEF CloseInv, Listing
<1>6. ResetIsSafe'
  <2>1. \A v \in Workers : (Looked(v)' => Looked(v)) /\ (Merged(v)' => Merged(v))
    BY <1>1, <1>2 DEF Looked, Merged
  <2>. QED
    BY <1>1, <2>1 DEF CloseInv, ResetIsSafe, refs, session
<1>7. OriginHasMain' /\ Handed'
  BY <1>1 DEF CloseInv, OriginHasMain, Handed, Running, refs
<1>. QED
  BY <1>3, <1>4, <1>5, <1>6, <1>7 DEF CloseInv

LEMMA PushKeeps ==
  ASSUME CloseInv, Push
  PROVE  CloseInv'
<1>1. /\ phase = "push" /\ phase' = "reset" /\ place' = 1
      /\ UNCHANGED session
      /\ UNCHANGED <<remote, main, branch, faults, lock, list, dirty, merged, stuck, runs, behind>>
  BY DEF Push
<1>2. /\ origin' \in {main, origin} /\ origin \subseteq origin'
      /\ remote /\ merged => origin' = main
  BY DEF Push
<1>3. \A v : ~Passed(v)'
  BY <1>1, AtEnd DEF Passed
<1>4. Works(origin) \subseteq Works(origin')
  BY <1>2, WorksMonotone
<1>5. CloseTypeOK'
  <2>1. list \in Seq(Workers) => 1 \in 1 .. Len(list) + 1
    OBVIOUS
  <2>. QED
    BY <1>1, <1>2, <2>1 DEF CloseInv, CloseTypeOK, Running, session
<1>6. WorksBegun'
  BY <1>1, <1>2 DEF CloseInv, WorksBegun, session
<1>7. DraftsApart'
  BY <1>1, <1>2 DEF CloseInv, DraftsApart, session
<1>8. NoWorkLost'
  BY <1>1, <1>4 DEF CloseInv, NoWorkLost, session
<1>9. Listing'
  BY <1>1 DEF CloseInv, Listing
<1>10. ResetIsSafe'
  <2>1. \A v \in Workers : (Looked(v)' => Looked(v)) /\ (Merged(v)' => Merged(v))
    BY <1>1 DEF Looked, Merged
  <2>. QED
    BY <1>1, <2>1 DEF CloseInv, ResetIsSafe, session
<1>11. OriginHasMain'
  BY <1>1, <1>2 DEF CloseInv, OriginHasMain, Running, Level
<1>12. Handed'
  BY <1>1, <1>3 DEF Handed
<1>. QED
  BY <1>5, <1>6, <1>7, <1>8, <1>9, <1>10, <1>11, <1>12 DEF CloseInv

LEMMA ResetWorktreeKeeps ==
  ASSUME CloseInv, NEW w \in Workers, ResetWorktree(w)
  PROVE  CloseInv'
<1>1. /\ phase = "reset" /\ Here(w) /\ place' = place + 1 /\ elsewhere' = elsewhere \ {w}
      /\ branch' = [branch EXCEPT ![w] = IF w \in trees /\ remote THEN origin
                                         ELSE IF branch[w] # {} THEN main ELSE branch[w]]
      /\ draft' = [draft EXCEPT ![w] = NoWork]
      /\ UNCHANGED <<remote, trees, main, origin, begun, aside, late, faults, lock, phase, list,
                     dirty, merged, stuck, runs, behind>>
  BY DEF ResetWorktree
<1>2. /\ w \in Range(list) /\ ~Passed(w) /\ place + 1 \in 1 .. Len(list) + 1
      /\ \A v : Passed(v)' <=> Passed(v) \/ v = w
  BY <1>1, AtHand DEF Passed
<1>3. /\ DOMAIN branch = Workers /\ draft \in [Workers -> 0 .. MaxWork]
      /\ NoWork \in 0 .. MaxWork
  BY CloseBounds DEF CloseInv, CloseTypeOK, NoWork
<1>4. /\ DOMAIN branch' = Workers /\ draft' \in [Workers -> 0 .. MaxWork]
      /\ draft'[w] = NoWork /\ branch'[w] \in {origin, main, {}}
      /\ \A v \in Workers : v # w => branch'[v] = branch[v] /\ draft'[v] = draft[v]
  BY <1>1, <1>3
<1>5. /\ branch'[w] = {} => branch[w] = {} /\ w \notin trees
      /\ (remote => main \subseteq origin) /\ branch'[w] # {} =>
           main \subseteq branch'[w]
  BY <1>1, <1>3 DEF CloseInv, CloseTypeOK, IsHistory
<1>6. draft[w] \in late \cup {NoWork} /\ Works(branch[w]) \subseteq Works(main) \cup late
  <2>1. Looked(w) /\ Merged(w)
    BY <1>1, <1>2 DEF Looked, Merged
  <2>. QED
    BY <1>1, <2>1 DEF CloseInv, ResetIsSafe
<1>7. CloseTypeOK'
  <2>1. \A v \in Workers : IsHistory(branch'[v]) \/ (branch'[v] = {} /\ v \notin trees)
    BY <1>4, <1>5 DEF CloseInv, CloseTypeOK
  <2>2. elsewhere' \subseteq trees /\ Len(list') = Len(list)
    BY <1>1 DEF CloseInv, CloseTypeOK
  <2>. QED
    BY <1>1, <1>2, <1>4, <2>1, <2>2 DEF CloseInv, CloseTypeOK, Running
<1>8. Works({}) = {}
  BY DEF Works
<1>9. \A v \in Workers : \/ Works(branch'[v]) \subseteq Works(main) \cup Works(origin)
                         \/ Works(branch'[v]) = Works(branch[v])
  BY <1>4, <1>8
<1>10. WorksBegun'
  BY <1>1, <1>9 DEF CloseInv, WorksBegun
<1>11. DraftsApart'
  <2>. SUFFICES ASSUME NEW v \in Workers, draft'[v] # NoWork
                PROVE  /\ v \in trees /\ draft[v] \in 1 .. begun
                       /\ draft[v] \notin aside \cup Works(main) \cup Works(origin)
                       /\ \A u \in Workers : /\ draft[v] \notin Works(branch'[u])
                                             /\ u # v => draft[v] # draft'[u]
    BY <1>1, <1>4 DEF DraftsApart
  <2>1. draft[v] # NoWork /\ draft'[v] = draft[v]
    BY <1>4
  <2>. QED
    BY <1>4, <1>9, <2>1 DEF CloseInv, DraftsApart
<1>12. NoWorkLost'
  <2>. SUFFICES ASSUME NEW k \in (1 .. begun) \ late
                PROVE  \/ k \in aside
                       \/ k \in Works(main) \cup Works(origin)
                       \/ \E u \in Workers : k = draft'[u] \/ k \in Works(branch'[u])
    BY <1>1 DEF NoWorkLost
  <2>1. k # NoWork
    BY DEF NoWork
  <2>2. \/ k \in aside
        \/ k \in Works(main) \cup Works(origin)
        \/ \E u \in Workers : k = draft[u] \/ k \in Works(branch[u])
    BY DEF CloseInv, NoWorkLost
  <2>. QED
    BY <1>4, <1>6, <2>1, <2>2
<1>13. Listing'
  BY <1>1 DEF CloseInv, Listing
<1>14. ResetIsSafe'
  <2>1. \A v \in Workers : /\ Looked(v)' => Looked(v) /\ v # w
                           /\ Merged(v)' => Merged(v) /\ v # w
    BY <1>1, <1>2 DEF Looked, Merged
  <2>. QED
    BY <1>1, <1>4, <2>1 DEF CloseInv, ResetIsSafe
<1>15. OriginHasMain'
  BY <1>1 DEF CloseInv, OriginHasMain, Running, Level
<1>16. Handed'
  <2>. SUFFICES ASSUME remote => Level, NEW v \in Range(list) \ stuck, Passed(v)',
                       branch'[v] # {}
                PROVE  Works(main) \subseteq Works(branch'[v])
    BY <1>1 DEF Handed, Level
  <2>1. CASE v = w
    <3>1. remote => main \subseteq origin
      BY <1>1 DEF CloseInv, OriginHasMain
    <3>. QED
      BY <1>5, <2>1, <3>1, WorksMonotone
  <2>2. CASE v # w
    <3>1. v \in Workers
      BY DEF CloseInv, CloseTypeOK, Range
    <3>. QED
      BY <1>1, <1>2, <1>4, <2>2, <3>1 DEF CloseInv, Handed
  <2>. QED
    BY <2>1, <2>2
<1>. QED
  BY <1>7, <1>10, <1>11, <1>12, <1>13, <1>14, <1>15, <1>16 DEF CloseInv

(* A branch that is passed over is left as it was. *)
LEMMA PassedOverKeeps ==
  ASSUME CloseInv, NEW w \in Workers, LeaveWorktree(w) \/ KeepBranch(w)
  PROVE  CloseInv'
<1>1. /\ phase = "reset" /\ Here(w) /\ place' = place + 1 /\ stuck' = stuck \cup {w}
      /\ UNCHANGED refs /\ UNCHANGED session
      /\ UNCHANGED <<faults, lock, phase, list, dirty, merged, runs, behind>>
  BY DEF LeaveWorktree, KeepBranch
<1>2. /\ w \in Range(list) /\ ~Passed(w) /\ place + 1 \in 1 .. Len(list) + 1
      /\ \A v : Passed(v)' <=> Passed(v) \/ v = w
  BY <1>1, AtHand DEF Passed
<1>3. CloseTypeOK'
  BY <1>1, <1>2 DEF CloseInv, CloseTypeOK, Running, refs, session
<1>4. WorksBegun' /\ DraftsApart' /\ NoWorkLost'
  BY <1>1, ScriptOnly
<1>5. Listing'
  BY <1>1 DEF CloseInv, Listing
<1>6. ResetIsSafe'
  <2>1. \A v \in Workers : (Looked(v)' => Looked(v)) /\ (Merged(v)' => Merged(v))
    BY <1>1, <1>2 DEF Looked, Merged
  <2>. QED
    BY <1>1, <2>1 DEF CloseInv, ResetIsSafe, refs, session
<1>7. OriginHasMain'
  BY <1>1 DEF CloseInv, OriginHasMain, Running, Level, refs
<1>8. Handed'
  BY <1>1, <1>2 DEF CloseInv, Handed, Level, refs
<1>. QED
  BY <1>3, <1>4, <1>5, <1>6, <1>7, <1>8 DEF CloseInv

LEMMA FinishKeeps ==
  ASSUME CloseInv, Finish
  PROVE  CloseInv'
<1>1. /\ phase = "reset" /\ place > Len(list) /\ phase' = "done" /\ lock' = FALSE
      /\ UNCHANGED refs /\ UNCHANGED session
      /\ UNCHANGED <<faults, list, place, dirty, merged, stuck, runs, behind>>
  BY DEF Finish
<1>2. \A v \in Range(list) : Passed(v)
  BY <1>1, AtEnd
<1>3. CloseTypeOK'
  BY <1>1 DEF CloseInv, CloseTypeOK, Running, refs, session
<1>4. WorksBegun' /\ DraftsApart' /\ NoWorkLost'
  BY <1>1, ScriptOnly
<1>5. Listing' /\ ResetIsSafe'
  BY <1>1 DEF CloseInv, Listing, ResetIsSafe, Looked, Merged
<1>6. OriginHasMain'
  BY <1>1 DEF CloseInv, OriginHasMain, Running, Level, refs
<1>7. Handed'
  BY <1>1, <1>2 DEF CloseInv, Handed, Level, refs
<1>. QED
  BY <1>3, <1>4, <1>5, <1>6, <1>7 DEF CloseInv

LEMMA RemoveLockKeeps ==
  ASSUME CloseInv, RemoveLock
  PROVE  CloseInv'
<1>1. /\ ~Running /\ lock' = FALSE /\ UNCHANGED refs /\ UNCHANGED session
      /\ UNCHANGED <<faults, phase, list, place, dirty, merged, stuck, runs, behind>>
  BY DEF RemoveLock
<1>2. CloseTypeOK'
  BY <1>1 DEF CloseInv, CloseTypeOK, Running, refs, session
<1>3. WorksBegun' /\ DraftsApart' /\ NoWorkLost'
  BY <1>1, ScriptOnly
<1>4. Listing' /\ ResetIsSafe'
  BY <1>1 DEF CloseInv, Listing, ResetIsSafe, Looked, Merged, Passed, refs, session
<1>5. OriginHasMain' /\ Handed'
  BY <1>1 DEF CloseInv, OriginHasMain, Handed, Running, Level, Passed, refs
<1>. QED
  BY <1>2, <1>3, <1>4, <1>5 DEF CloseInv

(* The sessions and somebody else leave the script where it is. *)
LEMMA ScriptStands ==
  ASSUME CloseInv, UNCHANGED script
  PROVE  /\ Listing' /\ (Running' <=> Running)
         /\ \A v : /\ Passed(v)' <=> Passed(v)
                   /\ Looked(v)' <=> Looked(v)
                   /\ Merged(v)' <=> Merged(v)
<1>1. Listing' /\ (Running' <=> Running) /\ \A v : Passed(v)' <=> Passed(v)
  BY DEF CloseInv, Listing, Running, Passed, script
<1>. QED
  BY <1>1 DEF Looked, Merged, script

(* What the promises about the reset worktrees rest on: main stays, origin *)
(* and the branches do not shrink.                                         *)
LEMMA PromisesStand ==
  ASSUME CloseInv, UNCHANGED script, UNCHANGED <<remote, main>>, origin \subseteq origin',
         \A v \in Workers : \/ Works(branch[v]) \subseteq Works(branch'[v]) /\ branch[v] # {}
                            \/ branch'[v] \in {branch[v], main}
  PROVE  OriginHasMain' /\ Handed'
<1>1. (Running' <=> Running) /\ \A v : Passed(v)' <=> Passed(v)
  BY ScriptStands
<1>2. UNCHANGED <<phase, list, stuck, merged, behind>>
  BY DEF script
<1>3. OriginHasMain'
  BY <1>1, <1>2 DEF CloseInv, OriginHasMain, Level
<1>4. Handed'
  <2>. SUFFICES ASSUME phase \in {"reset", "done"}, remote => Level, NEW v \in Range(list) \ stuck,
                       phase = "done" \/ Passed(v), branch'[v] # {}
                PROVE  Works(main) \subseteq Works(branch'[v])
    BY <1>1, <1>2 DEF Handed, Level
  <2>1. v \in Workers
    BY DEF CloseInv, CloseTypeOK, Range
  <2>2. branch[v] # {} => Works(main) \subseteq Works(branch[v])
    BY DEF CloseInv, Handed
  <2>. QED
    BY <2>1, <2>2
<1>. QED
  BY <1>3, <1>4

LEMMA EditKeeps ==
  ASSUME CloseInv, NEW w \in Workers, Edit(w)
  PROVE  CloseInv'
<1>1. /\ w \in trees /\ draft[w] = NoWork /\ begun < MaxWork /\ begun' = begun + 1
      /\ draft' = [draft EXCEPT ![w] = begun']
      /\ late' = IF Looked(w) THEN late \cup {begun'} ELSE late
      /\ UNCHANGED <<refs, trees, elsewhere, aside, script, faults>>
  BY DEF Edit
<1>2. /\ begun \in Nat /\ begun' \in 1 .. MaxWork /\ begun' \in 1 .. begun'
      /\ 1 .. begun \subseteq 1 .. begun' /\ begun' \notin 1 .. begun
      /\ \A k \in 1 .. begun' : k \in 1 .. begun \/ k = begun'
  <2>1. begun \in Nat /\ begun' = begun + 1 /\ begun < MaxWork /\ MaxWork \in Nat
    BY <1>1, CloseBounds DEF CloseInv, CloseTypeOK
  <2>. QED
    BY <2>1
<1>3. /\ draft' \in [Workers -> 0 .. MaxWork] /\ draft'[w] = begun'
      /\ \A v \in Workers : v # w => draft'[v] = draft[v]
  BY <1>1, <1>2, CloseBounds DEF CloseInv, CloseTypeOK
<1>4. UNCHANGED <<remote, main, origin, branch>>
  BY <1>1 DEF refs
<1>5. CloseTypeOK'
  <2>1. begun' \in 0 .. MaxWork /\ aside \cup late' \subseteq 1 .. begun'
    BY <1>1, <1>2 DEF CloseInv, CloseTypeOK
  <2>. QED
    BY <1>1, <1>3, <1>4, <2>1, ScriptStands DEF CloseInv, CloseTypeOK, script
<1>6. WorksBegun'
  BY <1>2, <1>4 DEF CloseInv, WorksBegun
<1>7. DraftsApart'
  <2>1. begun' \notin aside \cup Works(main) \cup Works(origin)
    BY <1>2 DEF CloseInv, CloseTypeOK, WorksBegun
  <2>2. \A v \in Workers : begun' \notin Works(branch[v])
    BY <1>2 DEF CloseInv, WorksBegun
  <2>3. \A v \in Workers : draft[v] # NoWork => draft[v] \in 1 .. begun
    BY DEF CloseInv, DraftsApart
  <2>4. \A v \in Workers : v # w => draft[v] # begun'
    BY <1>2, <2>3 DEF NoWork
  <2>. SUFFICES ASSUME NEW v \in Workers, draft'[v] # NoWork
                PROVE  /\ v \in trees /\ draft'[v] \in 1 .. begun'
                       /\ draft'[v] \notin aside \cup Works(main) \cup Works(origin)
                       /\ \A u \in Workers : /\ draft'[v] \notin Works(branch[u])
                                             /\ u # v => draft'[v] # draft'[u]
    BY <1>1, <1>4 DEF DraftsApart
  <2>5. CASE v = w
    BY <1>1, <1>2, <1>3, <2>1, <2>2, <2>4, <2>5
  <2>6. CASE v # w
    BY <1>2, <1>3, <2>4, <2>6 DEF CloseInv, DraftsApart
  <2>. QED
    BY <2>5, <2>6
<1>8. NoWorkLost'
  <2>. SUFFICES ASSUME NEW k \in (1 .. begun') \ late'
                PROVE  \/ k \in aside
                       \/ k \in Works(main) \cup Works(origin)
                       \/ \E u \in Workers : k = draft'[u] \/ k \in Works(branch[u])
    BY <1>1, <1>4 DEF NoWorkLost
  <2>1. CASE k = begun'
    BY <1>3, <2>1
  <2>2. CASE k \in 1 .. begun
    <3>1. k \notin late /\ k # NoWork
      BY <1>1, <2>2 DEF NoWork
    <3>2. \/ k \in aside
          \/ k \in Works(main) \cup Works(origin)
          \/ \E u \in Workers : k = draft[u] \/ k \in Works(branch[u])
      BY <2>2, <3>1 DEF CloseInv, NoWorkLost
    <3>. QED
      BY <1>1, <1>3, <3>1, <3>2
  <2>. QED
    BY <1>2, <2>1, <2>2
<1>9. ResetIsSafe'
  <2>1. \A v \in Workers : Looked(v) /\ ~dirty => draft'[v] \in late' \cup {NoWork}
    BY <1>1, <1>3 DEF CloseInv, ResetIsSafe
  <2>2. late \subseteq late' /\ UNCHANGED <<phase, dirty>>
    BY <1>1 DEF script
  <2>. QED
    BY <1>1, <1>4, <2>1, <2>2, ScriptStands DEF CloseInv, ResetIsSafe
<1>10. Listing' /\ OriginHasMain' /\ Handed'
  BY <1>1, <1>4, ScriptStands, PromisesStand
<1>. QED
  BY <1>5, <1>6, <1>7, <1>8, <1>9, <1>10 DEF CloseInv

LEMMA CommitKeeps ==
  ASSUME CloseInv, NEW w \in Workers, Commit(w)
  PROVE  CloseInv'
<1>. DEFINE k == draft[w]
<1>1. /\ k # NoWork /\ draft' = [draft EXCEPT ![w] = NoWork]
      /\ UNCHANGED <<remote, main, origin, trees, begun, elsewhere, script, faults>>
  BY DEF Commit
<1>2. /\ k \in 1 .. begun /\ k \in 0 .. MaxWork /\ w \in trees /\ IsHistory(branch[w])
      /\ branch[w] # {} /\ NoWork \in 0 .. MaxWork
  <2>1. k \in 1 .. begun /\ w \in trees
    BY <1>1 DEF CloseInv, DraftsApart
  <2>2. IsHistory(branch[w]) /\ branch[w] # {}
    BY <2>1 DEF CloseInv, CloseTypeOK, IsHistory
  <2>3. k \in 0 .. MaxWork /\ NoWork \in 0 .. MaxWork
    BY CloseBounds DEF CloseInv, CloseTypeOK, NoWork
  <2>. QED
    BY <2>1, <2>2, <2>3
<1>3. /\ draft' \in [Workers -> 0 .. MaxWork] /\ draft'[w] = NoWork
      /\ \A v \in Workers : v # w => draft'[v] = draft[v]
  BY <1>1, <1>2 DEF CloseInv, CloseTypeOK
<1>4. \/ /\ w \in elsewhere /\ aside' = aside \cup {k} /\ late' = late \ {k} /\ branch' = branch
      \/ /\ w \notin elsewhere /\ aside' = aside
         /\ branch' = [branch EXCEPT ![w] = Extend(branch[w], k)]
         /\ late' = IF Merged(w) THEN late \cup {k} ELSE late \ {k}
  BY DEF Commit
<1>5. /\ DOMAIN branch' = Workers /\ \A v \in Workers : v # w => branch'[v] = branch[v]
      /\ IsHistory(branch'[w]) /\ Works(branch[w]) \subseteq Works(branch'[w])
      /\ Works(branch'[w]) \subseteq Works(branch[w]) \cup {k}
      /\ k \in aside' \/ k \in Works(branch'[w])
  <2>1. DOMAIN branch = Workers
    BY DEF CloseInv, CloseTypeOK
  <2>2. /\ IsHistory(Extend(branch[w], k))
        /\ Works(Extend(branch[w], k)) = Works(branch[w]) \cup {k}
    BY <1>1, <1>2, ExtendLemma
  <2>. HIDE DEF k
  <2>. QED
    BY <1>2, <1>4, <2>1, <2>2
<1>6. /\ aside \subseteq aside' /\ aside' \subseteq aside \cup {k}
      /\ late \ {k} \subseteq late' /\ late' \subseteq late \cup {k}
      /\ Merged(w) => k \in late' \/ branch' = branch
  BY <1>4
<1>7. /\ \A v \in Workers : k \notin Works(branch[v]) /\ (v # w => draft[v] # k)
      /\ k \notin aside \cup Works(main) \cup Works(origin)
  BY <1>1 DEF CloseInv, DraftsApart
<1>. HIDE DEF k
<1>8. CloseTypeOK'
  <2>1. \A v \in Workers : IsHistory(branch'[v]) \/ (branch'[v] = {} /\ v \notin trees)
    BY <1>5 DEF CloseInv, CloseTypeOK
  <2>2. aside' \cup late' \subseteq 1 .. begun
    BY <1>2, <1>6 DEF CloseInv, CloseTypeOK
  <2>. QED
    BY <1>1, <1>3, <1>5, <2>1, <2>2, ScriptStands DEF CloseInv, CloseTypeOK, script
<1>9. WorksBegun'
  BY <1>1, <1>2, <1>5 DEF CloseInv, WorksBegun
<1>10. DraftsApart'
  <2>. SUFFICES ASSUME NEW v \in Workers, draft'[v] # NoWork
                PROVE  /\ v \in trees /\ draft'[v] \in 1 .. begun
                       /\ draft'[v] \notin aside' \cup Works(main) \cup Works(origin)
                       /\ \A u \in Workers : /\ draft'[v] \notin Works(branch'[u])
                                             /\ u # v => draft'[v] # draft'[u]
    BY <1>1 DEF DraftsApart
  <2>1. v # w /\ draft'[v] = draft[v] /\ draft[v] # NoWork /\ draft[v] # k
    BY <1>3, <1>7
  <2>2. /\ v \in trees /\ draft[v] \in 1 .. begun
        /\ draft[v] \notin aside \cup Works(main) \cup Works(origin)
        /\ \A u \in Workers : /\ draft[v] \notin Works(branch[u])
                              /\ u # v => draft[v] # draft[u]
    BY <2>1 DEF CloseInv, DraftsApart
  <2>3. \A u \in Workers : draft[v] \notin Works(branch'[u])
    BY <1>5, <2>1, <2>2
  <2>. QED
    BY <1>3, <1>6, <2>1, <2>2, <2>3
<1>11. NoWorkLost'
  <2>. SUFFICES ASSUME NEW j \in (1 .. begun) \ late'
                PROVE  \/ j \in aside'
                       \/ j \in Works(main) \cup Works(origin)
                       \/ \E u \in Workers : j = draft'[u] \/ j \in Works(branch'[u])
    BY <1>1 DEF NoWorkLost
  <2>1. CASE j = k
    BY <1>5, <2>1
  <2>2. CASE j # k
    <3>1. \/ j \in aside
          \/ j \in Works(main) \cup Works(origin)
          \/ \E u \in Workers : j = draft[u] \/ j \in Works(branch[u])
      BY <1>6, <2>2 DEF CloseInv, NoWorkLost
    <3>2. ASSUME NEW u \in Workers, j = draft[u] \/ j \in Works(branch[u])
          PROVE  j = draft'[u] \/ j \in Works(branch'[u])
      BY <1>3, <1>5, <2>2, <3>2 DEF k
    <3>. QED
      BY <1>6, <3>1, <3>2
  <2>. QED
    BY <2>1, <2>2
<1>12. ResetIsSafe'
  <2>1. \A v \in Workers : Looked(v) /\ ~dirty => draft'[v] \in late' \cup {NoWork}
    <3>. SUFFICES ASSUME NEW v \in Workers, Looked(v), ~dirty, v # w
                  PROVE  draft'[v] \in late' \cup {NoWork}
      BY <1>3
    <3>1. draft[v] \in late \cup {NoWork}
      BY DEF CloseInv, ResetIsSafe
    <3>. QED
      BY <1>3, <1>6, <1>7, <3>1
  <2>2. \A v \in Workers : Merged(v) => Works(branch'[v]) \subseteq Works(main) \cup late'
    <3>. SUFFICES ASSUME NEW v \in Workers, Merged(v)
                  PROVE  Works(branch'[v]) \subseteq Works(main) \cup late'
      OBVIOUS
    <3>1. Works(branch[v]) \subseteq Works(main) \cup late /\ k \notin Works(branch[v])
      BY <1>7 DEF CloseInv, ResetIsSafe
    <3>2. Works(branch[v]) \subseteq Works(main) \cup late'
      BY <1>6, <3>1
    <3>3. CASE v = w
      BY <1>5, <1>6, <3>2, <3>3
    <3>4. CASE v # w
      BY <1>5, <3>2, <3>4
    <3>. QED
      BY <3>3, <3>4
  <2>3. UNCHANGED <<phase, dirty>>
    BY <1>1 DEF script
  <2>. QED
    BY <1>1, <2>1, <2>2, <2>3, ScriptStands DEF CloseInv, ResetIsSafe
<1>13. Listing' /\ OriginHasMain' /\ Handed'
  <2>1. \A v \in Workers : \/ Works(branch[v]) \subseteq Works(branch'[v]) /\ branch[v] # {}
                           \/ branch'[v] \in {branch[v], main}
    BY <1>2, <1>5
  <2>. QED
    BY <1>1, <2>1, ScriptStands, PromisesStand
<1>. QED
  BY <1>8, <1>9, <1>10, <1>11, <1>12, <1>13 DEF CloseInv

(* A session that changes what is checked out, and nothing else. *)
LEMMA CheckoutKeeps ==
  ASSUME CloseInv, UNCHANGED refs, UNCHANGED script,
         UNCHANGED <<begun, draft, aside, late, faults>>,
         trees' \subseteq Workers, elsewhere' \subseteq trees',
         \A w \in Workers : w \in trees /\ w \notin trees' => draft[w] = NoWork,
         trees' \subseteq trees
  PROVE  CloseInv'
<1>1. UNCHANGED <<remote, main, origin, branch>> /\ UNCHANGED <<phase, dirty>>
  BY DEF refs, script
<1>2. CloseTypeOK'
  BY <1>1, ScriptStands DEF CloseInv, CloseTypeOK, script
<1>3. WorksBegun' /\ NoWorkLost'
  BY <1>1 DEF CloseInv, WorksBegun, NoWorkLost
<1>4. DraftsApart'
  BY <1>1 DEF CloseInv, DraftsApart
<1>5. ResetIsSafe'
  BY <1>1, ScriptStands DEF CloseInv, ResetIsSafe
<1>6. Listing' /\ OriginHasMain' /\ Handed'
  BY <1>1, ScriptStands, PromisesStand
<1>. QED
  BY <1>2, <1>3, <1>4, <1>5, <1>6 DEF CloseInv

LEMMA SetupKeeps ==
  ASSUME CloseInv, NEW w \in Workers, Setup(w)
  PROVE  CloseInv'
<1>1. /\ w \notin trees /\ trees' = trees \cup {w}
      /\ branch' = [branch EXCEPT ![w] = IF branch[w] = {} THEN main ELSE branch[w]]
      /\ UNCHANGED <<remote, main, origin, begun, draft, elsewhere, aside, late, script, faults>>
  BY DEF Setup
<1>2. /\ DOMAIN branch' = Workers
      /\ \A v \in Workers : \/ branch'[v] = branch[v] /\ (v = w => branch[v] # {})
                            \/ branch[v] = {} /\ branch'[v] = main
  BY <1>1 DEF CloseInv, CloseTypeOK
<1>3. Works({}) = {}
  BY DEF Works
<1>4. CloseTypeOK'
  <2>1. \A v \in Workers : IsHistory(branch'[v]) \/ (branch'[v] = {} /\ v \notin trees')
    BY <1>1, <1>2 DEF CloseInv, CloseTypeOK
  <2>. QED
    BY <1>1, <1>2, <2>1, ScriptStands DEF CloseInv, CloseTypeOK, script
<1>5. WorksBegun'
  BY <1>1, <1>2 DEF CloseInv, WorksBegun
<1>6. DraftsApart'
  <2>. SUFFICES ASSUME NEW v \in Workers, draft[v] # NoWork, NEW u \in Workers
                PROVE  draft[v] \notin Works(branch'[u])
    BY <1>1 DEF CloseInv, DraftsApart
  <2>. QED
    BY <1>2 DEF CloseInv, DraftsApart
<1>7. NoWorkLost'
  <2>1. \A v \in Workers : Works(branch[v]) \subseteq Works(branch'[v])
    BY <1>2, <1>3
  <2>. QED
    BY <1>1, <2>1 DEF CloseInv, NoWorkLost
<1>8. ResetIsSafe'
  <2>1. UNCHANGED <<phase, dirty>>
    BY <1>1 DEF script
  <2>2. \A v \in Workers : Merged(v) => Works(branch'[v]) \subseteq Works(main) \cup late
    BY <1>2 DEF CloseInv, ResetIsSafe
  <2>. QED
    BY <1>1, <2>1, <2>2, ScriptStands DEF CloseInv, ResetIsSafe
<1>9. Listing' /\ OriginHasMain' /\ Handed'
  <2>1. \A v \in Workers : branch'[v] \in {branch[v], main}
    BY <1>2
  <2>. QED
    BY <1>1, <2>1, ScriptStands, PromisesStand
<1>. QED
  BY <1>4, <1>5, <1>6, <1>7, <1>8, <1>9 DEF CloseInv

LEMMA PushedByOtherKeeps ==
  ASSUME CloseInv, PushedByOther
  PROVE  CloseInv'
<1>1. /\ begun < MaxWork /\ begun' = begun + 1 /\ faults' = faults + 1 /\ faults < MaxFaults
      /\ origin' = Extend(origin, begun')
      /\ UNCHANGED <<remote, main, branch, trees, draft, elsewhere, aside, late, script>>
  BY DEF PushedByOther
<1>2. /\ begun \in Nat /\ begun' \in 0 .. MaxWork /\ begun' \in 1 .. begun' /\ begun' # NoWork
      /\ 1 .. begun \subseteq 1 .. begun' /\ begun' \notin 1 .. begun
      /\ \A k \in 1 .. begun' : k \in 1 .. begun \/ k = begun'
      /\ faults' \in 0 .. MaxFaults
  <2>1. /\ begun \in Nat /\ begun' = begun + 1 /\ begun < MaxWork /\ MaxWork \in Nat
        /\ faults \in Nat /\ faults' = faults + 1 /\ faults < MaxFaults /\ MaxFaults \in Nat
    BY <1>1, CloseBounds DEF CloseInv, CloseTypeOK
  <2>. QED
    BY <2>1 DEF NoWork
<1>3. /\ IsHistory(origin') /\ origin \subseteq origin'
      /\ Works(origin') = Works(origin) \cup {begun'}
  BY <1>1, <1>2, ExtendLemma DEF CloseInv, CloseTypeOK
<1>4. CloseTypeOK'
  <2>1. aside \cup late \subseteq 1 .. begun'
    BY <1>2 DEF CloseInv, CloseTypeOK
  <2>. QED
    BY <1>1, <1>2, <1>3, <2>1, ScriptStands DEF CloseInv, CloseTypeOK, script
<1>5. WorksBegun'
  BY <1>1, <1>2, <1>3 DEF CloseInv, WorksBegun
<1>6. DraftsApart'
  <2>1. \A w \in Workers : draft[w] # NoWork => draft[w] \in 1 .. begun' /\ draft[w] # begun'
    BY <1>2 DEF CloseInv, DraftsApart
  <2>. QED
    BY <1>1, <1>3, <2>1 DEF CloseInv, DraftsApart
<1>7. NoWorkLost'
  BY <1>1, <1>2, <1>3 DEF CloseInv, NoWorkLost
<1>8. ResetIsSafe'
  <2>1. UNCHANGED <<phase, dirty>>
    BY <1>1 DEF script
  <2>. QED
    BY <1>1, <2>1, ScriptStands DEF CloseInv, ResetIsSafe
<1>9. Listing' /\ OriginHasMain' /\ Handed'
  BY <1>1, <1>3, ScriptStands, PromisesStand
<1>. QED
  BY <1>4, <1>5, <1>6, <1>7, <1>8, <1>9 DEF CloseInv

----------------------------------------------------------------------------

(* CloseInv is inductive. *)
LEMMA CloseInvInductive == CloseInv /\ [CloseNext]_closeVars => CloseInv'
<1>. SUFFICES ASSUME CloseInv, [CloseNext]_closeVars
              PROVE  CloseInv'
  OBVIOUS
<1>1. CASE RefuseDirty \/ Fail \/ Kill
  <2>1. /\ UNCHANGED refs /\ UNCHANGED session /\ phase' = "idle"
        /\ UNCHANGED <<list, place, dirty, merged, stuck, runs, behind>>
    BY <1>1 DEF RefuseDirty, Fail, Kill
  <2>2. lock' \in BOOLEAN
    BY <1>1 DEF RefuseDirty, Fail, Kill, CloseInv, CloseTypeOK
  <2>3. faults' \in 0 .. MaxFaults
    <3>1. faults' = faults \/ (faults < MaxFaults /\ faults' = faults + 1)
      BY <1>1 DEF RefuseDirty, Fail, Kill
    <3>. QED
      BY <3>1, CloseBounds DEF CloseInv, CloseTypeOK
  <2>. QED
    BY <2>1, <2>2, <2>3, EndedKeeps
<1>2. ASSUME NEW w \in Workers, Leave(w) \/ RemoveWorktree(w)
      PROVE  CloseInv'
  <2>1. /\ UNCHANGED refs /\ UNCHANGED script /\ UNCHANGED <<begun, draft, aside, late, faults>>
        /\ \A v \in Workers : v \in trees /\ v \notin trees' => draft[v] = NoWork
        /\ trees' \subseteq trees
    BY <1>2 DEF Leave, RemoveWorktree
  <2>2. trees' \subseteq Workers /\ elsewhere' \subseteq trees'
    BY <1>2 DEF Leave, RemoveWorktree, CloseInv, CloseTypeOK
  <2>. QED
    BY <2>1, <2>2, CheckoutKeeps
<1>3. CASE UNCHANGED closeVars
  <2>1. /\ UNCHANGED refs /\ UNCHANGED script /\ UNCHANGED <<begun, draft, aside, late, faults>>
        /\ trees' = trees /\ elsewhere' = elsewhere
    BY <1>3 DEF closeVars, session
  <2>2. trees' \subseteq Workers /\ elsewhere' \subseteq trees'
    BY <2>1 DEF CloseInv, CloseTypeOK
  <2>. QED
    BY <2>1, <2>2, CheckoutKeeps
<1>. QED
  BY <1>1, <1>2, <1>3, StartKeeps, SyncKeeps, LookAtKeeps, PreflightPassedKeeps,
     MergeBranchKeeps, AllMergedKeeps, PushKeeps, ResetWorktreeKeeps, PassedOverKeeps,
     FinishKeeps, RemoveLockKeeps, EditKeeps, CommitKeeps, SetupKeeps, PushedByOtherKeeps
  DEF CloseNext

LEMMA CloseInvInit == CloseInit => CloseInv
<1>. SUFFICES ASSUME CloseInit
              PROVE  CloseInv
  OBVIOUS
<1>1. IsHistory({Root}) /\ Works({Root}) = {} /\ Works({}) = {}
  <2>1. Root.work = NoWork /\ Root.on = {} /\ NoWork \in 0 .. MaxWork
    BY CloseBounds DEF Root, NoWork
  <2>2. IsFiniteSet({Root})
    BY FS_Singleton
  <2>3. IsHistory({Root})
    BY <2>1, <2>2 DEF IsHistory
  <2>. QED
    BY <2>1, <2>3 DEF Works
<1>2. list = <<>> /\ list \in Seq(Workers) /\ Len(list) = 0 /\ DOMAIN list = {}
  BY DEF CloseInit
<1>3. CloseTypeOK
  <2>1. /\ 0 \in 0 .. MaxWork /\ 0 \in 0 .. MaxRuns /\ 0 \in 0 .. MaxFaults
        /\ 1 \in 1 .. Len(list) + 1
    BY <1>2, CloseBounds
  <2>2. draft \in [Workers -> 0 .. MaxWork] /\ DOMAIN branch = Workers
        /\ \A w \in Workers : branch[w] = {}
    BY <2>1 DEF CloseInit, NoWork
  <2>. QED
    BY <1>1, <1>2, <2>1, <2>2 DEF CloseInit, CloseTypeOK, Running
<1>4. WorksBegun /\ DraftsApart /\ NoWorkLost
  <2>1. begun = 0 /\ main = {Root} /\ origin = {Root}
        /\ \A w \in Workers : branch[w] = {} /\ draft[w] = NoWork
    BY DEF CloseInit
  <2>. QED
    BY <1>1, <2>1 DEF WorksBegun, DraftsApart, NoWorkLost
<1>5. Listing /\ ResetIsSafe /\ OriginHasMain /\ Handed
  BY <1>2 DEF CloseInit, Listing, ResetIsSafe, Looked, Merged, OriginHasMain, Handed, Running
<1>. QED
  BY <1>3, <1>4, <1>5 DEF CloseInv

LEMMA CloseAlways == CloseSpec => []CloseInv
<1>. QED
  BY CloseInvInit, CloseInvInductive, PTL DEF CloseSpec

(* What a close leaves at every point are histories, for any number of     *)
(* workers, pieces of work, runs and faults; a running script has its lock. *)
THEOREM CloseTypeCorrect == CloseSpec => []CloseTypeOK
<1>1. CloseInv => CloseTypeOK
  BY DEF CloseInv
<1>. QED
  BY <1>1, CloseAlways, PTL

(* Wherever a close fails, is killed or is started again, and in whatever  *)
(* order a rebase picks, no work is lost but what was edited after the     *)
(* script had looked or committed after it had merged.                     *)
THEOREM CloseLosesNothing == CloseSpec => []NoWorkLost
<1>1. CloseInv => NoWorkLost
  BY DEF CloseInv
<1>. QED
  BY <1>1, CloseAlways, PTL

(* A finished close has handed main to origin and to every branch it named *)
(* that git let it check out or move (Range(list) \ stuck), unless main was *)
(* ahead of origin before and nothing was left to merge.                   *)
THEOREM CloseHandsOver == CloseSpec => []HandedOverUnlessBehind
<1>1. CloseInv => HandedOverUnlessBehind
  <2>. SUFFICES ASSUME CloseInv, phase = "done", Level
                PROVE  HandedOver
    BY DEF HandedOverUnlessBehind, HandedOver, Level
  <2>1. \A w \in Range(list) \ stuck : branch[w] # {} => Works(main) \subseteq Works(branch[w])
    BY DEF CloseInv, Handed
  <2>2. remote => Works(main) \subseteq Works(origin)
    BY WorksMonotone DEF CloseInv, OriginHasMain
  <2>. QED
    BY <2>1, <2>2 DEF HandedOver
<1>. QED
  BY <1>1, CloseAlways, PTL
=============================================================================
