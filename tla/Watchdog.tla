------------------------------ MODULE Watchdog ------------------------------
(***************************************************************************)
(* The main loop of watchdog.sh for one worker: when it launches a         *)
(* session, what it does to the two cursors on the worker's inbox when the *)
(* session ends - its own, in a file, and the broker's, which the          *)
(* session's turn_start advances - and when it launches another.           *)
(*                                                                         *)
(* Left out: patrol launches, model routing, verification and --once.  The *)
(* slots are those of Slots, seen from one watchdog.  The broker's first   *)
(* read without a cursor is taken to deliver the whole inbox.  A session   *)
(* may do anything a worker may: read or not, work on tasks it has read,   *)
(* hand off, end.                                                          *)
(***************************************************************************)
EXTENDS Integers, Sequences, FiniteSets

CONSTANTS
  Tasks,
  Outcomes,       \* how sessions end: a subset of AllOutcomes
  Faults,         \* what a run includes, see below
  NO_OUTPUT_MAX, FOLLOWUP_MAX,
  MaxInbox        \* bound: messages ever sent to the inbox

AllOutcomes == {"clean", "crash", "timeout", "rotated", "limited", "netdown"}

(* "peers"  other workers post on the shared status channel;               *)
(* "flaky"  the watchdog's own calls to the broker may fail;               *)
(* "busy"   other watchdogs' sessions may hold every slot (Slots).         *)
ASSUME TasksAssumption == IsFiniteSet(Tasks)
ASSUME OutcomesAssumption == Outcomes \subseteq AllOutcomes
ASSUME FaultsAssumption == Faults \subseteq {"peers", "flaky", "busy"}
ASSUME NumbersAssumption ==
  NO_OUTPUT_MAX \in Nat \ {0} /\ FOLLOWUP_MAX \in Nat /\ MaxInbox \in Nat

Reasons == {"none", "inbox", "followup", "rotate"}

(* "gave_up"  the silent runs or the follow-ups are used up;               *)
(* "missed"   a call to the broker failed, or a forced start met busy      *)
(*            slots;                                                       *)
(* "limited"  the session was rate limited, which rewinds nothing.         *)
Excuses == {"none", "gave_up", "missed", "limited"}

VARIABLES
  inbox,         \* the tasks the inbox's messages are about, by id
  dispatch,      \* task -> id of its dispatch, 0 before
  task,          \* task -> "none", "open", "waiting" (blocked, plan-review), "done"
  brokerCursor,  \* the worker's cursor on its inbox
  fileCursor,    \* read_cursor, write_cursor
  pc,            \* "loop", "session", "ended"
  reason,        \* START_REASON of the running session
  force,         \* FORCE_START
  maxId,         \* MAX_ID: the inbox's last id before the launch
  output,        \* who has posted on the status channel since STATUS_BASE
  seen,          \* the tasks the session has been given; {} before turn_start
  turned,        \* the session has called turn_start
  outcome,       \* of the ended session
  noOutput, followups, prevOpen,
  excuse,        \* history: why the end of the last session, or the round after
                 \* it, left open tasks behind: one of Excuses
  spent          \* history: launches since the last news, failure or progress

brokerVars  == <<inbox, dispatch, task>>
launchVars  == <<reason, maxId>>
sessionVars == <<output, seen, turned, outcome>>
counterVars == <<force, noOutput, followups, prevOpen, excuse>>
vars == <<brokerVars, brokerCursor, fileCursor, pc, launchVars, sessionVars, counterVars, spent>>

Open == {t \in Tasks : task[t] = "open"}

Low(S) == CHOOSE n \in S : \A k \in S : n <= k

Lower(n) == Low({brokerCursor, n})

Flaky == "flaky" \in Faults

----------------------------------------------------------------------------
(* Others. *)

Send(t) ==
  /\ Len(inbox) < MaxInbox
  /\ inbox' = Append(inbox, t)
  /\ spent' = 0
  /\ UNCHANGED <<brokerCursor, fileCursor, pc, launchVars, sessionVars, counterVars>>

Dispatch(t) ==
  /\ task[t] = "none"
  /\ Send(t)
  /\ task' = [task EXCEPT ![t] = "open"]
  /\ dispatch' = [dispatch EXCEPT ![t] = Len(inbox')]

(* An answer, or a plan decision: the task can go on. *)
Answer(t) ==
  /\ task[t] = "waiting"
  /\ Send(t)
  /\ task' = [task EXCEPT ![t] = "open"]
  /\ UNCHANGED dispatch

PeerPosts ==
  /\ "peers" \in Faults
  /\ pc # "loop"
  /\ output' = output \cup {"peer"}
  /\ UNCHANGED <<brokerVars, brokerCursor, fileCursor, pc, launchVars, seen, turned, outcome,
                 counterVars, spent>>

----------------------------------------------------------------------------
(* The session. *)

(* turn_start: everything beyond the broker's cursor. *)
TurnStart ==
  /\ pc = "session"
  /\ seen' = seen \cup {inbox[i] : i \in brokerCursor + 1..Len(inbox)}
  /\ turned' = TRUE
  /\ brokerCursor' = Len(inbox)
  /\ UNCHANGED <<brokerVars, fileCursor, pc, launchVars, output, outcome, counterVars, spent>>

(* A result, a question or plan, or mere progress on a task it has read. *)
Report(t, state) ==
  /\ pc = "session"
  /\ t \in seen /\ task[t] = "open"
  /\ task' = [task EXCEPT ![t] = state]
  /\ output' = output \cup {"own"}
  /\ spent' = IF state = "open" THEN spent ELSE 0
  /\ UNCHANGED <<inbox, dispatch, brokerCursor, fileCursor, pc, launchVars, seen, turned, outcome,
                 counterVars>>

(* A status with handoff_notes; the broker rewinds to before the dispatch. *)
Handoff(t) ==
  /\ pc = "session"
  /\ t \in seen /\ task[t] = "open"
  /\ output' = output \cup {"own"}
  /\ brokerCursor' = Lower(dispatch[t] - 1)
  /\ UNCHANGED <<brokerVars, fileCursor, pc, launchVars, seen, turned, outcome, counterVars, spent>>

End(o) ==
  /\ pc = "session"
  /\ pc' = "ended"
  /\ outcome' = o
  /\ UNCHANGED <<brokerVars, brokerCursor, fileCursor, launchVars, output, seen, turned,
                 counterVars, spent>>

----------------------------------------------------------------------------
(* The watchdog: launching. *)

Pending == Len(inbox) > fileCursor

Reason == IF Pending THEN "inbox" ELSE force

(* One round of the loop with a reason to start. *)
Launch ==
  /\ pc = "loop"
  /\ \/ reason' = Reason /\ maxId' = Len(inbox) /\ spent' = spent + 1
     \/ Flaky /\ reason' = force /\ maxId' = 0 /\ spent' = 0
  /\ reason' # "none"
  /\ pc' = "session"
  /\ force' = "none"
  /\ followups' = IF reason' = "inbox" THEN 0 ELSE followups
  /\ output' = {} /\ seen' = {} /\ turned' = FALSE /\ outcome' = "none"
  /\ UNCHANGED <<brokerVars, brokerCursor, fileCursor, noOutput, prevOpen, excuse>>

(* Every slot is busy: the round ends, its reason to start with it. *)
SlotsBusy ==
  /\ "busy" \in Faults
  /\ pc = "loop" /\ Reason # "none"
  /\ force' = "none"
  /\ followups' = IF Pending THEN 0 ELSE followups
  /\ excuse' = IF force = "none" THEN excuse ELSE "missed"
  /\ UNCHANGED <<brokerVars, brokerCursor, fileCursor, pc, launchVars, sessionVars, noOutput,
                 prevOpen, spent>>

(* rewind_broker_cursor and rewind_worker_cursor, best effort. *)
RewindFrom(pos, n) ==
  \/ brokerCursor' = Low({pos, n}) /\ excuse' = "none"
  \/ Flaky /\ brokerCursor' = pos /\ excuse' = "missed"

(* fallback_handoff: posts a handoff for the task in flight, unless the    *)
(* session has posted one, nothing is in flight, or (after a crash) the    *)
(* worktree is clean or the last fallback was posted at the same state.    *)
FallbackHandoff(pos) == {pos} \cup {Low({pos, dispatch[t] - 1}) :
                              t \in {k \in Tasks : task[k] \in {"open", "waiting"}}}

(* _keep_forced_start. *)
Kept == IF reason \in {"followup", "rotate"} THEN reason ELSE force

(* ledger_open; an unreachable broker counts as nothing open. *)
LedgerOpen == {Open} \cup IF Flaky THEN {{}} ELSE {}

----------------------------------------------------------------------------
(* The watchdog: after a session. *)

Back ==
  /\ pc = "ended"
  /\ pc' = "loop"
  /\ UNCHANGED <<brokerVars, launchVars, sessionVars>>

(* Mutant: the retry starts where the failed session stopped reading. *)
AfterFailure_NoRewind ==
  /\ Back
  /\ outcome \in {"crash", "timeout"}
  /\ \E pos \in FallbackHandoff(brokerCursor) : brokerCursor' = pos
  /\ force' = Kept
  /\ excuse' = "none" /\ spent' = 0
  /\ UNCHANGED <<fileCursor, noOutput, followups, prevOpen>>

(* Crash and timeout: the batch is due again. *)
AfterFailure ==
  /\ Back
  /\ outcome \in {"crash", "timeout"}
  /\ \E pos \in FallbackHandoff(brokerCursor) : RewindFrom(pos, fileCursor)
  /\ force' = Kept
  /\ spent' = 0
  /\ UNCHANGED <<fileCursor, noOutput, followups, prevOpen>>

(* The API was unreachable: no fallback handoff. *)
AfterNetDown ==
  /\ Back
  /\ outcome = "netdown"
  /\ RewindFrom(brokerCursor, fileCursor)
  /\ force' = Kept
  /\ spent' = 0
  /\ UNCHANGED <<fileCursor, noOutput, followups, prevOpen>>

(* Mutant: the reason of a forced start is forgotten. *)
AfterLimit_Drops ==
  /\ Back
  /\ outcome = "limited"
  /\ spent' = 0 /\ excuse' = "limited"
  /\ UNCHANGED <<force, brokerCursor, fileCursor, noOutput, followups, prevOpen>>

(* Rate limited: back off and relaunch. *)
AfterLimit ==
  /\ Back
  /\ outcome = "limited"
  /\ force' = Kept
  /\ spent' = 0 /\ excuse' = "limited"
  /\ UNCHANGED <<brokerCursor, fileCursor, noOutput, followups, prevOpen>>

AfterRotation ==
  /\ Back
  /\ outcome = "rotated"
  /\ \E pos \in FallbackHandoff(brokerCursor) : RewindFrom(pos, fileCursor)
  /\ force' = "rotate"
  /\ spent' = 0
  /\ UNCHANGED <<fileCursor, noOutput, followups, prevOpen>>

WriteCursor == fileCursor' = IF maxId > fileCursor THEN maxId ELSE fileCursor

(* Mutant: one follow-up too many. *)
FollowUp_OneMore(led, runs) ==
  IF led # {} /\ runs <= FOLLOWUP_MAX
    THEN /\ followups' = runs + 1 /\ force' = "followup"
         /\ RewindFrom(brokerCursor, Low({dispatch[t] : t \in led}) - 1)
    ELSE /\ followups' = runs
         /\ excuse' = IF led # {} THEN "gave_up" ELSE IF Open # {} THEN "missed" ELSE "none"
         /\ UNCHANGED <<force, brokerCursor>>

(* A follow-up when the ledger still holds open tasks, at most             *)
(* FOLLOWUP_MAX times in a row without progress.                           *)
FollowUp(led, runs) ==
  IF led # {} /\ runs < FOLLOWUP_MAX
    THEN /\ followups' = runs + 1 /\ force' = "followup"
         /\ RewindFrom(brokerCursor, Low({dispatch[t] : t \in led}) - 1)
    ELSE /\ followups' = runs
         /\ excuse' = IF led # {} THEN "gave_up" ELSE IF Open # {} THEN "missed" ELSE "none"
         /\ UNCHANGED <<force, brokerCursor>>

(* Somebody has posted something, or the inbox was not the reason; a       *)
(* failed look at the status channel counts as nothing posted.             *)
CountsAsOutput == reason # "inbox" \/ output # {}

(* Mutant: the follow-up budget is renewed by every clean exit. *)
AfterOutput_FreshBudget ==
  /\ Back
  /\ outcome = "clean" /\ CountsAsOutput
  /\ WriteCursor
  /\ noOutput' = 0
  /\ \E led \in LedgerOpen :
       /\ prevOpen' = Cardinality(led)
       /\ FollowUp(led, 0)
       /\ spent' = IF led = Open THEN spent ELSE 0

(* Mutant: no follow-up. *)
AfterOutput_NoFollowUp ==
  /\ Back
  /\ outcome = "clean" /\ CountsAsOutput
  /\ WriteCursor
  /\ noOutput' = 0
  /\ UNCHANGED <<excuse, spent, followups, force, brokerCursor, prevOpen>>

AfterOutput ==
  /\ Back
  /\ outcome = "clean" /\ CountsAsOutput
  /\ WriteCursor
  /\ noOutput' = 0
  /\ \E led \in LedgerOpen :
       /\ prevOpen' = Cardinality(led)
       /\ FollowUp(led, IF Cardinality(led) < prevOpen THEN 0 ELSE followups)
       /\ spent' = IF led = Open THEN spent ELSE 0

(* Nothing posted: keep the cursor and retry, NO_OUTPUT_MAX times. *)
AfterSilence ==
  /\ Back
  /\ outcome = "clean" /\ (~CountsAsOutput \/ (Flaky /\ reason = "inbox"))
  /\ IF noOutput + 1 >= NO_OUTPUT_MAX
       THEN WriteCursor /\ noOutput' = 0 /\ excuse' = "gave_up" /\ UNCHANGED brokerCursor
       ELSE /\ noOutput' = noOutput + 1
            /\ RewindFrom(brokerCursor, fileCursor)
            /\ UNCHANGED fileCursor
  /\ spent' = IF CountsAsOutput THEN 0 ELSE spent
  /\ UNCHANGED <<force, followups, prevOpen>>

(* The watchdog is stopped or dies, the session with it, and is started    *)
(* again: only the file survives.  The startup follow-up.                  *)
Restart ==
  /\ pc' = "loop"
  /\ noOutput' = 0 /\ spent' = 0
  /\ \E led \in LedgerOpen :
       /\ prevOpen' = Cardinality(led)
       /\ IF led # {} /\ FOLLOWUP_MAX > 0
            THEN /\ followups' = 1 /\ force' = "followup"
                 /\ RewindFrom(brokerCursor, Low({dispatch[t] : t \in led}) - 1)
            ELSE /\ followups' = 0 /\ force' = "none" /\ UNCHANGED brokerCursor
                 /\ excuse' = IF Open = {} THEN "none" ELSE "missed"
  /\ reason' = "none" /\ maxId' = 0
  /\ output' = {} /\ seen' = {} /\ turned' = FALSE /\ outcome' = "none"
  /\ UNCHANGED <<brokerVars, fileCursor>>

----------------------------------------------------------------------------

Init ==
  /\ inbox = <<>> /\ brokerCursor = 0 /\ fileCursor = 0
  /\ dispatch = [t \in Tasks |-> 0] /\ task = [t \in Tasks |-> "none"]
  /\ pc = "loop" /\ reason = "none" /\ force = "none" /\ maxId = 0
  /\ output = {} /\ seen = {} /\ turned = FALSE /\ outcome = "none"
  /\ noOutput = 0 /\ followups = 0 /\ prevOpen = 0
  /\ excuse = "none" /\ spent = 0

Session ==
  \/ TurnStart
  \/ \E t \in Tasks : Handoff(t) \/ \E s \in {"open", "waiting", "done"} : Report(t, s)
  \/ \E o \in Outcomes : End(o)

After ==
  AfterFailure \/ AfterNetDown \/ AfterLimit \/ AfterRotation \/ AfterOutput \/ AfterSilence

Next ==
  \/ \E t \in Tasks : Dispatch(t) \/ Answer(t)
  \/ PeerPosts
  \/ Session
  \/ Launch
  \/ SlotsBusy
  \/ After
  \/ Restart

Spec == Init /\ [][Next]_vars

----------------------------------------------------------------------------

(* Every variable has its type; neither cursor runs ahead of the inbox. *)
TypeOK ==
  /\ inbox \in Seq(Tasks) /\ Len(inbox) <= MaxInbox
  /\ dispatch \in [Tasks -> 0..Len(inbox)]
  /\ task \in [Tasks -> {"none", "open", "waiting", "done"}]
  /\ brokerCursor \in 0..Len(inbox) /\ fileCursor \in 0..Len(inbox)
  /\ pc \in {"loop", "session", "ended"}
  /\ {reason, force} \subseteq Reasons
  /\ maxId \in 0..Len(inbox)
  /\ output \subseteq {"own", "peer"} /\ seen \subseteq Tasks /\ turned \in BOOLEAN
  /\ outcome \in AllOutcomes \cup {"none"}
  /\ noOutput \in 0..NO_OUTPUT_MAX - 1 /\ followups \in 0..FOLLOWUP_MAX
  /\ prevOpen \in 0..Cardinality(Tasks) /\ excuse \in Excuses /\ spent \in Nat

Due(t) == \E n \in brokerCursor + 1..Len(inbox) : inbox[n] = t

(* A launched session finds its work: until its turn_start, every open     *)
(* task dispatched beyond the watchdog's own cursor has a message beyond   *)
(* the broker's cursor - unless the end of the last session gave up on     *)
(* what was open, or could not be carried out.                             *)
RelaunchSeesWork ==
  pc = "session" /\ ~turned /\ excuse = "none" =>
    \A t \in Open : dispatch[t] > fileCursor => Due(t)

(* The same without exception, whatever way the last session ended. *)
EveryLaunchSeesWork ==
  pc = "session" /\ ~turned => \A t \in Open : dispatch[t] > fileCursor => Due(t)

(* A worker idles with a task open only after giving up on it - the        *)
(* follow-up budget or the silent runs are used up - or when a call failed *)
(* or a forced start met busy slots.  A rate limit is no excuse: it        *)
(* rewinds nothing, but the worker is started again.                       *)
IdleOnlyAfterGivingUp ==
  pc = "loop" /\ Reason = "none" /\ Open # {} => excuse \in {"gave_up", "missed"}

(* Sessions are not launched again and again for nothing: with every exit  *)
(* clean, no news, no failed call and no progress, at most this many.      *)
SpendBounded == spent <= NO_OUTPUT_MAX + FOLLOWUP_MAX
=============================================================================
