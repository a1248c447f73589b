------------------------- MODULE OrchestrationLoop -------------------------
(***************************************************************************)
(* runner/orchestrate.mjs: the loop that releases parked tasks, dispatches *)
(* the sprint-close review and wakes the orchestrator, run beside an       *)
(* orchestrator and workers that use the same channels meanwhile.          *)
(*                                                                         *)
(* A tick reads the broker in several requests, plans from what it read    *)
(* and from its state file, applies the plan one request after the other,  *)
(* and only then saves the state.  The loop may die at any point; what it  *)
(* sent stays, what it had not saved is gone.  A request may be rejected,  *)
(* or carried out with its answer lost.                                    *)
(*                                                                         *)
(* Left out: worker starts, which read and write nothing the rest uses,    *)
(* the wakes for questions and plans, which take the way of those for      *)
(* results, forged held-tasks, purged or pruned messages, skipped tasks    *)
(* (as good as passed).  The verdict of a review is always "pass": each of *)
(* them only wakes.                                                        *)
(***************************************************************************)
EXTENDS Integers, Sequences, FiniteSets

CONSTANTS
  Tasks, Reviews,  \* ordinary task ids; ids of sprint-close reviews
  Deps,            \* task -> depends_on
  MaxId,           \* bound: messages ever sent
  MaxCrashes,      \* bound: deaths of the loop, and
  MaxFaults        \* bound: failed requests

ASSUME DepsAssumption == Deps \in [Tasks -> SUBSET Tasks]
ASSUME NamesAssumption == Tasks \cap Reviews = {} /\ "none" \notin Reviews
ASSUME BoundsAssumption == {MaxId, MaxCrashes, MaxFaults} \subseteq Nat

Ids == 1..MaxId
Message == [kind : {"task", "held", "pass", "fail"}, task : Tasks \cup Reviews,
            by : {"orch", "loop", "worker"}]

(* A wake's key: what it is about and the id or number of that. *)
Keys == {"result", "held-refused", "release-failed", "review-failed", "ready-for-review"}
          \X (0..MaxId)

VARIABLES
  log,      \* the namespace's messages, by id
  saved,    \* the state file
  pc,       \* where the loop is
  state,    \* the state in its memory
  reviewHead, \* it is run with --review-head
  snap,     \* what this tick has read: the log as it was, new held-tasks
  todo,     \* the actions planned and not yet applied
  wakes,    \* the wakes of this tick
  told,     \* history: wakes whose note reached the broker or that were printed
  covered,  \* history: dispatches a review was to look at
  slipped,  \* history: dispatches a review's tick could not see
  crashes, faults

loopVars    == <<saved, pc, state, reviewHead, snap, todo, wakes>>
historyVars == <<told, covered, slipped>>
vars == <<log, loopVars, historyVars, crashes, faults>>

NoTodo == [release |-> {}, review |-> "none", wake |-> {}]
NoSnap == [ledger |-> 0, held |-> {}, gotLedger |-> FALSE, gotHeld |-> FALSE]

Blank == [marker |-> 0, last |-> "none", baseline |-> 0, heldSeen |-> 0,
          held |-> [t \in Tasks |-> 0], released |-> {}, reviews |-> {}, surfaced |-> {}]

Highest(S) == IF S = {} THEN 0 ELSE CHOOSE n \in S : \A k \in S : k <= n
Lowest(S)  == IF S = {} THEN 0 ELSE CHOOSE n \in S : \A k \in S : n <= k

----------------------------------------------------------------------------
(* The ledger over the first l messages, with the dispatches beyond since. *)

Dispatches(l, t, since) == {n \in since + 1..l : log[n].kind = "task" /\ log[n].task = t}
Results(l, t) == {n \in 1..l : log[n].kind \in {"pass", "fail"} /\ log[n].task = t}
ResultId(l, t) == Highest(Results(l, t))

Finished(l, t) == LET n == ResultId(l, t) IN n # 0 /\ log[n].kind = "pass"

Since(st) == Highest({0, st.marker - 1})

(* The row's dispatch_id is the first dispatch in the window; 0 is none. *)
DispatchId(l, t, st) == Lowest(Dispatches(l, t, Since(st)))

InWindow(l, t, st) == DispatchId(l, t, st) # 0 \/ Results(l, t) # {}

----------------------------------------------------------------------------
(* The orchestrator, its workers, and the broker. *)

Post(kind, t, by) ==
  /\ Len(log) < MaxId
  /\ log' = Append(log, [kind |-> kind, task |-> t, by |-> by])

Others == UNCHANGED <<loopVars, told, slipped, crashes, faults>>

Dispatch(t) == Post("task", t, "orch") /\ UNCHANGED covered /\ Others

Park(t) == Post("held", t, "orch") /\ UNCHANGED covered /\ Others

(* A review dispatched by hand is for everything dispatched before it. *)
HandReview(r) ==
  /\ Post("task", r, "orch")
  /\ Dispatches(Len(log), r, 0) = {}
  /\ covered' = covered \cup 1..Len(log)
  /\ Others

Report(t, result) ==
  /\ Post(result, t, "worker")
  /\ Dispatches(Len(log), t, 0) # {}
  /\ UNCHANGED covered /\ Others

----------------------------------------------------------------------------
(* Starting the loop. *)

(* initState: no state file yet. *)
FirstRun ==
  LET reviews == {DispatchId(Len(log), r, Blank) : r \in Reviews} \ {0}
      init == [Blank EXCEPT !.marker = Highest(reviews),
                 !.last = IF reviews = {} THEN "none" ELSE log[Highest(reviews)].task,
                 !.baseline = Highest(UNION {Results(Len(log), t) : t \in Tasks \cup Reviews})]
  IN  /\ pc = "new"
      /\ pc' = "read"
      /\ state' = init /\ saved' = init
      /\ UNCHANGED <<reviewHead, log, snap, todo, wakes, historyVars, crashes, faults>>

(* A death before there is anything to do loses the reads alone, and is as *)
(* good as having read later; afterwards main loads the state file.        *)
Crash ==
  /\ pc \in {"apply", "print"}
  /\ crashes < MaxCrashes
  /\ crashes' = crashes + 1
  /\ pc' = "read"
  /\ state' = saved /\ snap' = NoSnap /\ todo' = NoTodo /\ wakes' = {}
  /\ UNCHANGED <<reviewHead, log, saved, historyVars, faults>>

----------------------------------------------------------------------------
(* snapshot: the ledger and the held channel, read side by side. *)

ReadLedger ==
  /\ pc = "read" /\ ~snap.gotLedger
  /\ snap' = [snap EXCEPT !.ledger = Len(log), !.gotLedger = TRUE]
  /\ UNCHANGED <<reviewHead, log, saved, pc, state, todo, wakes, historyVars, crashes, faults>>

ReadHeld ==
  /\ pc = "read" /\ ~snap.gotHeld
  /\ snap' = [snap EXCEPT !.gotHeld = TRUE,
                 !.held = {n \in state.heldSeen + 1..Len(log) : log[n].kind = "held"}]
  /\ UNCHANGED <<reviewHead, log, saved, pc, state, todo, wakes, historyVars, crashes, faults>>

----------------------------------------------------------------------------
(* planActions, for known worker inboxes or, when GET /workers gave none, *)
(* for no inbox at all.                                                   *)

(* Carried entries and those read now; a task's newest held-task wins. *)
Queue(t) ==
  LET fresh == {n \in snap.held : log[n].task = t /\ t \notin state.released}
  IN  IF fresh # {} THEN Highest(fresh) ELSE state.held[t]

(* Mutant: the queue is not compared with the ledger. *)
ByHand_Never(t) == FALSE

(* Entries dispatched meanwhile, by hand or by a tick that was never saved, *)
(* are dropped.                                                             *)
ByHand(t) == DispatchId(snap.ledger, t, state) # 0

Held(t, known) == IF ByHand(t) \/ ~known THEN 0 ELSE Queue(t)

Refused(known) ==
  IF known THEN {}
  ELSE {<<"held-refused", n>> : n \in {k \in snap.held : log[k].task \notin state.released}}
         \cup {<<"held-refused", state.held[t]>> : t \in {k \in Tasks : state.held[k] # 0 /\ ~ByHand(k)}}

(* Mutant: any result of a dependency will do. *)
DepDone_Any(d) ==
  IF InWindow(snap.ledger, d, state) THEN Results(snap.ledger, d) # {} ELSE Results(Len(log), d) # {}

(* A dependency outside the window is looked up in the whole ledger, read  *)
(* last of all.                                                            *)
DepDone(d) ==
  IF InWindow(snap.ledger, d, state) THEN Finished(snap.ledger, d) ELSE Finished(Len(log), d)

Releases(known) ==
  {t \in Tasks : Held(t, known) # 0 /\ \A d \in Deps[t] : DepDone(d)}

(* Mutant: only the loop's own reviews move the marker. *)
NewMarker_Own(st) == st.marker

(* Mutant: every dispatch moves the marker. *)
NewMarker_Any(st) ==
  Highest({st.marker} \cup {DispatchId(snap.ledger, t, st) : t \in Tasks \cup Reviews})

(* A review in the ledger moves the marker, whoever dispatched it. *)
NewMarker(st) ==
  Highest({st.marker} \cup {DispatchId(snap.ledger, r, st) : r \in Reviews})

NewLast(st) ==
  LET marker == NewMarker(st) IN IF marker > st.marker THEN log[marker].task ELSE st.last

Sprint(st) ==
  LET marker == NewMarker(st)
  IN  {t \in Tasks : DispatchId(snap.ledger, t, st) > marker}

LastReviewOpen(st) ==
  LET last == NewLast(st) IN last # "none" /\ Results(snap.ledger, last) = {}

(* Mutant: the sprint closes on the first result. *)
SprintDone_Some(st, known) ==
  /\ \E t \in Sprint(st) : Finished(snap.ledger, t)
  /\ \A t \in Tasks : Held(t, known) = 0
  /\ ~LastReviewOpen(st)

SprintDone(st, known) ==
  /\ \A t \in Tasks : Held(t, known) = 0
  /\ Sprint(st) # {}
  /\ \A t \in Sprint(st) : Finished(snap.ledger, t)
  /\ ~LastReviewOpen(st)

FreeReviews == {r \in Reviews \ state.reviews : ~InWindow(snap.ledger, r, state)}

ResultWakes ==
  {<<"result", n>> : n \in {k \in {ResultId(snap.ledger, t) : t \in Tasks \cup Reviews} :
                             /\ k > state.baseline
                             /\ log[k].kind = "fail" \/ log[k].task \in Reviews}}

(* Without --review-head the orchestrator is woken to dispatch the review. *)
ReadyWakes(known) ==
  IF SprintDone(state, known) /\ ~reviewHead
  THEN {<<"ready-for-review", Highest({DispatchId(snap.ledger, t, state) : t \in Sprint(state)})>>}
  ELSE {}

(* The rest of tick, up to its first request. *)
Plan(known) ==
  /\ pc = "read" /\ snap.gotLedger /\ snap.gotHeld
  /\ known \/ faults < MaxFaults
  /\ faults' = IF known THEN faults ELSE faults + 1
  /\ \E r \in IF SprintDone(state, known) /\ reviewHead /\ FreeReviews # {}
             THEN FreeReviews ELSE {"none"} :
       todo' = [release |-> Releases(known), review |-> r,
                wake |-> (Refused(known) \cup ResultWakes \cup ReadyWakes(known)) \ state.surfaced]
  /\ state' = [state EXCEPT !.held = [t \in Tasks |-> Held(t, known)], !.marker = NewMarker(state),
                 !.last = NewLast(state),
                 !.heldSeen = Highest({@} \cup snap.held)]
  /\ snap' = IF todo'.review = "none" THEN NoSnap ELSE snap
  /\ pc' = "apply"
  /\ UNCHANGED <<reviewHead, log, saved, wakes, historyVars, crashes>>

----------------------------------------------------------------------------
(* applyActions: the releases, the review, then the wakes. *)

(* surface: a note to the orchestrator, which may fail. *)
Surface(key) ==
  /\ state' = [state EXCEPT !.surfaced = @ \cup {key}]
  /\ wakes' = wakes \cup {key}

(* The wake of a failed request is surfaced before the next request. *)
Urgent == {k \in todo.wake : k[1] \in {"release-failed", "review-failed"}}

(* How a request ends: "ok", "rejected" or carried out but unanswered. *)
Outcome(o) ==
  /\ o # "ok" => faults < MaxFaults
  /\ faults' = IF o = "ok" THEN faults ELSE faults + 1

(* Mutant: the entry leaves the queue before the request is made. *)
Release_Drops(t, o) ==
  /\ pc = "apply" /\ Urgent = {} /\ t \in todo.release
  /\ todo' = [todo EXCEPT !.release = @ \ {t}]
  /\ Outcome(o)
  /\ IF o = "rejected" THEN UNCHANGED log ELSE Post("task", t, "loop")
  /\ state' = [state EXCEPT !.released = @ \cup {t}, !.held[t] = 0]
  /\ UNCHANGED <<reviewHead, saved, pc, snap, wakes, historyVars, crashes>>

(* A release that failed stays in the queue and wakes. *)
Release(t, o) ==
  LET key == <<"release-failed", state.held[t]>>
  IN  /\ pc = "apply" /\ Urgent = {} /\ t \in todo.release
      /\ Outcome(o)
      /\ IF o = "rejected" THEN UNCHANGED log ELSE Post("task", t, "loop")
      /\ IF o = "ok"
           THEN /\ state' = [state EXCEPT !.released = @ \cup {t}, !.held[t] = 0]
                /\ todo' = [todo EXCEPT !.release = @ \ {t}]
           ELSE /\ todo' = [todo EXCEPT !.release = @ \ {t},
                                        !.wake = @ \cup ({key} \ state.surfaced)]
                /\ UNCHANGED state
      /\ UNCHANGED <<reviewHead, saved, pc, snap, wakes, historyVars, crashes>>

(* Dispatched before the marker and again after it: until the next tick    *)
(* the row shows the first dispatch, and the task is not in the sprint.    *)
Again == {n \in state.marker + 1..snap.ledger :
            log[n].kind = "task" /\
            \E k \in 1..state.marker : log[k].kind = "task" /\ log[k].task = log[n].task}

(* The review may be rejected, or reach the reviewer unanswered: the loop  *)
(* then wakes, and the marker moves when the ledger shows the review.      *)
Review(o) ==
  LET r   == todo.review
      key == <<"review-failed", Cardinality(state.reviews)>>
  IN  /\ pc = "apply" /\ Urgent = {} /\ todo.release = {} /\ r # "none"
      /\ Outcome(o)
      /\ IF o = "rejected"
           THEN UNCHANGED <<log, covered, slipped>>
           ELSE /\ Post("task", r, "loop")
                /\ covered' = covered \cup {n \in 1..snap.ledger :
                                 log[n].kind = "task" => Finished(snap.ledger, log[n].task)}
                /\ slipped' = slipped \cup snap.ledger + 1..Len(log) \cup Again
      /\ IF o = "ok"
           THEN /\ state' = [state EXCEPT !.marker = Len(log'), !.last = r,
                                          !.reviews = @ \cup {r}]
                /\ todo' = [todo EXCEPT !.review = "none"]
           ELSE /\ todo' = [todo EXCEPT !.review = "none",
                              !.wake = @ \cup ({key} \ state.surfaced)]
                /\ UNCHANGED state
      /\ snap' = NoSnap
      /\ UNCHANGED <<reviewHead, saved, pc, wakes, told, crashes>>

(* Wakes are surfaced in the order in which they were planned: refusals,   *)
(* results, the end of the sprint; within a kind, whose wakes all take one *)
(* course, by number.                                                      *)
WakeOrder == <<"release-failed", "review-failed", "held-refused", "result", "ready-for-review">>
Rank(key) == CHOOSE n \in DOMAIN WakeOrder : WakeOrder[n] = key[1]

IsNext(key) ==
  /\ key \in todo.wake
  /\ \A k \in todo.wake : Rank(key) < Rank(k) \/ (Rank(key) = Rank(k) /\ key[2] <= k[2])

Wake(key, posted) ==
  /\ pc = "apply" /\ IsNext(key)
  /\ key \in Urgent \/ (Urgent = {} /\ todo.release = {} /\ todo.review = "none")
  /\ Outcome(IF posted THEN "ok" ELSE "rejected")
  /\ Surface(key)
  /\ told' = IF posted THEN told \cup {key} ELSE told
  /\ todo' = [todo EXCEPT !.wake = @ \ {key}]
  /\ UNCHANGED <<reviewHead, log, saved, pc, snap, covered, slipped, crashes>>

(* Mutant: the loop goes on without printing its wakes. *)
Save_Silent ==
  /\ pc = "apply" /\ todo = NoTodo
  /\ saved' = state
  /\ snap' = NoSnap /\ wakes' = {}
  /\ pc' = "read"
  /\ UNCHANGED <<reviewHead, log, state, todo, historyVars, crashes, faults>>

(* saveState, and with no wake the next tick; the wakes are printed after. *)
Save ==
  /\ pc = "apply" /\ todo = NoTodo
  /\ saved' = state
  /\ snap' = NoSnap
  /\ pc' = IF wakes = {} THEN "read" ELSE "print"
  /\ UNCHANGED <<reviewHead, log, state, todo, wakes, historyVars, crashes, faults>>

PrintWakes ==
  /\ pc = "print"
  /\ told' = told \cup wakes
  /\ wakes' = {}
  /\ pc' = "read"
  /\ UNCHANGED <<reviewHead, log, saved, state, snap, todo, covered, slipped, crashes, faults>>

----------------------------------------------------------------------------

Init ==
  /\ log = <<>> /\ pc = "new"
  /\ saved = Blank /\ state = Blank /\ reviewHead \in BOOLEAN
  /\ snap = NoSnap /\ todo = NoTodo /\ wakes = {}
  /\ told = {} /\ covered = {} /\ slipped = {}
  /\ crashes = 0 /\ faults = 0

Environment ==
  \/ \E t \in Tasks : Dispatch(t) \/ Park(t)
  \/ \E r \in Reviews : HandReview(r)
  \/ \E t \in Tasks, result \in {"pass", "fail"} : Report(t, result)
  \/ \E r \in Reviews : Report(r, "pass")

Loop ==
  \/ FirstRun \/ ReadLedger \/ ReadHeld \/ Save \/ PrintWakes
  \/ \E known \in BOOLEAN : Plan(known)
  \/ \E o \in {"ok", "rejected", "unanswered"} :
       Review(o) \/ \E t \in Tasks : Release(t, o)
  \/ \E key \in todo.wake, posted \in BOOLEAN : Wake(key, posted)

Next == Environment \/ Loop \/ Crash

Spec == Init /\ [][Next]_vars

----------------------------------------------------------------------------

(* A state of the loop, in its memory or in its file. *)
State == [marker : Nat, last : Reviews \cup {"none"}, baseline : Nat, heldSeen : Nat,
          held : [Tasks -> Nat], released : SUBSET Tasks, reviews : SUBSET Reviews,
          surfaced : SUBSET Keys]

StateOK(st) ==
  /\ st \in State
  /\ {st.marker, st.baseline, st.heldSeen} \subseteq 0..Len(log)
  /\ st.marker # 0 => /\ log[st.marker].kind = "task" /\ log[st.marker].task = st.last
                      /\ st.last \in Reviews
  /\ \A t \in Tasks : st.held[t] # 0 => /\ st.held[t] <= Len(log)
                                        /\ log[st.held[t]].kind = "held" /\ log[st.held[t]].task = t
  /\ IsFiniteSet(st.reviews) /\ Cardinality(st.reviews) <= st.marker

(* Every variable has its type; the marker of a state is the dispatch of   *)
(* its last review and no lower than the number of reviews, a queue entry  *)
(* the held-task of its task.                                              *)
LoopTypeOK ==
  /\ log \in Seq(Message) /\ Len(log) <= MaxId
  /\ \A n \in 1..Len(log) : log[n].kind = "held" => log[n].task \in Tasks
  /\ pc \in {"new", "read", "apply", "print"}
  /\ StateOK(saved) /\ StateOK(state)
  /\ reviewHead \in BOOLEAN /\ (todo.review # "none" => reviewHead)
  /\ snap \in [ledger : 0..Len(log), held : SUBSET (1..Len(log)),
               gotLedger : BOOLEAN, gotHeld : BOOLEAN]
  /\ \A n \in snap.held : log[n].kind = "held"
  /\ todo \in [release : SUBSET Tasks, review : Reviews \cup {"none"}, wake : SUBSET Keys]
  /\ wakes \cup told \subseteq Keys
  /\ covered \cup slipped \subseteq 1..Len(log)
  /\ crashes \in Nat /\ faults \in Nat

Sent(t) == {n \in 1..Len(log) : log[n].kind = "task" /\ log[n].task = t /\ log[n].by = "loop"}

(* A parked task is released once, wherever the loop dies, whichever       *)
(* answer is lost, and whatever is saved of it.                            *)
ReleasedOnce ==
  \A t \in Tasks : Cardinality(Sent(t))
                     <= Cardinality({n \in 1..Len(log) : log[n].kind = "held" /\ log[n].task = t})

(* What the loop releases has every dependency's PASS before it. *)
DependenciesFirst ==
  \A t \in Tasks : \A n \in Sent(t), d \in Deps[t] :
    \E k \in 1..n - 1 : log[k].kind = "pass" /\ log[k].task = d

(* A parked task is not forgotten: as far as the state file goes, it is    *)
(* still to be read, queued, dispatched, or reported as refused.           *)
HeldNotForgotten ==
  \A n \in 1..Len(log) : log[n].kind = "held" =>
    LET t == log[n].task
    IN  \/ n > saved.heldSeen
        \/ saved.held[t] # 0
        \/ Dispatches(Len(log), t, 0) # {}
        \/ \E k \in 1..Len(log) : log[k].task = t /\ <<"held-refused", k>> \in saved.surfaced

(* The loop has one review out at a time - but for the orchestrator's own  *)
(* reviews, which take the place of the loop's, or stand in the ledger for *)
(* the loop's of the same name.                                            *)
OneReviewOut ==
  \A m, n \in {k \in 1..Len(log) : /\ log[k].kind = "task" /\ log[k].by = "loop"
                                  /\ log[k].task \in Reviews} :
    m < n => \/ Results(Len(log), log[m].task) # {}
             \/ \E k \in 1..n : /\ log[k].kind = "task" /\ log[k].by = "orch"
                                /\ log[k].task \in Reviews
                                /\ (m < k \/ log[k].task = log[m].task)

(* The marker leaves nothing unreviewed behind: a dispatch before it was   *)
(* finished and in a review's scope - or made while the loop was between   *)
(* its snapshot and the dispatch of that review, or hidden by an earlier   *)
(* dispatch of its task.                                                   *)
ReviewCoversAll ==
  \A n \in 1..saved.marker :
    log[n].kind = "task" /\ log[n].task \in Tasks => n \in covered \cup slipped

(* The same without the exception. *)
ReviewLeavesNothing ==
  \A n \in 1..saved.marker :
    log[n].kind = "task" /\ log[n].task \in Tasks => n \in covered

(* A wake that the state file says was surfaced has reached the            *)
(* orchestrator, as a note or on stdout, or is about to be printed; it     *)
(* takes a failed note and a death before the printing to lose one.        *)
WakeKept ==
  \A key \in saved.surfaced :
    \/ key \in told
    \/ pc = "print" /\ key \in wakes
    \/ faults > 0 /\ crashes > 0
=============================================================================
