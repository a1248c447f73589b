---------------------------- MODULE Verification ----------------------------
(***************************************************************************)
(* Harness verification of one namespace: which results the broker offers  *)
(* (GET /verifications/pending), how they are stamped (POST                *)
(* /verifications), and the two programs that do it - the one-shot         *)
(* verify-result.mjs a watchdog runs after each session, and the           *)
(* standalone verifier (--watch), which alone may stamp once the broker    *)
(* requires its credential.                                                *)
(*                                                                         *)
(* A pass asks for the pending results, runs their checks for minutes, and *)
(* stamps them one request after the other; results are posted, removed    *)
(* and stamped by others meanwhile.  The standalone verifier keeps in a    *)
(* file how far it has come.                                               *)
(*                                                                         *)
(* Left out: what the checks say (a stamp is a stamp), a check list that   *)
(* the stamp refuses for its length, reruns by hand (--result-id, and      *)
(* --since-id of the standalone verifier), its lock, results that are no   *)
(* candidates for their text (as good as notes), dispatches of other       *)
(* senders than the orchestrator.                                          *)
(***************************************************************************)
EXTENDS Integers, Sequences, FiniteSets

CONSTANTS
  Tasks, Workers,
  Kinds,         \* the kinds of messages sent
  PoolLimit,     \* VERIFY_POOL_LIMIT: rows one request looks at
  MaxId,         \* bound: messages ever sent
  MaxFaults,     \* bound: deaths of the standalone verifier, and requests that
                 \* fail or whose answer is lost
  MaxSwitches    \* bound: broker restarts that turn enforcement on or off

ASSUME LimitsAssumption ==
  PoolLimit \in Nat \ {0} /\ {MaxId, MaxFaults, MaxSwitches} \subseteq Nat

Ids == 1..MaxId
NoCursor == -1

(* "checked" and "bare" dispatches have checks or none. *)
Message == {m \in [kind : {"checked", "bare"}, task : Tasks]
                   \cup [kind : {"result"}, task : Tasks, by : Workers]
                   \cup [kind : {"note"}] : m.kind \in Kinds}

VARIABLES
  log,       \* every message ever sent, by id
  gone,      \* the ids of those removed
  stamps,    \* result -> how often it was verified, 2 for more
  enforced,  \* the broker requires the verifier's credential
  file,      \* <state>.since; NoCursor when missing, or torn
  pc, since, top, todo, next,   \* the standalone verifier
  shot,      \* worker -> its watchdog's one-shot verifier
  base,      \* history: the channel's maximum where a verifier had no cursor
  late,      \* history: results of a pass that enforcement ended under
  faults, switches

brokerVars == <<log, gone, stamps, enforced>>
watchVars  == <<file, pc, since, top, todo, next, base>>
countVars  == <<faults, switches>>
vars == <<brokerVars, watchVars, shot, late, countVars>>

Idle == [at |-> "idle", todo |-> {}]

----------------------------------------------------------------------------
(* The broker. *)

Stored == (1..Len(log)) \ gone

Highest(S) == IF S = {} THEN 0 ELSE CHOOSE n \in S : \A k \in S : k <= n
Lowest(S)  == IF S = {} THEN 0 ELSE CHOOSE n \in S : \A k \in S : n <= k

Results == {n \in 1..Len(log) : log[n].kind = "result"}

(* Mutant: the id the next message would get. *)
ChannelMax_Next == Highest({n \in Stored : log[n].kind \in {"result", "note"}}) + 1

(* max_id of GET /inbox on the status channel. *)
ChannelMax == Highest({n \in Stored : log[n].kind \in {"result", "note"}})

(* stmtVerifyCandidates: the oldest page of results, stamped or not. *)
Pool(after) ==
  LET rows == {n \in Stored \cap Results : n > after}
  IN  {n \in rows : Cardinality({k \in rows : k <= n}) <= PoolLimit}

DispatchesTo(n, ids) ==
  {d \in ids : d <= n /\ log[d].kind \in {"checked", "bare"} /\ log[d].task = log[n].task}

(* stmtTrustedDispatch: the first one, at or before the result. *)
HasChecks(n, ids) ==
  LET ds == DispatchesTo(n, ids) IN ds # {} /\ log[Lowest(ds)].kind = "checked"

(* Mutant: results that have a stamp are offered again. *)
Pending_Stamped(after, ws) ==
  LET own == {n \in Pool(after) : log[n].by \in ws}
  IN  {n \in own : HasChecks(n, Stored) /\ \A k \in own : log[k].task = log[n].task => k <= n}

(* GET /verifications/pending: of the pool, and of the senders asked for,  *)
(* the latest result of each task, if it has no stamp and has checks.      *)
Pending(after, ws) ==
  LET own == {n \in Pool(after) : log[n].by \in ws}
  IN  {n \in own : /\ stamps[n] = 0 /\ HasChecks(n, Stored)
                   /\ \A k \in own : log[k].task = log[n].task => k <= n}

(* stmtVerifyUpsert. *)
Stamp(n) == stamps' = [stamps EXCEPT ![n] = IF @ = 0 THEN 1 ELSE 2]

(* How a request ends: "ok", "rejected" or carried out but unanswered. *)
Outcome(o) ==
  /\ o # "ok" => faults < MaxFaults
  /\ faults' = IF o = "ok" THEN faults ELSE faults + 1

Post(m) ==
  /\ Len(log) < MaxId
  /\ log' = Append(log, m)
  /\ UNCHANGED <<gone, stamps, enforced, watchVars, shot, late, countVars>>

(* A message is deleted, purged or pruned; stamps stay. *)
Remove(n) ==
  /\ gone' = gone \cup {n}
  /\ UNCHANGED <<log, stamps, enforced, watchVars, shot, late, countVars>>

(* The broker is restarted with the namespace in VERIFIER_TRUST_NAMESPACES, *)
(* or without it.                                                           *)
Switch ==
  /\ switches < MaxSwitches
  /\ switches' = switches + 1
  /\ enforced' = ~enforced
  /\ late' = IF enforced THEN late \cup todo \cup UNION {shot[w].todo : w \in Workers} ELSE late
  /\ UNCHANGED <<log, gone, stamps, watchVars, shot, faults>>

----------------------------------------------------------------------------
(* verify-result.mjs --watch. *)

WatchStep == UNCHANGED <<log, gone, enforced, shot, switches>>

(* watch: read the cursor file. *)
Start ==
  /\ pc = "down"
  /\ pc' = "look" /\ since' = file
  /\ WatchStep /\ UNCHANGED <<stamps, file, top, todo, next, base, late, faults>>

(* save: the file is truncated, then written. *)
Truncate(n) == since' = n /\ file' = NoCursor /\ pc' = "write"

Write ==
  /\ pc = "write"
  /\ file' = since
  /\ pc' = "look"
  /\ WatchStep /\ UNCHANGED <<stamps, since, top, todo, next, base, late, faults>>

(* No cursor yet, or none that can be read: start after the channel's max. *)
Seed ==
  /\ pc = "look" /\ since = NoCursor
  /\ Truncate(ChannelMax)
  /\ base' = Highest({base, ChannelMax})
  /\ WatchStep /\ UNCHANGED <<stamps, top, todo, next, late, faults>>

(* GET /health: where the credential is not required, wait. *)
Look ==
  /\ pc = "look" /\ since # NoCursor
  /\ enforced
  /\ pc' = "max"
  /\ WatchStep /\ UNCHANGED <<stamps, file, since, top, todo, next, base, late, faults>>

ReadMax ==
  /\ pc = "max"
  /\ top' = ChannelMax
  /\ pc' = "ask"
  /\ WatchStep /\ UNCHANGED <<stamps, file, since, todo, next, base, late, faults>>

Full(after) == Cardinality(Pool(after)) >= PoolLimit

(* Mutant: a full page is left for the channel's maximum. *)
NextCursor_Max == top

(* Mutant: a full page is asked for again. *)
NextCursor_Stays == IF Full(since) THEN since ELSE top

(* A full page ends at its last row. *)
NextCursor == IF Full(since) THEN Highest(Pool(since)) ELSE top

Ask ==
  /\ pc = "ask"
  /\ todo' = Pending(since, Workers)
  /\ next' = NextCursor
  /\ pc' = "post" /\ top' = 0
  /\ late' = IF enforced THEN late ELSE late \cup todo'
  /\ WatchStep /\ UNCHANGED <<stamps, file, since, base, faults>>

(* A stamp, in any order; a result removed meanwhile is a 404.  An error   *)
(* ends the pass, and the next one starts from the same cursor.            *)
PostStamp(n, o) ==
  /\ pc = "post" /\ n \in todo
  /\ Outcome(o)
  /\ IF n \in gone \/ o = "rejected" THEN UNCHANGED stamps ELSE Stamp(n)
  /\ IF n \in gone \/ o # "ok"
       THEN pc' = "look" /\ todo' = {} /\ next' = 0
       ELSE pc' = pc /\ todo' = todo \ {n} /\ next' = next
  /\ WatchStep /\ UNCHANGED <<file, since, top, base, late>>

Advance ==
  /\ pc = "post" /\ todo = {}
  /\ next' = 0
  /\ IF next > since THEN Truncate(next) ELSE pc' = "look" /\ UNCHANGED <<since, file>>
  /\ WatchStep /\ UNCHANGED <<stamps, top, todo, base, late, faults>>

(* Any other request of a pass fails. *)
Fail ==
  /\ pc \in {"max", "ask"}
  /\ Outcome("rejected")
  /\ pc' = "look" /\ top' = 0
  /\ WatchStep /\ UNCHANGED <<stamps, file, since, todo, next, base, late>>

Crash ==
  /\ pc # "down" /\ Outcome("rejected")
  /\ pc' = "down" /\ since' = NoCursor /\ top' = 0 /\ todo' = {} /\ next' = 0
  /\ UNCHANGED <<brokerVars, file, base, shot, late, switches>>

----------------------------------------------------------------------------
(* verify-result.mjs after a session (verify_results of watchdog.sh). *)

ShotStep == UNCHANGED <<log, gone, enforced, watchVars, late, switches>>

(* GET /health: leave it to the verifier where its credential is required; *)
(* a failed look counts as not required.                                   *)
ShotLook(w, o) ==
  /\ shot[w] = Idle
  /\ o # "unanswered" /\ Outcome(o)
  /\ o = "ok" => ~enforced
  /\ shot' = [shot EXCEPT ![w].at = "ask"]
  /\ ShotStep /\ UNCHANGED stamps

(* The worker's results beyond the channel's maximum before its session.   *)
ShotAsk(w) ==
  /\ shot[w].at = "ask"
  /\ \E after \in 0..Len(log) :
       shot' = [shot EXCEPT ![w] = IF Pending(after, {w}) = {} THEN Idle
                                   ELSE [at |-> "post", todo |-> Pending(after, {w})]]
  /\ ShotStep /\ UNCHANGED <<stamps, faults>>

(* A stamp without the credential: refused where it is required. *)
ShotPost(w, n, o) ==
  LET refused == enforced \/ n \in gone \/ o = "rejected"
  IN  /\ shot[w].at = "post" /\ n \in shot[w].todo
      /\ Outcome(o)
      /\ IF refused THEN UNCHANGED stamps ELSE Stamp(n)
      /\ shot' = [shot EXCEPT ![w] = IF refused \/ o # "ok" \/ @.todo = {n} THEN Idle
                                     ELSE [at |-> "post", todo |-> @.todo \ {n}]]
      /\ ShotStep

(* The watchdog, and the one-shot with it, is stopped. *)
ShotDies(w) ==
  /\ shot[w] # Idle
  /\ shot' = [shot EXCEPT ![w] = Idle]
  /\ ShotStep /\ UNCHANGED <<stamps, faults>>

----------------------------------------------------------------------------

Init ==
  /\ log = <<>> /\ gone = {} /\ stamps = [n \in Ids |-> 0] /\ enforced \in BOOLEAN
  /\ file = NoCursor /\ pc = "down" /\ since = NoCursor /\ top = 0 /\ todo = {} /\ next = 0
  /\ shot = [w \in Workers |-> Idle]
  /\ base = 0 /\ late = {}
  /\ faults = 0 /\ switches = 0

Environment ==
  \/ \E m \in Message : Post(m)
  \/ \E n \in Stored : Remove(n)
  \/ Switch \/ Crash

Outcomes == {"ok", "rejected", "unanswered"}

Watch ==
  \/ Start \/ Write \/ Seed \/ Look \/ ReadMax \/ Ask \/ Advance \/ Fail
  \/ \E n \in Ids, o \in Outcomes : PostStamp(n, o)

OneShot ==
  \E w \in Workers :
    \/ ShotAsk(w) \/ ShotDies(w)
    \/ \E o \in Outcomes : ShotLook(w, o) \/ \E n \in Ids : ShotPost(w, n, o)

Next == Environment \/ Watch \/ OneShot

(* The standalone verifier keeps running, and launchd restarts it. *)
Spec == Init /\ [][Next]_vars /\ WF_vars(Watch)

----------------------------------------------------------------------------

(* Every variable has its type; stamps and passes are of results. *)
TypeOK ==
  /\ log \in Seq(Message) /\ Len(log) <= MaxId /\ gone \subseteq 1..Len(log)
  /\ stamps \in [Ids -> 0..2] /\ enforced \in BOOLEAN
  /\ {file, since} \subseteq {NoCursor} \cup 0..Len(log)
  /\ {top, next, base} \subseteq 0..Len(log)
  /\ pc \in {"down", "look", "write", "max", "ask", "post"}
  /\ shot \in [Workers -> [at : {"idle", "ask", "post"}, todo : SUBSET Results]]
  /\ todo \cup late \cup {n \in Ids : stamps[n] > 0} \subseteq Results

(* The result is there, and so is the dispatch whose checks it is held to, *)
(* the first its task ever had.                                            *)
Verifiable(n) ==
  /\ n \in Stored \cap Results /\ HasChecks(n, 1..Len(log))
  /\ Lowest(DispatchesTo(n, 1..Len(log))) \notin gone

(* It, or a later result of its task, has been verified. *)
Settled(n) ==
  \E k \in Results : n <= k /\ log[k].task = log[n].task /\ stamps[k] > 0

(* The verifier's cursor passes over no result that should be verified,    *)
(* whatever page it was on, whoever stamped, removed or posted meanwhile,  *)
(* wherever the verifier died - but for those that were there when it had  *)
(* no cursor to start from.                                                *)
NoResultPassedOver ==
  \A n \in Results : Verifiable(n) /\ base < n /\ n <= Highest({file, since}) => Settled(n)

(* Watchdogs and the standalone verifier do not verify a result twice,     *)
(* even while the broker is restarted to hand verification over to the     *)
(* latter; it takes handing it back during a pass.                         *)
VerifiedOnce ==
  \A n \in Results : stamps[n] > 1 => n \in late

(* Once the credential stays required, every result that should be         *)
(* verified is, or a later one of its task.                                *)
EveryResultVerified ==
  <>[]enforced =>
    \A n \in Ids : (n <= Len(log) /\ Verifiable(n)) ~> (~Verifiable(n) \/ n <= base \/ Settled(n))
=============================================================================
