------------------------------ MODULE Cursors ------------------------------
(***************************************************************************)
(* Server-side read cursors: lib/cursors.js, turn_start and worker_cursor  *)
(* of lib/tools/cursors.js, read_messages of lib/tools/messaging.js and    *)
(* GET/PUT /cursors of lib/rest.js, over the message table of BrokerStore. *)
(*                                                                         *)
(* For every (consumer, channel) the broker remembers the largest id it    *)
(* has delivered.  Reads that name no since_id resume from there; handoff  *)
(* statuses and the watchdog lower it so that a replacement session sees   *)
(* its task again.                                                         *)
(*                                                                         *)
(* Two history variables say what a consumer has been given, so that the   *)
(* cursor can be judged against it:                                        *)
(*   shown   ids delivered by unfiltered reads since the last rewind;      *)
(*   passed  how far the consumer gave up older rows: below the start of a *)
(*           tail or of an explicit since_id, or below a forced set.       *)
(***************************************************************************)
EXTENDS BrokerStore, FiniteSetsExt

CONSTANTS
  Consumers,   \* names under which reads keep a cursor
  Limits,      \* the limits reads are called with
  Sinces,      \* the since_id values reads are called with; 0 is "omitted"
  Filters,     \* the filter_type values reads are called with
  NoFilter     \* a read without filter_sender / filter_type

NoCursor == -1

ASSUME ConsumersAssumption == Consumers \subseteq Senders
ASSUME ReadsAssumption == Limits \subseteq Nat \ {0} /\ Sinces \subseteq Nat
ASSUME FiltersAssumption == Filters \subseteq Types /\ NoFilter \notin Types

VARIABLES cursor, shown, passed

cursorVars == <<cursor, shown, passed>>
vars == <<messages, lastId, cursor, shown, passed>>

Requests == [since : Sinces, lim : Limits, filter : Filters \cup {NoFilter}]

----------------------------------------------------------------------------
(* Reading. *)

Matching(ch, filter) ==
  {m \in messages : m.channel = ch /\ (filter = NoFilter \/ m.type = filter)}

(* fetchFiltered: ... AND id > since ORDER BY id ASC LIMIT lim. *)
Fetch(ch, since, lim, filter) ==
  LET after == {m \in Matching(ch, filter) : m.id > since}
  IN  {m \in after : Cardinality({k \in after : k.id <= m.id}) <= lim}

(* The id just before the newest lim rows; 0 on an empty channel. *)
TailStart(ch, lim, filter) ==
  LET rows   == Matching(ch, filter)
      newest == {m \in rows : Cardinality({k \in rows : k.id >= m.id}) <= lim}
  IN  IF newest = {} THEN 0 ELSE Min({m.id : m \in newest}) - 1

FromCursor(c, ch, r) == r.since = 0 /\ cursor[c][ch] # NoCursor

(* Mutant: a consumer without a cursor has no tail to start at. *)
ResolveSince_NoTail(c, ch, r) == IF r.since > 0 THEN r.since ELSE cursor[c][ch]

(* resolveSince: an explicit since_id, else the stored cursor, else the tail. *)
ResolveSince(c, ch, r) ==
  IF r.since > 0 THEN r.since
  ELSE IF FromCursor(c, ch, r) THEN cursor[c][ch]
  ELSE TailStart(ch, r.lim, r.filter)

Delivered(c, ch, r) == Fetch(ch, ResolveSince(c, ch, r), r.lim, r.filter)

Ids(rows) == {m.id : m \in rows}

(* deliverRows advances the cursor only for an unfiltered, non-empty batch. *)
Advances(c, ch, r) == r.filter = NoFilter /\ Delivered(c, ch, r) # {}

(* Mutant: the cursor moves to the first row of the batch. *)
CursorAfter_First(c, ch, r) ==
  IF Advances(c, ch, r) THEN Max({cursor[c][ch]} \cup {Min(Ids(Delivered(c, ch, r)))})
                        ELSE cursor[c][ch]

(* stmtCursorAdvance: MAX of the cursor and the last row of the batch. *)
CursorAfter(c, ch, r) ==
  IF Advances(c, ch, r) THEN Max({cursor[c][ch]} \cup Ids(Delivered(c, ch, r)))
                        ELSE cursor[c][ch]

ShownAfter(c, ch, r) ==
  IF Advances(c, ch, r) THEN shown[c][ch] \cup Ids(Delivered(c, ch, r))
                        ELSE shown[c][ch]

PassedAfter(c, ch, r) ==
  IF Advances(c, ch, r) /\ ~FromCursor(c, ch, r)
    THEN Max({passed[c][ch], ResolveSince(c, ch, r)})
    ELSE passed[c][ch]

(* One synchronous handler that reads the channels of reqs for consumer c. *)
Read(c, reqs) ==
  LET upd(old, new(_, _, _)) ==
        [old EXCEPT ![c] = [ch \in Channels |->
           IF ch \in DOMAIN reqs THEN new(c, ch, reqs[ch]) ELSE old[c][ch]]]
  IN  /\ cursor' = upd(cursor, CursorAfter)
      /\ shown'  = upd(shown, ShownAfter)
      /\ passed' = upd(passed, PassedAfter)
      /\ UNCHANGED storeVars

ReadMessages(c, ch, r) == Read(c, [k \in {ch} |-> r])

(* turn_start reads the inbox and the control channel in one call, unfiltered. *)
TurnStart(c, inbox, control, ri, rc) ==
  /\ inbox # control
  /\ ri.filter = NoFilter /\ rc.filter = NoFilter /\ ri.lim = rc.lim
  /\ Read(c, [k \in {inbox, control} |-> IF k = inbox THEN ri ELSE rc])

----------------------------------------------------------------------------
(* Moving cursors. *)

(* Mutant: a rewind that sets the cursor to its target, higher or lower. *)
Lowered_Set(pos, targets) ==
  IF targets = {} \/ pos = NoCursor THEN pos ELSE Min(targets)

(* stmtCursorRewind*: UPDATE ... WHERE last_id > target. *)
Lowered(pos, targets) == Min({pos} \cup targets)

(* Lower every cursor to its targets; what lies above them is due again.   *)
(* fresh: ids this request inserted, which nobody has been shown.          *)
RewindTo(targets, fresh) ==
  /\ cursor' = [c \in Consumers |-> [ch \in Channels |->
                  Lowered(cursor[c][ch], targets[c][ch])]]
  /\ shown'  = [c \in Consumers |-> [ch \in Channels |->
                  {i \in shown[c][ch] : i \notin fresh
                                        /\ \A t \in targets[c][ch] : i <= t}]]
  /\ passed' = [c \in Consumers |-> [ch \in Channels |->
                  Min({passed[c][ch]} \cup targets[c][ch])]]

(* PUT /cursors {channel, last_id, worker?}: one consumer, or every one. *)
RewindCursors(cs, ch, target) ==
  /\ RewindTo([c \in Consumers |-> [k \in Channels |->
                 IF c \in cs /\ k = ch THEN {target} ELSE {}]], {})
  /\ UNCHANGED storeVars

(* worker_cursor set_to, and PUT /cursors with force: an exact set. *)
SetCursor(c, ch, target) ==
  /\ cursor' = [cursor EXCEPT ![c][ch] = target]
  /\ shown'  = [shown EXCEPT ![c][ch] = {i \in @ : i <= target}]
  /\ passed' = [passed EXCEPT ![c][ch] = target]
  /\ UNCHANGED storeVars

----------------------------------------------------------------------------
(* Writing. *)

(* Mutant: the cursor goes to the dispatch itself, not to just before it. *)
HandoffTargets_AtDispatch(new, c, ch) ==
  {d.id : d \in {m \in messages' :
     \E p \in new : /\ p.type = "handoff" /\ p.sender = c
                    /\ m.type = "task" /\ m.task_id = p.task_id /\ m.channel = ch}}

(* Mutant: an off-by-one the other way, below the table's first id. *)
HandoffTargets_TwoBelow(new, c, ch) ==
  {d.id - 2 : d \in {m \in messages' :
     \E p \in new : /\ p.type = "handoff" /\ p.sender = c
                    /\ m.type = "task" /\ m.task_id = p.task_id /\ m.channel = ch}}

(* Dispatches of a task on any channel the consumer holds a cursor on. *)
DispatchesFor(c, t) ==
  {m \in messages' : m.type = "task" /\ m.task_id = t /\ cursor[c][m.channel] # NoCursor}

(* handoffRewind, for the rows a request inserted: the sender's cursor on  *)
(* the channel of the task's latest dispatch goes to just before it.       *)
HandoffTargets(new, c, ch) ==
  {d.id - 1 : d \in {m \in messages' :
     \E p \in new : /\ p.type = "handoff" /\ p.sender = c
                    /\ m \in DispatchesFor(c, p.task_id) /\ m.channel = ch
                    /\ \A k \in DispatchesFor(c, p.task_id) : k.id <= m.id}}

Posted(ps, gone) ==
  LET new == NewRows(ps)
  IN  /\ Insert(ps)
      /\ messages' = (messages \ gone) \cup new
      /\ RewindTo([c \in Consumers |-> [ch \in Channels |-> HandoffTargets(new, c, ch)]],
                  Ids(new))

(* send_message, the typed protocol tools and POST /messages. *)
SendMessage(p) == Posted(<<p>>, EvictedBy(p))

(* send_message_batch: one transaction, no telemetry compaction. *)
SendBatch(ps) == Posted(ps, {})

(* upsert_heartbeat: no handoff rewind. *)
UpsertHeartbeat(p) ==
  LET new == NewRows(<<p>>)
  IN  /\ Insert(<<p>>)
      /\ messages' = (messages \ ReplacedBy(p)) \cup new
      /\ RewindTo([c \in Consumers |-> [ch \in Channels |-> {}]], Ids(new))

----------------------------------------------------------------------------

Init ==
  /\ StoreInit
  /\ cursor = [c \in Consumers |-> [ch \in Channels |-> NoCursor]]
  /\ shown  = [c \in Consumers |-> [ch \in Channels |-> {}]]
  /\ passed = [c \in Consumers |-> [ch \in Channels |-> 0]]

ReadStep ==
  \/ \E c \in Consumers, ch \in Channels, r \in Requests : ReadMessages(c, ch, r)
  \/ \E c \in Consumers, inbox, control \in Channels, ri, rc \in Requests :
       TurnStart(c, inbox, control, ri, rc)

RewindStep ==
  \E cs \in {{c} : c \in Consumers} \cup {Consumers}, ch \in Channels, n \in 0..MaxId :
    RewindCursors(cs, ch, n)

WriteStep ==
  \/ \E p \in Payloads : SendMessage(p)
  \/ \E p, q \in Payloads : SendBatch(<<p, q>>)
  \/ \E p \in Payloads : UpsertHeartbeat(p)

Next ==
  \/ ReadStep
  \/ WriteStep
  \/ RewindStep
  \/ \E c \in Consumers, ch \in Channels, n \in 0..MaxId : SetCursor(c, ch, n)
  \/ Remove /\ UNCHANGED cursorVars

Spec == Init /\ [][Next]_vars

----------------------------------------------------------------------------

(* Every variable has its type; a cursor, once stored, is a natural number. *)
TypeOK ==
  /\ messages \in SUBSET Row
  /\ lastId \in 0..MaxId
  /\ cursor \in [Consumers -> [Channels -> Nat \cup {NoCursor}]]
  /\ shown \in [Consumers -> [Channels -> SUBSET Nat]]
  /\ passed \in [Consumers -> [Channels -> Nat]]

(* A cursor never stands beyond a row its consumer was neither given nor   *)
(* gave up: a stored row at or below the cursor has been delivered since   *)
(* the last rewind, or lies below a start the consumer chose (explicit     *)
(* since_id, forced set) or was told about (tail).  Whatever mixture of    *)
(* filtered, limited and explicit reads, rewinds, deletions and id gaps.   *)
NoSilentSkip ==
  \A c \in Consumers, m \in messages :
    m.id <= cursor[c][m.channel] =>
      m.id \in shown[c][m.channel] \/ m.id <= passed[c][m.channel]

(* A read that resumes from the cursor never delivers again what was       *)
(* delivered since the last rewind: everything shown lies at or below it.  *)
NothingShownTwice ==
  \A c \in Consumers, ch \in Channels :
    \A i \in shown[c][ch] : i <= cursor[c][ch]

(* What the two properties above rest on: ids are given out once and in    *)
(* order, and a cursor stands beyond the last one only where a client put  *)
(* it.                                                                     *)
IdsInOrder ==
  /\ IsFiniteSet(messages)
  /\ \A m \in messages : m.id \in 1..lastId
  /\ \A c \in Consumers, ch \in Channels : shown[c][ch] \subseteq 1..lastId

CursorWithinReach ==
  \A c \in Consumers, ch \in Channels :
    cursor[c][ch] > lastId => cursor[c][ch] <= passed[c][ch]

CursorInv ==
  TypeOK /\ IdsInOrder /\ CursorWithinReach /\ NoSilentSkip /\ NothingShownTwice

(* After a worker's handoff status, unless a row is past or removed, the   *)
(* latest dispatch of the task on a channel it reads is due again.         *)
HandoffMakesTaskDue ==
  [][\A p \in Payloads :
       p.type = "handoff" /\ p.sender \in Consumers /\ lastId' # lastId /\ SendMessage(p) =>
       \A d \in DispatchesFor(p.sender, p.task_id) :
         (\A k \in DispatchesFor(p.sender, p.task_id) : k.id <= d.id) =>
           cursor'[p.sender][d.channel] < d.id]_vars
=============================================================================
