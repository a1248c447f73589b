----------------------------- MODULE LongPolls -----------------------------
(***************************************************************************)
(* Requests that wait for a message: wait_for_messages (lib/tools/         *)
(* messaging.js) and GET /inbox?wait_ms= (lib/rest.js), over the cursors   *)
(* of Cursors.  A request that finds nothing registers a listener on the   *)
(* message bus and stays open while other requests run; every write emits  *)
(* on its channel, inside the writing request, and the listeners look      *)
(* again.                                                                  *)
(*                                                                         *)
(* A wait fixes where it reads from when it is made.  Listeners only ever  *)
(* raise a cursor to the maximum of what they deliver, so the order in     *)
(* which one emission calls them does not matter, and a row wakes all of   *)
(* them at once.  send_message_batch rewinds and emits row by row, with    *)
(* all of its rows stored before the first.                                *)
(***************************************************************************)
EXTENDS Cursors

CONSTANT Polls   \* the requests that may be open at a time

ASSUME PollsAssumption == IsFiniteSet(Polls)

Idle == [kind |-> "idle"]

(* own: exclude_self of a wait, exclude_sender = c of an inbox check.      *)
(* start: "cursor" when the wait resumed from the stored cursor.           *)
Poll == [kind : {"wait", "inbox"}, c : Consumers, ch : Channels, since : Nat, lim : Limits,
         filter : Filters \cup {NoFilter}, own : BOOLEAN, start : {"cursor", "other"}]

VARIABLE polls
pollVars == <<messages, lastId, cursor, shown, passed, polls>>

----------------------------------------------------------------------------

(* The rows of table msgs a poll would look at. *)
Seen(msgs, q) ==
  LET after == {m \in msgs : /\ m.channel = q.ch /\ m.id > q.since
                             /\ q.filter = NoFilter \/ m.type = q.filter}
  IN  IF q.kind = "inbox" THEN after
      ELSE {m \in after : Cardinality({k \in after : k.id <= m.id}) <= q.lim}

(* Mutant: no check of a full page, behind which a foreign row may wait. *)
OnlyOwn_AnyPage(msgs, q) ==
  /\ q.own /\ Seen(msgs, q) # {}
  /\ \A m \in Seen(msgs, q) : m.sender = q.c

(* onlyOwn: every row so far is the caller's, and there is no further page; *)
(* stmtHasMessagesExcluding counts without a limit.                        *)
OnlyOwn(msgs, q) ==
  /\ q.own /\ Seen(msgs, q) # {}
  /\ q.kind = "wait" => Cardinality(Seen(msgs, q)) < q.lim
  /\ \A m \in Seen(msgs, q) : m.sender = q.c

Answers(msgs, q) == Seen(msgs, q) # {} /\ ~OnlyOwn(msgs, q)

(* deliverRows: only an unfiltered batch of a wait moves the cursor. *)
Moves(q) == q.kind = "wait" /\ q.filter = NoFilter

(* What the answered polls qs do to the cursor of c on ch, given its value *)
(* (old), the ids shown and the point given up so far.                     *)
Given(msgs, qs, c, ch) ==
  UNION {Ids(Seen(msgs, q)) : q \in {k \in qs : Moves(k) /\ k.c = c /\ k.ch = ch}}

(* A wait that did not start at the cursor gives up what lies below its    *)
(* start; so does one whose cursor moved back while it was open.           *)
Starts(qs, c, ch, old) ==
  {q.since : q \in {k \in qs : /\ Moves(k) /\ k.c = c /\ k.ch = ch
                               /\ k.start = "other" \/ old < k.since}}

(* The cursors and requests, as a write leaves them row after row. *)
Now == [cursor |-> cursor, shown |-> shown, passed |-> passed, polls |-> polls]

Becomes(s) ==
  /\ cursor' = s.cursor /\ shown' = s.shown /\ passed' = s.passed
  /\ polls' = s.polls

(* deliverRows of the answered polls qs. *)
Settled(msgs, qs, s) ==
  [s EXCEPT
     !.cursor = [c \in Consumers |-> [ch \in Channels |->
                   Max({@[c][ch]} \cup Given(msgs, qs, c, ch))]],
     !.shown  = [c \in Consumers |-> [ch \in Channels |-> @[c][ch] \cup Given(msgs, qs, c, ch)]],
     !.passed = [c \in Consumers |-> [ch \in Channels |->
                   Max({@[c][ch]} \cup Starts(qs, c, ch, s.cursor[c][ch]))]]]

----------------------------------------------------------------------------
(* Opening and closing. *)

(* Answer at once, or register. *)
Open(p, q) ==
  /\ polls[p] = Idle
  /\ IF Answers(messages, q)
       THEN Becomes(Settled(messages, {q}, Now))
       ELSE polls' = [polls EXCEPT ![p] = q] /\ UNCHANGED cursorVars
  /\ UNCHANGED storeVars

WaitForMessages(p, c, ch, r, own) ==
  Open(p, [kind |-> "wait", c |-> c, ch |-> ch, since |-> ResolveSince(c, ch, r),
           lim |-> r.lim, filter |-> r.filter, own |-> own,
           start |-> IF FromCursor(c, ch, r) THEN "cursor" ELSE "other"])

(* The watchdog's pre-check: no cursor, no limit, any since_id. *)
InboxWait(p, c, ch, since, own) ==
  \E lim \in Limits :
    /\ \A k \in Limits : lim <= k
    /\ Open(p, [kind |-> "inbox", c |-> c, ch |-> ch, since |-> since, lim |-> lim,
                filter |-> NoFilter, own |-> own, start |-> "other"])

(* The timer fires, or the client disconnects: no delivery. *)
Close(p) ==
  /\ polls[p] # Idle
  /\ polls' = [polls EXCEPT ![p] = Idle]
  /\ UNCHANGED vars

----------------------------------------------------------------------------
(* Writing: insert, remove what the row replaces, rewind, wake. *)

(* HandoffTargets of one row, for the cursors the rows before it left. *)
Targets(msgs, row, s, c, ch) ==
  LET held == {m \in msgs : /\ row.type = "handoff" /\ row.sender = c
                            /\ m.type = "task" /\ m.task_id = row.task_id
                            /\ s.cursor[c][m.channel] # NoCursor}
  IN  {d.id - 1 : d \in {m \in held : m.channel = ch /\ \A k \in held : k.id <= m.id}}

(* handoffRewind *)
Rewound(msgs, row, s) ==
  [s EXCEPT
     !.cursor = [c \in Consumers |-> [ch \in Channels |->
                   Lowered(@[c][ch], Targets(msgs, row, s, c, ch))]],
     !.shown  = [c \in Consumers |-> [ch \in Channels |->
                   {i \in @[c][ch] : \A t \in Targets(msgs, row, s, c, ch) : i <= t}]],
     !.passed = [c \in Consumers |-> [ch \in Channels |->
                   Min({@[c][ch]} \cup Targets(msgs, row, s, c, ch))]]]

(* messageBus.emit: every listener of the row's channel looks again. *)
Emitted(msgs, row, s) ==
  LET woken == {k \in Polls : /\ s.polls[k] # Idle /\ s.polls[k].ch = row.channel
                              /\ Answers(msgs, s.polls[k])}
  IN  [Settled(msgs, {s.polls[k] : k \in woken}, s) EXCEPT
         !.polls = [k \in Polls |-> IF k \in woken THEN Idle ELSE @[k]]]

Nth(ps, n) == RowOf(ps[n], lastId + n)

Stored(ps, gone) ==
  /\ Insert(ps)
  /\ messages' = (messages \ gone) \cup NewRows(ps)

SendAndWake(p) ==
  /\ Stored(<<p>>, EvictedBy(p))
  /\ Becomes(Emitted(messages', Nth(<<p>>, 1), Rewound(messages', Nth(<<p>>, 1), Now)))

SendBatchAndWake(ps) ==
  LET sent(n, s) == Emitted(messages', Nth(ps, n), Rewound(messages', Nth(ps, n), s))
  IN  /\ Stored(ps, {})
      /\ Becomes(sent(2, sent(1, Now)))

HeartbeatAndWake(p) ==
  /\ Stored(<<p>>, ReplacedBy(p))
  /\ Becomes(Emitted(messages', Nth(<<p>>, 1), Now))

----------------------------------------------------------------------------

PollsInit == Init /\ polls = [p \in Polls |-> Idle]

PollsNext ==
  \/ \E p \in Polls, c \in Consumers, ch \in Channels, own \in BOOLEAN :
       \/ \E r \in Requests : WaitForMessages(p, c, ch, r, own)
       \/ \E since \in Sinces : InboxWait(p, c, ch, since, own)
  \/ \E p \in Polls : Close(p)
  \/ \E p \in Payloads : SendAndWake(p) \/ HeartbeatAndWake(p)
  \/ \E p, q \in Payloads : SendBatchAndWake(<<p, q>>)
  \/ (ReadStep \/ RewindStep) /\ UNCHANGED polls
  \/ Remove /\ UNCHANGED <<cursorVars, polls>>

PollsSpec == PollsInit /\ [][PollsNext]_pollVars

----------------------------------------------------------------------------

PollsTypeOK ==
  /\ TypeOK
  /\ polls \in [Polls -> Poll \cup {Idle}]

(* No request sleeps through a message: while one is open, no stored row   *)
(* beyond its start matches it, its caller's own posts aside when it asked *)
(* to leave those out - whatever the page limit and whatever is removed.   *)
NoMissedWake ==
  \A p \in Polls : polls[p] # Idle =>
    \A m \in Matching(polls[p].ch, polls[p].filter) :
      m.id > polls[p].since => polls[p].own /\ m.sender = polls[p].c

(* A task its worker handed off is seen again: once the handoff has pulled *)
(* the cursor back to before the dispatch, the cursor moves over the       *)
(* dispatch only with its delivery.                                        *)
HandoffTaskSeenAgain ==
  [][\A c \in Consumers, d \in messages :
       LET ch == d.channel
       IN  /\ d.type = "task" /\ cursor[c][ch] # NoCursor /\ cursor[c][ch] < d.id
           /\ \E h \in messages : /\ h.type = "handoff" /\ h.sender = c
                                  /\ h.task_id = d.task_id /\ h.id > d.id
           /\ cursor'[c][ch] >= d.id
           => d.id \in shown'[c][ch]]_pollVars
=============================================================================
