--------------------------- MODULE ReadersProofs ---------------------------
(***************************************************************************)
(* Theorems about the positions of the readers, for any consumers,         *)
(* channels, payloads, limits and bounds.                                  *)
(*                                                                         *)
(* First the operations of Cursors: one inductive invariant, CursorInv.    *)
(* Then Adoption: the copies of an adoption and of a revert preserve it,   *)
(* whichever entries could be derived and however their names overlap.     *)
(* Last LongPolls: any number of open requests.  A write wakes them row    *)
(* after row, on states that are not states of the broker, so the lemmas   *)
(* there are about a table msgs with ids up to last and a record s of      *)
(* cursors and requests.                                                   *)
(***************************************************************************)
EXTENDS Adoption, LongPolls, SetLemmas

(* Facts about the largest and smallest numbers of a set. *)

(* The least of a set of integers that are at least -1. *)
LEMMA MinExists ==
  ASSUME NEW S \in SUBSET Int, S # {}, \A s \in S : s >= -1
  PROVE  Min(S) \in S /\ \A k \in S : Min(S) <= k
<1>. DEFINE T == {s + 1 : s \in S}
<1>1. T \in SUBSET Nat /\ T # {}
  <2>1. \A s \in S : s + 1 \in Nat /\ s + 1 \in T
    OBVIOUS
  <2>. QED
    BY <2>1
<1>. HIDE DEF T
<1>2. PICK n \in T : \A k \in T : n <= k
  BY <1>1, MinNat
<1>3. PICK s \in S : n = s + 1
  BY <1>2 DEF T
<1>4. \A k \in S : s <= k
  <2>. SUFFICES ASSUME NEW k \in S
                PROVE  s <= k
    OBVIOUS
  <2>1. k + 1 \in T
    BY DEF T
  <2>. QED
    BY <2>1, <1>2, <1>3
<1>. QED
  BY <1>4 DEF Min

(* The greatest of a set of integers bounded above. *)
LEMMA MaxExists ==
  ASSUME NEW S \in SUBSET Int, S # {}, NEW b \in Int, \A s \in S : s <= b
  PROVE  Max(S) \in S /\ \A k \in S : Max(S) >= k
<1>. DEFINE T == {b - s : s \in S}
<1>1. T \in SUBSET Nat /\ T # {}
  <2>1. \A s \in S : b - s \in Nat /\ b - s \in T
    OBVIOUS
  <2>. QED
    BY <2>1
<1>. HIDE DEF T
<1>2. PICK n \in T : \A k \in T : n <= k
  BY <1>1, MinNat
<1>3. PICK s \in S : n = b - s
  BY <1>2 DEF T
<1>4. \A k \in S : s >= k
  <2>. SUFFICES ASSUME NEW k \in S
                PROVE  s >= k
    OBVIOUS
  <2>1. b - k \in T
    BY DEF T
  <2>. QED
    BY <2>1, <1>2, <1>3
<1>. QED
  BY <1>4 DEF Max

----------------------------------------------------------------------------
(* Lemmas about the operators of the model. *)

(* A rewind only ever lowers a position, and to one of its targets. *)
LEMMA LoweredLemma ==
  ASSUME NEW pos \in Nat \cup {NoCursor}, NEW targets \in SUBSET Nat
  PROVE  /\ Lowered(pos, targets) \in {pos} \cup targets
         /\ Lowered(pos, targets) <= pos
         /\ \A t \in targets : Lowered(pos, targets) <= t
<1>. DEFINE S == {pos} \cup targets
<1>1. S \in SUBSET Int /\ S # {} /\ \A s \in S : s >= -1
  BY DEF NoCursor
<1>2. Min(S) \in S /\ \A k \in S : Min(S) <= k
  BY <1>1, MinExists
<1>. QED
  BY <1>2 DEF Lowered

(* A batch is a prefix of what lies after its start: a matching row at or  *)
(* below a delivered one, and above the start, is delivered too.           *)
LEMMA FetchIsPrefix ==
  ASSUME IsFiniteSet(messages), messages \in SUBSET Row,
         NEW ch, NEW since \in Nat, NEW lim \in Nat, NEW filter,
         NEW m \in Fetch(ch, since, lim, filter),
         NEW k \in Matching(ch, filter), k.id > since, k.id <= m.id
  PROVE  k \in Fetch(ch, since, lim, filter)
<1>. DEFINE after == {x \in Matching(ch, filter) : x.id > since}
            upto(x) == {y \in after : y.id <= x.id}
<1>1. after \in SUBSET messages
  BY DEF Matching
<1>2. IsFiniteSet(upto(m)) /\ IsFiniteSet(upto(k))
  BY <1>1, FS_Subset
<1>3. upto(k) \in SUBSET upto(m)
  <2>. SUFFICES ASSUME NEW y \in upto(k)
                PROVE  y.id <= m.id
    OBVIOUS
  <2>1. y \in Row /\ k \in Row /\ m \in Row
    BY DEF Fetch, Matching
  <2>. QED
    BY <2>1 DEF Row
<1>4. Cardinality(upto(k)) <= Cardinality(upto(m))
  BY <1>2, <1>3, FS_Subset
<1>5. Cardinality(upto(m)) <= lim /\ Cardinality(upto(m)) \in Nat /\ Cardinality(upto(k)) \in Nat
  BY <1>2, FS_CardinalityType DEF Fetch
<1>6. Cardinality(upto(k)) <= lim
  BY <1>4, <1>5
<1>. QED
  BY <1>6 DEF Fetch

(* The start of a tail is a natural number. *)
LEMMA TailStartType ==
  ASSUME messages \in SUBSET Row, \A m \in messages : m.id \in 1..lastId, lastId \in Nat,
         NEW ch, NEW lim, NEW filter
  PROVE  TailStart(ch, lim, filter) \in Nat
<1>. DEFINE rows   == Matching(ch, filter)
            newest == {m \in rows : Cardinality({k \in rows : k.id >= m.id}) <= lim}
            ids    == {m.id : m \in newest}
<1>1. CASE newest = {}
  BY <1>1 DEF TailStart
<1>2. CASE newest # {}
  <2>1. \A m \in newest : m.id \in 1..lastId /\ m.id \in ids
    BY DEF Matching
  <2>2. \A n \in ids : n \in 1..lastId
    BY <2>1
  <2>3. ids \in SUBSET Int /\ ids # {} /\ \A n \in ids : n >= -1
    <3>1. PICK m \in newest : TRUE
      BY <1>2
    <3>2. ids # {}
      BY <2>1, <3>1
    <3>. HIDE DEF ids
    <3>. QED
      BY <2>2, <3>2
  <2>4. Min(ids) \in ids
    <3>. HIDE DEF ids
    <3>. QED
      BY <2>3, MinExists
  <2>5. Min(ids) \in 1..lastId
    BY <2>2, <2>4
  <2>6. TailStart(ch, lim, filter) = Min(ids) - 1
    BY <1>2 DEF TailStart
  <2>. QED
    BY <2>5, <2>6
<1>. QED
  BY <1>1, <1>2

(* Where a read starts is a natural number. *)
LEMMA ResolveSinceType ==
  ASSUME CursorInv, NEW c \in Consumers, NEW ch \in Channels, NEW r \in Requests
  PROVE  ResolveSince(c, ch, r) \in Nat
<1>1. CASE r.since > 0
  BY <1>1, ReadsAssumption DEF ResolveSince, Requests
<1>2. CASE ~(r.since > 0) /\ FromCursor(c, ch, r)
  BY <1>2, ReadsAssumption DEF ResolveSince, Requests, FromCursor, CursorInv, TypeOK
<1>3. CASE ~(r.since > 0) /\ ~FromCursor(c, ch, r)
  <2>1. TailStart(ch, r.lim, r.filter) \in Nat
    BY TailStartType DEF CursorInv, TypeOK, IdsInOrder
  <2>. QED
    BY <2>1, <1>3, ReadsAssumption DEF ResolveSince, Requests
<1>. QED
  BY <1>1, <1>2, <1>3

(* What one read of one channel does to the consumer's position: types,    *)
(* the accounting of every stored row, and the bound of what was shown.    *)
LEMMA ReadLemma ==
  ASSUME CursorInv, NEW c \in Consumers, NEW ch \in Channels, NEW r \in Requests
  PROVE  /\ CursorAfter(c, ch, r) \in Nat \cup {NoCursor}
         /\ ShownAfter(c, ch, r) \in SUBSET (1..lastId)
         /\ PassedAfter(c, ch, r) \in Nat
         /\ CursorAfter(c, ch, r) > lastId => CursorAfter(c, ch, r) <= PassedAfter(c, ch, r)
         /\ \A i \in ShownAfter(c, ch, r) : i <= CursorAfter(c, ch, r)
         /\ \A m \in messages : m.channel = ch /\ m.id <= CursorAfter(c, ch, r) =>
              m.id \in ShownAfter(c, ch, r) \/ m.id <= PassedAfter(c, ch, r)
<1>. DEFINE since == ResolveSince(c, ch, r)
            rows  == Delivered(c, ch, r)
            pos   == cursor[c][ch]
<1>1. since \in Nat
  BY ResolveSinceType
<1>2. rows \in SUBSET messages /\ Ids(rows) \in SUBSET (1..lastId)
      /\ \A m \in rows : m.id > since /\ m.id \in Ids(rows)
  BY DEF Delivered, Fetch, Matching, Ids, CursorInv, IdsInOrder
<1>3. /\ pos \in Nat \cup {NoCursor} /\ passed[c][ch] \in Nat /\ lastId \in Nat
      /\ shown[c][ch] \in SUBSET (1..lastId)
      /\ pos > lastId => pos <= passed[c][ch]
      /\ \A i \in shown[c][ch] : i <= pos
      /\ \A m \in messages : m.id \in Nat
      /\ \A m \in messages : m.channel = ch /\ m.id <= pos =>
           m.id \in shown[c][ch] \/ m.id <= passed[c][ch]
  <2>1. /\ pos \in Nat \cup {NoCursor} /\ passed[c][ch] \in Nat /\ lastId \in Nat
        /\ \A m \in messages : m.id \in Nat
    BY MaxIdAssumption DEF CursorInv, TypeOK, Row
  <2>2. shown[c][ch] \in SUBSET (1..lastId)
    BY DEF CursorInv, IdsInOrder
  <2>3. pos > lastId => pos <= passed[c][ch]
    BY DEF CursorInv, CursorWithinReach
  <2>4. \A i \in shown[c][ch] : i <= pos
    BY DEF CursorInv, NothingShownTwice
  <2>5. \A m \in messages : m.channel = ch /\ m.id <= pos =>
           m.id \in shown[c][ch] \/ m.id <= passed[c][ch]
    BY DEF CursorInv, NoSilentSkip
  <2>. QED
    BY <2>1, <2>2, <2>3, <2>4, <2>5
<1>4. CASE ~Advances(c, ch, r)
  BY <1>3, <1>4 DEF CursorAfter, ShownAfter, PassedAfter
<1>5. CASE Advances(c, ch, r)
  <2>. DEFINE S   == {pos} \cup Ids(rows)
              top == Max(S)
              low == Max({passed[c][ch], since})
  <2>1. top \in S /\ \A k \in S : top >= k
    <3>1. S \in SUBSET Int /\ S # {}
      BY <1>2, <1>3 DEF NoCursor
    <3>2. PICK b \in Int : b >= pos /\ b >= lastId
      <4>1. CASE pos >= lastId
        BY <4>1, <1>3 DEF NoCursor
      <4>2. CASE ~(pos >= lastId)
        BY <4>2, <1>3 DEF NoCursor
      <4>. QED
        BY <4>1, <4>2
    <3>3. \A s \in S : s <= b
      BY <1>2, <1>3, <3>2 DEF NoCursor
    <3>. HIDE DEF S
    <3>. QED
      BY <3>1, <3>2, <3>3, MaxExists
  <2>2. low \in {passed[c][ch], since} /\ low >= passed[c][ch] /\ low >= since
    <3>1. \A s \in {passed[c][ch], since} : s <= passed[c][ch] + since
      BY <1>1, <1>3
    <3>2. {passed[c][ch], since} \in SUBSET Int /\ {passed[c][ch], since} # {}
      BY <1>1, <1>3
    <3>. DEFINE L == {passed[c][ch], since}
    <3>3. Max(L) \in L /\ \A k \in L : Max(L) >= k
      <4>1. passed[c][ch] + since \in Int
        BY <1>1, <1>3
      <4>. HIDE DEF L
      <4>. QED
        BY <3>1, <3>2, <4>1, MaxExists DEF L
    <3>. QED
      BY <3>3
  <2>. HIDE DEF top, low
  <2>3. /\ CursorAfter(c, ch, r) = top
        /\ ShownAfter(c, ch, r) = shown[c][ch] \cup Ids(rows)
        /\ PassedAfter(c, ch, r) = IF FromCursor(c, ch, r) THEN passed[c][ch] ELSE low
    BY <1>5 DEF CursorAfter, ShownAfter, PassedAfter, top, low
  <2>4. CursorAfter(c, ch, r) \in Nat \cup {NoCursor}
    BY <2>1, <2>3, <1>2, <1>3
  <2>5. ShownAfter(c, ch, r) \in SUBSET (1..lastId)
    BY <2>3, <1>2, <1>3
  <2>6. PassedAfter(c, ch, r) \in Nat /\ PassedAfter(c, ch, r) >= passed[c][ch]
    BY <2>2, <2>3, <1>1, <1>3
  <2>7. CursorAfter(c, ch, r) > lastId => CursorAfter(c, ch, r) <= PassedAfter(c, ch, r)
    <3>1. ASSUME top > lastId
          PROVE  top = pos
      BY <3>1, <2>1, <1>2, <1>3
    <3>. QED
      BY <3>1, <2>3, <2>6, <1>3 DEF NoCursor
  <2>8. \A i \in ShownAfter(c, ch, r) : i <= CursorAfter(c, ch, r)
    <3>. SUFFICES ASSUME NEW i \in shown[c][ch] \cup Ids(rows)
                  PROVE  i <= top
      BY <2>3
    <3>1. i \in Nat /\ top \in Int /\ pos \in Int /\ pos <= top
      BY <2>1, <2>3, <2>4, <1>2, <1>3 DEF NoCursor
    <3>2. CASE i \in Ids(rows)
      BY <3>1, <3>2, <2>1
    <3>3. CASE i \in shown[c][ch]
      BY <3>1, <3>3, <1>3
    <3>. QED
      BY <3>2, <3>3
  <2>9. ASSUME NEW m \in messages, m.channel = ch, m.id <= CursorAfter(c, ch, r)
        PROVE  m.id \in ShownAfter(c, ch, r) \/ m.id <= PassedAfter(c, ch, r)
    <3>1. m.id \in Nat /\ m.id <= top
      BY <2>3, <2>9, <1>3
    <3>2. CASE m.id <= pos
      BY <3>1, <3>2, <2>9, <2>3, <2>6, <1>3
    <3>3. CASE m.id <= since
      <4>1. CASE FromCursor(c, ch, r)
        <5>1. r.since = 0 /\ since = pos
          BY <4>1, ReadsAssumption DEF ResolveSince, FromCursor
        <5>. QED
          BY <5>1, <3>2, <3>3
      <4>2. CASE ~FromCursor(c, ch, r)
        BY <4>2, <3>1, <3>3, <2>2, <2>3, <1>1, <1>3
      <4>. QED
        BY <4>1, <4>2
    <3>4. CASE ~(m.id <= pos) /\ ~(m.id <= since)
      <4>1. top \in Ids(rows)
        BY <3>1, <3>4, <2>1
      <4>2. PICK d \in rows : d.id = top
        BY <4>1 DEF Ids
      <4>3. m \in Matching(ch, r.filter)
        BY <2>9, <1>5 DEF Matching, Advances
      <4>4. r.lim \in Nat
        BY ReadsAssumption DEF Requests
      <4>5. IsFiniteSet(messages) /\ messages \in SUBSET Row
        BY DEF CursorInv, TypeOK, IdsInOrder
      <4>6. d \in Fetch(ch, since, r.lim, r.filter) /\ m.id > since /\ m.id <= d.id
        BY <4>2, <3>1, <3>4, <1>1 DEF Delivered
      <4>7. m \in Fetch(ch, since, r.lim, r.filter)
        <5>. HIDE DEF since
        <5>. QED
          BY <4>3, <4>4, <4>5, <4>6, <1>1, FetchIsPrefix
      <4>8. m \in rows
        BY <4>7 DEF Delivered
      <4>. QED
        BY <4>8, <1>2, <2>3
    <3>. QED
      BY <3>2, <3>3, <3>4
  <2>. QED
    BY <2>4, <2>5, <2>6, <2>7, <2>8, <2>9
<1>. QED
  BY <1>4, <1>5

----------------------------------------------------------------------------
(* One lemma per way a step changes the state. *)

(* What the invariant says of one consumer on one channel. *)
LEMMA InvAt ==
  ASSUME CursorInv, NEW c \in Consumers, NEW ch \in Channels
  PROVE  /\ cursor[c][ch] \in Nat \cup {NoCursor} /\ passed[c][ch] \in Nat
         /\ shown[c][ch] \in SUBSET (1..lastId)
         /\ cursor[c][ch] > lastId => cursor[c][ch] <= passed[c][ch]
         /\ \A i \in shown[c][ch] : i <= cursor[c][ch]
         /\ \A m \in messages : m.channel = ch /\ m.id <= cursor[c][ch] =>
              m.id \in shown[c][ch] \/ m.id <= passed[c][ch]
<1>1. cursor[c][ch] \in Nat \cup {NoCursor} /\ passed[c][ch] \in Nat
  BY DEF CursorInv, TypeOK
<1>2. shown[c][ch] \in SUBSET (1..lastId)
  BY DEF CursorInv, IdsInOrder
<1>3. cursor[c][ch] > lastId => cursor[c][ch] <= passed[c][ch]
  BY DEF CursorInv, CursorWithinReach
<1>4. \A i \in shown[c][ch] : i <= cursor[c][ch]
  BY DEF CursorInv, NothingShownTwice
<1>5. \A m \in messages : m.channel = ch /\ m.id <= cursor[c][ch] =>
         m.id \in shown[c][ch] \/ m.id <= passed[c][ch]
  BY DEF CursorInv, NoSilentSkip
<1>. QED
  BY <1>1, <1>2, <1>3, <1>4, <1>5

(* A read of any of the channels, in one handler. *)
LEMMA ReadPreserves ==
  ASSUME CursorInv, NEW c \in Consumers, NEW reqs,
         DOMAIN reqs \subseteq Channels, \A ch \in DOMAIN reqs : reqs[ch] \in Requests,
         Read(c, reqs)
  PROVE  CursorInv'
<1>1. /\ messages' = messages /\ lastId' = lastId
      /\ cursor \in [Consumers -> [Channels -> Nat \cup {NoCursor}]]
      /\ shown \in [Consumers -> [Channels -> SUBSET Nat]]
      /\ passed \in [Consumers -> [Channels -> Nat]]
  BY DEF CursorInv, TypeOK, Read, storeVars
<1>2. ASSUME NEW d \in Consumers, NEW ch \in Channels
      PROVE  /\ cursor'[d][ch] = IF d = c /\ ch \in DOMAIN reqs
                                   THEN CursorAfter(c, ch, reqs[ch]) ELSE cursor[d][ch]
             /\ shown'[d][ch]  = IF d = c /\ ch \in DOMAIN reqs
                                   THEN ShownAfter(c, ch, reqs[ch]) ELSE shown[d][ch]
             /\ passed'[d][ch] = IF d = c /\ ch \in DOMAIN reqs
                                   THEN PassedAfter(c, ch, reqs[ch]) ELSE passed[d][ch]
  BY <1>1 DEF Read
<1>3. /\ cursor' = [cursor EXCEPT ![c] = cursor'[c]]
      /\ cursor'[c] = [ch \in Channels |-> cursor'[c][ch]]
      /\ shown' = [shown EXCEPT ![c] = shown'[c]]
      /\ shown'[c] = [ch \in Channels |-> shown'[c][ch]]
      /\ passed' = [passed EXCEPT ![c] = passed'[c]]
      /\ passed'[c] = [ch \in Channels |-> passed'[c][ch]]
  BY <1>1 DEF Read
<1>4. ASSUME NEW d \in Consumers, NEW ch \in Channels
      PROVE  /\ cursor'[d][ch] \in Nat \cup {NoCursor}
             /\ shown'[d][ch] \in SUBSET (1..lastId)
             /\ passed'[d][ch] \in Nat
             /\ cursor'[d][ch] > lastId => cursor'[d][ch] <= passed'[d][ch]
             /\ \A i \in shown'[d][ch] : i <= cursor'[d][ch]
             /\ \A m \in messages : m.channel = ch /\ m.id <= cursor'[d][ch] =>
                  m.id \in shown'[d][ch] \/ m.id <= passed'[d][ch]
  <2>1. CASE d = c /\ ch \in DOMAIN reqs
    <3>1. reqs[ch] \in Requests
      BY <2>1
    <3>. QED
      BY <2>1, <3>1, <1>2, ReadLemma
  <2>2. CASE ~(d = c /\ ch \in DOMAIN reqs)
    <3>1. /\ cursor'[d][ch] = cursor[d][ch]
          /\ shown'[d][ch] = shown[d][ch]
          /\ passed'[d][ch] = passed[d][ch]
      BY <2>2, <1>2
    <3>. QED
      BY <3>1, InvAt
  <2>. QED
    BY <2>1, <2>2
<1>5. TypeOK'
  <2>1. cursor' \in [Consumers -> [Channels -> Nat \cup {NoCursor}]]
    <3>1. cursor'[c] \in [Channels -> Nat \cup {NoCursor}]
      BY <1>3, <1>4
    <3>. QED
      BY <1>1, <1>3, <3>1
  <2>2. lastId \in Nat
    BY MaxIdAssumption DEF CursorInv, TypeOK
  <2>3. shown' \in [Consumers -> [Channels -> SUBSET Nat]]
    <3>1. \A ch \in Channels : shown'[c][ch] \in SUBSET Nat
      BY <1>4, <2>2
    <3>2. shown'[c] \in [Channels -> SUBSET Nat]
      BY <1>3, <3>1
    <3>. QED
      BY <1>1, <1>3, <3>2
  <2>4. passed' \in [Consumers -> [Channels -> Nat]]
    <3>1. passed'[c] \in [Channels -> Nat]
      BY <1>3, <1>4
    <3>. QED
      BY <1>1, <1>3, <3>1
  <2>. QED
    BY <1>1, <2>1, <2>3, <2>4 DEF TypeOK, CursorInv
<1>6. IdsInOrder'
  BY <1>1, <1>4 DEF IdsInOrder, CursorInv
<1>7. CursorWithinReach' /\ NothingShownTwice'
  BY <1>1, <1>4 DEF CursorWithinReach, NothingShownTwice
<1>8. NoSilentSkip'
  <2>1. \A m \in messages : m.channel \in Channels
    BY DEF CursorInv, TypeOK, Row
  <2>. QED
    BY <1>1, <1>4, <2>1 DEF NoSilentSkip
<1>. QED
  BY <1>5, <1>6, <1>7, <1>8 DEF CursorInv

(* A rewind, with or without new rows under fresh ids or rows removed. *)
LEMMA RewindPreserves ==
  ASSUME CursorInv,
         NEW T \in [Consumers -> [Channels -> SUBSET Nat]], NEW fresh, RewindTo(T, fresh),
         \A i \in fresh : i \notin 1..lastId,
         lastId' \in 0..MaxId, lastId' >= lastId,
         messages' \in SUBSET Row, IsFiniteSet(messages'),
         \A m \in messages' : m \in messages \/ m.id \in lastId + 1 .. lastId'
  PROVE  CursorInv'
<1>1. /\ lastId \in Nat /\ lastId' \in Nat
      /\ cursor \in [Consumers -> [Channels -> Nat \cup {NoCursor}]]
      /\ shown \in [Consumers -> [Channels -> SUBSET Nat]]
      /\ passed \in [Consumers -> [Channels -> Nat]]
      /\ \A m \in messages : m.id \in 1..lastId
      /\ \A m \in messages' : m.id \in Nat /\ m.channel \in Channels
  BY MaxIdAssumption DEF CursorInv, TypeOK, IdsInOrder, Row
<1>2. ASSUME NEW c \in Consumers, NEW ch \in Channels
      PROVE  /\ cursor'[c][ch] \in {cursor[c][ch]} \cup T[c][ch]
             /\ cursor'[c][ch] <= cursor[c][ch]
             /\ \A t \in T[c][ch] : cursor'[c][ch] <= t
             /\ passed'[c][ch] \in {passed[c][ch]} \cup T[c][ch]
             /\ shown'[c][ch] = {i \in shown[c][ch] : i \notin fresh
                                                     /\ \A t \in T[c][ch] : i <= t}
  <2>1. T[c][ch] \in SUBSET Nat /\ cursor[c][ch] \in Nat \cup {NoCursor}
        /\ passed[c][ch] \in Nat \cup {NoCursor}
    BY <1>1
  <2>2. /\ cursor'[c][ch] = Lowered(cursor[c][ch], T[c][ch])
        /\ passed'[c][ch] = Lowered(passed[c][ch], T[c][ch])
        /\ shown'[c][ch] = {i \in shown[c][ch] : i \notin fresh
                                                 /\ \A t \in T[c][ch] : i <= t}
    BY DEF RewindTo, Lowered
  <2>3. /\ cursor'[c][ch] \in {cursor[c][ch]} \cup T[c][ch]
        /\ cursor'[c][ch] <= cursor[c][ch]
        /\ \A t \in T[c][ch] : cursor'[c][ch] <= t
    <3>. DEFINE pos == cursor[c][ch]
                targets == T[c][ch]
    <3>1. pos \in Nat \cup {NoCursor} /\ targets \in SUBSET Nat
          /\ cursor'[c][ch] = Lowered(pos, targets)
      BY <2>1, <2>2
    <3>. HIDE DEF pos, targets
    <3>2. /\ Lowered(pos, targets) \in {pos} \cup targets
          /\ Lowered(pos, targets) <= pos
          /\ \A t \in targets : Lowered(pos, targets) <= t
      BY <3>1, LoweredLemma
    <3>. QED
      BY <3>1, <3>2 DEF pos, targets
  <2>4. passed'[c][ch] \in {passed[c][ch]} \cup T[c][ch]
    <3>. DEFINE pos == passed[c][ch]
                targets == T[c][ch]
    <3>1. pos \in Nat \cup {NoCursor} /\ targets \in SUBSET Nat
          /\ passed'[c][ch] = Lowered(pos, targets)
      BY <2>1, <2>2
    <3>. HIDE DEF pos, targets
    <3>2. Lowered(pos, targets) \in {pos} \cup targets
      BY <3>1, LoweredLemma
    <3>. QED
      BY <3>1, <3>2 DEF pos, targets
  <2>. QED
    BY <2>2, <2>3, <2>4
<1>3. ASSUME NEW c \in Consumers, NEW ch \in Channels
      PROVE  /\ cursor[c][ch] \in Nat \cup {NoCursor} /\ passed[c][ch] \in Nat
             /\ T[c][ch] \in SUBSET Nat
             /\ shown[c][ch] \in SUBSET (1..lastId)
             /\ cursor[c][ch] > lastId => cursor[c][ch] <= passed[c][ch]
             /\ \A i \in shown[c][ch] : i <= cursor[c][ch]
             /\ \A m \in messages : m.channel = ch /\ m.id <= cursor[c][ch] =>
                  m.id \in shown[c][ch] \/ m.id <= passed[c][ch]
  <2>1. T[c][ch] \in SUBSET Nat
    OBVIOUS
  <2>. QED
    BY <2>1, InvAt
<1>4. ASSUME NEW c \in Consumers, NEW ch \in Channels
      PROVE  /\ cursor'[c][ch] \in Nat \cup {NoCursor}
             /\ passed'[c][ch] \in Nat
             /\ shown'[c][ch] \in SUBSET (1..lastId)
  BY <1>2, <1>3
<1>5. TypeOK'
  <2>1. shown' \in [Consumers -> [Channels -> SUBSET Nat]]
    <3>1. \A c \in Consumers, ch \in Channels : shown'[c][ch] \in SUBSET Nat
      BY <1>1, <1>4
    <3>. QED
      BY <3>1 DEF RewindTo
  <2>2. cursor' \in [Consumers -> [Channels -> Nat \cup {NoCursor}]]
    <3>1. cursor' = [c \in Consumers |-> [ch \in Channels |-> cursor'[c][ch]]]
      BY DEF RewindTo
    <3>. QED
      BY <3>1, <1>4
  <2>3. passed' \in [Consumers -> [Channels -> Nat]]
    <3>1. passed' = [c \in Consumers |-> [ch \in Channels |-> passed'[c][ch]]]
      BY DEF RewindTo
    <3>. QED
      BY <3>1, <1>4
  <2>. QED
    BY <2>1, <2>2, <2>3 DEF TypeOK
<1>6. IdsInOrder'
  <2>1. \A m \in messages' : m.id \in 1..lastId'
    BY <1>1
  <2>2. \A c \in Consumers, ch \in Channels : shown'[c][ch] \subseteq 1..lastId'
    BY <1>1, <1>4
  <2>. QED
    BY <2>1, <2>2 DEF IdsInOrder
<1>7. CursorWithinReach'
  <2>. SUFFICES ASSUME NEW c \in Consumers, NEW ch \in Channels, cursor'[c][ch] > lastId'
                PROVE  cursor'[c][ch] <= passed'[c][ch]
    BY DEF CursorWithinReach
  <2>1. cursor[c][ch] > lastId
    <3>1. cursor'[c][ch] \in Int /\ cursor[c][ch] \in Int
      BY <1>3, <1>4 DEF NoCursor
    <3>2. cursor'[c][ch] <= cursor[c][ch]
      BY <1>2
    <3>. QED
      BY <1>1, <3>1, <3>2
  <2>2. cursor[c][ch] <= passed[c][ch]
    BY <2>1, <1>3
  <2>. QED
    BY <2>2, <1>2, <1>3, <1>4 DEF NoCursor
<1>8. NothingShownTwice'
  <2>. SUFFICES ASSUME NEW c \in Consumers, NEW ch \in Channels, NEW i \in shown'[c][ch]
                PROVE  i <= cursor'[c][ch]
    BY DEF NothingShownTwice
  <2>1. i \in shown[c][ch] /\ \A t \in T[c][ch] : i <= t
    BY <1>2
  <2>. QED
    BY <2>1, <1>2, <1>3
<1>9. NoSilentSkip'
  <2>. SUFFICES ASSUME NEW c \in Consumers, NEW m \in messages',
                       m.id <= cursor'[c][m.channel]
                PROVE  m.id \in shown'[c][m.channel] \/ m.id <= passed'[c][m.channel]
    BY DEF NoSilentSkip
  <2>. DEFINE ch == m.channel
  <2>1. ch \in Channels /\ m.id \in Nat
    BY <1>1
  <2>2. m.id <= cursor[c][ch] /\ \A t \in T[c][ch] : m.id <= t
    BY <2>1, <1>2, <1>3, <1>4 DEF NoCursor
  <2>3. CASE m \in messages
    <3>1. m.id \in shown[c][ch] \/ m.id <= passed[c][ch]
      BY <2>1, <2>2, <2>3, <1>3
    <3>2. CASE m.id \in shown[c][ch]
      <4>1. m.id \notin fresh
        BY <2>3, <1>1
      <4>. QED
        BY <3>2, <4>1, <2>1, <2>2, <1>2
    <3>3. CASE m.id <= passed[c][ch]
      BY <3>3, <2>1, <2>2, <1>2
    <3>. QED
      BY <3>1, <3>2, <3>3
  <2>4. CASE m.id \in lastId + 1 .. lastId'
    <3>1. cursor[c][ch] > lastId
      <4>1. m.id > lastId /\ lastId \in Nat
        BY <2>1, <2>4, <1>1
      <4>2. cursor[c][ch] \in Int
        BY <2>1, <1>3 DEF NoCursor
      <4>. QED
        BY <2>1, <2>2, <4>1, <4>2
    <3>2. m.id <= passed[c][ch]
      <4>1. cursor[c][ch] <= passed[c][ch]
        BY <3>1, <2>1, <1>3
      <4>2. cursor[c][ch] \in Int /\ passed[c][ch] \in Nat
        BY <2>1, <1>3 DEF NoCursor
      <4>. QED
        BY <4>1, <4>2, <2>1, <2>2
    <3>. QED
      BY <3>2, <2>1, <2>2, <1>2
  <2>. QED
    BY <2>3, <2>4
<1>. QED
  BY <1>5, <1>6, <1>7, <1>8, <1>9 DEF CursorInv

(* Removing rows, whatever the reason. *)
LEMMA RemovePreserves ==
  ASSUME CursorInv, messages' \in SUBSET messages, UNCHANGED lastId, UNCHANGED cursorVars
  PROVE  CursorInv'
<1>1. IsFiniteSet(messages')
  BY FS_Subset DEF CursorInv, IdsInOrder
<1>2. TypeOK'
  BY DEF CursorInv, TypeOK, cursorVars
<1>3. IdsInOrder'
  BY <1>1 DEF CursorInv, IdsInOrder, cursorVars
<1>4. CursorWithinReach' /\ NothingShownTwice'
  BY DEF CursorInv, CursorWithinReach, NothingShownTwice, cursorVars
<1>5. NoSilentSkip'
  BY DEF CursorInv, NoSilentSkip, cursorVars
<1>. QED
  BY <1>2, <1>3, <1>4, <1>5 DEF CursorInv

(* An exact set accounts for everything at or below its target. *)
LEMMA SetCursorPreserves ==
  ASSUME CursorInv, NEW c \in Consumers, NEW ch \in Channels, NEW n \in Nat,
         SetCursor(c, ch, n)
  PROVE  CursorInv'
<1>1. /\ messages' = messages /\ lastId' = lastId
      /\ cursor \in [Consumers -> [Channels -> Nat \cup {NoCursor}]]
      /\ shown \in [Consumers -> [Channels -> SUBSET Nat]]
      /\ passed \in [Consumers -> [Channels -> Nat]]
      /\ \A m \in messages : m.channel \in Channels
  BY DEF CursorInv, TypeOK, SetCursor, storeVars, Row
<1>2. ASSUME NEW d \in Consumers, NEW k \in Channels
      PROVE  /\ cursor'[d][k] = IF d = c /\ k = ch THEN n ELSE cursor[d][k]
             /\ shown'[d][k]  = IF d = c /\ k = ch THEN {i \in shown[d][k] : i <= n}
                                                  ELSE shown[d][k]
             /\ passed'[d][k] = IF d = c /\ k = ch THEN n ELSE passed[d][k]
  BY <1>1 DEF SetCursor
<1>3. TypeOK'
  <2>1. cursor' \in [Consumers -> [Channels -> Nat \cup {NoCursor}]]
    BY <1>1 DEF SetCursor
  <2>2. passed' \in [Consumers -> [Channels -> Nat]]
    BY <1>1 DEF SetCursor
  <2>3. shown' \in [Consumers -> [Channels -> SUBSET Nat]]
    <3>1. {i \in shown[c][ch] : i <= n} \in SUBSET Nat
      BY <1>1
    <3>. QED
      BY <1>1, <3>1 DEF SetCursor
  <2>. QED
    BY <1>1, <2>1, <2>2, <2>3 DEF CursorInv, TypeOK
<1>4. IdsInOrder'
  <2>1. /\ IsFiniteSet(messages) /\ \A m \in messages : m.id \in 1..lastId
        /\ \A d \in Consumers, k \in Channels : shown[d][k] \subseteq 1..lastId
    BY DEF CursorInv, IdsInOrder
  <2>2. \A d \in Consumers, k \in Channels : shown'[d][k] \subseteq shown[d][k]
    BY <1>2
  <2>. QED
    BY <1>1, <2>1, <2>2 DEF IdsInOrder
<1>5. CursorWithinReach'
  <2>. SUFFICES ASSUME NEW d \in Consumers, NEW k \in Channels, cursor'[d][k] > lastId'
                PROVE  cursor'[d][k] <= passed'[d][k]
    BY DEF CursorWithinReach
  <2>1. CASE d = c /\ k = ch
    <3>1. cursor'[d][k] = n /\ passed'[d][k] = n
      BY <2>1, <1>2
    <3>. QED
      BY <3>1
  <2>2. CASE ~(d = c /\ k = ch)
    BY <2>2, <1>1, <1>2, InvAt
  <2>. QED
    BY <2>1, <2>2
<1>6. NothingShownTwice'
  <2>. SUFFICES ASSUME NEW d \in Consumers, NEW k \in Channels, NEW i \in shown'[d][k]
                PROVE  i <= cursor'[d][k]
    BY DEF NothingShownTwice
  <2>1. CASE d = c /\ k = ch
    BY <1>2, <2>1
  <2>2. CASE ~(d = c /\ k = ch)
    <3>1. i \in shown[d][k] /\ cursor'[d][k] = cursor[d][k]
      BY <1>2, <2>2
    <3>. QED
      BY <3>1 DEF CursorInv, NothingShownTwice
  <2>. QED
    BY <2>1, <2>2
<1>7. NoSilentSkip'
  <2>. SUFFICES ASSUME NEW d \in Consumers, NEW m \in messages,
                       m.id <= cursor'[d][m.channel]
                PROVE  m.id \in shown'[d][m.channel] \/ m.id <= passed'[d][m.channel]
    BY <1>1 DEF NoSilentSkip
  <2>1. m.channel \in Channels
    BY <1>1
  <2>2. CASE d = c /\ m.channel = ch
    <3>1. cursor'[d][m.channel] = n /\ passed'[d][m.channel] = n
      BY <1>2, <2>1, <2>2
    <3>. QED
      BY <3>1
  <2>3. CASE ~(d = c /\ m.channel = ch)
    <3>1. /\ cursor'[d][m.channel] = cursor[d][m.channel]
          /\ shown'[d][m.channel]  = shown[d][m.channel]
          /\ passed'[d][m.channel] = passed[d][m.channel]
      BY <1>2, <2>1, <2>3
    <3>. QED
      BY <3>1 DEF CursorInv, NoSilentSkip
  <2>. QED
    BY <2>2, <2>3
<1>. QED
  BY <1>3, <1>4, <1>5, <1>6, <1>7 DEF CursorInv

(* The rows a request inserts are finitely many, typed, under fresh ids. *)
LEMMA NewRowsLemma ==
  ASSUME CursorInv, NEW ps \in Seq(Payloads), Insert(ps)
  PROVE  /\ IsFiniteSet(NewRows(ps))
         /\ NewRows(ps) \in SUBSET Row
         /\ \A m \in NewRows(ps) : m.id \in lastId + 1 .. lastId'
         /\ lastId' \in 0..MaxId /\ lastId' >= lastId
<1>1. lastId \in Nat /\ MaxId \in Nat /\ Len(ps) \in Nat
      /\ lastId' = lastId + Len(ps) /\ lastId' <= MaxId
  BY MaxIdAssumption DEF CursorInv, TypeOK, Insert
<1>2. \A i \in 1..Len(ps) : RowOf(ps[i], lastId + i) \in Row
  <2>. SUFFICES ASSUME NEW i \in 1..Len(ps)
                PROVE  RowOf(ps[i], lastId + i) \in Row
    OBVIOUS
  <2>1. ps[i] \in Envelope
    BY PayloadsAssumption
  <2>2. lastId + i \in Nat
    BY <1>1
  <2>. QED
    BY <2>1, <2>2 DEF RowOf, Row, Envelope
<1>3. \A i \in 1..Len(ps) : RowOf(ps[i], lastId + i).id = lastId + i
  BY DEF RowOf
<1>4. IsFiniteSet(NewRows(ps))
  <2>. DEFINE f == [i \in 1..Len(ps) |-> RowOf(ps[i], lastId + i)]
  <2>1. IsFiniteSet(1..Len(ps))
    BY <1>1, FS_Interval
  <2>2. f \in [1..Len(ps) -> NewRows(ps)]
    BY DEF NewRows
  <2>3. \A m \in NewRows(ps) : \E i \in 1..Len(ps) : f[i] = m
    BY DEF NewRows
  <2>4. f \in Surjection(1..Len(ps), NewRows(ps))
    <3>. HIDE DEF f
    <3>. QED
      BY <2>2, <2>3 DEF Surjection
  <2>. HIDE DEF f
  <2>. QED
    BY <2>1, <2>4, FS_Surjection
<1>5. \A m \in NewRows(ps) : m \in Row /\ m.id \in lastId + 1 .. lastId'
  BY <1>1, <1>2, <1>3 DEF NewRows
<1>. QED
  BY <1>1, <1>4, <1>5

(* A request that posts ps, possibly evicting rows and rewinding cursors. *)
LEMMA PostPreserves ==
  ASSUME CursorInv, NEW ps \in Seq(Payloads), NEW gone,
         NEW T \in [Consumers -> [Channels -> SUBSET Nat]],
         Insert(ps), messages' = (messages \ gone) \cup NewRows(ps),
         RewindTo(T, Ids(NewRows(ps)))
  PROVE  CursorInv'
<1>. DEFINE new == NewRows(ps)
<1>1. /\ IsFiniteSet(new) /\ new \in SUBSET Row
      /\ \A m \in new : m.id \in lastId + 1 .. lastId'
      /\ lastId' \in 0..MaxId /\ lastId' >= lastId
  BY NewRowsLemma
<1>2. IsFiniteSet(messages) /\ messages \in SUBSET Row /\ lastId \in Nat
  BY MaxIdAssumption DEF CursorInv, TypeOK, IdsInOrder
<1>. HIDE DEF new
<1>3. IsFiniteSet(messages')
  <2>1. IsFiniteSet(messages \ gone)
    BY <1>2, FS_Subset
  <2>. QED
    BY <2>1, <1>1, FS_Union DEF new
<1>4. messages' \in SUBSET Row
  BY <1>1, <1>2 DEF new
<1>5. \A m \in messages' : m \in messages \/ m.id \in lastId + 1 .. lastId'
  BY <1>1 DEF new
<1>6. \A i \in Ids(new) : i \notin 1..lastId
  BY <1>1, <1>2 DEF Ids
<1>. QED
  BY <1>1, <1>3, <1>4, <1>5, <1>6, RewindPreserves DEF new

(* Dispatches lie above 0, so the targets of a handoff are natural numbers. *)
LEMMA HandoffTargetsType ==
  ASSUME CursorInv, NEW ps \in Seq(Payloads), NEW gone,
         Insert(ps), messages' = (messages \ gone) \cup NewRows(ps)
  PROVE  [c \in Consumers |-> [ch \in Channels |-> HandoffTargets(NewRows(ps), c, ch)]]
           \in [Consumers -> [Channels -> SUBSET Nat]]
<1>1. \A m \in messages' : m.id - 1 \in Nat
  <2>1. \A m \in NewRows(ps) : m.id \in lastId + 1 .. lastId'
    BY NewRowsLemma
  <2>2. lastId \in Nat /\ \A m \in messages : m.id \in 1..lastId
    BY MaxIdAssumption DEF CursorInv, TypeOK, IdsInOrder
  <2>. QED
    BY <2>1, <2>2
<1>2. ASSUME NEW c \in Consumers, NEW ch \in Channels
      PROVE  HandoffTargets(NewRows(ps), c, ch) \in SUBSET Nat
  BY <1>1 DEF HandoffTargets
<1>. QED
  BY <1>2

----------------------------------------------------------------------------

(* CursorInv is inductive. *)
LEMMA CursorInvInductive == CursorInv /\ [Next]_vars => CursorInv'
<1>. SUFFICES ASSUME CursorInv, [Next]_vars
              PROVE  CursorInv'
  OBVIOUS
<1>1. ASSUME NEW c \in Consumers, NEW ch \in Channels, NEW r \in Requests,
             ReadMessages(c, ch, r)
      PROVE  CursorInv'
  <2>. DEFINE reqs == [k \in {ch} |-> r]
  <2>1. DOMAIN reqs \subseteq Channels /\ \A k \in DOMAIN reqs : reqs[k] \in Requests
    OBVIOUS
  <2>2. Read(c, reqs)
    BY <1>1 DEF ReadMessages
  <2>. QED
    BY <2>1, <2>2, ReadPreserves
<1>2. ASSUME NEW c \in Consumers, NEW inbox \in Channels, NEW control \in Channels,
             NEW ri \in Requests, NEW rc \in Requests,
             TurnStart(c, inbox, control, ri, rc)
      PROVE  CursorInv'
  <2>. DEFINE reqs == [k \in {inbox, control} |-> IF k = inbox THEN ri ELSE rc]
  <2>1. DOMAIN reqs \subseteq Channels /\ \A k \in DOMAIN reqs : reqs[k] \in Requests
    OBVIOUS
  <2>2. Read(c, reqs)
    BY <1>2 DEF TurnStart
  <2>. QED
    BY <2>1, <2>2, ReadPreserves
<1>3. ASSUME NEW p \in Payloads, SendMessage(p)
      PROVE  CursorInv'
  <2>1. <<p>> \in Seq(Payloads)
    OBVIOUS
  <2>. QED
    BY <1>3, <2>1, HandoffTargetsType, PostPreserves DEF SendMessage, Posted
<1>4. ASSUME NEW p \in Payloads, NEW q \in Payloads, SendBatch(<<p, q>>)
      PROVE  CursorInv'
  <2>1. <<p, q>> \in Seq(Payloads)
    OBVIOUS
  <2>. QED
    BY <1>4, <2>1, HandoffTargetsType, PostPreserves DEF SendBatch, Posted
<1>5. ASSUME NEW p \in Payloads, UpsertHeartbeat(p)
      PROVE  CursorInv'
  <2>1. <<p>> \in Seq(Payloads)
    OBVIOUS
  <2>2. [c \in Consumers |-> [ch \in Channels |-> {}]]
          \in [Consumers -> [Channels -> SUBSET Nat]]
    OBVIOUS
  <2>. QED
    BY <1>5, <2>1, <2>2, PostPreserves DEF UpsertHeartbeat
<1>6. ASSUME NEW cs, NEW ch \in Channels, NEW n \in 0..MaxId, RewindCursors(cs, ch, n)
      PROVE  CursorInv'
  <2>. DEFINE T == [c \in Consumers |-> [k \in Channels |->
                      IF c \in cs /\ k = ch THEN {n} ELSE {}]]
  <2>1. T \in [Consumers -> [Channels -> SUBSET Nat]]
    BY MaxIdAssumption
  <2>2. RewindTo(T, {}) /\ messages' = messages /\ lastId' = lastId
    BY <1>6 DEF RewindCursors, storeVars
  <2>3. messages' \in SUBSET Row /\ IsFiniteSet(messages') /\ lastId' \in 0..MaxId
        /\ lastId' >= lastId
    BY <2>2, MaxIdAssumption DEF CursorInv, TypeOK, IdsInOrder
  <2>. HIDE DEF T
  <2>. QED
    BY <2>1, <2>2, <2>3, RewindPreserves
<1>7. ASSUME NEW c \in Consumers, NEW ch \in Channels, NEW n \in 0..MaxId,
             SetCursor(c, ch, n)
      PROVE  CursorInv'
  <2>1. n \in Nat
    BY MaxIdAssumption
  <2>. QED
    BY <1>7, <2>1, SetCursorPreserves
<1>8. CASE Remove /\ UNCHANGED cursorVars
  <2>1. messages' \in SUBSET messages /\ UNCHANGED lastId
    BY <1>8 DEF Remove, DeleteMessage, PurgeChannels, AutoPrune
  <2>. QED
    BY <1>8, <2>1, RemovePreserves
<1>9. CASE UNCHANGED vars
  <2>1. messages' \in SUBSET messages /\ UNCHANGED lastId /\ UNCHANGED cursorVars
    BY <1>9 DEF vars, cursorVars
  <2>. QED
    BY <2>1, RemovePreserves
<1>. QED
  BY <1>1, <1>2, <1>3, <1>4, <1>5, <1>6, <1>7, <1>8, <1>9
  DEF Next, ReadStep, WriteStep, RewindStep

LEMMA CursorInvInit == Init => CursorInv
<1>. SUFFICES ASSUME Init
              PROVE  CursorInv
  OBVIOUS
<1>1. messages = {} /\ lastId = 0 /\ IsFiniteSet(messages) /\ 0 \in 0..MaxId
  BY FS_EmptySet, MaxIdAssumption DEF Init, StoreInit
<1>2. TypeOK
  BY <1>1 DEF Init, TypeOK
<1>3. IdsInOrder /\ CursorWithinReach
  BY <1>1 DEF Init, IdsInOrder, CursorWithinReach, NoCursor
<1>4. NoSilentSkip /\ NothingShownTwice
  BY <1>1 DEF Init, NoSilentSkip, NothingShownTwice
<1>. QED
  BY <1>2, <1>3, <1>4 DEF CursorInv

(* The inductive invariant holds in every reachable state. *)
THEOREM CursorsInvariant == Spec => []CursorInv
<1>. QED
  BY CursorInvInit, CursorInvInductive, PTL DEF Spec

(* Every variable of the cursor machinery keeps its type. *)
THEOREM CursorsTypeCorrect == Spec => []TypeOK
<1>1. CursorInv => TypeOK
  BY DEF CursorInv
<1>. QED
  BY <1>1, CursorsInvariant, PTL

(* For any consumers, channels, limits, payloads and interleaving of       *)
(* reads, posts, rewinds, sets and removals, a cursor never stands beyond  *)
(* a stored row that its consumer was neither given nor gave up.           *)
THEOREM CursorsNeverSkip == Spec => []NoSilentSkip
<1>1. CursorInv => NoSilentSkip
  BY DEF CursorInv
<1>. QED
  BY <1>1, CursorsInvariant, PTL

(* ... and everything delivered since the last rewind lies at or below the *)
(* cursor, so a read that resumes from it delivers nothing twice.          *)
THEOREM CursorsNeverRepeat == Spec => []NothingShownTwice
<1>1. CursorInv => NothingShownTwice
  BY DEF CursorInv
<1>. QED
  BY <1>1, CursorsInvariant, PTL

(* A handoff status that is stored aims its sender's cursor just below the *)
(* latest dispatch of its task.                                            *)
LEMMA HandoffAims ==
  ASSUME CursorInv, NEW p \in Payloads, p.type = "handoff", p.sender \in Consumers,
         SendMessage(p), NEW d \in DispatchesFor(p.sender, p.task_id),
         \A k \in DispatchesFor(p.sender, p.task_id) : k.id <= d.id
  PROVE  cursor'[p.sender][d.channel] < d.id
<1>. DEFINE c   == p.sender
            ch  == d.channel
            new == NewRows(<<p>>)
            T   == [e \in Consumers |-> [k \in Channels |-> HandoffTargets(new, e, k)]]
<1>1. /\ <<p>> \in Seq(Payloads) /\ Insert(<<p>>) /\ RewindTo(T, Ids(new))
      /\ messages' = (messages \ EvictedBy(p)) \cup new
  BY DEF SendMessage, Posted
<1>2. T \in [Consumers -> [Channels -> SUBSET Nat]]
  BY <1>1, HandoffTargetsType
<1>3. d \in messages' /\ d.channel \in Channels /\ d.id \in Nat
  <2>1. new \in SUBSET Row /\ messages \in SUBSET Row
    BY <1>1, NewRowsLemma DEF CursorInv, TypeOK
  <2>. QED
    BY <1>1, <2>1 DEF DispatchesFor, Row
<1>4. d.id - 1 \in T[c][ch]
  <2>1. RowOf(p, lastId + 1) \in new
    BY DEF NewRows
  <2>2. d.id - 1 \in HandoffTargets(new, c, ch)
    BY <1>3, <2>1 DEF HandoffTargets, RowOf
  <2>. QED
    BY <1>3, <2>2
<1>5. cursor[c][ch] \in Nat \cup {NoCursor} /\ T[c][ch] \in SUBSET Nat
  BY <1>2, <1>3, InvAt
<1>6. cursor'[c][ch] = Lowered(cursor[c][ch], T[c][ch])
  BY <1>1, <1>3 DEF RewindTo
<1>. HIDE DEF c, ch, T
<1>7. cursor'[c][ch] \in {cursor[c][ch]} \cup T[c][ch] /\ cursor'[c][ch] <= d.id - 1
  <2>. DEFINE pos == cursor[c][ch]
              targets == T[c][ch]
  <2>1. pos \in Nat \cup {NoCursor} /\ targets \in SUBSET Nat /\ d.id - 1 \in targets
        /\ cursor'[c][ch] = Lowered(pos, targets)
    BY <1>4, <1>5, <1>6
  <2>. HIDE DEF pos, targets
  <2>2. /\ Lowered(pos, targets) \in {pos} \cup targets
        /\ \A t \in targets : Lowered(pos, targets) <= t
    BY <2>1, LoweredLemma
  <2>. QED
    BY <2>1, <2>2 DEF pos, targets
<1>8. cursor'[c][ch] < d.id
  BY <1>3, <1>5, <1>7 DEF NoCursor
<1>. QED
  BY <1>8 DEF c, ch

(* For any number of consumers, channels and rows, whatever else a handoff *)
(* request evicts: the replacement session of a worker that hands its task *)
(* over will be given the latest dispatch of it again.                     *)
THEOREM CursorsHandoffTaskDue == Spec => HandoffMakesTaskDue
<1>. DEFINE Due == \A p \in Payloads :
       p.type = "handoff" /\ p.sender \in Consumers /\ lastId' # lastId /\ SendMessage(p) =>
       \A d \in DispatchesFor(p.sender, p.task_id) :
         (\A k \in DispatchesFor(p.sender, p.task_id) : k.id <= d.id) =>
           cursor'[p.sender][d.channel] < d.id
<1>1. CursorInv /\ [Next]_vars => [Due]_vars
  BY HandoffAims
<1>. QED
  BY <1>1, CursorsInvariant, PTL DEF Spec, HandoffMakesTaskDue

-----------------------------------------------------------------------------
(* Adoption. *)

(* So Max is defined on it. *)
LEMMA FiniteMax ==
  ASSUME NEW S \in SUBSET Int, IsFiniteSet(S), S # {}
  PROVE  Max(S) \in S /\ \A k \in S : k <= Max(S)
<1>1. PICK m \in S : \A k \in S : k <= m
  BY GreatestExists
<1>2. \A k \in S : m >= k
  BY <1>1
<1>3. \A k \in S : Max(S) >= k
  BY <1>2 DEF Max
<1>4. Max(S) \in S
  BY <1>2 DEF Max
<1>. QED
  BY <1>3, <1>4

(* What the copies read for one name on one channel: the largest of        *)
(* finitely many values, attained by the name itself or one it succeeds.   *)
LEMMA MaxOver ==
  ASSUME NEW S, IsFiniteSet(S), NEW c \in S, NEW f \in [S -> Int]
  PROVE  /\ \E k \in S : Max({f[j] : j \in S}) = f[k]
         /\ \A k \in S : f[k] <= Max({f[j] : j \in S})
<1>. DEFINE V == {f[j] : j \in S}
<1>1. V \in SUBSET Int /\ V # {} /\ IsFiniteSet(V)
  BY FiniteImage
<1>2. Max(V) \in V /\ \A k \in V : k <= Max(V)
  BY <1>1, FiniteMax
<1>. QED
  BY <1>2

(* Only finitely many names raise a name's position. *)
LEMMA RaisingFinite ==
  ASSUME NEW from \in [Entries -> Consumers], NEW to, NEW derived \in SUBSET Entries,
         NEW c \in Consumers, NEW ch
  PROVE  /\ {c} \cup Raising(from, to, derived, c, ch) \in SUBSET Consumers
         /\ IsFiniteSet({c} \cup Raising(from, to, derived, c, ch))
<1>. DEFINE R == Raising(from, to, derived, c, ch)
            f == [e \in derived |-> from[e]]
            T == {f[e] : e \in derived}
<1>1. IsFiniteSet(derived)
  BY FS_Subset, AdoptionAssumption
<1>2. IsFiniteSet(T)
  BY <1>1, FiniteImage
<1>3. R \in SUBSET T
  BY DEF Raising
<1>4. IsFiniteSet(R)
  BY <1>2, <1>3, FS_Subset
<1>5. IsFiniteSet(R \cup {c})
  BY <1>4, FS_AddElement
<1>6. {c} \cup R = R \cup {c}
  OBVIOUS
<1>7. {c} \cup R \in SUBSET Consumers
  BY DEF Raising
<1>. QED
  BY <1>5, <1>6, <1>7

(* The copies of one name on one channel keep every part of the invariant: *)
(* the new position is that of one of the names it was taken from, and     *)
(* what that name was shown or gave up has come with it.                   *)
LEMMA CopyLemma ==
  ASSUME CursorInv,
         NEW from \in [Entries -> Consumers], NEW to, NEW derived \in SUBSET Entries,
         CopyCursors(from, to, derived),
         NEW c \in Consumers, NEW ch \in Channels
  PROVE  /\ cursor'[c][ch] \in Nat \cup {NoCursor}
         /\ shown'[c][ch] \in SUBSET (1..lastId)
         /\ passed'[c][ch] \in Nat
         /\ cursor'[c][ch] > lastId => cursor'[c][ch] <= passed'[c][ch]
         /\ \A i \in shown'[c][ch] : i <= cursor'[c][ch]
         /\ \A m \in messages : m.channel = ch /\ m.id <= cursor'[c][ch] =>
              m.id \in shown'[c][ch] \/ m.id <= passed'[c][ch]
<1>. DEFINE S == {c} \cup Raising(from, to, derived, c, ch)
            cur == [k \in S |-> cursor[k][ch]]
            pas == [k \in S |-> passed[k][ch]]
<1>1. S \in SUBSET Consumers /\ IsFiniteSet(S) /\ c \in S
  BY RaisingFinite
<1>2. /\ cursor'[c][ch] = Max({cursor[k][ch] : k \in S})
      /\ shown'[c][ch] = UNION {shown[k][ch] : k \in S}
      /\ passed'[c][ch] = Max({passed[k][ch] : k \in S})
  BY DEF CopyCursors
<1>. HIDE DEF S
<1>3. \A k \in S : /\ cursor[k][ch] \in Nat \cup {NoCursor} /\ passed[k][ch] \in Nat
                   /\ shown[k][ch] \in SUBSET (1..lastId)
                   /\ cursor[k][ch] > lastId => cursor[k][ch] <= passed[k][ch]
                   /\ \A i \in shown[k][ch] : i <= cursor[k][ch]
                   /\ \A m \in messages : m.channel = ch /\ m.id <= cursor[k][ch] =>
                        m.id \in shown[k][ch] \/ m.id <= passed[k][ch]
  BY <1>1, InvAt
<1>4. cur \in [S -> Int] /\ pas \in [S -> Int]
  BY <1>3 DEF NoCursor
<1>5. /\ {cursor[k][ch] : k \in S} = {cur[k] : k \in S}
      /\ {passed[k][ch] : k \in S} = {pas[k] : k \in S}
  OBVIOUS
<1>6. PICK a \in S : cursor'[c][ch] = cursor[a][ch] /\ \A k \in S : cursor[k][ch] <= cursor[a][ch]
  <2>1. /\ \E k \in S : Max({cur[j] : j \in S}) = cur[k]
        /\ \A k \in S : cur[k] <= Max({cur[j] : j \in S})
    BY <1>1, <1>4, MaxOver
  <2>. QED
    BY <2>1, <1>2, <1>5
<1>7. PICK b \in S : passed'[c][ch] = passed[b][ch] /\ \A k \in S : passed[k][ch] <= passed[b][ch]
  <2>1. /\ \E k \in S : Max({pas[j] : j \in S}) = pas[k]
        /\ \A k \in S : pas[k] <= Max({pas[j] : j \in S})
    BY <1>1, <1>4, MaxOver
  <2>. QED
    BY <2>1, <1>2, <1>5
<1>. HIDE DEF cur, pas
<1>8. lastId \in Nat
  BY MaxIdAssumption DEF CursorInv, TypeOK
<1>9. cursor'[c][ch] \in Nat \cup {NoCursor} /\ passed'[c][ch] \in Nat
  BY <1>3, <1>6, <1>7
<1>10. shown'[c][ch] \in SUBSET (1..lastId)
  BY <1>2, <1>3
<1>11. cursor'[c][ch] > lastId => cursor'[c][ch] <= passed'[c][ch]
  <2>1. passed[a][ch] <= passed[b][ch]
    BY <1>7
  <2>2. /\ cursor[a][ch] \in Int /\ passed[a][ch] \in Int /\ passed[b][ch] \in Int
        /\ cursor[a][ch] > lastId => cursor[a][ch] <= passed[a][ch]
    BY <1>3 DEF NoCursor
  <2>. QED
    BY <2>1, <2>2, <1>6, <1>7, <1>8
<1>12. ASSUME NEW i \in shown'[c][ch]
       PROVE  i <= cursor'[c][ch]
  <2>1. PICK k \in S : i \in shown[k][ch]
    BY <1>2
  <2>2. i <= cursor[k][ch] /\ cursor[k][ch] <= cursor[a][ch]
    BY <2>1, <1>3, <1>6
  <2>3. i \in Int /\ cursor[k][ch] \in Int /\ cursor[a][ch] \in Int
    BY <2>1, <1>3, <1>8 DEF NoCursor
  <2>. QED
    BY <2>2, <2>3, <1>6
<1>13. ASSUME NEW m \in messages, m.channel = ch, m.id <= cursor'[c][ch]
       PROVE  m.id \in shown'[c][ch] \/ m.id <= passed'[c][ch]
  <2>1. m.id \in shown[a][ch] \/ m.id <= passed[a][ch]
    BY <1>13, <1>3, <1>6
  <2>2. CASE m.id \in shown[a][ch]
    BY <2>2, <1>2
  <2>3. CASE m.id <= passed[a][ch]
    <3>1. passed[a][ch] <= passed[b][ch] /\ passed[a][ch] \in Nat /\ passed[b][ch] \in Nat
      BY <1>3, <1>7
    <3>2. m.id \in Nat
      BY DEF CursorInv, TypeOK, Row
    <3>. QED
      BY <2>3, <3>1, <3>2, <1>7
  <2>. QED
    BY <2>1, <2>2, <2>3
<1>. QED
  BY <1>9, <1>10, <1>11, <1>12, <1>13

LEMMA CopyPreserves ==
  ASSUME CursorInv,
         NEW from \in [Entries -> Consumers], NEW to, NEW derived \in SUBSET Entries,
         CopyCursors(from, to, derived)
  PROVE  CursorInv'
<1>1. messages' = messages /\ lastId' = lastId /\ lastId \in Nat
  BY MaxIdAssumption DEF CopyCursors, storeVars, CursorInv, TypeOK
<1>2. /\ cursor' = [c \in Consumers |-> [ch \in Channels |-> cursor'[c][ch]]]
      /\ shown'  = [c \in Consumers |-> [ch \in Channels |-> shown'[c][ch]]]
      /\ passed' = [c \in Consumers |-> [ch \in Channels |-> passed'[c][ch]]]
  BY DEF CopyCursors
<1>3. ASSUME NEW c \in Consumers, NEW ch \in Channels
      PROVE  /\ cursor'[c][ch] \in Nat \cup {NoCursor}
             /\ shown'[c][ch] \in SUBSET (1..lastId)
             /\ passed'[c][ch] \in Nat
             /\ cursor'[c][ch] > lastId => cursor'[c][ch] <= passed'[c][ch]
             /\ \A i \in shown'[c][ch] : i <= cursor'[c][ch]
             /\ \A m \in messages : m.channel = ch /\ m.id <= cursor'[c][ch] =>
                  m.id \in shown'[c][ch] \/ m.id <= passed'[c][ch]
  BY CopyLemma
<1>4. TypeOK'
  <2>1. cursor' \in [Consumers -> [Channels -> Nat \cup {NoCursor}]]
    BY <1>2, <1>3
  <2>2. shown' \in [Consumers -> [Channels -> SUBSET Nat]]
    <3>1. \A c \in Consumers, ch \in Channels : shown'[c][ch] \in SUBSET Nat
      BY <1>1, <1>3
    <3>. QED
      BY <1>2, <3>1
  <2>3. passed' \in [Consumers -> [Channels -> Nat]]
    BY <1>2, <1>3
  <2>. QED
    BY <1>1, <2>1, <2>2, <2>3 DEF TypeOK, CursorInv
<1>5. IdsInOrder'
  BY <1>1, <1>3 DEF IdsInOrder, CursorInv
<1>6. CursorWithinReach' /\ NothingShownTwice'
  BY <1>1, <1>3 DEF CursorWithinReach, NothingShownTwice
<1>7. NoSilentSkip'
  <2>1. \A m \in messages : m.channel \in Channels
    BY DEF CursorInv, TypeOK, Row
  <2>. QED
    BY <1>1, <1>3, <2>1 DEF NoSilentSkip
<1>. QED
  BY <1>4, <1>5, <1>6, <1>7 DEF CursorInv

(* The invariant of the cursors holds beside any number of adoptions and   *)
(* reverts.                                                                *)
LEMMA AdoptionInvariant == AdoptionSpec => []CursorInv
<1>1. AdoptionInit => CursorInv
  BY CursorInvInit DEF AdoptionInit
<1>2. CursorInv /\ [AdoptionNext]_adoptionVars => CursorInv'
  <2>. SUFFICES ASSUME CursorInv, [AdoptionNext]_adoptionVars
                PROVE  CursorInv'
    OBVIOUS
  <2>1. CASE Next
    BY <2>1, CursorInvInductive
  <2>2. ASSUME NEW derived \in SUBSET Entries, Adopt(derived)
        PROVE  CursorInv'
    BY <2>2, CopyPreserves, AdoptionAssumption DEF Adopt
  <2>3. ASSUME NEW derived \in SUBSET Entries, Revert(derived)
        PROVE  CursorInv'
    BY <2>3, CopyPreserves, AdoptionAssumption DEF Revert
  <2>4. CASE UNCHANGED adoptionVars
    BY <2>4, CursorInvInductive DEF adoptionVars
  <2>. QED
    BY <2>1, <2>2, <2>3, <2>4 DEF AdoptionNext
<1>. QED
  BY <1>1, <1>2, PTL DEF AdoptionSpec

(* Whichever entries an adoption could derive, and however often it is     *)
(* reverted and repeated between reads under either name, the name a       *)
(* worker reads under never stands beyond a row that neither it nor the    *)
(* name it took its position from was given or gave up.                    *)
THEOREM AdoptionNeverSkips == AdoptionSpec => []NoSilentSkip
<1>1. CursorInv => NoSilentSkip
  BY DEF CursorInv
<1>. QED
  BY <1>1, AdoptionInvariant, PTL

(* ... and a renamed worker is not given again what its other name was     *)
(* given before the copy.                                                  *)
THEOREM AdoptionNeverRepeats == AdoptionSpec => []NothingShownTwice
<1>1. CursorInv => NothingShownTwice
  BY DEF CursorInv
<1>. QED
  BY <1>1, AdoptionInvariant, PTL

-----------------------------------------------------------------------------
(* LongPolls. *)

Unique(msgs) == \A m, k \in msgs : m.id = k.id => m = k

StoreOK(msgs, last) ==
  /\ msgs \in SUBSET Row /\ IsFiniteSet(msgs) /\ last \in Nat
  /\ \A m \in msgs : m.id \in 1..last
  /\ Unique(msgs)

(* A position on one channel, with what was shown and given up there.      *)
Sound(msgs, last, ch, pos, sh, pa) ==
  /\ pos \in Nat \cup {NoCursor} /\ sh \in SUBSET (1..last) /\ pa \in Nat
  /\ pos > last => pos <= pa
  /\ \A i \in sh : i <= pos
  /\ \A m \in msgs : m.channel = ch /\ m.id <= pos => m.id \in sh \/ m.id <= pa

Table(S) == [Consumers -> [Channels -> S]]

States ==
  [cursor : Table(Nat \cup {NoCursor}), shown : Table(SUBSET Nat), passed : Table(Nat),
   polls : [Polls -> Poll \cup {Idle}]]

Good(msgs, last, s) ==
  /\ s \in States
  /\ \A c \in Consumers, ch \in Channels :
       Sound(msgs, last, ch, s.cursor[c][ch], s.shown[c][ch], s.passed[c][ch])

Missed(msgs, q) ==
  \E m \in msgs : /\ m.channel = q.ch /\ (q.filter = NoFilter \/ m.type = q.filter)
                  /\ m.id > q.since /\ ~(q.own /\ m.sender = q.c)

(* Requests on channels that are not still to be woken sleep through no row. *)
Awake(msgs, s, pending) ==
  \A p \in Polls : s.polls[p] # Idle /\ s.polls[p].ch \notin pending => ~Missed(msgs, s.polls[p])

PollsInv == CursorInv /\ PollsTypeOK /\ Unique(messages) /\ NoMissedWake

----------------------------------------------------------------------------
(* What a poll looks at. *)

LEMMA PollType ==
  ASSUME NEW q \in Poll
  PROVE  /\ q # Idle /\ q.kind \in {"wait", "inbox"} /\ q.c \in Consumers /\ q.ch \in Channels
         /\ q.since \in Nat /\ q.lim \in Nat \ {0} /\ q.own \in BOOLEAN
<1>1. q.kind \in {"wait", "inbox"}
  BY DEF Poll
<1>2. q # Idle
  BY <1>1 DEF Idle
<1>. QED
  BY <1>1, <1>2, ReadsAssumption DEF Poll

LEMMA LeastRow ==
  ASSUME NEW R, R # {}, \A m \in R : m.id \in Nat
  PROVE  \E m \in R : \A k \in R : m.id <= k.id
<1>. DEFINE I == {m.id : m \in R}
<1>1. I \in SUBSET Nat /\ I # {}
  OBVIOUS
<1>2. PICK n \in I : \A k \in I : n <= k
  BY <1>1, MinNat
<1>3. PICK m \in R : m.id = n
  BY <1>2
<1>4. \A k \in R : k.id \in I
  OBVIOUS
<1>. QED
  BY <1>2, <1>3, <1>4

(* What is seen is finite, on the request's channel and above its start,   *)
(* and has no gaps.                                                        *)
LEMMA SeenIsPrefix ==
  ASSUME NEW msgs, NEW last, StoreOK(msgs, last), NEW q \in Poll, NEW m \in Seen(msgs, q)
  PROVE  /\ m \in msgs /\ m.channel = q.ch /\ m.id > q.since /\ m.id \in 1..last
         /\ q.filter = NoFilter \/ m.type = q.filter
         /\ \A k \in msgs : /\ k.channel = q.ch /\ (q.filter = NoFilter \/ k.type = q.filter)
                            /\ k.id > q.since /\ k.id <= m.id
                            => k \in Seen(msgs, q)
<1>. DEFINE after == {x \in msgs : /\ x.channel = q.ch /\ x.id > q.since
                                   /\ q.filter = NoFilter \/ x.type = q.filter}
            upto(x) == {y \in after : y.id <= x.id}
<1>1. m \in after /\ after \in SUBSET msgs
  BY DEF Seen
<1>2. m.id \in 1..last
  BY <1>1 DEF StoreOK
<1>3. ASSUME NEW k \in after, k.id <= m.id
      PROVE  k \in Seen(msgs, q)
  <2>1. CASE q.kind = "inbox"
    BY <2>1 DEF Seen
  <2>2. CASE q.kind # "inbox"
    <3>1. IsFiniteSet(upto(m)) /\ IsFiniteSet(upto(k))
      BY <1>1, FS_Subset DEF StoreOK
    <3>2. upto(k) \in SUBSET upto(m)
      <4>1. \A y \in after : y.id \in Nat
        BY <1>1 DEF StoreOK, Row
      <4>. QED
        BY <4>1, <1>1, <1>3
    <3>3. Cardinality(upto(k)) <= Cardinality(upto(m))
      BY <3>1, <3>2, FS_Subset
    <3>4. Cardinality(upto(m)) <= q.lim /\ Cardinality(upto(m)) \in Nat /\ Cardinality(upto(k)) \in Nat
      BY <3>1, <2>2, FS_CardinalityType DEF Seen
    <3>5. Cardinality(upto(k)) <= q.lim
      BY <3>3, <3>4, PollType
    <3>. QED
      BY <2>2, <3>5 DEF Seen
  <2>. QED
    BY <2>1, <2>2
<1>. QED
  BY <1>1, <1>2, <1>3

(* A request that is not answered has missed nothing: an empty page means  *)
(* that nothing is there, and a page that is not full is all there is.     *)
LEMMA UnansweredMissesNothing ==
  ASSUME NEW msgs, NEW last, StoreOK(msgs, last), NEW q \in Poll, ~Answers(msgs, q)
  PROVE  ~Missed(msgs, q)
<1>. DEFINE after == {x \in msgs : /\ x.channel = q.ch /\ x.id > q.since
                                   /\ q.filter = NoFilter \/ x.type = q.filter}
            upto(x) == {y \in after : y.id <= x.id}
            seen == Seen(msgs, q)
<1>1. \A y \in after : y.id \in Nat /\ y \in msgs
  BY DEF StoreOK, Row
<1>2. seen \in SUBSET after
  BY DEF Seen
<1>3. IsFiniteSet(after)
  BY FS_Subset DEF StoreOK
<1>4. (seen = {} \/ (q.kind = "wait" => Cardinality(seen) < q.lim)) => seen = after
  <2>. SUFFICES ASSUME after \ seen # {},
                       seen = {} \/ (q.kind = "wait" => Cardinality(seen) < q.lim)
                PROVE  FALSE
    BY <1>2
  <2>1. q.kind = "wait"
    BY PollType DEF Seen
  <2>2. IsFiniteSet(seen) /\ Cardinality(seen) \in Nat /\ q.lim \in Nat \ {0}
    BY <1>2, <1>3, FS_Subset, FS_CardinalityType, PollType
  <2>3. Cardinality(seen) < q.lim
    BY <2>1, <2>2, FS_EmptySet
  <2>. DEFINE rest == after \ seen
  <2>4. \A x \in rest : x.id \in Nat
    BY <1>1
  <2>5. PICK m \in rest : \A k \in rest : m.id <= k.id
    <3>. HIDE DEF rest
    <3>. QED
      BY <2>4, LeastRow DEF rest
  <2>6. upto(m) \in SUBSET (seen \cup {m})
    <3>. SUFFICES ASSUME NEW y \in after, y.id <= m.id, y \notin seen
                  PROVE  y = m
      OBVIOUS
    <3>1. y.id = m.id
      BY <1>1, <2>5
    <3>. QED
      BY <1>1, <3>1 DEF StoreOK, Unique
  <2>7. IsFiniteSet(seen \cup {m}) /\ Cardinality(seen \cup {m}) = Cardinality(seen) + 1
    BY <2>2, FS_AddElement
  <2>8. Cardinality(upto(m)) <= Cardinality(seen) + 1 /\ Cardinality(upto(m)) \in Nat
    BY <2>6, <2>7, FS_Subset, FS_CardinalityType
  <2>9. Cardinality(upto(m)) <= q.lim
    BY <2>2, <2>3, <2>8
  <2>10. m \in seen
    BY <2>1, <2>9 DEF Seen
  <2>. QED
    BY <2>10
<1>5. seen = after /\ (seen = {} \/ (q.own /\ \A m \in seen : m.sender = q.c))
  BY <1>4 DEF Answers, OnlyOwn
<1>. QED
  BY <1>5 DEF Missed

----------------------------------------------------------------------------
(* Positions. *)

(* A delivery to the requests qs, for one consumer on one channel.         *)
LEMMA DeliveryIsSound ==
  ASSUME NEW msgs, NEW last, StoreOK(msgs, last), NEW qs \in SUBSET Poll, IsFiniteSet(qs),
         NEW c, NEW ch, NEW pos, NEW sh, NEW pa,
         Sound(msgs, last, ch, pos, sh, pa)
  PROVE  Sound(msgs, last, ch, Max({pos} \cup Given(msgs, qs, c, ch)),
               sh \cup Given(msgs, qs, c, ch), Max({pa} \cup Starts(qs, c, ch, pos)))
<1>. DEFINE G  == Given(msgs, qs, c, ch)
            St == Starts(qs, c, ch, pos)
            P  == {pos} \cup G
            A  == {pa} \cup St
            mine == {k \in qs : Moves(k) /\ k.c = c /\ k.ch = ch}
<1>1. /\ pos \in Nat \cup {NoCursor} /\ pos \in Int /\ sh \in SUBSET (1..last) /\ pa \in Nat
      /\ pos > last => pos <= pa
      /\ \A i \in sh : i <= pos
      /\ \A m \in msgs : m.channel = ch /\ m.id <= pos => m.id \in sh \/ m.id <= pa
      /\ last \in Nat
  BY DEF Sound, StoreOK, NoCursor
<1>2. \A n \in G : n \in 1..last
  BY SeenIsPrefix DEF Given, Ids
<1>3. Max(P) \in P /\ \A k \in P : Max(P) >= k
  <2>. DEFINE b == IF pos > last THEN pos ELSE last
  <2>1. P \in SUBSET Int /\ P # {} /\ b \in Int /\ \A k \in P : k <= b
    <3>. HIDE DEF G
    <3>. QED
      BY <1>1, <1>2
  <2>. HIDE DEF P, b
  <2>. QED
    BY <2>1, MaxExists
<1>4. Max(A) \in A /\ \A k \in A : k <= Max(A)
  <2>1. \A q \in qs : q.since \in Nat
    BY PollType
  <2>2. A \in SUBSET Int /\ A # {}
    BY <1>1, <2>1 DEF Starts
  <2>. DEFINE f == [q \in qs |-> q.since]
              I == {f[q] : q \in qs}
  <2>3. IsFiniteSet(I)
    BY FiniteImage
  <2>4. St \in SUBSET I
    BY DEF Starts
  <2>5. IsFiniteSet(St)
    BY <2>3, <2>4, FS_Subset
  <2>6. IsFiniteSet(St \cup {pa})
    BY <2>5, FS_AddElement
  <2>7. A = St \cup {pa}
    OBVIOUS
  <2>. HIDE DEF A
  <2>. QED
    BY <2>2, <2>6, <2>7, FiniteMax
<1>5. \A n \in A : n \in Nat
  BY <1>1, PollType DEF Starts
<1>6. /\ Max(P) \in Nat \cup {NoCursor} /\ Max(A) \in Nat /\ Max(A) >= pa /\ Max(P) >= pos
      /\ sh \cup G \in SUBSET (1..last)
      /\ Max(P) > last => Max(P) <= Max(A)
      /\ \A i \in sh \cup G : i <= Max(P)
  <2>. HIDE DEF G, St
  <2>1. \A n \in P : n \in Nat \cup {NoCursor} /\ n \in Int
    BY <1>1, <1>2
  <2>2. Max(A) >= pa /\ Max(P) >= pos /\ Max(A) \in Nat /\ Max(P) \in P
    BY <1>1, <1>3, <1>4, <1>5
  <2>3. Max(P) > last => Max(P) = pos
    BY <1>1, <1>2, <2>2
  <2>. HIDE DEF A
  <2>4. Max(P) > last => Max(P) <= Max(A)
    BY <1>1, <2>2, <2>3
  <2>5. \A i \in sh \cup G : i <= Max(P)
    <3>1. \A i \in G : i \in P /\ i \in Int
      BY <1>2
    <3>. HIDE DEF P
    <3>. QED
      BY <1>1, <1>3, <2>1, <2>2, <3>1
  <2>. QED
    BY <1>1, <1>2, <2>1, <2>2, <2>4, <2>5
<1>7. ASSUME NEW m \in msgs, m.channel = ch, m.id <= Max(P)
      PROVE  m.id \in sh \cup G \/ m.id <= Max(A)
  <2>1. m.id \in Nat /\ m.id \in 1..last
    BY DEF StoreOK, Row
  <2>2. CASE m.id <= pos
    <3>. HIDE DEF G, A
    <3>. QED
      BY <1>1, <1>6, <1>7, <2>1, <2>2
  <2>3. CASE m.id > pos
    <3>1. Max(P) \in G
      <4>. HIDE DEF G
      <4>. QED
        BY <1>1, <1>3, <1>7, <2>1, <2>3
    <3>2. PICK q \in mine : Max(P) \in Ids(Seen(msgs, q))
      BY <3>1 DEF Given
    <3>3. PICK x \in Seen(msgs, q) : x.id = Max(P)
      BY <3>2 DEF Ids
    <3>4. q \in Poll /\ q.filter = NoFilter /\ q.ch = ch /\ q.since \in Nat
      BY <3>2, PollType DEF Moves
    <3>5. CASE m.id > q.since
      <4>1. m \in Seen(msgs, q)
        BY <1>7, <3>3, <3>4, <3>5, SeenIsPrefix
      <4>2. m.id \in G
        BY <3>2, <4>1 DEF Given, Ids
      <4>. QED
        BY <4>2
    <3>6. CASE m.id <= q.since
      <4>1. pos < q.since
        BY <1>1, <2>1, <2>3, <3>4, <3>6
      <4>2. q.since \in A
        BY <3>2, <4>1 DEF Starts
      <4>3. q.since <= Max(A)
        BY <1>4, <4>2
      <4>. HIDE DEF A
      <4>. QED
        BY <1>6, <2>1, <3>4, <3>6, <4>3
    <3>. QED
      BY <2>1, <3>4, <3>5, <3>6
  <2>. QED
    BY <1>1, <2>1, <2>2, <2>3
<1>. QED
  BY <1>6, <1>7 DEF Sound

(* A rewind, for one consumer on one channel.                              *)
LEMMA RewindIsSound ==
  ASSUME NEW msgs, NEW last, StoreOK(msgs, last), NEW T \in SUBSET Nat,
         NEW ch, NEW pos, NEW sh, NEW pa,
         Sound(msgs, last, ch, pos, sh, pa)
  PROVE  Sound(msgs, last, ch, Lowered(pos, T), {i \in sh : \A t \in T : i <= t}, Lowered(pa, T))
<1>1. /\ pos \in Nat \cup {NoCursor} /\ sh \in SUBSET (1..last) /\ pa \in Nat
      /\ pos > last => pos <= pa
      /\ \A i \in sh : i <= pos
      /\ \A m \in msgs : m.channel = ch /\ m.id <= pos => m.id \in sh \/ m.id <= pa
      /\ last \in Nat
  BY DEF Sound, StoreOK
<1>2. /\ Lowered(pos, T) \in {pos} \cup T /\ Lowered(pos, T) <= pos
      /\ \A t \in T : Lowered(pos, T) <= t
  BY <1>1, LoweredLemma
<1>3. Lowered(pa, T) \in {pa} \cup T
  BY <1>1, LoweredLemma
<1>4. pos \in Int /\ Lowered(pos, T) \in Int /\ Lowered(pos, T) \in Nat \cup {NoCursor} /\ Lowered(pa, T) \in Nat
  <2>1. Lowered(pos, T) \in Nat \cup {NoCursor} /\ Lowered(pa, T) \in Nat
    BY <1>1, <1>2, <1>3
  <2>. QED
    BY <1>1, <2>1 DEF NoCursor
<1>5. Lowered(pos, T) > last => Lowered(pos, T) <= Lowered(pa, T)
  BY <1>1, <1>2, <1>3, <1>4
<1>6. \A i \in {j \in sh : \A t \in T : j <= t} : i <= Lowered(pos, T)
  BY <1>1, <1>2
<1>7. ASSUME NEW m \in msgs, m.channel = ch, m.id <= Lowered(pos, T)
      PROVE  m.id \in {j \in sh : \A t \in T : j <= t} \/ m.id <= Lowered(pa, T)
  <2>1. m.id \in Nat /\ m.id <= pos /\ \A t \in T : m.id <= t
    <3>1. m.id \in Nat
      BY DEF StoreOK, Row
    <3>. QED
      BY <1>2, <1>4, <1>7, <3>1
  <2>. QED
    BY <1>1, <1>3, <1>7, <2>1
<1>. QED
  BY <1>1, <1>4, <1>5, <1>6, <1>7 DEF Sound

LEMMA SettledIsGood ==
  ASSUME NEW msgs, NEW last, StoreOK(msgs, last), NEW qs \in SUBSET Poll, IsFiniteSet(qs),
         NEW s, Good(msgs, last, s)
  PROVE  Good(msgs, last, Settled(msgs, qs, s)) /\ Settled(msgs, qs, s).polls = s.polls
<1>. DEFINE t == Settled(msgs, qs, s)
            pos(c, ch) == Max({s.cursor[c][ch]} \cup Given(msgs, qs, c, ch))
            sh(c, ch)  == s.shown[c][ch] \cup Given(msgs, qs, c, ch)
            pa(c, ch)  == Max({s.passed[c][ch]} \cup Starts(qs, c, ch, s.cursor[c][ch]))
<1>1. s \in States
  BY DEF Good
<1>2. /\ t.cursor = [c \in Consumers |-> [ch \in Channels |-> pos(c, ch)]]
      /\ t.shown  = [c \in Consumers |-> [ch \in Channels |-> sh(c, ch)]]
      /\ t.passed = [c \in Consumers |-> [ch \in Channels |-> pa(c, ch)]]
      /\ t.polls  = s.polls
  BY <1>1 DEF Settled, States
<1>3. t = [s EXCEPT !.cursor = [c \in Consumers |-> [ch \in Channels |-> pos(c, ch)]],
                    !.shown  = [c \in Consumers |-> [ch \in Channels |-> sh(c, ch)]],
                    !.passed = [c \in Consumers |-> [ch \in Channels |-> pa(c, ch)]]]
  BY DEF Settled
<1>4. ASSUME NEW c \in Consumers, NEW ch \in Channels
      PROVE  Sound(msgs, last, ch, pos(c, ch), sh(c, ch), pa(c, ch))
  <2>1. Sound(msgs, last, ch, s.cursor[c][ch], s.shown[c][ch], s.passed[c][ch])
    BY DEF Good
  <2>. QED
    BY <2>1, DeliveryIsSound
<1>. HIDE DEF t, pos, sh, pa
<1>5. ASSUME NEW c \in Consumers, NEW ch \in Channels
      PROVE  pos(c, ch) \in Nat \cup {NoCursor} /\ sh(c, ch) \in SUBSET Nat /\ pa(c, ch) \in Nat
  <2>1. 1..last \in SUBSET Nat
    BY DEF StoreOK
  <2>. QED
    BY <1>4, <2>1 DEF Sound
<1>6. t.cursor \in Table(Nat \cup {NoCursor}) /\ t.shown \in Table(SUBSET Nat) /\ t.passed \in Table(Nat)
  BY <1>2, <1>5 DEF Table
<1>7. t \in States
  BY <1>1, <1>2, <1>3, <1>6 DEF States
<1>8. ASSUME NEW c \in Consumers, NEW ch \in Channels
      PROVE  Sound(msgs, last, ch, t.cursor[c][ch], t.shown[c][ch], t.passed[c][ch])
  BY <1>2, <1>4
<1>. QED
  BY <1>2, <1>7, <1>8 DEF Good, t

LEMMA RewoundIsGood ==
  ASSUME NEW msgs, NEW last, StoreOK(msgs, last), NEW row, NEW s, Good(msgs, last, s)
  PROVE  Good(msgs, last, Rewound(msgs, row, s)) /\ Rewound(msgs, row, s).polls = s.polls
<1>. DEFINE t == Rewound(msgs, row, s)
            T(c, ch)   == Targets(msgs, row, s, c, ch)
            pos(c, ch) == Lowered(s.cursor[c][ch], T(c, ch))
            sh(c, ch)  == {i \in s.shown[c][ch] : \A x \in T(c, ch) : i <= x}
            pa(c, ch)  == Lowered(s.passed[c][ch], T(c, ch))
<1>1. s \in States
  BY DEF Good
<1>2. /\ t.cursor = [c \in Consumers |-> [ch \in Channels |-> pos(c, ch)]]
      /\ t.shown  = [c \in Consumers |-> [ch \in Channels |-> sh(c, ch)]]
      /\ t.passed = [c \in Consumers |-> [ch \in Channels |-> pa(c, ch)]]
      /\ t.polls  = s.polls
  BY <1>1 DEF Rewound, States, Lowered
<1>3. t = [s EXCEPT !.cursor = [c \in Consumers |-> [ch \in Channels |-> pos(c, ch)]],
                    !.shown  = [c \in Consumers |-> [ch \in Channels |-> sh(c, ch)]],
                    !.passed = [c \in Consumers |-> [ch \in Channels |-> pa(c, ch)]]]
  BY DEF Rewound, Lowered
<1>4. ASSUME NEW c \in Consumers, NEW ch \in Channels
      PROVE  Sound(msgs, last, ch, pos(c, ch), sh(c, ch), pa(c, ch))
  <2>1. Sound(msgs, last, ch, s.cursor[c][ch], s.shown[c][ch], s.passed[c][ch])
    BY DEF Good
  <2>2. \A m \in msgs : m.id - 1 \in Nat
    BY DEF StoreOK
  <2>3. T(c, ch) \in SUBSET Nat
    BY <2>2 DEF Targets
  <2>. HIDE DEF T
  <2>. QED
    BY <2>1, <2>3, RewindIsSound
<1>. HIDE DEF t, pos, sh, pa
<1>5. ASSUME NEW c \in Consumers, NEW ch \in Channels
      PROVE  pos(c, ch) \in Nat \cup {NoCursor} /\ sh(c, ch) \in SUBSET Nat /\ pa(c, ch) \in Nat
  <2>1. 1..last \in SUBSET Nat
    BY DEF StoreOK
  <2>. QED
    BY <1>4, <2>1 DEF Sound
<1>6. t.cursor \in Table(Nat \cup {NoCursor}) /\ t.shown \in Table(SUBSET Nat) /\ t.passed \in Table(Nat)
  BY <1>2, <1>5 DEF Table
<1>7. t \in States
  BY <1>1, <1>2, <1>3, <1>6 DEF States
<1>8. ASSUME NEW c \in Consumers, NEW ch \in Channels
      PROVE  Sound(msgs, last, ch, t.cursor[c][ch], t.shown[c][ch], t.passed[c][ch])
  BY <1>2, <1>4
<1>. QED
  BY <1>2, <1>7, <1>8 DEF Good, t

(* After the row is announced, requests on its channel that are still open *)
(* have missed nothing; no request is opened by it.                        *)
LEMMA EmittedIsGood ==
  ASSUME NEW msgs, NEW last, StoreOK(msgs, last), NEW row, NEW s, Good(msgs, last, s),
         NEW pending, Awake(msgs, s, pending)
  PROVE  /\ Good(msgs, last, Emitted(msgs, row, s))
         /\ Awake(msgs, Emitted(msgs, row, s), pending \ {row.channel})
<1>. DEFINE woken == {k \in Polls : /\ s.polls[k] # Idle /\ s.polls[k].ch = row.channel
                                    /\ Answers(msgs, s.polls[k])}
            qs == {s.polls[k] : k \in woken}
            d  == Settled(msgs, qs, s)
            t  == Emitted(msgs, row, s)
            open == [k \in Polls |-> IF k \in woken THEN Idle ELSE s.polls[k]]
<1>1. s.polls \in [Polls -> Poll \cup {Idle}]
  BY DEF Good, States
<1>2. qs \in SUBSET Poll
  BY <1>1
<1>3. IsFiniteSet(qs)
  <2>. DEFINE f == [k \in woken |-> s.polls[k]]
              I == {f[k] : k \in woken}
  <2>1. IsFiniteSet(woken)
    BY PollsAssumption, FS_Subset
  <2>2. IsFiniteSet(I)
    <3>. HIDE DEF woken
    <3>. QED
      BY <2>1, FiniteImage
  <2>3. I = qs
    OBVIOUS
  <2>. QED
    BY <2>2, <2>3
<1>4. Good(msgs, last, d) /\ d.polls = s.polls
  <2>. HIDE DEF qs
  <2>. QED
    BY <1>2, <1>3, SettledIsGood
<1>5. t = [d EXCEPT !.polls = open]
  BY <1>4 DEF Emitted
<1>6. open \in [Polls -> Poll \cup {Idle}]
  BY <1>1
<1>. HIDE DEF open, d, t
<1>7. d \in States
  BY <1>4 DEF Good
<1>8. t \in States /\ t.cursor = d.cursor /\ t.shown = d.shown /\ t.passed = d.passed /\ t.polls = open
  BY <1>5, <1>6, <1>7 DEF States
<1>9. Good(msgs, last, t)
  BY <1>4, <1>8 DEF Good
<1>10. Awake(msgs, t, pending \ {row.channel})
  <2>. SUFFICES ASSUME NEW p \in Polls, open[p] # Idle, open[p].ch \notin pending \ {row.channel}
                PROVE  ~Missed(msgs, open[p])
    BY <1>8 DEF Awake
  <2>1. open[p] = s.polls[p] /\ p \notin woken /\ s.polls[p] \in Poll
    BY <1>1 DEF open
  <2>2. CASE s.polls[p].ch = row.channel
    <3>1. ~Answers(msgs, s.polls[p])
      BY <2>1, <2>2
    <3>. QED
      BY <2>1, <3>1, UnansweredMissesNothing
  <2>3. CASE s.polls[p].ch # row.channel
    BY <2>1, <2>3 DEF Awake
  <2>. QED
    BY <2>2, <2>3
<1>. QED
  BY <1>9, <1>10 DEF t

----------------------------------------------------------------------------
(* From the variables to such a state and back. *)

LEMMA NowIsGood ==
  ASSUME PollsInv
  PROVE  StoreOK(messages, lastId) /\ Good(messages, lastId, Now) /\ Awake(messages, Now, {})
<1>1. StoreOK(messages, lastId)
  BY MaxIdAssumption DEF PollsInv, CursorInv, TypeOK, IdsInOrder, StoreOK
<1>2. Now \in States
  BY DEF PollsInv, PollsTypeOK, TypeOK, Now, States, Table
<1>3. ASSUME NEW c \in Consumers, NEW ch \in Channels
      PROVE  Sound(messages, lastId, ch, cursor[c][ch], shown[c][ch], passed[c][ch])
  BY InvAt DEF PollsInv, Sound
<1>4. Good(messages, lastId, Now)
  BY <1>2, <1>3 DEF Good, Now
<1>5. Awake(messages, Now, {})
  BY DEF PollsInv, NoMissedWake, Awake, Missed, Now, Matching
<1>. QED
  BY <1>1, <1>4, <1>5

LEMMA BecomesInv ==
  ASSUME NEW s, Becomes(s), StoreOK(messages', lastId'), lastId' \in 0..MaxId,
         Good(messages', lastId', s), Awake(messages', s, {})
  PROVE  PollsInv'
<1>1. /\ cursor' = s.cursor /\ shown' = s.shown /\ passed' = s.passed /\ polls' = s.polls
      /\ s \in States
  BY DEF Becomes, Good
<1>2. TypeOK' /\ PollsTypeOK'
  BY <1>1 DEF TypeOK, PollsTypeOK, States, Table, StoreOK
<1>3. \A c \in Consumers, ch \in Channels :
        Sound(messages', lastId', ch, cursor'[c][ch], shown'[c][ch], passed'[c][ch])
  BY <1>1 DEF Good
<1>4. IdsInOrder'
  BY <1>3 DEF IdsInOrder, StoreOK, Sound
<1>5. CursorWithinReach' /\ NothingShownTwice'
  BY <1>3 DEF CursorWithinReach, NothingShownTwice, Sound
<1>6. NoSilentSkip'
  <2>. SUFFICES ASSUME NEW c \in Consumers, NEW m \in messages', m.id <= cursor'[c][m.channel]
                PROVE  m.id \in shown'[c][m.channel] \/ m.id <= passed'[c][m.channel]
    BY DEF NoSilentSkip
  <2>1. m.channel \in Channels
    BY DEF StoreOK, Row
  <2>. QED
    BY <1>3, <2>1 DEF Sound
<1>7. Unique(messages)'
  BY DEF StoreOK, Unique
<1>8. NoMissedWake'
  BY <1>1 DEF NoMissedWake, Awake, Missed, Matching
<1>. QED
  BY <1>2, <1>4, <1>5, <1>6, <1>7, <1>8 DEF PollsInv, CursorInv

(* New rows, under fresh ids: what is stored is in order, positions stay   *)
(* sound, and only requests on the new rows' channels may have to be woken.*)
LEMMA StoredIsGood ==
  ASSUME PollsInv, NEW ps \in Seq(Payloads), NEW gone, Stored(ps, gone)
  PROVE  /\ StoreOK(messages', lastId') /\ lastId' \in 0..MaxId
         /\ Good(messages', lastId', Now)
         /\ Awake(messages', Now, {m.channel : m \in NewRows(ps)})
<1>. DEFINE new == NewRows(ps)
<1>1. /\ StoreOK(messages, lastId) /\ Good(messages, lastId, Now) /\ Awake(messages, Now, {})
      /\ CursorInv
  BY NowIsGood DEF PollsInv
<1>2. Insert(ps) /\ messages' = (messages \ gone) \cup new
  BY DEF Stored
<1>3. /\ IsFiniteSet(new) /\ new \in SUBSET Row
      /\ \A m \in new : m.id \in lastId + 1 .. lastId'
      /\ lastId' \in 0..MaxId /\ lastId' >= lastId /\ lastId \in Nat /\ lastId' \in Nat
  BY <1>1, <1>2, NewRowsLemma, MaxIdAssumption DEF StoreOK
<1>4. Unique(new)
  BY <1>1 DEF NewRows, RowOf, Unique, StoreOK
<1>. HIDE DEF new
<1>5. IsFiniteSet(messages')
  <2>1. IsFiniteSet(messages \ gone)
    BY <1>1, FS_Subset DEF StoreOK
  <2>. QED
    BY <1>2, <1>3, <2>1, FS_Union
<1>6. \A m \in messages' : m.id \in 1..lastId'
  <2>1. \A m \in messages : m.id \in 1..lastId
    BY <1>1 DEF StoreOK
  <2>. QED
    BY <1>2, <1>3, <2>1
<1>7. Unique(messages')
  <2>1. \A m \in messages, k \in new : m.id # k.id
    BY <1>1, <1>3 DEF StoreOK
  <2>2. Unique(messages)
    BY <1>1 DEF StoreOK
  <2>. QED
    BY <1>2, <1>4, <2>1, <2>2 DEF Unique
<1>8. StoreOK(messages', lastId')
  <2>1. messages' \in SUBSET Row
    BY <1>1, <1>2, <1>3 DEF StoreOK
  <2>. QED
    BY <1>3, <1>5, <1>6, <1>7, <2>1 DEF StoreOK
<1>9. ASSUME NEW c \in Consumers, NEW ch \in Channels
      PROVE  Sound(messages', lastId', ch, cursor[c][ch], shown[c][ch], passed[c][ch])
  <2>1. Sound(messages, lastId, ch, cursor[c][ch], shown[c][ch], passed[c][ch])
    BY <1>1 DEF Good, Now
  <2>2. 1..lastId \in SUBSET (1..lastId')
    BY <1>3
  <2>3. cursor[c][ch] \in Int
    BY <2>1 DEF Sound, NoCursor
  <2>4. \A m \in new : m.id <= cursor[c][ch] => m.id <= passed[c][ch]
    BY <1>3, <2>1, <2>3 DEF Sound
  <2>5. cursor[c][ch] > lastId' => cursor[c][ch] <= passed[c][ch]
    BY <1>3, <2>1, <2>3 DEF Sound
  <2>. QED
    BY <1>2, <2>1, <2>2, <2>4, <2>5 DEF Sound
<1>10. Good(messages', lastId', Now)
  BY <1>1, <1>9 DEF Good, Now
<1>11. Awake(messages', Now, {m.channel : m \in new})
  BY <1>1, <1>2 DEF Awake, Missed
<1>. QED
  BY <1>3, <1>8, <1>10, <1>11 DEF new

----------------------------------------------------------------------------
(* The steps. *)

LEMMA SendStep ==
  ASSUME PollsInv, NEW p \in Payloads, SendAndWake(p) \/ HeartbeatAndWake(p)
  PROVE  PollsInv'
<1>. DEFINE ps == <<p>>
            row == Nth(ps, 1)
<1>1. ps \in Seq(Payloads) /\ NewRows(ps) = {row}
  BY DEF NewRows, Nth
<1>2. \E gone : Stored(ps, gone)
  BY DEF SendAndWake, HeartbeatAndWake
<1>3. /\ StoreOK(messages', lastId') /\ lastId' \in 0..MaxId
      /\ Good(messages', lastId', Now)
      /\ Awake(messages', Now, {row.channel})
  <2>1. {m.channel : m \in NewRows(ps)} = {row.channel}
    BY <1>1
  <2>. QED
    BY <1>1, <1>2, <2>1, StoredIsGood
<1>4. PICK s : /\ s = Now \/ s = Rewound(messages', row, Now)
               /\ Becomes(Emitted(messages', row, s))
  BY DEF SendAndWake, HeartbeatAndWake
<1>. HIDE DEF row
<1>5. Good(messages', lastId', s) /\ Awake(messages', s, {row.channel})
  <2>1. CASE s = Now
    BY <1>3, <2>1
  <2>2. CASE s = Rewound(messages', row, Now)
    BY <1>3, <2>2, RewoundIsGood DEF Awake
  <2>. QED
    BY <1>4, <2>1, <2>2
<1>6. /\ Good(messages', lastId', Emitted(messages', row, s))
      /\ Awake(messages', Emitted(messages', row, s), {row.channel} \ {row.channel})
  BY <1>3, <1>5, EmittedIsGood
<1>7. {row.channel} \ {row.channel} = {}
  OBVIOUS
<1>. QED
  BY <1>3, <1>4, <1>6, <1>7, BecomesInv

LEMMA BatchStep ==
  ASSUME PollsInv, NEW p \in Payloads, NEW q \in Payloads, SendBatchAndWake(<<p, q>>)
  PROVE  PollsInv'
<1>. DEFINE ps == <<p, q>>
            a == Nth(ps, 1)
            b == Nth(ps, 2)
            s1 == Rewound(messages', a, Now)
            e1 == Emitted(messages', a, s1)
            s2 == Rewound(messages', b, e1)
            e2 == Emitted(messages', b, s2)
            both == {a.channel, b.channel}
<1>1. ps \in Seq(Payloads) /\ NewRows(ps) = {a, b}
  <2>1. Len(ps) = 2 /\ 1..2 = {1, 2}
    OBVIOUS
  <2>. QED
    BY <2>1 DEF NewRows, Nth
<1>2. Stored(ps, {}) /\ Becomes(e2)
  BY DEF SendBatchAndWake
<1>3. /\ StoreOK(messages', lastId') /\ lastId' \in 0..MaxId
      /\ Good(messages', lastId', Now) /\ Awake(messages', Now, both)
  <2>1. {m.channel : m \in NewRows(ps)} = both
    BY <1>1
  <2>. QED
    BY <1>1, <1>2, <2>1, StoredIsGood
<1>. HIDE DEF a, b
<1>4. Good(messages', lastId', s1) /\ Awake(messages', s1, both)
  BY <1>3, RewoundIsGood DEF Awake
<1>. HIDE DEF s1
<1>5. Good(messages', lastId', e1) /\ Awake(messages', e1, both \ {a.channel})
  BY <1>3, <1>4, EmittedIsGood
<1>. HIDE DEF e1
<1>6. Good(messages', lastId', s2) /\ Awake(messages', s2, both \ {a.channel})
  BY <1>3, <1>5, RewoundIsGood DEF Awake
<1>. HIDE DEF s2
<1>7. Good(messages', lastId', e2) /\ Awake(messages', e2, (both \ {a.channel}) \ {b.channel})
  BY <1>3, <1>6, EmittedIsGood
<1>8. (both \ {a.channel}) \ {b.channel} = {}
  OBVIOUS
<1>. HIDE DEF e2
<1>. QED
  BY <1>2, <1>3, <1>7, <1>8, BecomesInv

LEMMA OpenStep ==
  ASSUME PollsInv, NEW p \in Polls, NEW q \in Poll, Open(p, q)
  PROVE  PollsInv'
<1>1. /\ StoreOK(messages, lastId) /\ Good(messages, lastId, Now) /\ Awake(messages, Now, {})
      /\ UNCHANGED <<messages, lastId>> /\ lastId \in 0..MaxId
  BY NowIsGood DEF Open, storeVars, PollsInv, CursorInv, TypeOK
<1>2. CASE Answers(messages, q)
  <2>1. Becomes(Settled(messages, {q}, Now))
    BY <1>2 DEF Open
  <2>2. {q} \in SUBSET Poll /\ IsFiniteSet({q})
    BY FS_Singleton
  <2>3. Good(messages, lastId, Settled(messages, {q}, Now)) /\ Settled(messages, {q}, Now).polls = Now.polls
    BY <1>1, <2>2, SettledIsGood
  <2>4. Awake(messages, Settled(messages, {q}, Now), {})
    BY <1>1, <2>3 DEF Awake
  <2>. QED
    BY <1>1, <2>1, <2>3, <2>4, BecomesInv
<1>3. CASE ~Answers(messages, q)
  <2>. DEFINE s == [Now EXCEPT !.polls = [polls EXCEPT ![p] = q]]
  <2>1. /\ polls' = [polls EXCEPT ![p] = q] /\ UNCHANGED <<cursor, shown, passed>>
        /\ polls \in [Polls -> Poll \cup {Idle}]
    BY <1>3 DEF Open, cursorVars, PollsInv, PollsTypeOK
  <2>2. Now \in States /\ Now.cursor = cursor /\ Now.shown = shown /\ Now.passed = passed /\ Now.polls = polls
    BY <1>1 DEF Good, Now
  <2>3. /\ s \in States /\ s.cursor = cursor /\ s.shown = shown /\ s.passed = passed
        /\ s.polls = [polls EXCEPT ![p] = q]
    BY <2>1, <2>2 DEF States
  <2>. HIDE DEF s
  <2>4. Becomes(s)
    BY <2>1, <2>3 DEF Becomes
  <2>5. Good(messages, lastId, s)
    BY <1>1, <2>2, <2>3 DEF Good
  <2>6. ~Missed(messages, q)
    BY <1>1, <1>3, UnansweredMissesNothing
  <2>7. Awake(messages, s, {})
    BY <1>1, <2>1, <2>2, <2>3, <2>6 DEF Awake
  <2>. QED
    BY <1>1, <2>4, <2>5, <2>7, BecomesInv
<1>. QED
  BY <1>2, <1>3

(* Steps that open no request and add no row. *)
LEMMA QuietStep ==
  ASSUME PollsInv, CursorInv', messages' \in SUBSET messages,
         \A p \in Polls : polls'[p] \in {polls[p], Idle}, polls' \in [Polls -> Poll \cup {Idle}]
  PROVE  PollsInv'
<1>1. PollsTypeOK'
  BY DEF PollsTypeOK, CursorInv
<1>2. Unique(messages)'
  BY DEF PollsInv, Unique
<1>3. NoMissedWake'
  BY DEF PollsInv, NoMissedWake, Matching
<1>. QED
  BY <1>1, <1>2, <1>3 DEF PollsInv

LEMMA PollsNextInv == PollsInv /\ [PollsNext]_pollVars => PollsInv'
<1>. SUFFICES ASSUME PollsInv, [PollsNext]_pollVars PROVE PollsInv'
  OBVIOUS
<1>1. CursorInv /\ polls \in [Polls -> Poll \cup {Idle}]
  BY DEF PollsInv, PollsTypeOK
<1>2. ASSUME NEW p \in Polls, NEW c \in Consumers, NEW ch \in Channels, NEW own \in BOOLEAN,
             NEW r \in Requests, WaitForMessages(p, c, ch, r, own)
      PROVE  PollsInv'
  <2>. DEFINE q == [kind |-> "wait", c |-> c, ch |-> ch, since |-> ResolveSince(c, ch, r),
                    lim |-> r.lim, filter |-> r.filter, own |-> own,
                    start |-> IF FromCursor(c, ch, r) THEN "cursor" ELSE "other"]
  <2>1. ResolveSince(c, ch, r) \in Nat
    BY <1>1, ResolveSinceType
  <2>2. q \in Poll
    BY <2>1 DEF Poll, Requests
  <2>3. Open(p, q)
    BY <1>2 DEF WaitForMessages
  <2>. QED
    BY <2>2, <2>3, OpenStep
<1>3. ASSUME NEW p \in Polls, NEW c \in Consumers, NEW ch \in Channels, NEW own \in BOOLEAN,
             NEW since \in Sinces, InboxWait(p, c, ch, since, own)
      PROVE  PollsInv'
  <2>1. PICK lim \in Limits :
          Open(p, [kind |-> "inbox", c |-> c, ch |-> ch, since |-> since, lim |-> lim,
                   filter |-> NoFilter, own |-> own, start |-> "other"])
    BY <1>3 DEF InboxWait
  <2>2. [kind |-> "inbox", c |-> c, ch |-> ch, since |-> since, lim |-> lim,
         filter |-> NoFilter, own |-> own, start |-> "other"] \in Poll
    BY ReadsAssumption DEF Poll
  <2>. QED
    BY <2>1, <2>2, OpenStep
<1>4. ASSUME NEW p \in Polls, Close(p)
      PROVE  PollsInv'
  <2>1. /\ UNCHANGED vars /\ messages' \in SUBSET messages
        /\ polls' = [polls EXCEPT ![p] = Idle]
    BY <1>4 DEF Close, vars
  <2>2. CursorInv'
    BY <1>1, <2>1, CursorInvInductive
  <2>. QED
    BY <1>1, <2>1, <2>2, QuietStep
<1>5. CASE (ReadStep \/ RewindStep) /\ UNCHANGED polls
  <2>1. CursorInv'
    BY <1>1, <1>5, CursorInvInductive DEF Next
  <2>2. messages' = messages
    <3>1. ASSUME NEW c \in Consumers, NEW reqs, Read(c, reqs)
          PROVE  messages' = messages
      BY <3>1 DEF Read, storeVars
    <3>2. ASSUME NEW c \in Consumers, NEW ch \in Channels, NEW r \in Requests,
                 ReadMessages(c, ch, r)
          PROVE  messages' = messages
      BY <3>1, <3>2 DEF ReadMessages
    <3>3. ASSUME NEW c \in Consumers, NEW inbox \in Channels, NEW control \in Channels,
                 NEW ri \in Requests, NEW rc \in Requests,
                 TurnStart(c, inbox, control, ri, rc)
          PROVE  messages' = messages
      BY <3>1, <3>3 DEF TurnStart
    <3>4. ASSUME NEW cs, NEW ch \in Channels, NEW n \in 0..MaxId,
                 RewindCursors(cs, ch, n)
          PROVE  messages' = messages
      BY <3>4 DEF RewindCursors, storeVars
    <3>. QED
      BY <1>5, <3>2, <3>3, <3>4 DEF ReadStep, RewindStep
  <2>. QED
    BY <1>1, <1>5, <2>1, <2>2, QuietStep
<1>6. CASE Remove /\ UNCHANGED <<cursorVars, polls>>
  <2>1. CursorInv'
    BY <1>1, <1>6, CursorInvInductive DEF Next
  <2>2. messages' \in SUBSET messages
    BY <1>6 DEF Remove, DeleteMessage, PurgeChannels, AutoPrune
  <2>. QED
    BY <1>1, <1>6, <2>1, <2>2, QuietStep
<1>7. CASE UNCHANGED pollVars
  <2>1. UNCHANGED vars /\ messages' \in SUBSET messages /\ polls' = polls
    BY <1>7 DEF pollVars, vars
  <2>2. CursorInv'
    BY <1>1, <2>1, CursorInvInductive
  <2>. QED
    BY <1>1, <2>1, <2>2, QuietStep
<1>. QED
  BY <1>2, <1>3, <1>4, <1>5, <1>6, <1>7, SendStep, BatchStep DEF PollsNext

LEMMA PollsAlways == PollsSpec => []PollsInv
<1>1. PollsInit => PollsInv
  <2>. SUFFICES ASSUME PollsInit PROVE PollsInv
    OBVIOUS
  <2>1. CursorInv /\ messages = {} /\ polls = [p \in Polls |-> Idle]
    BY CursorInvInit DEF PollsInit, Init, StoreInit
  <2>. QED
    BY <2>1 DEF PollsInv, PollsTypeOK, CursorInv, Unique, NoMissedWake
<1>. QED
  BY <1>1, PollsNextInv, PTL DEF PollsSpec

(* Every open request is well formed, and so are the cursors it moves.     *)
THEOREM PollsTypeCorrect == PollsSpec => []PollsTypeOK
<1>1. PollsInv => PollsTypeOK
  BY DEF PollsInv
<1>. QED
  BY PollsAlways, <1>1, PTL

(* No open request sleeps through a stored row that it was opened for:     *)
(* whatever the page limits, the batches, the rows removed meanwhile and   *)
(* the number of requests a row wakes.                                     *)
THEOREM NoRequestSleeps == PollsSpec => []NoMissedWake
<1>1. PollsInv => NoMissedWake
  BY DEF PollsInv
<1>. QED
  BY PollsAlways, <1>1, PTL

(* Deliveries to waiting requests keep what reads promise of the cursors:  *)
(* a request may have waited through rewinds and other deliveries, and     *)
(* still its own moves the cursor beyond no row that was neither shown nor *)
(* given up, and nothing shown lies beyond the cursor.                     *)
THEOREM WaitsKeepCursors == PollsSpec => [](NoSilentSkip /\ NothingShownTwice)
<1>1. PollsInv => NoSilentSkip /\ NothingShownTwice
  BY DEF PollsInv, CursorInv
<1>. QED
  BY PollsAlways, <1>1, PTL
=============================================================================
