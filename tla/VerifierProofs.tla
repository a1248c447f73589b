--------------------------- MODULE VerifierProofs ---------------------------
(***************************************************************************)
(* Proofs about verification: of which results are offered and stamped     *)
(* (Verification), and of the lock of the standalone verifier              *)
(* (VerifierLock).                                                         *)
(***************************************************************************)
EXTENDS Verification, VerifierLock, SetLemmas

----------------------------------------------------------------------------
(* Verification.  While a verifier has a result in hand, nobody else has   *)
(* stamped it: of two watchdogs each has only its own worker's results,    *)
(* and with the standalone verifier at work theirs are refused.            *)
StampInv ==
  /\ \A n \in todo \ late : enforced /\ stamps[n] = 0
  /\ \A w \in Workers : \A n \in shot[w].todo :
       log[n].by = w /\ (~enforced /\ n \notin late => stamps[n] = 0)

(* A later result of its task is in hand. *)
Covered(n) == \E k \in todo : n <= k /\ log[k].task = log[n].task

(* What a pass is about to move its cursor over is settled, or in hand. *)
PassInv ==
  pc = "post" => \A n \in Results : Verifiable(n) /\ base < n /\ n <= next => Settled(n) \/ Covered(n)

VerInv == TypeOK /\ VerifiedOnce /\ StampInv /\ NoResultPassedOver /\ PassInv

LEMMA HighestOf ==
  ASSUME NEW S \in SUBSET Int, IsFiniteSet(S), S # {}
  PROVE  Highest(S) \in S /\ \A k \in S : k <= Highest(S)
BY GreatestExists DEF Highest

LEMMA HighestIn ==
  ASSUME NEW m \in Nat, NEW S \in SUBSET (0..m)
  PROVE  IsFiniteSet(S) /\ Highest(S) \in 0..m /\ \A k \in S : k <= Highest(S)
<1>1. IsFiniteSet(S)
  <2>1. IsFiniteSet(0..m)
    BY FS_Interval
  <2>. QED
    BY <2>1, FS_Subset
<1>2. S \in SUBSET Int
  OBVIOUS
<1>3. CASE S = {}
  BY <1>1, <1>3 DEF Highest
<1>4. CASE S # {}
  BY <1>1, <1>2, <1>4, HighestOf
<1>. QED
  BY <1>3, <1>4

LEMMA HighestPair ==
  ASSUME NEW a \in Int, NEW b \in Int
  PROVE  Highest({a, b}) \in {a, b} /\ a <= Highest({a, b}) /\ b <= Highest({a, b})
<1>1. \E n \in {a, b} : \A k \in {a, b} : k <= n
  BY SMT
<1>. QED
  BY <1>1 DEF Highest

LEMMA LowestOf ==
  ASSUME NEW S \in SUBSET Nat, S # {}
  PROVE  Lowest(S) \in S /\ \A k \in S : Lowest(S) <= k
BY MinNat DEF Lowest

(* What is stored, offered and settled depends on the messages and stamps. *)
LEMMA SameMessages ==
  ASSUME UNCHANGED <<log, gone>>
  PROVE  /\ Results' = Results
         /\ \A n : Verifiable(n)' <=> Verifiable(n)
BY DEF Results, Verifiable, Stored, HasChecks, DispatchesTo

LEMMA SameStamps ==
  ASSUME UNCHANGED <<log, stamps>>
  PROVE  \A n : Settled(n)' <=> Settled(n)
BY DEF Settled, Results

LEMMA ChannelMaxType ==
  ASSUME TypeOK
  PROVE  ChannelMax \in 0..Len(log)
<1>1. Len(log) \in Nat
  BY DEF TypeOK
<1>2. {n \in Stored : log[n].kind \in {"result", "note"}} \in SUBSET (0..Len(log))
  BY <1>1 DEF Stored
<1>. QED
  BY <1>1, <1>2, HighestIn DEF ChannelMax

LEMMA ResultIds ==
  ASSUME TypeOK
  PROVE  Len(log) \in Nat /\ Results \in SUBSET (1..Len(log)) /\ Results \in SUBSET Ids
<1>1. Len(log) \in Nat /\ Len(log) <= MaxId /\ MaxId \in Nat
  BY LimitsAssumption DEF TypeOK
<1>2. Results \in SUBSET (1..Len(log))
  BY DEF Results
<1>. QED
  BY <1>1, <1>2 DEF Ids

----------------------------------------------------------------------------
(* Steps of the standalone verifier that leave messages and stamps alone.  *)

LEMMA WatchTypes ==
  ASSUME TypeOK, UNCHANGED <<log, gone, stamps, enforced, shot>>,
         file' \in {NoCursor} \cup 0..Len(log), since' \in {NoCursor} \cup 0..Len(log),
         top' \in 0..Len(log), next' \in 0..Len(log), base' \in 0..Len(log),
         pc' \in {"down", "look", "write", "max", "ask", "post"},
         todo' \subseteq Results, late' \subseteq Results
  PROVE  TypeOK'
<1>1. Results' = Results
  BY SameMessages
<1>. QED
  BY <1>1 DEF TypeOK

(* What is left to show of a step that ends a request or a pass: that its  *)
(* cursor passes over nothing.                                             *)
LEMMA WatchQuiet ==
  ASSUME VerInv, TypeOK', UNCHANGED <<log, gone, stamps, enforced, shot, late>>,
         todo' \subseteq todo, pc' # "post",
         \A n \in Results : Verifiable(n) /\ base' < n /\ n <= Highest({file', since'}) => Settled(n)
  PROVE  VerInv'
<1>1. Results' = Results /\ (\A n : Verifiable(n)' <=> Verifiable(n))
      /\ (\A n : Settled(n)' <=> Settled(n))
  BY SameMessages, SameStamps
<1>2. NoResultPassedOver'
  BY <1>1 DEF NoResultPassedOver
<1>3. VerifiedOnce' /\ StampInv' /\ PassInv'
  BY <1>1 DEF VerInv, VerifiedOnce, StampInv, PassInv
<1>. QED
  BY <1>2, <1>3 DEF VerInv

(* Forgetting a cursor, or taking one for the other, reaches no further. *)
LEMMA ReachKept ==
  ASSUME TypeOK, NEW a \in {file, since, NoCursor}, NEW b \in {file, since, NoCursor}
  PROVE  Highest({a, b}) <= Highest({file, since}) /\ Highest({a, b}) \in Int
         /\ Highest({file, since}) \in Int
<1>1. /\ file \in Int /\ since \in Int /\ NoCursor \in Int
      /\ NoCursor <= file /\ NoCursor <= since
  BY DEF TypeOK, NoCursor
<1>2. a \in Int /\ b \in Int
  BY <1>1
<1>. HIDE DEF NoCursor
<1>3. Highest({a, b}) \in {a, b}
  BY <1>2, HighestPair
<1>4. /\ Highest({file, since}) \in {file, since}
      /\ file <= Highest({file, since}) /\ since <= Highest({file, since})
  BY <1>1, HighestPair
<1>. QED
  BY <1>1, <1>2, <1>3, <1>4

LEMMA CursorKept ==
  ASSUME VerInv, TypeOK', UNCHANGED <<log, gone, stamps, enforced, shot, late, base>>,
         todo' \subseteq todo, pc' # "post",
         file' \in {file, since, NoCursor}, since' \in {file, since, NoCursor}
  PROVE  VerInv'
<1>1. TypeOK
  BY DEF VerInv
<1>2. /\ Highest({file', since'}) <= Highest({file, since})
      /\ Highest({file', since'}) \in Int /\ Highest({file, since}) \in Int
  BY <1>1, ReachKept
<1>3. ASSUME NEW n \in Results, Verifiable(n), base' < n, n <= Highest({file', since'})
      PROVE  Settled(n)
  <2>1. n \in Int
    BY <1>1, ResultIds
  <2>2. n <= Highest({file, since})
    BY <1>2, <1>3, <2>1
  <2>. QED
    BY <1>3, <2>2 DEF VerInv, NoResultPassedOver
<1>. QED
  BY <1>3, WatchQuiet

(* Looking, asking for the maximum, failing and dying. *)
LEMMA WaitStep ==
  ASSUME VerInv, Start \/ Write \/ Look \/ ReadMax \/ Fail \/ Crash
  PROVE  VerInv'
<1>1. TypeOK
  BY DEF VerInv
<1>2. UNCHANGED <<log, gone, stamps, enforced, shot, late, base>>
  BY DEF Start, Write, Look, ReadMax, Fail, Crash, WatchStep, brokerVars
<1>3. /\ file' \in {file, since, NoCursor} /\ since' \in {file, since, NoCursor}
      /\ todo' \in {todo, {}} /\ next' \in {next, 0}
      /\ pc' \in {"look", "max", "ask", "down"}
  BY DEF Start, Write, Look, ReadMax, Fail, Crash
<1>4. top' \in {top, 0, ChannelMax}
  BY DEF Start, Write, Look, ReadMax, Fail, Crash
<1>5. TypeOK'
  <2>1. Len(log) \in Nat /\ ChannelMax \in 0..Len(log)
    BY <1>1, ResultIds, ChannelMaxType
  <2>2. top' \in 0..Len(log) /\ next' \in 0..Len(log) /\ base' \in 0..Len(log)
    BY <1>1, <1>2, <1>3, <1>4, <2>1 DEF TypeOK
  <2>3. file' \in {NoCursor} \cup 0..Len(log) /\ since' \in {NoCursor} \cup 0..Len(log)
    BY <1>1, <1>3 DEF TypeOK
  <2>4. todo' \subseteq Results /\ late' \subseteq Results
    BY <1>1, <1>2, <1>3 DEF TypeOK
  <2>. QED
    BY <1>1, <1>2, <1>3, <2>2, <2>3, <2>4, WatchTypes
<1>. QED
  BY <1>2, <1>3, <1>5, CursorKept

(* A verifier without a cursor answers for what comes after. *)
LEMMA SeedStep ==
  ASSUME VerInv, Seed
  PROVE  VerInv'
<1>1. TypeOK
  BY DEF VerInv
<1>2. /\ UNCHANGED <<log, gone, stamps, enforced, shot, late, top, next, todo>>
      /\ since' = ChannelMax /\ file' = NoCursor /\ pc' = "write"
      /\ base' = Highest({base, ChannelMax})
  BY DEF Seed, Truncate, WatchStep
<1>3. /\ Len(log) \in Nat /\ ChannelMax \in 0..Len(log) /\ base \in 0..Len(log)
      /\ NoCursor \in Int /\ NoCursor < ChannelMax
  BY <1>1, ResultIds, ChannelMaxType DEF TypeOK, NoCursor
<1>. HIDE DEF NoCursor
<1>8. base \in Int /\ ChannelMax \in Int
  BY <1>3
<1>4. base' \in {base, ChannelMax} /\ ChannelMax <= base'
  <2>1. Highest({base, ChannelMax}) \in {base, ChannelMax} /\ ChannelMax <= Highest({base, ChannelMax})
    BY <1>8, HighestPair
  <2>. QED
    BY <1>2, <2>1
<1>5. TypeOK'
  BY <1>1, <1>2, <1>3, <1>4, WatchTypes DEF TypeOK
<1>6. Highest({file', since'}) \in {NoCursor, ChannelMax}
  <2>1. Highest({NoCursor, ChannelMax}) \in {NoCursor, ChannelMax}
    BY <1>3, <1>8, HighestPair
  <2>. QED
    BY <1>2, <2>1
<1>7. ASSUME NEW n \in Results, base' < n, n <= Highest({file', since'})
      PROVE  FALSE
  <2>1. n \in Int
    BY <1>1, ResultIds
  <2>. QED
    BY <1>3, <1>4, <1>6, <1>7, <2>1
<1>. QED
  BY <1>2, <1>5, <1>7, WatchQuiet

(* The end of a pass: nothing is in hand any more, so all is settled. *)
LEMMA AdvanceStep ==
  ASSUME VerInv, Advance
  PROVE  VerInv'
<1>1. TypeOK
  BY DEF VerInv
<1>2. /\ UNCHANGED <<log, gone, stamps, enforced, shot, late, top, todo, base>>
      /\ next' = 0 /\ todo = {} /\ pc = "post"
  BY DEF Advance, WatchStep
<1>3. /\ Len(log) \in Nat /\ top \in 0..Len(log) /\ next \in 0..Len(log) /\ base \in 0..Len(log)
      /\ since \in {NoCursor} \cup 0..Len(log) /\ file \in {NoCursor} \cup 0..Len(log)
      /\ todo \subseteq Results /\ late \subseteq Results /\ NoCursor \in Int
      /\ 0 \in 0..Len(log) /\ NoCursor < next
  BY <1>1, ResultIds DEF TypeOK, NoCursor
<1>4. CASE next > since
  <2>1. since' = next /\ file' = NoCursor /\ pc' = "write"
    BY <1>4 DEF Advance, Truncate
  <2>. HIDE DEF NoCursor
  <2>2. TypeOK'
    BY <1>1, <1>2, <1>3, <2>1, WatchTypes
  <2>3. Highest({file', since'}) \in {NoCursor, next}
    <3>1. NoCursor \in Int /\ next \in Int
      BY <1>3
    <3>2. Highest({NoCursor, next}) \in {NoCursor, next}
      BY <3>1, HighestPair
    <3>. QED
      BY <2>1, <3>2
  <2>4. ASSUME NEW n \in Results, Verifiable(n), base' < n, n <= Highest({file', since'})
        PROVE  Settled(n)
    <3>1. n \in Int
      BY <1>1, ResultIds
    <3>2. n <= next /\ base < n
      BY <1>2, <1>3, <2>3, <2>4, <3>1
    <3>. QED
      BY <1>2, <2>4, <3>2 DEF VerInv, PassInv, Covered
  <2>. QED
    BY <1>2, <2>1, <2>2, <2>4, WatchQuiet
<1>5. CASE ~(next > since)
  <2>1. since' = since /\ file' = file /\ pc' = "look"
    BY <1>5 DEF Advance
  <2>2. TypeOK'
    BY <1>1, <1>2, <1>3, <2>1, WatchTypes
  <2>. QED
    BY <1>2, <2>1, <2>2, CursorKept
<1>. QED
  BY <1>4, <1>5

----------------------------------------------------------------------------
(* Stamps. *)

LEMMA Stamped ==
  ASSUME TypeOK, NEW n \in Results, Stamp(n)
  PROVE  /\ stamps' \in [Ids -> 0..2] /\ stamps'[n] \in 1..2
         /\ stamps[n] = 0 => stamps'[n] = 1
         /\ \A k \in Ids \ {n} : stamps'[k] = stamps[k]
<1>1. n \in Ids /\ stamps \in [Ids -> 0..2]
  BY ResultIds DEF TypeOK
<1>. QED
  BY <1>1 DEF Stamp

LEMMA SettledKept ==
  ASSUME TypeOK, log' = log, \A k \in Results : stamps[k] > 0 => stamps'[k] > 0
  PROVE  \A n : Settled(n) => Settled(n)'
<1>1. Results' = Results
  BY DEF Results
<1>. QED
  BY <1>1 DEF Settled

(* Another stamp takes nothing back. *)
LEMMA StampKeepsMessages ==
  ASSUME VerInv, UNCHANGED <<log, gone, file, since, base>>,
         \A k \in Results : stamps[k] > 0 => stamps'[k] > 0
  PROVE  NoResultPassedOver'
<1>1. Results' = Results /\ \A n : Verifiable(n)' <=> Verifiable(n)
  BY SameMessages
<1>2. \A n : Settled(n) => Settled(n)'
  BY SettledKept DEF VerInv
<1>. QED
  BY <1>1, <1>2 DEF VerInv, NoResultPassedOver

LEMMA PostStampStep ==
  ASSUME VerInv, NEW n \in Ids, NEW o \in Outcomes, PostStamp(n, o)
  PROVE  VerInv'
<1>1. TypeOK /\ todo \subseteq Results /\ n \in todo /\ n \in Results /\ pc = "post"
      /\ stamps \in [Ids -> 0..2] /\ Results \in SUBSET Ids
  BY ResultIds DEF VerInv, TypeOK, PostStamp
<1>2. UNCHANGED <<log, gone, enforced, shot, late, switches, file, since, top, base>>
  BY DEF PostStamp, WatchStep
<1>3. \/ /\ stamps' = stamps /\ pc' = "look" /\ todo' = {} /\ next' = 0
      \/ /\ Stamp(n) /\ pc' = "look" /\ todo' = {} /\ next' = 0
      \/ /\ Stamp(n) /\ pc' = pc /\ todo' = todo \ {n} /\ next' = next
  BY DEF PostStamp, Outcomes
<1>4. /\ stamps' \in [Ids -> 0..2] /\ \A k \in Ids \ {n} : stamps'[k] = stamps[k]
      /\ stamps' = stamps \/ (stamps'[n] \in 1..2 /\ (stamps[n] = 0 => stamps'[n] = 1))
  BY <1>1, <1>3, Stamped
<1>5. /\ todo' \subseteq todo
      /\ n \in todo' => stamps' = stamps
  BY <1>3
<1>6. \A k \in Results : stamps[k] > 0 => stamps'[k] > 0
  BY <1>1, <1>4
<1>7. Results' = Results /\ (\A k : Verifiable(k)' <=> Verifiable(k)) /\ Len(log) \in Nat
  BY <1>1, <1>2, SameMessages, ResultIds
<1>8. n \notin late => enforced /\ stamps[n] = 0
  BY <1>1 DEF VerInv, StampInv
<1>9. TypeOK'
  <2>1. \A k \in Ids : stamps'[k] > 0 => k \in Results
    BY <1>1, <1>4 DEF TypeOK
  <2>2. next' \in 0..Len(log)
    BY <1>1, <1>3, <1>7 DEF TypeOK
  <2>3. pc' \in {"look", "post"}
    BY <1>1, <1>3
  <2>. QED
    BY <1>1, <1>2, <1>4, <1>5, <1>7, <2>1, <2>2, <2>3 DEF TypeOK
<1>10. VerifiedOnce'
  <2>. SUFFICES ASSUME NEW k \in Results, stamps'[k] > 1
                PROVE  k \in late
    BY <1>2, <1>7 DEF VerifiedOnce
  <2>1. CASE stamps'[k] = stamps[k]
    BY <2>1 DEF VerInv, VerifiedOnce
  <2>2. CASE stamps'[k] # stamps[k]
    BY <1>1, <1>4, <1>8, <2>2
  <2>. QED
    BY <2>1, <2>2
<1>11. StampInv'
  <2>1. \A k \in todo' \ late : enforced /\ stamps'[k] = 0
    <3>. SUFFICES ASSUME NEW k \in todo' \ late
                  PROVE  enforced /\ stamps'[k] = 0
      OBVIOUS
    <3>1. enforced /\ stamps[k] = 0 /\ k \in Ids
      BY <1>1, <1>5 DEF VerInv, StampInv
    <3>. QED
      BY <1>4, <1>5, <3>1
  <2>2. \A w \in Workers : \A k \in shot[w].todo :
          log[k].by = w /\ (~enforced /\ k \notin late => stamps'[k] = 0)
    <3>. SUFFICES ASSUME NEW w \in Workers, NEW k \in shot[w].todo
                  PROVE  log[k].by = w /\ (~enforced /\ k \notin late => stamps'[k] = 0)
      OBVIOUS
    <3>1. log[k].by = w /\ (~enforced /\ k \notin late => stamps[k] = 0)
      BY DEF VerInv, StampInv
    <3>2. k \in Ids
      BY <1>1 DEF TypeOK
    <3>. QED
      BY <1>4, <1>8, <3>1, <3>2
  <2>. QED
    BY <1>2, <2>1, <2>2 DEF StampInv
<1>12. NoResultPassedOver'
  BY <1>2, <1>6, StampKeepsMessages
<1>13. PassInv'
  <2>. SUFFICES ASSUME pc' = "post", NEW m \in Results, Verifiable(m), base < m, m <= next'
                PROVE  Settled(m)' \/ Covered(m)'
    BY <1>2, <1>7 DEF PassInv
  <2>1. Stamp(n) /\ todo' = todo \ {n} /\ next' = next
    BY <1>3
  <2>2. Settled(m) => Settled(m)'
    BY <1>1, <1>2, <1>6, SettledKept
  <2>3. Settled(m) \/ Covered(m)
    BY <1>1, <2>1 DEF VerInv, PassInv
  <2>4. ASSUME NEW k \in todo, m <= k, log[k].task = log[m].task
        PROVE  Settled(m)' \/ Covered(m)'
    <3>1. CASE k = n
      <4>1. stamps'[n] > 0
        BY <1>1, <2>1, Stamped
      <4>. QED
        BY <1>1, <1>2, <1>7, <2>4, <3>1, <4>1 DEF Settled
    <3>2. CASE k # n
      BY <1>2, <2>1, <2>4, <3>2 DEF Covered
    <3>. QED
      BY <3>1, <3>2
  <2>. QED
    BY <2>2, <2>3, <2>4 DEF Covered
<1>. QED
  BY <1>9, <1>10, <1>11, <1>12, <1>13 DEF VerInv

----------------------------------------------------------------------------
(* The one-shot verifiers. *)

LEMMA ShotQuiet ==
  ASSUME VerInv, UNCHANGED <<log, gone, stamps, enforced, file, since, base, pc, top, next, todo, late>>,
         shot' \in [Workers -> [at : {"idle", "ask", "post"}, todo : SUBSET Results]],
         \A w \in Workers : \A n \in shot'[w].todo :
           n \in shot[w].todo \/ (stamps[n] = 0 /\ log[n].by = w)
  PROVE  VerInv'
<1>1. Results' = Results /\ (\A n : Verifiable(n)' <=> Verifiable(n))
      /\ (\A n : Settled(n)' <=> Settled(n))
  BY SameMessages, SameStamps
<1>2. TypeOK'
  BY <1>1 DEF VerInv, TypeOK
<1>3. VerifiedOnce' /\ NoResultPassedOver'
  BY <1>1 DEF VerInv, VerifiedOnce, NoResultPassedOver
<1>4. StampInv'
  BY DEF VerInv, StampInv
<1>5. PassInv'
  BY <1>1 DEF VerInv, PassInv, Covered
<1>. QED
  BY <1>2, <1>3, <1>4, <1>5 DEF VerInv

LEMMA ShotLookStep ==
  ASSUME VerInv, NEW w \in Workers, NEW o \in Outcomes, ShotLook(w, o)
  PROVE  VerInv'
<1>1. /\ shot' = [shot EXCEPT ![w].at = "ask"]
      /\ UNCHANGED <<log, gone, stamps, enforced, file, since, base, pc, top, next, todo, late>>
  BY DEF ShotLook, ShotStep, watchVars
<1>2. shot \in [Workers -> [at : {"idle", "ask", "post"}, todo : SUBSET Results]]
  BY DEF VerInv, TypeOK
<1>3. shot' \in [Workers -> [at : {"idle", "ask", "post"}, todo : SUBSET Results]]
      /\ \A v \in Workers : shot'[v].todo = shot[v].todo
  BY <1>1, <1>2
<1>. QED
  BY <1>1, <1>3, ShotQuiet

LEMMA PendingIn ==
  ASSUME NEW after, NEW ws, NEW n \in Pending(after, ws)
  PROVE  n \in Results /\ stamps[n] = 0 /\ log[n].by \in ws
BY DEF Pending, Pool

LEMMA ShotAskStep ==
  ASSUME VerInv, NEW w \in Workers, ShotAsk(w)
  PROVE  VerInv'
<1>1. UNCHANGED <<log, gone, stamps, enforced, file, since, base, pc, top, next, todo, late>>
  BY DEF ShotAsk, ShotStep, watchVars
<1>2. PICK after \in 0..Len(log) :
        shot' = [shot EXCEPT ![w] = IF Pending(after, {w}) = {} THEN Idle
                                    ELSE [at |-> "post", todo |-> Pending(after, {w})]]
  BY DEF ShotAsk
<1>. DEFINE T == Pending(after, {w})
            s == IF T = {} THEN Idle ELSE [at |-> "post", todo |-> T]
<1>3. T \in SUBSET Results /\ \A n \in T : stamps[n] = 0 /\ log[n].by = w
  BY PendingIn
<1>4. s \in [at : {"idle", "ask", "post"}, todo : SUBSET Results] /\ s.todo = T
  <2>. HIDE DEF T
  <2>1. s \in {Idle, [at |-> "post", todo |-> T]}
    OBVIOUS
  <2>. QED
    BY <1>3 DEF Idle
<1>. HIDE DEF T
<1>5. shot' = [shot EXCEPT ![w] = s]
  BY <1>2 DEF T
<1>. HIDE DEF s
<1>6. shot \in [Workers -> [at : {"idle", "ask", "post"}, todo : SUBSET Results]]
  BY DEF VerInv, TypeOK
<1>7. shot' \in [Workers -> [at : {"idle", "ask", "post"}, todo : SUBSET Results]]
      /\ \A v \in Workers : shot'[v] = IF v = w THEN s ELSE shot[v]
  BY <1>4, <1>5, <1>6
<1>8. \A v \in Workers : \A n \in shot'[v].todo :
        n \in shot[v].todo \/ (stamps[n] = 0 /\ log[n].by = v)
  BY <1>3, <1>4, <1>7
<1>. QED
  BY <1>1, <1>7, <1>8, ShotQuiet

LEMMA ShotDiesStep ==
  ASSUME VerInv, NEW w \in Workers, ShotDies(w)
  PROVE  VerInv'
<1>1. /\ shot' = [shot EXCEPT ![w] = Idle]
      /\ UNCHANGED <<log, gone, stamps, enforced, file, since, base, pc, top, next, todo, late>>
  BY DEF ShotDies, ShotStep, watchVars
<1>2. shot \in [Workers -> [at : {"idle", "ask", "post"}, todo : SUBSET Results]]
  BY DEF VerInv, TypeOK
<1>3. Idle \in [at : {"idle", "ask", "post"}, todo : SUBSET Results] /\ Idle.todo = {}
  BY DEF Idle
<1>4. shot' \in [Workers -> [at : {"idle", "ask", "post"}, todo : SUBSET Results]]
      /\ \A v \in Workers : shot'[v] = IF v = w THEN Idle ELSE shot[v]
  BY <1>1, <1>2, <1>3
<1>. QED
  BY <1>1, <1>3, <1>4, ShotQuiet

(* A stamp without the credential, where none is required: the standalone  *)
(* verifier has nothing in hand but what it keeps from before.             *)
LEMMA ShotPostStep ==
  ASSUME VerInv, NEW w \in Workers, NEW n \in Ids, NEW o \in Outcomes, ShotPost(w, n, o)
  PROVE  VerInv'
<1>1. UNCHANGED <<log, gone, enforced, file, since, base, pc, top, next, todo, late>>
  BY DEF ShotPost, ShotStep, watchVars
<1>2. shot \in [Workers -> [at : {"idle", "ask", "post"}, todo : SUBSET Results]]
      /\ TypeOK /\ n \in shot[w].todo
  BY DEF VerInv, TypeOK, ShotPost
<1>3. Idle \in [at : {"idle", "ask", "post"}, todo : SUBSET Results] /\ Idle.todo = {}
  BY DEF Idle
<1>. DEFINE rest == [at |-> "post", todo |-> shot[w].todo \ {n}]
<1>4. rest \in [at : {"idle", "ask", "post"}, todo : SUBSET Results] /\ rest.todo = shot[w].todo \ {n}
  BY <1>2
<1>5. n \in Results /\ Results \in SUBSET Ids /\ stamps \in [Ids -> 0..2]
  BY <1>2, ResultIds DEF TypeOK
<1>6. \/ stamps' = stamps /\ shot' = [shot EXCEPT ![w] = Idle]
      \/ ~enforced /\ Stamp(n) /\ shot' = [shot EXCEPT ![w] = Idle]
      \/ ~enforced /\ Stamp(n) /\ shot' = [shot EXCEPT ![w] = rest]
  <2>. DEFINE refused == enforced \/ n \in gone \/ o = "rejected"
              ends    == refused \/ o # "ok" \/ shot[w].todo = {n}
  <2>1. /\ IF refused THEN stamps' = stamps ELSE Stamp(n)
        /\ shot' = [shot EXCEPT ![w] = IF ends THEN Idle ELSE rest]
    <3>1. IF refused THEN stamps' = stamps ELSE Stamp(n)
      BY DEF ShotPost
    <3>2. shot' = [shot EXCEPT ![w] = IF ends THEN Idle ELSE rest]
      BY DEF ShotPost
    <3>. QED
      BY <3>1, <3>2
  <2>2. refused => ends
    OBVIOUS
  <2>3. ~refused => ~enforced
    OBVIOUS
  <2>. HIDE DEF refused, ends, rest
  <2>4. CASE refused
    BY <2>1, <2>2, <2>4
  <2>5. CASE ~refused
    <3>1. CASE ends
      BY <2>1, <2>3, <2>5, <3>1
    <3>2. CASE ~ends
      BY <2>1, <2>3, <2>5, <3>2
    <3>. QED
      BY <3>1, <3>2
  <2>. QED
    BY <2>4, <2>5
<1>. HIDE DEF rest
<1>7. /\ shot' \in [Workers -> [at : {"idle", "ask", "post"}, todo : SUBSET Results]]
      /\ \A v \in Workers \ {w} : shot'[v] = shot[v]
      /\ shot'[w].todo \subseteq shot[w].todo \ {n}
  BY <1>2, <1>3, <1>4, <1>6
<1>8. /\ stamps' \in [Ids -> 0..2] /\ \A k \in Ids \ {n} : stamps'[k] = stamps[k]
      /\ \/ stamps' = stamps
         \/ ~enforced /\ stamps'[n] \in 1..2 /\ (stamps[n] = 0 => stamps'[n] = 1)
  BY <1>2, <1>5, <1>6, Stamped
<1>9. \A k \in Results : stamps[k] > 0 => stamps'[k] > 0
  BY <1>5, <1>8
<1>10. log[n].by = w /\ (~enforced /\ n \notin late => stamps[n] = 0)
  BY <1>2 DEF VerInv, StampInv
<1>11. Results' = Results /\ \A k : Verifiable(k)' <=> Verifiable(k)
  BY <1>1, SameMessages
<1>12. TypeOK'
  <2>1. \A k \in Ids : stamps'[k] > 0 => k \in Results
    BY <1>2, <1>5, <1>8 DEF TypeOK
  <2>. QED
    BY <1>1, <1>2, <1>7, <1>8, <1>11, <2>1 DEF TypeOK
<1>13. VerifiedOnce'
  <2>. SUFFICES ASSUME NEW k \in Results, stamps'[k] > 1
                PROVE  k \in late
    BY <1>1, <1>11 DEF VerifiedOnce
  <2>1. CASE stamps'[k] = stamps[k]
    BY <2>1 DEF VerInv, VerifiedOnce
  <2>2. CASE stamps'[k] # stamps[k]
    BY <1>5, <1>8, <1>10, <2>2
  <2>. QED
    BY <2>1, <2>2
<1>14. StampInv'
  <2>1. \A k \in todo \ late : enforced /\ stamps'[k] = 0
    <3>. SUFFICES ASSUME NEW k \in todo \ late
                  PROVE  enforced /\ stamps'[k] = 0
      OBVIOUS
    <3>1. enforced /\ stamps[k] = 0
      BY DEF VerInv, StampInv
    <3>2. stamps' = stamps
      BY <1>8, <3>1
    <3>. QED
      BY <3>1, <3>2
  <2>2. \A v \in Workers : \A k \in shot'[v].todo :
          log[k].by = v /\ (~enforced /\ k \notin late => stamps'[k] = 0)
    <3>. SUFFICES ASSUME NEW v \in Workers, NEW k \in shot'[v].todo
                  PROVE  log[k].by = v /\ (~enforced /\ k \notin late => stamps'[k] = 0)
      OBVIOUS
    <3>1. k \in shot[v].todo
      BY <1>7
    <3>2. log[k].by = v /\ (~enforced /\ k \notin late => stamps[k] = 0)
      BY <3>1 DEF VerInv, StampInv
    <3>3. k # n /\ k \in Ids
      BY <1>2, <1>5, <1>7, <1>10, <3>1, <3>2
    <3>. QED
      BY <1>8, <3>2, <3>3
  <2>. QED
    BY <1>1, <2>1, <2>2 DEF StampInv
<1>15. NoResultPassedOver'
  BY <1>1, <1>9, StampKeepsMessages
<1>16. PassInv'
  <2>1. \A k : Settled(k) => Settled(k)'
    BY <1>1, <1>2, <1>9, SettledKept
  <2>. QED
    BY <1>1, <1>11, <2>1 DEF VerInv, PassInv, Covered
<1>. QED
  BY <1>12, <1>13, <1>14, <1>15, <1>16 DEF VerInv

----------------------------------------------------------------------------
(* The broker. *)

LEMMA PostStep ==
  ASSUME VerInv, NEW m \in Message, Post(m)
  PROVE  VerInv'
<1>. DEFINE L == Len(log)
<1>1. /\ TypeOK /\ L \in Nat /\ L < MaxId /\ log \in Seq(Message)
      /\ Results \in SUBSET (1..L) /\ Results \in SUBSET Ids
  BY ResultIds DEF VerInv, TypeOK, Post
<1>2. /\ UNCHANGED <<gone, stamps, enforced, file, since, base, pc, top, next, todo, shot, late>>
      /\ log' = Append(log, m)
  BY DEF Post, watchVars
<1>3. /\ log' \in Seq(Message) /\ Len(log') = L + 1
      /\ \A k \in 1..L : log'[k] = log[k]
  BY <1>1, <1>2
<1>4. /\ \A k \in 1..L : k \in 1..L + 1
      /\ \A k \in 0..L : k \in 0..L + 1
      /\ \A k \in 1..L + 1 : k \in 1..L \/ k = L + 1
  BY <1>1
<1>5. /\ Results \subseteq Results'
      /\ \A n \in Results' : n \in 1..L => n \in Results
      /\ \A n \in Results' : n \in 1..L + 1
  BY <1>1, <1>3, <1>4 DEF Results
<1>6. TypeOK'
  <2>1. /\ file' \in {NoCursor} \cup 0..Len(log') /\ since' \in {NoCursor} \cup 0..Len(log')
        /\ top' \in 0..Len(log') /\ next' \in 0..Len(log') /\ base' \in 0..Len(log')
    BY <1>1, <1>2, <1>3, <1>4 DEF TypeOK
  <2>2. Len(log') <= MaxId /\ gone' \subseteq 1..Len(log')
    BY <1>1, <1>2, <1>3, <1>4, LimitsAssumption DEF TypeOK
  <2>3. shot' \in [Workers -> [at : {"idle", "ask", "post"}, todo : SUBSET Results']]
    BY <1>1, <1>2, <1>5 DEF TypeOK
  <2>. QED
    BY <1>1, <1>2, <1>3, <1>5, <2>1, <2>2, <2>3 DEF TypeOK
<1>7. VerifiedOnce'
  <2>. SUFFICES ASSUME NEW n \in Results', stamps[n] > 1
                PROVE  n \in late
    BY <1>2 DEF VerifiedOnce
  <2>1. n \in Ids /\ stamps[n] > 0
    <3>1. n \in 1..L + 1 /\ MaxId \in Nat
      BY <1>5, LimitsAssumption
    <3>2. n \in Ids
      BY <1>1, <3>1 DEF Ids
    <3>3. stamps[n] \in 0..2
      BY <1>1, <3>2 DEF TypeOK
    <3>. QED
      BY <3>2, <3>3
  <2>2. n \in Results
    BY <1>1, <2>1 DEF TypeOK
  <2>. QED
    BY <2>2 DEF VerInv, VerifiedOnce
<1>8. StampInv'
  <2>1. \A w \in Workers : \A n \in shot[w].todo : log'[n] = log[n]
    BY <1>1, <1>3 DEF TypeOK
  <2>2. \A n \in todo \ late : enforced /\ stamps[n] = 0
    BY DEF VerInv, StampInv
  <2>3. \A w \in Workers : \A n \in shot[w].todo :
          log'[n].by = w /\ (~enforced /\ n \notin late => stamps[n] = 0)
    BY <2>1 DEF VerInv, StampInv
  <2>. QED
    BY <1>2, <2>2, <2>3 DEF StampInv
<1>9. ASSUME NEW n \in Results, Verifiable(n)'
      PROVE  Verifiable(n)
  <2>1. n \in 1..L /\ n \in 1..L + 1
    BY <1>1, <1>4
  <2>2. DispatchesTo(n, 1..Len(log))' = DispatchesTo(n, 1..Len(log))
    BY <1>1, <1>3, <1>4, <2>1 DEF DispatchesTo
  <2>3. /\ n \in (1..L + 1) \ gone
        /\ DispatchesTo(n, 1..Len(log))' # {}
        /\ log'[Lowest(DispatchesTo(n, 1..Len(log))')].kind = "checked"
        /\ Lowest(DispatchesTo(n, 1..Len(log))') \notin gone
    BY <1>2, <1>3, <1>9 DEF Verifiable, HasChecks, Stored
  <2>4. Lowest(DispatchesTo(n, 1..Len(log))) \in 1..L
    <3>1. DispatchesTo(n, 1..Len(log)) \in SUBSET (1..L) /\ DispatchesTo(n, 1..Len(log)) # {}
      BY <2>2, <2>3 DEF DispatchesTo
    <3>2. DispatchesTo(n, 1..Len(log)) \in SUBSET Nat
      BY <3>1
    <3>. QED
      BY <3>1, <3>2, LowestOf
  <2>. QED
    BY <1>3, <2>1, <2>2, <2>3, <2>4 DEF Verifiable, HasChecks, Stored
<1>10. ASSUME NEW n \in Results, Settled(n)
       PROVE  Settled(n)'
  BY <1>1, <1>2, <1>3, <1>5, <1>10 DEF Settled
<1>11. NoResultPassedOver'
  <2>. SUFFICES ASSUME NEW n \in Results', Verifiable(n)', base < n, n <= Highest({file, since})
                PROVE  Settled(n)'
    BY <1>2 DEF NoResultPassedOver
  <2>1. Highest({file, since}) \in {file, since}
    <3>1. file \in Int /\ since \in Int
      BY <1>1 DEF TypeOK, NoCursor
    <3>. QED
      BY <3>1, HighestPair
  <2>2. Highest({file, since}) \in {NoCursor} \cup 0..L
    BY <1>1, <2>1 DEF TypeOK
  <2>3. n \in Results
    BY <1>1, <1>5, <2>2 DEF NoCursor
  <2>. QED
    BY <1>9, <1>10, <2>3 DEF VerInv, NoResultPassedOver
<1>12. PassInv'
  <2>. SUFFICES ASSUME pc = "post", NEW n \in Results', Verifiable(n)', base < n, n <= next
                PROVE  Settled(n)' \/ Covered(n)'
    BY <1>2 DEF PassInv
  <2>1. next \in 0..L
    BY <1>1 DEF TypeOK
  <2>2. n \in Results
    BY <1>1, <1>5, <2>1
  <2>3. Settled(n) \/ Covered(n)
    BY <1>9, <2>2 DEF VerInv, PassInv
  <2>4. Covered(n) => Covered(n)'
    <3>1. \A k \in todo : k \in 1..L
      BY <1>1 DEF TypeOK
    <3>2. n \in 1..L
      BY <1>1, <2>2
    <3>. QED
      BY <1>2, <1>3, <3>1, <3>2 DEF Covered
  <2>. QED
    BY <1>10, <2>2, <2>3, <2>4
<1>. QED
  BY <1>6, <1>7, <1>8, <1>11, <1>12 DEF VerInv

LEMMA RemoveStep ==
  ASSUME VerInv, NEW n \in Stored, Remove(n)
  PROVE  VerInv'
<1>1. /\ gone' = gone \cup {n}
      /\ UNCHANGED <<log, stamps, enforced, file, since, base, pc, top, next, todo, shot, late>>
  BY DEF Remove, watchVars
<1>2. Results' = Results /\ \A k : Settled(k)' <=> Settled(k)
  BY <1>1, SameStamps DEF Results
<1>3. ASSUME NEW k, Verifiable(k)'
      PROVE  Verifiable(k)
  BY <1>1, <1>3 DEF Verifiable, HasChecks, Stored, DispatchesTo, Results
<1>4. TypeOK'
  BY <1>1, <1>2 DEF VerInv, TypeOK, Stored
<1>5. VerifiedOnce' /\ StampInv'
  BY <1>1, <1>2 DEF VerInv, VerifiedOnce, StampInv
<1>6. NoResultPassedOver'
  BY <1>1, <1>2, <1>3 DEF VerInv, NoResultPassedOver
<1>7. PassInv'
  BY <1>1, <1>2, <1>3 DEF VerInv, PassInv, Covered
<1>. QED
  BY <1>4, <1>5, <1>6, <1>7 DEF VerInv

(* Handing verification back during a pass is what makes results late. *)
LEMMA SwitchStep ==
  ASSUME VerInv, Switch
  PROVE  VerInv'
<1>1. /\ enforced' = ~enforced
      /\ late' = IF enforced THEN late \cup todo \cup UNION {shot[w].todo : w \in Workers} ELSE late
      /\ UNCHANGED <<log, gone, stamps, file, since, base, pc, top, next, todo, shot>>
  BY DEF Switch, watchVars
<1>2. /\ Results' = Results /\ (\A n : Verifiable(n)' <=> Verifiable(n))
      /\ (\A n : Settled(n)' <=> Settled(n))
  BY <1>1, SameMessages, SameStamps
<1>3. late \subseteq late' /\ late' \subseteq Results
  <2>1. \A w \in Workers : shot[w].todo \subseteq Results
    BY DEF VerInv, TypeOK
  <2>2. UNION {shot[w].todo : w \in Workers} \subseteq Results
    BY <2>1
  <2>. QED
    BY <1>1, <2>2 DEF VerInv, TypeOK
<1>4. TypeOK'
  BY <1>1, <1>2, <1>3 DEF VerInv, TypeOK
<1>5. VerifiedOnce' /\ NoResultPassedOver'
  BY <1>1, <1>2, <1>3 DEF VerInv, VerifiedOnce, NoResultPassedOver
<1>6. StampInv'
  <2>1. CASE enforced
    <3>1. todo \subseteq late' /\ \A w \in Workers : shot[w].todo \subseteq late'
      BY <1>1, <2>1
    <3>. QED
      BY <1>1, <3>1 DEF VerInv, StampInv
  <2>2. CASE ~enforced
    <3>1. todo \subseteq late /\ late' = late /\ enforced'
      BY <1>1, <2>2 DEF VerInv, StampInv
    <3>. QED
      BY <1>1, <3>1 DEF VerInv, StampInv
  <2>. QED
    BY <2>1, <2>2
<1>7. PassInv'
  BY <1>1, <1>2 DEF VerInv, PassInv, Covered
<1>. QED
  BY <1>4, <1>5, <1>6, <1>7 DEF VerInv

----------------------------------------------------------------------------
(* Asking for a page. *)

LEMMA PoolType ==
  ASSUME TypeOK, NEW after
  PROVE  /\ Pool(after) \in SUBSET Results
         /\ Pool(after) \in SUBSET (0..Len(log))
         /\ IsFiniteSet(Pool(after))
<1>1. Pool(after) \in SUBSET Results
  BY DEF Pool
<1>2. Len(log) \in Nat /\ \A n \in Results : n \in 0..Len(log)
  BY ResultIds
<1>3. Pool(after) \in SUBSET (0..Len(log))
  BY <1>1, <1>2
<1>. QED
  BY <1>1, <1>2, <1>3, HighestIn

(* A page is a beginning of the rows beyond the cursor. *)
LEMMA PagePrefix ==
  ASSUME TypeOK, NEW after \in Int, NEW m \in Pool(after),
         NEW n \in Stored \cap Results, n > after, n <= m
  PROVE  n \in Pool(after)
<1>. DEFINE rows    == {k \in Stored \cap Results : k > after}
            upto(x) == {k \in rows : k <= x}
<1>1. /\ Len(log) \in Nat /\ \A k \in rows : k \in 0..Len(log)
      /\ m \in rows /\ Cardinality(upto(m)) <= PoolLimit /\ n \in rows
  BY ResultIds DEF Pool
<1>2. \A k \in rows : k \in Int
  BY <1>1
<1>3. upto(n) \in SUBSET upto(m) /\ upto(m) \in SUBSET (0..Len(log))
  BY <1>1, <1>2
<1>4. IsFiniteSet(upto(m)) /\ IsFiniteSet(upto(n)) /\ Cardinality(upto(n)) <= Cardinality(upto(m))
  BY <1>1, <1>3, HighestIn, FS_Subset
<1>5. Cardinality(upto(n)) \in Nat /\ Cardinality(upto(m)) \in Nat /\ PoolLimit \in Nat
  BY <1>4, FS_CardinalityType, LimitsAssumption
<1>6. Cardinality(upto(n)) <= PoolLimit
  BY <1>1, <1>4, <1>5
<1>. QED
  BY <1>1, <1>6 DEF Pool

(* A page that is not full holds every row beyond the cursor: the first    *)
(* row it left out would have found room.                                  *)
LEMMA PageWhole ==
  ASSUME TypeOK, NEW after \in Int, ~Full(after), NEW n \in Stored \cap Results, n > after
  PROVE  n \in Pool(after)
<1>. DEFINE rows    == {k \in Stored \cap Results : k > after}
            upto(x) == {k \in rows : k <= x}
            out     == {k \in rows : k \notin Pool(after)}
<1>1. /\ Len(log) \in Nat /\ \A k \in rows : k \in 0..Len(log)
  BY ResultIds
<1>2. \A k \in rows : k \in Nat
  BY <1>1
<1>3. ASSUME out # {}
      PROVE  FALSE
  <2>1. out \in SUBSET Nat
    BY <1>2
  <2>2. PICK x \in out : \A k \in out : x <= k
    BY <1>3, <2>1, MinNat
  <2>3. x \in rows /\ x \in Nat /\ x \notin Pool(after)
    BY <2>1, <2>2
  <2>4. upto(x) \subseteq Pool(after) \cup {x}
    <3>. SUFFICES ASSUME NEW k \in rows, k <= x, k # x
                  PROVE  k \in Pool(after)
      OBVIOUS
    <3>1. ~(x <= k)
      BY <1>2, <2>3
    <3>. QED
      BY <2>2, <3>1
  <2>5. /\ IsFiniteSet(Pool(after)) /\ IsFiniteSet(Pool(after) \cup {x})
        /\ Cardinality(Pool(after) \cup {x}) = Cardinality(Pool(after)) + 1
    BY <2>3, PoolType, FS_AddElement
  <2>6. IsFiniteSet(upto(x)) /\ Cardinality(upto(x)) <= Cardinality(Pool(after) \cup {x})
    BY <2>4, <2>5, FS_Subset
  <2>7. /\ Cardinality(Pool(after)) \in Nat /\ Cardinality(upto(x)) \in Nat /\ PoolLimit \in Nat
        /\ ~(Cardinality(Pool(after)) >= PoolLimit)
    BY <2>5, <2>6, FS_CardinalityType, LimitsAssumption DEF Full
  <2>8. Cardinality(upto(x)) <= PoolLimit
    BY <2>5, <2>6, <2>7
  <2>9. x \in Pool(after)
    BY <2>3, <2>8 DEF Pool
  <2>. QED
    BY <2>3, <2>9
<1>. QED
  BY <1>3

(* What the cursor is about to pass over was on the page. *)
LEMMA PassedWasOnPage ==
  ASSUME TypeOK, NEW n \in Stored \cap Results, n > since, n <= NextCursor
  PROVE  n \in Pool(since)
<1>1. since \in Int /\ n \in Int /\ n >= 1
  <2>1. n \in 1..Len(log) /\ Len(log) \in Nat
    BY ResultIds
  <2>. QED
    BY <2>1 DEF TypeOK, NoCursor
<1>2. CASE Full(since)
  <2>1. n <= Highest(Pool(since))
    BY <1>2 DEF NextCursor
  <2>2. Pool(since) # {}
    BY <1>1, <2>1 DEF Highest
  <2>3. Pool(since) \in SUBSET Int /\ IsFiniteSet(Pool(since))
    <3>1. Pool(since) \in SUBSET (0..Len(log)) /\ IsFiniteSet(Pool(since))
      BY PoolType
    <3>. QED
      BY <3>1
  <2>4. Highest(Pool(since)) \in Pool(since)
    BY <2>2, <2>3, HighestOf
  <2>. QED
    BY <1>1, <2>1, <2>4, PagePrefix
<1>3. CASE ~Full(since)
  BY <1>1, <1>3, PageWhole
<1>. QED
  BY <1>2, <1>3

LEMMA ByWorker ==
  ASSUME TypeOK, NEW n \in Results
  PROVE  log[n].by \in Workers
<1>1. log[n] \in Message /\ log[n].kind = "result"
  <2>1. n \in 1..Len(log) /\ log[n].kind = "result"
    BY DEF Results
  <2>. QED
    BY <2>1 DEF TypeOK
<1>. QED
  BY <1>1 DEF Message

(* The latest result of the task on the page has its stamp, or is offered: *)
(* it is held to the same dispatch.                                        *)
LEMMA LatestOffered ==
  ASSUME TypeOK, NEW n \in Pool(since), Verifiable(n)
  PROVE  \E k \in Results : /\ n <= k /\ log[k].task = log[n].task
                            /\ stamps[k] > 0 \/ k \in Pending(since, Workers)
<1>. DEFINE own  == {k \in Pool(since) : log[k].by \in Workers}
            same == {k \in own : log[k].task = log[n].task}
            D(x) == DispatchesTo(x, 1..Len(log))
            E(x) == DispatchesTo(x, Stored)
<1>1. /\ Pool(since) \in SUBSET Results /\ Pool(since) \in SUBSET (0..Len(log))
      /\ IsFiniteSet(Pool(since)) /\ Len(log) \in Nat
  BY PoolType, ResultIds
<1>2. n \in same
  BY <1>1, ByWorker
<1>3. IsFiniteSet(same) /\ same \in SUBSET Int
  BY <1>1, FS_Subset
<1>4. PICK k \in same : \A x \in same : x <= k
  BY <1>2, <1>3, GreatestExists
<1>5. /\ k \in Results /\ n \in Results /\ n <= k /\ log[k].task = log[n].task
      /\ k \in own /\ k \in Int /\ n \in Int
  BY <1>1, <1>2, <1>3, <1>4
<1>. DEFINE d == Lowest(D(n))
<1>6. D(n) # {} /\ log[d].kind = "checked" /\ d \notin gone
  BY DEF Verifiable, HasChecks
<1>7. D(n) \in SUBSET Nat /\ D(n) \in SUBSET (1..Len(log))
  <2>1. D(n) \in SUBSET (1..Len(log))
    BY DEF DispatchesTo
  <2>. QED
    BY <2>1
<1>8. d \in D(n) /\ \A x \in D(n) : d <= x
  BY <1>6, <1>7, LowestOf
<1>. HIDE DEF d
<1>9. d \in E(k)
  <2>1. d \in 1..Len(log) /\ d <= n /\ log[d].kind \in {"checked", "bare"} /\ log[d].task = log[n].task
    BY <1>8 DEF DispatchesTo
  <2>2. d \in Stored /\ d <= k
    BY <1>5, <1>6, <2>1 DEF Stored
  <2>. QED
    BY <1>5, <2>1, <2>2 DEF DispatchesTo
<1>10. \A x \in E(k) : d <= x
  <2>. SUFFICES ASSUME NEW x \in E(k), ~(d <= x)
                PROVE  FALSE
    OBVIOUS
  <2>1. x \in 1..Len(log) /\ log[x].kind \in {"checked", "bare"} /\ log[x].task = log[k].task
    BY DEF DispatchesTo, Stored
  <2>2. d \in Nat /\ d <= n
    BY <1>7, <1>8 DEF DispatchesTo
  <2>3. x \in Int /\ x <= n
    BY <1>5, <2>1, <2>2
  <2>4. x \in D(n)
    BY <1>5, <2>1, <2>3 DEF DispatchesTo
  <2>. QED
    BY <1>8, <2>4
<1>11. Lowest(E(k)) = d
  <2>1. E(k) \in SUBSET Nat
    <3>1. Stored \in SUBSET Nat
      BY <1>1 DEF Stored
    <3>. QED
      BY <3>1 DEF DispatchesTo
  <2>2. Lowest(E(k)) \in E(k) /\ \A x \in E(k) : Lowest(E(k)) <= x
    BY <1>9, <2>1, LowestOf
  <2>3. Lowest(E(k)) \in Nat /\ d \in Nat
    BY <1>9, <2>1, <2>2
  <2>. QED
    BY <1>9, <1>10, <2>2, <2>3
<1>12. HasChecks(k, Stored)
  BY <1>6, <1>9, <1>11 DEF HasChecks
<1>13. stamps[k] > 0 \/ stamps[k] = 0
  <2>1. stamps[k] \in 0..2
    BY <1>5, ResultIds DEF TypeOK
  <2>. QED
    BY <2>1
<1>14. stamps[k] = 0 => k \in Pending(since, Workers)
  <2>1. \A x \in own : log[x].task = log[k].task => x <= k
    BY <1>4, <1>5
  <2>. QED
    BY <1>5, <1>12, <2>1 DEF Pending
<1>. QED
  BY <1>5, <1>13, <1>14

(* A pass asks for the results it will have verified when it moves on. *)
LEMMA AskStep ==
  ASSUME VerInv, Ask
  PROVE  VerInv'
<1>1. /\ TypeOK /\ pc' = "post" /\ todo' = Pending(since, Workers) /\ next' = NextCursor /\ top' = 0
      /\ late' = IF enforced THEN late ELSE late \cup todo'
      /\ UNCHANGED <<log, gone, stamps, enforced, shot, file, since, base>>
  BY DEF VerInv, Ask, WatchStep
<1>2. Results' = Results /\ (\A n : Verifiable(n)' <=> Verifiable(n))
      /\ (\A n : Settled(n)' <=> Settled(n))
  BY <1>1, SameMessages, SameStamps
<1>3. todo' \subseteq Results /\ \A n \in todo' : stamps[n] = 0
  BY <1>1, PendingIn
<1>4. late \subseteq late' /\ late' \subseteq Results
  BY <1>1, <1>3 DEF TypeOK
<1>5. NextCursor \in 0..Len(log) /\ Len(log) \in Nat
  <2>1. Highest(Pool(since)) \in 0..Len(log) /\ Len(log) \in Nat
    BY <1>1, PoolType, ResultIds, HighestIn
  <2>. QED
    BY <1>1, <2>1 DEF NextCursor, TypeOK
<1>6. TypeOK'
  <2>1. file' \in {NoCursor} \cup 0..Len(log) /\ since' \in {NoCursor} \cup 0..Len(log)
        /\ base' \in 0..Len(log)
    BY <1>1 DEF TypeOK
  <2>2. 0 \in 0..Len(log)
    BY <1>5
  <2>. QED
    BY <1>1, <1>3, <1>4, <1>5, <2>1, <2>2, WatchTypes
<1>7. VerifiedOnce' /\ NoResultPassedOver'
  BY <1>1, <1>2, <1>4 DEF VerInv, VerifiedOnce, NoResultPassedOver
<1>8. StampInv'
  <2>1. \A n \in todo' \ late' : enforced
    BY <1>1
  <2>. QED
    BY <1>1, <1>3, <1>4, <2>1 DEF VerInv, StampInv
<1>9. PassInv'
  <2>. SUFFICES ASSUME NEW n \in Results, Verifiable(n), base < n, n <= NextCursor
                PROVE  Settled(n) \/ Covered(n)'
    BY <1>1, <1>2 DEF PassInv
  <2>1. n \in Int /\ since \in Int /\ file \in Int
    BY <1>1, ResultIds DEF TypeOK, NoCursor
  <2>2. CASE n <= since
    <3>1. Highest({file, since}) \in {file, since} /\ since <= Highest({file, since})
      BY <2>1, HighestPair
    <3>2. n <= Highest({file, since})
      BY <2>1, <2>2, <3>1
    <3>. QED
      BY <3>2 DEF VerInv, NoResultPassedOver
  <2>3. CASE n > since
    <3>1. n \in Stored \cap Results
      BY DEF Verifiable
    <3>2. n \in Pool(since)
      BY <1>1, <2>3, <3>1, PassedWasOnPage
    <3>3. PICK k \in Results : /\ n <= k /\ log[k].task = log[n].task
                               /\ stamps[k] > 0 \/ k \in Pending(since, Workers)
      BY <1>1, <3>2, LatestOffered
    <3>4. k \in Pending(since, Workers) => Covered(n)'
      BY <1>1, <3>3 DEF Covered
    <3>. QED
      BY <3>3, <3>4 DEF Settled
  <2>. QED
    BY <2>1, <2>2, <2>3
<1>. QED
  BY <1>6, <1>7, <1>8, <1>9 DEF VerInv

----------------------------------------------------------------------------

LEMMA VerInitInv == Init => VerInv
<1>. SUFFICES ASSUME Init PROVE VerInv
  OBVIOUS
<1>1. Len(log) = 0 /\ log \in Seq(Message) /\ MaxId \in Nat
  BY LimitsAssumption DEF Init
<1>2. Results = {}
  BY <1>1 DEF Results
<1>3. TypeOK
  <2>1. shot \in [Workers -> [at : {"idle", "ask", "post"}, todo : SUBSET Results]]
    BY DEF Init, Idle
  <2>2. stamps \in [Ids -> 0..2] /\ {n \in Ids : stamps[n] > 0} = {}
    BY DEF Init
  <2>. QED
    BY <1>1, <2>1, <2>2 DEF Init, TypeOK
<1>4. VerifiedOnce /\ NoResultPassedOver /\ PassInv
  BY <1>2 DEF VerifiedOnce, NoResultPassedOver, PassInv
<1>5. StampInv
  BY DEF Init, StampInv, Idle
<1>. QED
  BY <1>3, <1>4, <1>5 DEF VerInv

LEMMA VerNextInv == VerInv /\ [Next]_vars => VerInv'
<1>. SUFFICES ASSUME VerInv, [Next]_vars PROVE VerInv'
  OBVIOUS
<1>1. CASE UNCHANGED vars
  BY <1>1, ShotQuiet DEF vars, brokerVars, watchVars, countVars, VerInv, TypeOK
<1>2. CASE Environment
  BY <1>2, PostStep, RemoveStep, SwitchStep, WaitStep DEF Environment
<1>3. CASE Watch
  BY <1>3, WaitStep, SeedStep, AskStep, AdvanceStep, PostStampStep DEF Watch
<1>4. CASE OneShot
  BY <1>4, ShotAskStep, ShotDiesStep, ShotLookStep, ShotPostStep DEF OneShot
<1>. QED
  BY <1>1, <1>2, <1>3, <1>4 DEF Next

LEMMA VerAlways == Spec => []VerInv
BY VerInitInv, VerNextInv, PTL DEF Spec

(* Messages, cursors, passes and stamps are well formed. *)
THEOREM VerificationTypeCorrect == Spec => []TypeOK
<1>1. VerInv => TypeOK
  BY DEF VerInv
<1>. QED
  BY VerAlways, <1>1, PTL

(* No result is verified twice, by whomever, except one that was in hand   *)
(* when verification was handed back to the watchdogs.                     *)
THEOREM NoResultVerifiedTwice == Spec => []VerifiedOnce
<1>1. VerInv => VerifiedOnce
  BY DEF VerInv
<1>. QED
  BY VerAlways, <1>1, PTL

(* The cursor of the standalone verifier, on file or in hand, passes over  *)
(* no result that should be verified, for pages of any size.               *)
THEOREM CursorPassesOverNothing == Spec => []NoResultPassedOver
<1>1. VerInv => NoResultPassedOver
  BY DEF VerInv
<1>. QED
  BY VerAlways, <1>1, PTL

----------------------------------------------------------------------------
(* The lock, for any number of starters and any stale or foreign lock to   *)
(* begin with.  As long as nothing was removed unjudged, the takeover file *)
(* stands as long as its creator needs it, so that a starter about to      *)
(* remove the lock removes the one it has judged, of a process that is     *)
(* gone: never that of a verifier at work.                                 *)

Pids == Starters \cup Others

LockTypeOK ==
  /\ owner \in SUBSET Pids /\ pid \in SUBSET Pids
  /\ at \in [Starters -> Places]
  /\ judged \in [Starters -> SUBSET Pids]

(* Only the lock's one creator is read in it, and it has been started.     *)
LockInv ==
  /\ pid \subseteq owner
  /\ \A q, r \in owner : q = r
  /\ \A q \in Starters : q \in owner => at[q] # "off"

(* Who was judged to be no verifier never is one again. *)
JudgedInv ==
  \A p, q \in Starters : q \in judged[p] => at[q] = "gone"

GuardInv  == \A p \in Starters : at[p] \in Guarded => guard = {p}
UnlinkInv == \A p \in Starters : at[p] = "unlink" => judged[p] = {} \/ pid = judged[p]
WatchInv  == \A p \in Starters : at[p] \in {"watching", "exiting"} => owner = {p} /\ pid = {p}

OneLockInv ==
  /\ LockTypeOK /\ LockInv /\ JudgedInv
  /\ gaps = {} => GuardInv /\ UnlinkInv /\ WatchInv

LEMMA LockInitInv == LockInit => OneLockInv
<1>. SUFFICES ASSUME LockInit PROVE OneLockInv
  OBVIOUS
<1>1. \A p \in Starters : at[p] = "off" /\ judged[p] = {}
  BY DEF LockInit
<1>2. LockTypeOK
  BY DEF LockInit, LockTypeOK, Pids, Places
<1>3. LockInv
  BY DEF LockInit, LockInv
<1>4. JudgedInv /\ GuardInv /\ UnlinkInv /\ WatchInv
  BY <1>1 DEF JudgedInv, GuardInv, UnlinkInv, WatchInv, Guarded
<1>. QED
  BY <1>2, <1>3, <1>4 DEF OneLockInv

(* Steps that touch neither file and judge nobody: they preserve the       *)
(* invariant when they lead nowhere a file is needed.                      *)
LEMMA QuietStep ==
  ASSUME OneLockInv, NEW p \in Starters, NEW place \in Places,
         at[p] # "gone", Goto(p, place), UNCHANGED <<lockVars, guard, judged, gaps>>,
         place # "off",
         place \in Guarded => at[p] \in Guarded,
         place = "unlink" => pid = judged[p],
         place \in {"watching", "exiting"} => pid = {p}
  PROVE  OneLockInv'
<1>1. at' = [at EXCEPT ![p] = place] /\ at \in [Starters -> Places]
  BY DEF Goto, OneLockInv, LockTypeOK
<1>2. at' \in [Starters -> Places] /\ at'[p] = place /\ \A q \in Starters \ {p} : at'[q] = at[q]
  BY <1>1
<1>3. owner' = owner /\ pid' = pid /\ guard' = guard /\ judged' = judged /\ gaps' = gaps
  BY DEF lockVars
<1>4. LockTypeOK'
  BY <1>2, <1>3 DEF OneLockInv, LockTypeOK, Pids
<1>5. LockInv'
  BY <1>2, <1>3 DEF OneLockInv, LockInv
<1>6. JudgedInv'
  BY <1>2, <1>3 DEF OneLockInv, JudgedInv
<1>7. ASSUME gaps = {}
      PROVE  GuardInv' /\ UnlinkInv' /\ WatchInv'
  <2>1. GuardInv'
    BY <1>2, <1>3, <1>7 DEF OneLockInv, GuardInv
  <2>2. UnlinkInv'
    BY <1>2, <1>3, <1>7 DEF OneLockInv, UnlinkInv
  <2>3. place \in {"watching", "exiting"} => owner = {p}
    BY DEF OneLockInv, LockInv
  <2>4. WatchInv'
    BY <1>2, <1>3, <1>7, <2>3 DEF OneLockInv, WatchInv
  <2>. QED
    BY <2>1, <2>2, <2>4
<1>. QED
  BY <1>3, <1>4, <1>5, <1>6, <1>7 DEF OneLockInv

(* A step that changes the lock or the takeover file, or judges. *)
LEMMA Moves ==
  ASSUME OneLockInv, NEW p \in Starters, NEW place \in Places \ {"off"}, Goto(p, place)
  PROVE  /\ at' \in [Starters -> Places] /\ at'[p] = place
         /\ \A q \in Starters \ {p} : at'[q] = at[q]
BY DEF Goto, OneLockInv, LockTypeOK

(* Creating the lock, at the top of the loop or under the takeover file. *)
LEMMA CreateStep ==
  ASSUME OneLockInv, NEW p \in Starters, NEW place \in {"write", "rewrite"},
         at[p] \in {"create", "recreate"}, place = "rewrite" => at[p] = "recreate",
         owner = {}, owner' = {p}, pid' = {}, Goto(p, place),
         UNCHANGED <<guard, judged, gaps>>
  PROVE  OneLockInv'
<1>1. place \in Places \ {"off"}
  BY DEF Places, Created
<1>2. /\ at' \in [Starters -> Places] /\ at'[p] = place
      /\ \A q \in Starters \ {p} : at'[q] = at[q]
  BY <1>1, Moves
<1>3. LockTypeOK'
  BY <1>2 DEF OneLockInv, LockTypeOK, Pids
<1>4. LockInv'
  BY <1>2 DEF LockInv
<1>5. JudgedInv'
  BY <1>2 DEF OneLockInv, JudgedInv
<1>6. ASSUME gaps = {}
      PROVE  GuardInv' /\ UnlinkInv' /\ WatchInv'
  <2>1. GuardInv'
    BY <1>2, <1>6 DEF OneLockInv, GuardInv, Guarded
  <2>2. pid = {}
    BY DEF OneLockInv, LockInv
  <2>3. UnlinkInv'
    BY <1>2, <1>6, <2>2 DEF OneLockInv, UnlinkInv
  <2>4. WatchInv'
    BY <1>2, <1>6 DEF OneLockInv, WatchInv
  <2>. QED
    BY <2>1, <2>3, <2>4
<1>. QED
  BY <1>3, <1>4, <1>5, <1>6 DEF OneLockInv

(* Writing the pid. *)
LEMMA WriteStep ==
  ASSUME OneLockInv, NEW p \in Starters, NEW place \in {"confirm", "keep"},
         at[p] \in {"write", "rewrite"}, place = "keep" => at[p] = "rewrite",
         WriteInto(p), Goto(p, place), UNCHANGED <<owner, guard, judged, gaps>>
  PROVE  OneLockInv'
<1>1. place \in Places \ {"off"}
  BY DEF Places, Created
<1>2. /\ at' \in [Starters -> Places] /\ at'[p] = place
      /\ \A q \in Starters \ {p} : at'[q] = at[q]
  BY <1>1, Moves
<1>3. (owner = {p} /\ pid' = {p}) \/ pid' = pid
  BY DEF WriteInto
<1>4. LockTypeOK'
  BY <1>2, <1>3 DEF OneLockInv, LockTypeOK, Pids
<1>5. LockInv'
  BY <1>2, <1>3 DEF OneLockInv, LockInv
<1>6. JudgedInv'
  BY <1>2 DEF OneLockInv, JudgedInv
<1>7. ASSUME gaps = {}
      PROVE  GuardInv' /\ UnlinkInv' /\ WatchInv'
  <2>1. GuardInv'
    BY <1>2, <1>7 DEF OneLockInv, GuardInv, Guarded
  <2>2. ASSUME NEW q \in Starters, at'[q] = "unlink"
        PROVE  judged[q] = {} \/ pid' = judged[q]
    <3>1. at[q] = "unlink" /\ (judged[q] = {} \/ pid = judged[q])
      BY <1>2, <1>7, <2>2 DEF OneLockInv, UnlinkInv
    <3>2. p \notin judged[q]
      BY DEF OneLockInv, JudgedInv
    <3>3. pid \subseteq owner
      BY DEF OneLockInv, LockInv
    <3>. QED
      BY <1>3, <3>1, <3>2, <3>3
  <2>3. UnlinkInv'
    BY <2>2 DEF UnlinkInv
  <2>4. WatchInv'
    BY <1>2, <1>3, <1>7 DEF OneLockInv, WatchInv
  <2>. QED
    BY <2>1, <2>3, <2>4
<1>. QED
  BY <1>4, <1>5, <1>6, <1>7 DEF OneLockInv

(* A starter judges the pid it reads, which stays gone. *)
LEMMA JudgeStep ==
  ASSUME OneLockInv, NEW p \in Starters, Judge(p)
  PROVE  OneLockInv'
<1>1. "guard" \in Places \ {"off"} /\ Goto(p, "guard") /\ at[p] = "look"
  BY DEF Places, Judge
<1>2. /\ at' \in [Starters -> Places] /\ at'[p] = "guard"
      /\ \A q \in Starters \ {p} : at'[q] = at[q]
  BY <1>1, Moves
<1>3. judged' = [judged EXCEPT ![p] = pid] /\ UNCHANGED <<owner, pid, guard, gaps>>
  BY DEF Judge, lockVars
<1>4. judged' \in [Starters -> SUBSET Pids] /\ judged'[p] = pid
      /\ \A q \in Starters \ {p} : judged'[q] = judged[q]
  BY <1>3 DEF OneLockInv, LockTypeOK
<1>5. LockTypeOK'
  BY <1>2, <1>3, <1>4 DEF OneLockInv, LockTypeOK, Pids
<1>6. LockInv'
  BY <1>2, <1>3 DEF OneLockInv, LockInv
<1>7. JudgedInv'
  <2>1. ASSUME NEW q \in Starters, NEW r \in Starters, r \in judged'[q]
        PROVE  at'[r] = "gone"
    <3>1. CASE q = p
      <4>1. r \in pid /\ ~Alive(r) /\ at[r] # "off"
        BY <1>4, <2>1, <3>1 DEF Judge, OneLockInv, LockInv
      <4>2. at[r] = "gone"
        BY <4>1 DEF Alive
      <4>. QED
        BY <4>2, <1>1, <1>2
    <3>2. CASE q # p
      BY <1>1, <1>2, <1>4, <2>1, <3>2 DEF OneLockInv, JudgedInv
    <3>. QED
      BY <3>1, <3>2
  <2>. QED
    BY <2>1 DEF JudgedInv
<1>8. ASSUME gaps = {}
      PROVE  GuardInv' /\ UnlinkInv' /\ WatchInv'
  <2>1. GuardInv'
    BY <1>2, <1>3, <1>8 DEF OneLockInv, GuardInv, Guarded
  <2>2. UnlinkInv'
    BY <1>2, <1>3, <1>4, <1>8 DEF OneLockInv, UnlinkInv
  <2>3. WatchInv'
    BY <1>2, <1>3, <1>8 DEF OneLockInv, WatchInv
  <2>. QED
    BY <2>1, <2>2, <2>3
<1>. QED
  BY <1>3, <1>5, <1>6, <1>7, <1>8 DEF OneLockInv

(* The takeover file is created only where there is none. *)
LEMMA GuardStep ==
  ASSUME OneLockInv, NEW p \in Starters, at[p] = "guard", guard = {}, guard' = {p}, Goto(p, "check"),
         UNCHANGED <<lockVars, judged, gaps>>
  PROVE  OneLockInv'
<1>1. "check" \in Places \ {"off"}
  BY DEF Places, Guarded
<1>2. /\ at' \in [Starters -> Places] /\ at'[p] = "check"
      /\ \A q \in Starters \ {p} : at'[q] = at[q]
  BY <1>1, Moves
<1>3. UNCHANGED <<owner, pid>>
  BY DEF lockVars
<1>4. LockTypeOK' /\ LockInv' /\ JudgedInv'
  BY <1>2, <1>3 DEF OneLockInv, LockTypeOK, LockInv, JudgedInv, Pids
<1>5. ASSUME gaps = {}
      PROVE  GuardInv' /\ UnlinkInv' /\ WatchInv'
  <2>1. \A q \in Starters : at[q] \notin Guarded
    BY <1>5 DEF OneLockInv, GuardInv
  <2>2. GuardInv'
    BY <1>2, <2>1 DEF GuardInv
  <2>3. UnlinkInv' /\ WatchInv'
    BY <1>2, <1>3, <1>5 DEF OneLockInv, UnlinkInv, WatchInv
  <2>. QED
    BY <2>2, <2>3
<1>. QED
  BY <1>4, <1>5 DEF OneLockInv

(* The takeover file is removed: by the one that created it, or when its   *)
(* creator is gone, or as a gap.                                           *)
LEMMA RemoveGuardStep ==
  ASSUME OneLockInv, NEW p \in Starters, NEW place \in {"create", "confirm"},
         at[p] \in {"breakGuard", "release", "keep"}, RemoveGuard(p), Goto(p, place),
         UNCHANGED <<lockVars, judged>>
  PROVE  OneLockInv'
<1>1. place \in Places \ {"off"}
  BY DEF Places, Created
<1>2. /\ at' \in [Starters -> Places] /\ at'[p] = place
      /\ \A q \in Starters \ {p} : at'[q] = at[q]
  BY <1>1, Moves
<1>3. UNCHANGED <<owner, pid>>
  BY DEF lockVars
<1>4. LockTypeOK'
  BY <1>2, <1>3 DEF OneLockInv, LockTypeOK, Pids
<1>5. LockInv' /\ JudgedInv'
  BY <1>2, <1>3 DEF OneLockInv, LockInv, JudgedInv
<1>6. ASSUME gaps' = {}
      PROVE  GuardInv' /\ UnlinkInv' /\ WatchInv'
  <2>1. gaps = {} /\ \A r \in guard : Alive(r) => r = p
    BY <1>6 DEF RemoveGuard
  <2>2. \A q \in Starters \ {p} : at[q] \notin Guarded
    BY <2>1 DEF OneLockInv, GuardInv, Alive, Guarded
  <2>3. GuardInv'
    BY <1>2, <2>2 DEF GuardInv, Guarded
  <2>4. UnlinkInv' /\ WatchInv'
    BY <1>2, <1>3, <2>1 DEF OneLockInv, UnlinkInv, WatchInv
  <2>. QED
    BY <2>3, <2>4
<1>. QED
  BY <1>4, <1>5, <1>6 DEF OneLockInv

(* The lock is removed under the takeover file: the judged one, of a       *)
(* process that is gone, or as a gap.                                      *)
LEMMA UnlinkStep ==
  ASSUME OneLockInv, NEW p \in Starters, Unlink(p)
  PROVE  OneLockInv'
<1>1. "recreate" \in Places \ {"off"} /\ Goto(p, "recreate") /\ at[p] = "unlink"
  BY DEF Places, Guarded, Unlink
<1>2. /\ at' \in [Starters -> Places] /\ at'[p] = "recreate"
      /\ \A q \in Starters \ {p} : at'[q] = at[q]
  BY <1>1, Moves
<1>3. owner' = {} /\ pid' = {} /\ guard' = guard /\ judged' = judged
  BY DEF Unlink
<1>4. LockTypeOK' /\ LockInv'
  BY <1>2, <1>3 DEF OneLockInv, LockTypeOK, LockInv
<1>5. JudgedInv'
  BY <1>1, <1>2, <1>3 DEF OneLockInv, JudgedInv
<1>6. ASSUME gaps' = {}
      PROVE  GuardInv' /\ UnlinkInv' /\ WatchInv'
  <2>1. gaps = {} /\ (judged[p] = {} => owner = {})
    BY <1>6 DEF Unlink
  <2>2. GuardInv'
    BY <1>1, <1>2, <1>3, <2>1 DEF OneLockInv, GuardInv, Guarded
  <2>3. \A q \in Starters \ {p} : at[q] \notin Guarded
    BY <1>1, <2>1 DEF OneLockInv, GuardInv, Guarded
  <2>4. UnlinkInv'
    BY <1>2, <2>3 DEF UnlinkInv, Guarded
  <2>5. ASSUME NEW q \in Starters, at[q] \in {"watching", "exiting"}
        PROVE  FALSE
    <3>1. owner = {q} /\ pid = {q}
      BY <2>1, <2>5 DEF OneLockInv, WatchInv
    <3>2. pid = judged[p]
      BY <1>1, <2>1, <3>1 DEF OneLockInv, UnlinkInv
    <3>3. at[q] = "gone"
      BY <3>1, <3>2 DEF OneLockInv, JudgedInv
    <3>. QED
      BY <2>5, <3>3
  <2>6. WatchInv'
    BY <1>2, <2>5 DEF WatchInv
  <2>. QED
    BY <2>2, <2>4, <2>6
<1>. QED
  BY <1>4, <1>5, <1>6 DEF OneLockInv

(* A verifier that ends removes its own lock. *)
LEMMA ExitStep ==
  ASSUME OneLockInv, NEW p \in Starters, ExitUnlink(p)
  PROVE  OneLockInv'
<1>1. "gone" \in Places \ {"off"} /\ Goto(p, "gone") /\ at[p] = "exiting"
  BY DEF Places, ExitUnlink
<1>2. /\ at' \in [Starters -> Places] /\ at'[p] = "gone"
      /\ \A q \in Starters \ {p} : at'[q] = at[q]
  BY <1>1, Moves
<1>3. owner' = {} /\ pid' = {} /\ guard' = guard /\ judged' = judged /\ gaps' = gaps
  BY DEF ExitUnlink
<1>4. LockTypeOK' /\ LockInv'
  BY <1>2, <1>3 DEF OneLockInv, LockTypeOK, LockInv
<1>5. JudgedInv'
  BY <1>2, <1>3 DEF OneLockInv, JudgedInv
<1>6. ASSUME gaps = {}
      PROVE  GuardInv' /\ UnlinkInv' /\ WatchInv'
  <2>1. owner = {p} /\ pid = {p}
    BY <1>1, <1>6 DEF OneLockInv, WatchInv
  <2>2. GuardInv'
    BY <1>2, <1>3, <1>6 DEF OneLockInv, GuardInv, Guarded
  <2>3. ASSUME NEW q \in Starters, at'[q] = "unlink"
        PROVE  judged[q] = {}
    <3>1. p \notin judged[q]
      BY <1>1 DEF OneLockInv, JudgedInv
    <3>2. at[q] = "unlink"
      BY <1>2, <2>3
    <3>. QED
      BY <1>6, <2>1, <3>1, <3>2 DEF OneLockInv, UnlinkInv
  <2>4. UnlinkInv'
    BY <1>3, <2>3 DEF UnlinkInv
  <2>5. WatchInv'
    BY <1>2, <1>6, <2>1 DEF OneLockInv, WatchInv
  <2>. QED
    BY <2>2, <2>4, <2>5
<1>. QED
  BY <1>3, <1>4, <1>5, <1>6 DEF OneLockInv

(* A starter that is killed keeps nobody else from anything. *)
LEMMA DieStep ==
  ASSUME OneLockInv, NEW p \in Starters, Die(p)
  PROVE  OneLockInv'
<1>1. "gone" \in Places /\ "gone" \notin Guarded /\ at[p] # "gone"
  BY DEF Places, Guarded, Die, Alive
<1>. QED
  BY <1>1, QuietStep DEF Die

LEMMA LockNextInv == OneLockInv /\ [LockNext]_starterVars => OneLockInv'
<1>. SUFFICES ASSUME OneLockInv, [LockNext]_starterVars
              PROVE  OneLockInv'
  OBVIOUS
<1>1. CASE UNCHANGED starterVars
  BY <1>1 DEF starterVars, OneLockInv, LockTypeOK, LockInv, JudgedInv, GuardInv, UnlinkInv, WatchInv
<1>2. ASSUME NEW p \in Starters,
             \/ StartUp(p) \/ Create(p) \/ GiveUp(p) \/ WritePid(p) \/ Wait(p) \/ Judge(p) \/ Refuse(p)
             \/ TakeGuard(p) \/ Age(p) \/ BreakGuard(p) \/ Check(p) \/ Unlink(p) \/ Recreate(p)
             \/ Rewrite(p) \/ Release(p) \/ Confirm(p) \/ Exit(p) \/ ExitUnlink(p) \/ Die(p)
      PROVE  OneLockInv'
  <2>. USE DEF Places, Guarded, Created
  <2>1. CASE StartUp(p)
    BY <2>1, QuietStep DEF StartUp
  <2>2. CASE Create(p)
    <3>1. CASE owner = {}
      BY <2>2, <3>1, CreateStep DEF Create
    <3>2. CASE owner # {}
      BY <2>2, <3>2, QuietStep DEF Create
    <3>. QED
      BY <3>1, <3>2
  <2>3. CASE GiveUp(p)
    BY <2>3, QuietStep DEF GiveUp
  <2>4. CASE WritePid(p)
    BY <2>4, WriteStep DEF WritePid
  <2>5. CASE Wait(p)
    BY <2>5, QuietStep DEF Wait
  <2>6. CASE Judge(p)
    BY <2>6, JudgeStep
  <2>7. CASE Refuse(p)
    BY <2>7, QuietStep DEF Refuse
  <2>8. CASE TakeGuard(p)
    <3>1. CASE guard = {}
      BY <2>8, <3>1, GuardStep DEF TakeGuard
    <3>2. CASE guard # {}
      BY <2>8, <3>2, QuietStep DEF TakeGuard
    <3>. QED
      BY <3>1, <3>2
  <2>9. CASE Age(p)
    <3>1. CASE Goto(p, "create")
      BY <2>9, <3>1, QuietStep DEF Age
    <3>2. CASE Goto(p, "breakGuard")
      BY <2>9, <3>2, QuietStep DEF Age
    <3>. QED
      BY <2>9, <3>1, <3>2 DEF Age
  <2>10. CASE BreakGuard(p)
    BY <2>10, RemoveGuardStep DEF BreakGuard
  <2>11. CASE Check(p)
    <3>1. CASE pid = judged[p]
      BY <2>11, <3>1, QuietStep DEF Check
    <3>2. CASE pid # judged[p]
      BY <2>11, <3>2, QuietStep DEF Check
    <3>. QED
      BY <3>1, <3>2
  <2>12. CASE Unlink(p)
    BY <2>12, UnlinkStep
  <2>13. CASE Recreate(p)
    <3>1. CASE owner = {}
      BY <2>13, <3>1, CreateStep DEF Recreate
    <3>2. CASE owner # {}
      BY <2>13, <3>2, QuietStep DEF Recreate
    <3>. QED
      BY <3>1, <3>2
  <2>14. CASE Rewrite(p)
    BY <2>14, WriteStep DEF Rewrite
  <2>15. CASE Release(p)
    BY <2>15, RemoveGuardStep DEF Release
  <2>16. CASE Confirm(p)
    <3>1. CASE pid = {p}
      BY <2>16, <3>1, QuietStep DEF Confirm
    <3>2. CASE pid # {p}
      BY <2>16, <3>2, QuietStep DEF Confirm
    <3>. QED
      BY <3>1, <3>2
  <2>17. CASE Exit(p)
    <3>1. CASE pid = {p}
      BY <2>17, <3>1, QuietStep DEF Exit
    <3>2. CASE pid # {p}
      BY <2>17, <3>2, QuietStep DEF Exit
    <3>. QED
      BY <3>1, <3>2
  <2>18. CASE ExitUnlink(p)
    BY <2>18, ExitStep
  <2>19. CASE Die(p)
    BY <2>19, DieStep
  <2>. QED
    BY <1>2, <2>1, <2>2, <2>3, <2>4, <2>5, <2>6, <2>7, <2>8, <2>9, <2>10, <2>11, <2>12, <2>13,
       <2>14, <2>15, <2>16, <2>17, <2>18, <2>19
<1>. QED
  BY <1>1, <1>2 DEF LockNext

(* The safety invariant of the lock: two starters hold it only after a     *)
(* file was removed that nobody had judged.                                *)
THEOREM NeverTwoVerifiers == LockSpec => []OneVerifierButForGaps
<1>1. OneLockInv => OneVerifierButForGaps
  BY DEF OneLockInv, WatchInv, OneVerifierButForGaps, OneVerifier
<1>. QED
  BY LockInitInv, LockNextInv, <1>1, PTL DEF LockSpec
=============================================================================
