-------------------------- MODULE GatedPostsProofs --------------------------
(***************************************************************************)
(* Theorems about GatedPosts, for any gates, channels, tasks and bounds,   *)
(* loops included: type correctness, NoGateAsleep and, for the gates that  *)
(* have to do with no loop, the promise of GatePromise, step by step.      *)
(*                                                                         *)
(* NoGateAsleep is inductive only with what the agenda still has to do: a  *)
(* gate whose results are all there is on its way to being called.         *)
(*                                                                         *)
(* The promise needs the shape of the agenda.  The steps of nested         *)
(* emissions are innermost first.  What stands before a posting gate is    *)
(* part of its emission, and leads from the channel it posts to; and it    *)
(* does not lead back to a calm gate that waits or posts below.  So a calm *)
(* gate stands in the agenda once, an emission never calls one that is     *)
(* already posting, and no full stack throws one away.                     *)
(***************************************************************************)
EXTENDS GatedPosts, TLAPS

Unanswered(g) == answer[g] \in {"uncalled", "pending"}

(* A listener listens on its gate's channel, and waits; who waits, listens. *)
Listening ==
  /\ \A ch \in Channels : \A i \in 1..Len(bus[ch]) :
       Watch[bus[ch][i]] = ch /\ answer[bus[ch][i]] = "pending"
  /\ \A g \in Gates : answer[g] = "pending" => g \in Range(bus[Watch[g]])

Has(q, x) == \E i \in 1..Len(q) : q[i] = x

(* A gate with all its results is about to be called, or is posting, or    *)
(* was thrown away with an agenda.                                         *)
Awake(q) ==
  \A g \in Gates \ missed : answer[g] = "pending" /\ AllSatisfied(g) =>
    Has(q, Emit(Watch[g])) \/ Has(q, Call(g)) \/ Has(q, Return(g))

GateInv == TypeOK /\ Listening /\ Awake(agenda)

(* The channel a step of the agenda is about, and the one it may emit on. *)
Place(x)   == IF x.do = "emit" THEN x.on ELSE Watch[x.on]
Outlet(x)  == IF x.do = "emit" THEN x.on ELSE Target[x.on]
OfCalm(x)  == x.do # "emit" /\ x.on \in Calm

(* x may stand anywhere before y. *)
Apart(x, y) ==
  OfCalm(y) => /\ x.do # "emit" => x.on # y.on
               /\ x.do # "return" => ~Leads(Outlet(x), Watch[y.on])
Inside(x, y) == y.do = "return" => Leads(Target[y.on], Place(x))
Before(x, y) == Apart(x, y) /\ Inside(x, y)

Nested(q) == \A i, j \in 1..Len(q) : i < j => Before(q[i], q[j])

(* What a step of the agenda says of its gate. *)
Fresh(x) ==
  OfCalm(x) => /\ x.do = "call" => answer[x.on] = "pending" /\ posts[x.on] = 0
               /\ x.do = "return" => Unanswered(x.on) /\ posts[x.on] = 1

PostInv ==
  /\ \A i \in 1..Len(agenda) : Fresh(agenda[i])
  /\ \A g \in Calm : Unanswered(g) /\ posts[g] # 0 => Has(agenda, Return(g))
  /\ PostedAtMostOnce

CalmInv == GateInv /\ Nested(agenda) /\ PostInv

----------------------------------------------------------------------------
(* Sequences. *)

(* Tail shifts. *)
LEMMA TailFacts ==
  ASSUME NEW S, NEW q \in Seq(S), q # <<>>
  PROVE  /\ Tail(q) \in Seq(S) /\ Len(q) \in Nat \ {0} /\ Head(q) = q[1] /\ q[1] \in S
         /\ Len(Tail(q)) = Len(q) - 1
         /\ \A i \in 1..Len(Tail(q)) : Tail(q)[i] = q[i + 1]
  OBVIOUS

(* The elements of a concatenation are those of its parts. *)
LEMMA ConcatFacts ==
  ASSUME NEW S, NEW p \in Seq(S), NEW q \in Seq(S)
  PROVE  /\ p \o q \in Seq(S) /\ Len(p \o q) = Len(p) + Len(q)
         /\ Len(p) \in Nat /\ Len(q) \in Nat
         /\ \A i \in 1..Len(p) : (p \o q)[i] = p[i]
         /\ \A i \in 1..Len(q) : (p \o q)[Len(p) + i] = q[i]
         /\ \A i \in 1..Len(p \o q) : i > Len(p) => i - Len(p) \in 1..Len(q) /\ (p \o q)[i] = q[i - Len(p)]
  OBVIOUS

(* Off takes one listener off and leaves the others, once each. *)
LEMMA OffFacts ==
  ASSUME NEW s \in Seq(Gates), IsInjective(s), NEW g
  PROVE  /\ Off(s, g) \in Seq(Gates) /\ IsInjective(Off(s, g))
         /\ Range(Off(s, g)) = Range(s) \ {g}
<1>1. CASE g \notin Range(s)
  BY <1>1 DEF Off
<1>2. CASE g \in Range(s)
  <2>. DEFINE n == CHOOSE i \in 1..Len(s) : s[i] = g
              r == Off(s, g)
  <2>1. n \in 1..Len(s) /\ s[n] = g /\ Len(s) \in Nat
    BY <1>2 DEF Range
  <2>. HIDE DEF n
  <2>2. r = SubSeq(s, 1, n - 1) \o SubSeq(s, n + 1, Len(s))
    BY <1>2 DEF Off, RemoveAt, n
  <2>3. /\ r \in Seq(Gates) /\ Len(r) = Len(s) - 1
        /\ \A i \in 1..Len(r) : r[i] = IF i < n THEN s[i] ELSE s[i + 1]
    <3>. DEFINE a == SubSeq(s, 1, n - 1)
                b == SubSeq(s, n + 1, Len(s))
    <3>1. a \in Seq(Gates) /\ Len(a) = n - 1 /\ \A i \in 1..Len(a) : a[i] = s[i]
      BY <2>1
    <3>2. b \in Seq(Gates) /\ Len(b) = Len(s) - n /\ \A i \in 1..Len(b) : b[i] = s[n + i]
      BY <2>1
    <3>3. r = a \o b
      BY <2>2
    <3>. HIDE DEF a, b, r
    <3>4. /\ r \in Seq(Gates) /\ Len(r) = Len(a) + Len(b) /\ \A i \in 1..Len(a) : r[i] = a[i]
          /\ \A i \in 1..Len(r) : i > Len(a) => i - Len(a) \in 1..Len(b) /\ r[i] = b[i - Len(a)]
      <4>1. a \in Seq(Gates) /\ b \in Seq(Gates)
        BY <3>1, <3>2
      <4>. QED
        BY <3>3, <4>1, ConcatFacts, ZenonT(40)
    <3>5. ASSUME NEW i \in 1..Len(r)
          PROVE  r[i] = IF i < n THEN s[i] ELSE s[i + 1]
      <4>1. CASE i < n
        BY <4>1, <2>1, <3>1, <3>4
      <4>2. CASE ~(i < n)
        <5>1. i > Len(a) /\ n + (i - Len(a)) = i + 1
          BY <4>2, <2>1, <3>1
        <5>. QED
          BY <4>2, <5>1, <3>2, <3>4
      <4>. QED
        BY <4>1, <4>2
    <3>. QED
      BY <2>1, <3>1, <3>2, <3>4, <3>5
  <2>. HIDE DEF r
  <2>4. \A i, j \in 1..Len(s) : s[i] = s[j] => i = j
    BY DEF IsInjective
  <2>5. IsInjective(r)
    BY <2>1, <2>3, <2>4 DEF IsInjective
  <2>6. ASSUME NEW k \in Range(r)
        PROVE  k \in Range(s) \ {g}
    <3>1. PICK i \in 1..Len(r) : r[i] = k
      BY <2>3 DEF Range
    <3>2. PICK j \in 1..Len(s) : s[j] = k /\ j # n
      <4>1. CASE i < n
        BY <2>1, <2>3, <3>1, <4>1
      <4>2. CASE ~(i < n)
        BY <2>1, <2>3, <3>1, <4>2
      <4>. QED
        BY <4>1, <4>2
    <3>. QED
      BY <2>1, <2>4, <3>2 DEF Range
  <2>7. ASSUME NEW k \in Range(s) \ {g}
        PROVE  k \in Range(r)
    <3>1. PICK i \in 1..Len(s) : s[i] = k
      BY DEF Range
    <3>2. CASE i < n
      <4>1. i \in 1..Len(r) /\ r[i] = k
        BY <2>1, <2>3, <3>1, <3>2
      <4>. QED
        BY <4>1, <2>3 DEF Range
    <3>3. CASE i > n
      <4>1. i - 1 \in 1..Len(r) /\ r[i - 1] = k
        BY <2>1, <2>3, <3>1, <3>3
      <4>. QED
        BY <4>1, <2>3 DEF Range
    <3>. QED
      BY <2>1, <3>1, <3>2, <3>3
  <2>. QED
    BY <2>3, <2>5, <2>6, <2>7 DEF r
<1>. QED
  BY <1>1, <1>2

(* Append adds one listener. *)
LEMMA AppendFacts ==
  ASSUME NEW s \in Seq(Gates), IsInjective(s), NEW g \in Gates, g \notin Range(s)
  PROVE  /\ Append(s, g) \in Seq(Gates) /\ IsInjective(Append(s, g))
         /\ Range(Append(s, g)) = Range(s) \cup {g}
<1>. DEFINE r == Append(s, g)
<1>1. /\ r \in Seq(Gates) /\ Len(r) = Len(s) + 1 /\ r[Len(s) + 1] = g /\ Len(s) \in Nat
      /\ \A i \in 1..Len(s) : r[i] = s[i]
  OBVIOUS
<1>. HIDE DEF r
<1>2. \A i \in 1..Len(s) : s[i] # g
  BY DEF Range
<1>3. \A i, j \in 1..Len(s) : s[i] = s[j] => i = j
  BY DEF IsInjective
<1>4. IsInjective(r)
  BY <1>1, <1>2, <1>3 DEF IsInjective
<1>5. DOMAIN r = 1..Len(s) + 1 /\ DOMAIN s = 1..Len(s)
  BY <1>1
<1>6. Range(r) = Range(s) \cup {g}
  BY <1>1, <1>5 DEF Range
<1>. QED
  BY <1>1, <1>4, <1>6 DEF r

(* What stands in one of two sequences stands in their concatenation. *)
LEMMA HasConcat ==
  ASSUME NEW S, NEW p \in Seq(S), NEW q \in Seq(S), NEW x, Has(p, x) \/ Has(q, x)
  PROVE  Has(p \o q, x)
<1>. DEFINE r == p \o q
<1>1. /\ Len(r) = Len(p) + Len(q) /\ Len(p) \in Nat /\ Len(q) \in Nat
      /\ \A i \in 1..Len(p) : r[i] = p[i]
      /\ \A i \in 1..Len(q) : r[Len(p) + i] = q[i]
  OBVIOUS
<1>. HIDE DEF r
<1>2. CASE Has(p, x)
  <2>1. PICK i \in 1..Len(p) : p[i] = x
    BY <1>2 DEF Has
  <2>2. i \in 1..Len(r) /\ r[i] = x
    BY <1>1, <2>1
  <2>. QED
    BY <2>2 DEF Has, r
<1>3. CASE Has(q, x)
  <2>1. PICK i \in 1..Len(q) : q[i] = x
    BY <1>3 DEF Has
  <2>2. Len(p) + i \in 1..Len(r) /\ r[Len(p) + i] = x
    BY <1>1, <2>1
  <2>. QED
    BY <2>2 DEF Has, r
<1>. QED
  BY <1>2, <1>3

(* What stands in a sequence, and not at its head, stands in its tail. *)
LEMMA HasTail ==
  ASSUME NEW S, NEW q \in Seq(S), q # <<>>, NEW x, Has(q, x), Head(q) # x
  PROVE  Has(Tail(q), x)
<1>1. PICK i \in 1..Len(q) : q[i] = x
  BY DEF Has
<1>2. /\ Len(q) \in Nat /\ q[1] # x /\ Len(Tail(q)) = Len(q) - 1
      /\ \A k \in 1..Len(Tail(q)) : Tail(q)[k] = q[k + 1]
  BY TailFacts
<1>3. i - 1 \in 1..Len(Tail(q)) /\ Tail(q)[i - 1] = x
  BY <1>1, <1>2
<1>. QED
  BY <1>3 DEF Has

----------------------------------------------------------------------------
(* The actions' parts. *)

(* The steps of an agenda are told apart by their fields. *)
LEMMA StepFacts ==
  /\ \A ch \in Channels : Emit(ch) \in Steps
  /\ \A g \in Gates : Call(g) \in Steps /\ Return(g) \in Steps
  /\ \A x : Emit(x).do = "emit" /\ Emit(x).on = x /\ Call(x).do = "call" /\ Call(x).on = x
            /\ Return(x).do = "return" /\ Return(x).on = x
  /\ \A x \in Steps : \/ x.do = "emit" /\ x.on \in Channels /\ x = Emit(x.on)
                      \/ x.do = "call" /\ x.on \in Gates /\ x = Call(x.on)
                      \/ x.do = "return" /\ x.on \in Gates /\ x = Return(x.on)
<1>1. /\ \A ch \in Channels : Emit(ch) \in Steps
      /\ \A g \in Gates : Call(g) \in Steps /\ Return(g) \in Steps
  BY DEF Steps
<1>2. \A x : Emit(x).do = "emit" /\ Emit(x).on = x /\ Call(x).do = "call" /\ Call(x).on = x
            /\ Return(x).do = "return" /\ Return(x).on = x
  BY DEF Emit, Call, Return
<1>3. ASSUME NEW x \in Steps
      PROVE  \/ x.do = "emit" /\ x.on \in Channels /\ x = Emit(x.on)
             \/ x.do = "call" /\ x.on \in Gates /\ x = Call(x.on)
             \/ x.do = "return" /\ x.on \in Gates /\ x = Return(x.on)
  BY <1>2 DEF Steps
<1>. QED
  BY <1>1, <1>2, <1>3

BusTyped(b) == b \in [Channels -> Seq(Gates)] /\ \A ch \in Channels : IsInjective(b[ch])

LEMMA ListenerWaits ==
  ASSUME TypeOK, Listening, NEW k \in Channels, NEW h \in Range(bus[k])
  PROVE  Watch[h] = k /\ answer[h] = "pending"
<1>1. bus[k] \in Seq(Gates)
  BY DEF TypeOK
<1>2. PICK i \in 1..Len(bus[k]) : bus[k][i] = h
  BY <1>1 DEF Range
<1>. QED
  BY <1>2 DEF Listening

(* settle: the gate is answered if it was not, and nobody else is touched. *)
LEMMA SettleFacts ==
  ASSUME TypeOK, Listening, NEW g \in Gates, NEW a \in Answers \ {"uncalled", "pending"},
         Settle(g, a)
  PROVE  /\ BusTyped(bus') /\ answer' \in [Gates -> Answers] /\ Listening'
         /\ \A h \in Gates : answer'[h] = IF h = g /\ Unanswered(g) THEN a ELSE answer[h]
<1>. DEFINE ch == Watch[g]
<1>1. ch \in Channels /\ bus[ch] \in Seq(Gates) /\ IsInjective(bus[ch])
  BY GatesAssumption DEF TypeOK
<1>2. /\ Off(bus[ch], g) \in Seq(Gates) /\ IsInjective(Off(bus[ch], g))
      /\ Range(Off(bus[ch], g)) = Range(bus[ch]) \ {g}
  BY <1>1, OffFacts
<1>3. bus' = [bus EXCEPT ![ch] = Off(bus[ch], g)]
  BY DEF Settle
<1>4. \A h \in Gates : answer'[h] = IF h = g /\ Unanswered(g) THEN a ELSE answer[h]
  BY DEF Settle, TypeOK, Unanswered
<1>5. answer' \in [Gates -> Answers]
  BY DEF Settle, TypeOK
<1>6. BusTyped(bus')
  BY <1>1, <1>2, <1>3 DEF TypeOK, BusTyped
<1>7. Listening'
  <2>1. ASSUME NEW k \in Channels, NEW i \in 1..Len(bus'[k])
        PROVE  Watch[bus'[k][i]] = k /\ answer'[bus'[k][i]] = "pending"
    <3>. DEFINE h == bus'[k][i]
    <3>1. h \in Gates /\ h \in Range(bus'[k])
      BY <1>6 DEF BusTyped, Range
    <3>2. h \in Range(bus[k]) /\ (k = ch => h # g)
      BY <3>1, <1>1, <1>2, <1>3 DEF TypeOK
    <3>3. h \in Range(bus[k]) => Watch[h] = k /\ answer[h] = "pending"
      BY ListenerWaits
    <3>. QED
      BY <3>1, <3>2, <3>3, <1>4
  <2>2. ASSUME NEW h \in Gates, answer'[h] = "pending"
        PROVE  h \in Range(bus'[Watch[h]])
    <3>1. h # g /\ answer[h] = "pending"
      BY <2>2, <1>4 DEF Unanswered
    <3>2. h \in Range(bus[Watch[h]]) /\ Watch[h] \in Channels
      BY <3>1, GatesAssumption DEF Listening
    <3>. QED
      BY <3>1, <3>2, <1>1, <1>2, <1>3 DEF TypeOK
  <2>. QED
    BY <2>1, <2>2 DEF Listening
<1>. QED
  BY <1>4, <1>5, <1>6, <1>7

(* A call that has to wait is the last listener of its channel. *)
LEMMA RegisterFacts ==
  ASSUME TypeOK, Listening, NEW g \in Gates, answer[g] = "uncalled", Register(g)
  PROVE  /\ BusTyped(bus') /\ answer' \in [Gates -> Answers] /\ Listening'
         /\ \A h \in Gates : answer'[h] = IF h = g THEN "pending" ELSE answer[h]
<1>. DEFINE ch == Watch[g]
            b  == Append(bus[ch], g)
<1>1. ch \in Channels /\ bus[ch] \in Seq(Gates) /\ IsInjective(bus[ch])
  BY GatesAssumption DEF TypeOK
<1>2. g \notin Range(bus[ch])
  BY <1>1 DEF Listening, Range
<1>3. /\ b \in Seq(Gates) /\ IsInjective(b) /\ Range(b) = Range(bus[ch]) \cup {g}
  BY <1>1, <1>2, AppendFacts
<1>4. bus' = [bus EXCEPT ![ch] = b]
  BY DEF Register
<1>5. \A h \in Gates : answer'[h] = IF h = g THEN "pending" ELSE answer[h]
  BY DEF Register, TypeOK
<1>6. answer' \in [Gates -> Answers]
  BY DEF Register, TypeOK, Answers
<1>. HIDE DEF b
<1>7. BusTyped(bus')
  BY <1>1, <1>3, <1>4 DEF TypeOK, BusTyped
<1>8. Listening'
  <2>1. ASSUME NEW k \in Channels, NEW i \in 1..Len(bus'[k])
        PROVE  Watch[bus'[k][i]] = k /\ answer'[bus'[k][i]] = "pending"
    <3>. DEFINE h == bus'[k][i]
    <3>1. h \in Gates /\ h \in Range(bus'[k])
      BY <1>7 DEF BusTyped, Range
    <3>2. h \in Range(bus[k]) \/ (k = ch /\ h = g)
      BY <3>1, <1>1, <1>3, <1>4 DEF TypeOK
    <3>3. h \in Range(bus[k]) => Watch[h] = k /\ answer[h] = "pending"
      BY ListenerWaits
    <3>. QED
      BY <3>1, <3>2, <3>3, <1>5
  <2>2. ASSUME NEW h \in Gates, answer'[h] = "pending"
        PROVE  h \in Range(bus'[Watch[h]])
    <3>1. h = g \/ h \in Range(bus[Watch[h]])
      BY <2>2, <1>5 DEF Listening
    <3>2. Watch[h] \in Channels
      BY GatesAssumption
    <3>. QED
      BY <3>1, <3>2, <1>1, <1>3, <1>4 DEF TypeOK
  <2>. QED
    BY <2>1, <2>2 DEF Listening
<1>. QED
  BY <1>5, <1>6, <1>7, <1>8

----------------------------------------------------------------------------
(* Every step keeps GateInv. *)

Coming(q, g) == Has(q, Emit(Watch[g])) \/ Has(q, Call(g)) \/ Has(q, Return(g))

(* Whoever else has all its results is in what remains of the agenda. *)
OthersAwake(q, g) ==
  \A h \in Gates \ (missed \cup {g}) : answer[h] = "pending" /\ AllSatisfied(h) => Coming(q, h)

(* A gate's own message may be the result others wait for; its emission,   *)
(* which is due first, is on the channel they watch.                       *)
LEMMA TryPostKeeps ==
  ASSUME TypeOK, Listening, NEW g \in Gates, NEW rest \in Seq(Steps),
         OthersAwake(rest, g), TryPost(g, rest), missed' \in {missed, missed \ {g}}
  PROVE  GateInv'
<1>. DEFINE own == <<Emit(Target[g]), Return(g)>>
<1>1. /\ Target[g] \in Channels /\ own \in Seq(Steps) /\ Len(own) = 2
      /\ own[1] = Emit(Target[g]) /\ own[2] = Return(g)
  BY GatesAssumption, StepFacts
<1>2. agenda' = own \o rest /\ agenda' \in Seq(Steps)
  BY <1>1 DEF TryPost
<1>3. UNCHANGED <<writes, bus, answer>>
  BY DEF TryPost
<1>4. /\ results' \subseteq Channels \X Tasks
      /\ \A r \in results' : r \in results \/ r[1] = Target[g]
  <2>. DEFINE new == <<Target[g], Carries[g]>>
  <2>1. results' = results \/ (Carries[g] \in Tasks /\ results' = results \cup {new})
    <3>1. results' = IF Carries[g] = NoTask THEN results ELSE results \cup {new}
      BY DEF TryPost
    <3>2. Carries[g] \in Tasks \cup {NoTask}
      BY GatesAssumption
    <3>. HIDE DEF new
    <3>3. CASE Carries[g] = NoTask
      BY <3>1, <3>3
    <3>4. CASE Carries[g] # NoTask
      BY <3>1, <3>2, <3>4
    <3>. QED
      BY <3>3, <3>4
  <2>2. new[1] = Target[g]
    OBVIOUS
  <2>3. Carries[g] \in Tasks => new \in Channels \X Tasks
    BY <1>1
  <2>4. results \subseteq Channels \X Tasks
    BY DEF TypeOK
  <2>. HIDE DEF new
  <2>. QED
    BY <2>1, <2>2, <2>3, <2>4
<1>5. posts' \in [Gates -> 0..MaxPosts]
  BY BoundsAssumption DEF TryPost, TypeOK
<1>6. TypeOK'
  BY <1>2, <1>3, <1>4, <1>5 DEF TypeOK
<1>7. Listening'
  BY <1>3 DEF Listening
<1>8. Awake(agenda)'
  <2>. SUFFICES ASSUME NEW h \in Gates, h \notin missed', answer[h] = "pending", AllSatisfied(h)'
                PROVE  Coming(agenda', h)
    BY <1>3 DEF Awake, Coming
  <2>. HIDE DEF own
  <2>1. \A x : Has(own, x) \/ Has(rest, x) => Has(agenda', x)
    BY <1>1, <1>2, HasConcat
  <2>2. Has(own, Emit(Target[g])) /\ Has(own, Return(g))
    BY <1>1 DEF Has
  <2>3. CASE h = g
    BY <2>1, <2>2, <2>3 DEF Coming
  <2>4. CASE h # g /\ AllSatisfied(h)
    BY <2>1, <2>4 DEF OthersAwake, Coming
  <2>5. CASE ~AllSatisfied(h)
    <3>1. PICK t \in Deps[h] : <<Watch[h], t>> \in results' /\ <<Watch[h], t>> \notin results
      BY <2>5 DEF AllSatisfied
    <3>2. Watch[h] = Target[g]
      BY <3>1, <1>4
    <3>. QED
      BY <2>1, <2>2, <3>2 DEF Coming
  <2>. QED
    BY <2>3, <2>4, <2>5
<1>. QED
  BY <1>6, <1>7, <1>8 DEF GateInv

(* An answer, and what remains of the agenda. *)
LEMMA AnswerKeeps ==
  ASSUME TypeOK, Listening, NEW g \in Gates, NEW rest \in Seq(Steps),
         OthersAwake(rest, g), NEW a \in Answers \ {"uncalled", "pending"},
         Settle(g, a), agenda' = rest, UNCHANGED <<results, writes, posts>>,
         missed' \in {missed, missed \ {g}}
  PROVE  GateInv'
<1>1. /\ BusTyped(bus') /\ answer' \in [Gates -> Answers] /\ Listening'
      /\ \A h \in Gates : answer'[h] = IF h = g /\ Unanswered(g) THEN a ELSE answer[h]
  BY SettleFacts
<1>2. TypeOK'
  BY <1>1 DEF TypeOK, BusTyped
<1>3. Awake(agenda)'
  <2>. SUFFICES ASSUME NEW h \in Gates, h \notin missed', answer'[h] = "pending", AllSatisfied(h)'
                PROVE  Coming(rest, h)
    BY DEF Awake, Coming
  <2>1. h # g /\ answer[h] = "pending"
    BY <1>1 DEF Unanswered
  <2>2. AllSatisfied(h)
    BY DEF AllSatisfied
  <2>. QED
    BY <2>1, <2>2 DEF OthersAwake
<1>. QED
  BY <1>1, <1>2, <1>3 DEF GateInv

(* What the head of the agenda was about, and what was about others. *)
LEMMA OthersInTail ==
  ASSUME GateInv, agenda # <<>>, NEW g \in Gates, Head(agenda) \in {Call(g), Return(g)}
  PROVE  Tail(agenda) \in Seq(Steps) /\ OthersAwake(Tail(agenda), g)
<1>1. agenda \in Seq(Steps) /\ Tail(agenda) \in Seq(Steps)
  BY TailFacts DEF GateInv, TypeOK
<1>2. ASSUME NEW h \in Gates \ (missed \cup {g}), answer[h] = "pending", AllSatisfied(h)
      PROVE  Coming(Tail(agenda), h)
  <2>1. Coming(agenda, h)
    BY <1>2 DEF GateInv, Awake, Coming
  <2>2. Head(agenda) \notin {Emit(Watch[h]), Call(h), Return(h)}
    BY StepFacts
  <2>. QED
    BY <1>1, <2>1, <2>2, HasTail DEF Coming
<1>. QED
  BY <1>1, <1>2 DEF OthersAwake

LEMMA CallKeeps ==
  ASSUME GateInv, RunCall
  PROVE  GateInv'
<1>. DEFINE g == Head(agenda).on
<1>1. TypeOK /\ Listening /\ agenda # <<>> /\ g \in Gates /\ Head(agenda) = Call(g)
  BY TailFacts, StepFacts DEF GateInv, TypeOK, RunCall
<1>2. /\ Tail(agenda) \in Seq(Steps) /\ OthersAwake(Tail(agenda), g)
      /\ missed' = missed \ {g}
  BY <1>1, OthersInTail DEF RunCall
<1>3. CASE AllSatisfied(g) /\ TryPost(g, Tail(agenda))
  BY <1>1, <1>2, <1>3, TryPostKeeps
<1>4. CASE AllSatisfied(g) /\ Refuse(g, Tail(agenda))
  <2>1. "refused" \in Answers \ {"uncalled", "pending"}
    BY DEF Answers
  <2>. QED
    BY <1>1, <1>2, <1>4, <2>1, AnswerKeeps DEF Refuse
<1>5. CASE ~AllSatisfied(g) /\ agenda' = Tail(agenda)
           /\ UNCHANGED <<results, writes, bus, answer, posts>>
  <2>1. \A h \in Gates \ missed' : answer[h] = "pending" /\ AllSatisfied(h) => Coming(Tail(agenda), h)
    BY <1>2, <1>5 DEF OthersAwake
  <2>2. Awake(agenda)'
    BY <1>5, <2>1 DEF Awake, Coming, AllSatisfied
  <2>3. TypeOK' /\ Listening'
    BY <1>1, <1>2, <1>5 DEF TypeOK, Listening
  <2>. QED
    BY <2>2, <2>3 DEF GateInv
<1>. QED
  BY <1>3, <1>4, <1>5 DEF RunCall

LEMMA ReturnKeeps ==
  ASSUME GateInv, RunReturn
  PROVE  GateInv'
<1>. DEFINE g == Head(agenda).on
<1>1. TypeOK /\ Listening /\ agenda # <<>> /\ g \in Gates /\ Head(agenda) = Return(g)
  BY TailFacts, StepFacts DEF GateInv, TypeOK, RunReturn
<1>2. /\ Tail(agenda) \in Seq(Steps) /\ OthersAwake(Tail(agenda), g)
      /\ missed' = missed
  BY <1>1, OthersInTail DEF RunReturn
<1>3. "sent" \in Answers \ {"uncalled", "pending"}
  BY DEF Answers
<1>. QED
  BY <1>1, <1>2, <1>3, AnswerKeeps DEF RunReturn

(* An emission calls whoever listens, so nobody it was to wake is lost. *)
LEMMA EmitKeeps ==
  ASSUME GateInv, RunEmit
  PROVE  GateInv'
<1>. DEFINE ch    == Head(agenda).on
            heard == bus[ch]
            calls == [i \in 1..Len(heard) |-> Call(heard[i])]
            rest  == Tail(agenda)
<1>1. /\ TypeOK /\ Listening /\ agenda # <<>> /\ agenda \in Seq(Steps)
      /\ ch \in Channels /\ Head(agenda) = Emit(ch) /\ rest \in Seq(Steps)
  <2>1. TypeOK /\ Listening /\ agenda # <<>> /\ agenda \in Seq(Steps) /\ Head(agenda).do = "emit"
    BY DEF GateInv, TypeOK, RunEmit
  <2>2. rest \in Seq(Steps) /\ Head(agenda) \in Steps
    BY <2>1, TailFacts
  <2>. QED
    BY <2>1, <2>2, StepFacts
<1>2. heard \in Seq(Gates)
  BY <1>1 DEF TypeOK
<1>3. calls \in Seq(Steps) /\ Len(calls) = Len(heard) /\ \A i \in 1..Len(heard) : calls[i] = Call(heard[i])
  BY <1>2, StepFacts
<1>4. agenda' = calls \o rest /\ UNCHANGED <<results, writes, bus, answer, posts, missed>>
  BY DEF RunEmit
<1>. HIDE DEF calls, rest, heard
<1>5. agenda' \in Seq(Steps)
  BY <1>1, <1>3, <1>4
<1>6. TypeOK' /\ Listening'
  BY <1>1, <1>4, <1>5 DEF TypeOK, Listening
<1>7. Awake(agenda)'
  <2>. SUFFICES ASSUME NEW h \in Gates, h \notin missed, answer[h] = "pending", AllSatisfied(h)
                PROVE  Coming(agenda', h)
    BY <1>4 DEF Awake, Coming, AllSatisfied
  <2>1. \A x : Has(calls, x) \/ Has(rest, x) => Has(agenda', x)
    BY <1>1, <1>3, <1>4, HasConcat
  <2>2. CASE Watch[h] = ch
    <3>1. h \in Range(heard)
      BY <1>1, <2>2 DEF Listening, heard
    <3>2. PICK i \in 1..Len(heard) : heard[i] = h
      BY <1>2, <3>1 DEF Range
    <3>3. Has(calls, Call(h))
      BY <1>3, <3>2 DEF Has
    <3>. QED
      BY <2>1, <3>3 DEF Coming
  <2>3. CASE Watch[h] # ch
    <3>1. Coming(agenda, h)
      BY DEF GateInv, Awake, Coming
    <3>2. Head(agenda) \notin {Emit(Watch[h]), Call(h), Return(h)}
      BY <1>1, <2>3, StepFacts
    <3>3. Coming(rest, h)
      BY <1>1, <3>1, <3>2, HasTail DEF Coming, rest
    <3>. QED
      BY <2>1, <3>3 DEF Coming
  <2>. QED
    BY <2>2, <2>3
<1>. QED
  BY <1>6, <1>7 DEF GateInv

(* A full stack answers nobody who waits, and whom it was about to call is *)
(* in missed.                                                              *)
LEMMA OverflowKeeps ==
  ASSUME GateInv, Overflow
  PROVE  GateInv'
<1>. DEFINE dropped == {g \in Gates : Stands(Emit(Watch[g])) \/ Stands(Call(g)) \/ Stands(Return(g))}
<1>1. /\ TypeOK /\ Listening /\ agenda' = <<>> /\ <<>> \in Seq(Steps)
      /\ missed' = missed \cup dropped /\ UNCHANGED <<results, writes, bus, posts>>
      /\ answer' = [g \in Gates |-> IF answer[g] = "uncalled" /\ Stands(Return(g)) THEN "refused"
                                    ELSE answer[g]]
  BY DEF GateInv, Overflow
<1>2. /\ answer' \in [Gates -> Answers]
      /\ \A g \in Gates : answer'[g] = "pending" <=> answer[g] = "pending"
  BY <1>1 DEF TypeOK, Answers
<1>3. TypeOK'
  BY <1>1, <1>2 DEF TypeOK
<1>4. Listening'
  <2>1. \A ch \in Channels : \A i \in 1..Len(bus[ch]) : bus[ch][i] \in Gates
    BY <1>1 DEF TypeOK
  <2>. QED
    BY <1>1, <1>2, <2>1 DEF Listening
<1>5. Awake(agenda)'
  <2>. SUFFICES ASSUME NEW h \in Gates, h \notin missed', answer'[h] = "pending", AllSatisfied(h)'
                PROVE  FALSE
    BY DEF Awake
  <2>1. answer[h] = "pending" /\ AllSatisfied(h) /\ h \notin missed /\ h \notin dropped
    BY <1>1, <1>2 DEF AllSatisfied
  <2>. QED
    BY <2>1 DEF GateInv, Awake, Has, Stands
<1>. QED
  BY <1>3, <1>4, <1>5 DEF GateInv

(* With nothing left to do, nobody waits with all results there. *)
LEMMA IdleAwake ==
  ASSUME GateInv, agenda = <<>>, NEW g \in Gates \ missed, answer[g] = "pending"
  PROVE  ~AllSatisfied(g)
<1>1. ~Has(agenda, Emit(Watch[g])) /\ ~Has(agenda, Call(g)) /\ ~Has(agenda, Return(g))
  BY DEF Has
<1>. QED
  BY <1>1 DEF GateInv, Awake

LEMMA OpenKeeps ==
  ASSUME GateInv, NEW g \in Gates, Open(g)
  PROVE  GateInv'
<1>1. /\ TypeOK /\ Listening /\ agenda = <<>> /\ answer[g] = "uncalled" /\ <<>> \in Seq(Steps)
      /\ missed' = missed
  BY DEF GateInv, Open
<1>2. OthersAwake(<<>>, g)
  BY <1>1, IdleAwake DEF OthersAwake
<1>3. CASE AllSatisfied(g) /\ TryPost(g, <<>>)
  BY <1>1, <1>2, <1>3, TryPostKeeps
<1>4. CASE AllSatisfied(g) /\ Refuse(g, <<>>)
  <2>1. "refused" \in Answers \ {"uncalled", "pending"}
    BY DEF Answers
  <2>. QED
    BY <1>1, <1>2, <1>4, <2>1, AnswerKeeps DEF Refuse
<1>5. CASE ~AllSatisfied(g) /\ Register(g)
  <2>1. /\ BusTyped(bus') /\ answer' \in [Gates -> Answers] /\ Listening'
        /\ \A h \in Gates : answer'[h] = IF h = g THEN "pending" ELSE answer[h]
    BY <1>1, <1>5, RegisterFacts
  <2>2. UNCHANGED <<results, writes, posts, agenda>>
    BY <1>5 DEF Register
  <2>3. TypeOK'
    BY <1>1, <2>1, <2>2 DEF TypeOK, BusTyped
  <2>4. \A h \in Gates \ missed : answer'[h] = "pending" => ~AllSatisfied(h)
    BY <1>1, <1>5, <2>1, IdleAwake
  <2>5. Awake(agenda)'
    BY <1>1, <2>2, <2>4 DEF Awake, AllSatisfied
  <2>. QED
    BY <2>1, <2>3, <2>5 DEF GateInv
<1>. QED
  BY <1>3, <1>4, <1>5 DEF Open

LEMMA CloseKeeps ==
  ASSUME GateInv, NEW g \in Gates, NEW a \in {"timeout", "aborted"}, Close(g, a)
  PROVE  GateInv'
<1>1. /\ TypeOK /\ Listening /\ agenda = <<>> /\ agenda' = <<>> /\ <<>> \in Seq(Steps)
      /\ missed' = missed
  BY DEF GateInv, Close
<1>2. OthersAwake(<<>>, g)
  BY <1>1, IdleAwake DEF OthersAwake
<1>3. a \in Answers \ {"uncalled", "pending"}
  BY DEF Answers
<1>. QED
  BY <1>1, <1>2, <1>3, AnswerKeeps DEF Close

(* A write emits on the channel of every row it stored. *)
LEMMA ResultsKeep ==
  ASSUME GateInv, NEW rs \in Seq(Channels \X Tasks), PostResults(rs)
  PROVE  GateInv'
<1>1. TypeOK /\ Listening /\ agenda = <<>> /\ UNCHANGED <<bus, answer, posts, missed>>
  BY DEF GateInv, PostResults
<1>2. Len(rs) \in Nat /\ \A i \in 1..Len(rs) : rs[i] \in Channels \X Tasks /\ rs[i][1] \in Channels
  OBVIOUS
<1>3. /\ agenda' \in Seq(Steps) /\ Len(agenda') = Len(rs)
      /\ \A i \in 1..Len(rs) : agenda'[i] = Emit(rs[i][1])
  <2>1. agenda' = [i \in 1..Len(rs) |-> Emit(rs[i][1])]
    BY DEF PostResults
  <2>2. \A i \in 1..Len(rs) : Emit(rs[i][1]) \in Steps
    BY <1>2, StepFacts
  <2>. QED
    BY <1>2, <2>1, <2>2
<1>4. writes' \in 0..MaxWrites
  BY <1>1, <1>2, BoundsAssumption DEF TypeOK, PostResults
<1>5. results' = results \cup {rs[i] : i \in 1..Len(rs)}
  BY DEF PostResults
<1>6. results' \subseteq Channels \X Tasks
  BY <1>1, <1>2, <1>5 DEF TypeOK
<1>7. TypeOK' /\ Listening'
  BY <1>1, <1>3, <1>4, <1>6 DEF TypeOK, Listening
<1>8. Awake(agenda)'
  <2>. SUFFICES ASSUME NEW h \in Gates, h \notin missed, answer[h] = "pending", AllSatisfied(h)'
                PROVE  Coming(agenda', h)
    BY <1>1 DEF Awake, Coming
  <2>1. PICK t \in Deps[h] : <<Watch[h], t>> \in results' /\ <<Watch[h], t>> \notin results
    BY <1>1, IdleAwake DEF AllSatisfied
  <2>2. PICK i \in 1..Len(rs) : rs[i] = <<Watch[h], t>>
    BY <1>5, <2>1
  <2>3. rs[i][1] = Watch[h]
    BY <2>2
  <2>. QED
    BY <1>3, <2>3 DEF Coming, Has
<1>. QED
  BY <1>7, <1>8 DEF GateInv

LEMMA LossKeeps ==
  ASSUME GateInv, NEW lost, LoseResults(lost)
  PROVE  GateInv'
<1>1. TypeOK /\ Listening /\ agenda = <<>> /\ results' \subseteq results
      /\ UNCHANGED <<writes, bus, answer, posts, agenda, missed>>
  BY DEF GateInv, LoseResults
<1>2. TypeOK' /\ Listening'
  BY <1>1 DEF TypeOK, Listening
<1>3. \A h \in Gates \ missed : answer'[h] = "pending" => ~AllSatisfied(h)'
  BY <1>1, IdleAwake DEF AllSatisfied
<1>. QED
  BY <1>1, <1>2, <1>3 DEF GateInv, Awake

LEMMA GateInvInductive == GateInv /\ [Next]_vars => GateInv'
<1>. SUFFICES ASSUME GateInv, [Next]_vars PROVE GateInv'
  OBVIOUS
<1>1. CASE Run
  BY <1>1, EmitKeeps, CallKeeps, ReturnKeeps, OverflowKeeps DEF Run
<1>2. ASSUME NEW g \in Gates, Open(g) \/ Close(g, "timeout") \/ Close(g, "aborted")
      PROVE  GateInv'
  BY <1>2, OpenKeeps, CloseKeeps
<1>3. ASSUME NEW r \in Channels \X Tasks, PostResults(<<r>>)
      PROVE  GateInv'
  <2>1. <<r>> \in Seq(Channels \X Tasks)
    OBVIOUS
  <2>. QED
    BY <1>3, <2>1, ResultsKeep
<1>4. ASSUME NEW r \in Channels \X Tasks, NEW s \in Channels \X Tasks, PostResults(<<r, s>>)
      PROVE  GateInv'
  <2>1. <<r, s>> \in Seq(Channels \X Tasks)
    OBVIOUS
  <2>. QED
    BY <1>4, <2>1, ResultsKeep
<1>5. ASSUME NEW lost \in SUBSET results, LoseResults(lost)
      PROVE  GateInv'
  BY <1>5, LossKeeps
<1>6. CASE UNCHANGED vars
  BY <1>6 DEF vars, GateInv, TypeOK, Listening, Awake, AllSatisfied
<1>. QED
  BY <1>1, <1>2, <1>3, <1>4, <1>5, <1>6 DEF Next

LEMMA GateInvInit == Init => GateInv
<1>. SUFFICES ASSUME Init PROVE GateInv
  OBVIOUS
<1>1. TypeOK
  BY BoundsAssumption DEF Init, TypeOK, Answers, IsInjective
<1>2. Listening /\ Awake(agenda)
  BY DEF Init, Listening, Awake
<1>. QED
  BY <1>1, <1>2 DEF GateInv

LEMMA GatesAlways == Spec => []GateInv
  BY GateInvInit, GateInvInductive, PTL DEF Spec

(* Every variable keeps its type: no gate ever listens twice, so that no   *)
(* emission calls one twice and off takes all of it away.                  *)
THEOREM GatesTypeCorrect == Spec => []TypeOK
<1>1. GateInv => TypeOK
  BY DEF GateInv
<1>. QED
  BY <1>1, GatesAlways, PTL

(* No gate sleeps through its last result: whatever the gates watch and    *)
(* post to, loops included, once a request has run to its end no listener  *)
(* is left with all its results there, but for those that a full stack     *)
(* kept from being called.                                                 *)
THEOREM NoGateSleeps == Spec => []NoGateAsleep
<1>1. GateInv => NoGateAsleep
  BY IdleAwake DEF NoGateAsleep
<1>. QED
  BY <1>1, GatesAlways, PTL

----------------------------------------------------------------------------
(* Where a message can lead. *)

LEMMA LeadsFacts ==
  /\ \A c : Leads(c, c)
  /\ \A c, g : g \in Gates /\ Leads(c, Watch[g]) => Leads(c, Target[g])
  /\ \A d, g : g \in Gates /\ Leads(Target[g], d) => Leads(Watch[g], d)
  BY DEF Leads

(* A calm gate's message does not come back, nor does any gate's on the    *)
(* channel it watches.                                                     *)
LEMMA CalmFacts ==
  ASSUME NEW g \in Calm
  PROVE  /\ g \in Gates /\ ~Leads(Target[g], Watch[g])
         /\ \A h \in Gates : Watch[h] = Watch[g] => ~Leads(Target[h], Watch[g])
<1>1. g \in Gates /\ \A h \in Gates : Loops(h) => ~Leads(Watch[g], Watch[h])
  BY DEF Calm
<1>2. \A h \in Gates : Watch[h] = Watch[g] => ~Loops(h)
  BY <1>1, LeadsFacts
<1>. QED
  BY <1>1, <1>2 DEF Loops

----------------------------------------------------------------------------
(* Nested emissions. *)

LEMMA NestedTail ==
  ASSUME NEW q \in Seq(Steps), q # <<>>, Nested(q)
  PROVE  /\ Nested(Tail(q))
         /\ \A j \in 1..Len(Tail(q)) : Before(Head(q), Tail(q)[j])
<1>1. /\ Len(q) \in Nat \ {0} /\ Head(q) = q[1] /\ Len(Tail(q)) = Len(q) - 1
      /\ \A k \in 1..Len(Tail(q)) : Tail(q)[k] = q[k + 1]
  BY TailFacts
<1>2. ASSUME NEW j \in 1..Len(Tail(q))
      PROVE  /\ Before(Head(q), Tail(q)[j])
             /\ \A k \in 1..Len(Tail(q)) : k < j => Before(Tail(q)[k], Tail(q)[j])
  <2>1. 1 \in 1..Len(q) /\ j + 1 \in 1..Len(q) /\ 1 < j + 1
    BY <1>1
  <2>2. \A k \in 1..Len(Tail(q)) : k < j => k + 1 \in 1..Len(q) /\ k + 1 < j + 1
    BY <1>1
  <2>. QED
    BY <1>1, <2>1, <2>2 DEF Nested
<1>. QED
  BY <1>2 DEF Nested

LEMMA NestedConcat ==
  ASSUME NEW p \in Seq(Steps), NEW q \in Seq(Steps), Nested(p), Nested(q),
         \A i \in 1..Len(p), j \in 1..Len(q) : Before(p[i], q[j])
  PROVE  Nested(p \o q)
<1>. DEFINE r == p \o q
<1>1. /\ Len(r) = Len(p) + Len(q) /\ Len(p) \in Nat /\ Len(q) \in Nat
      /\ \A i \in 1..Len(p) : r[i] = p[i]
      /\ \A i \in 1..Len(r) : i > Len(p) => i - Len(p) \in 1..Len(q) /\ r[i] = q[i - Len(p)]
  OBVIOUS
<1>. HIDE DEF r
<1>2. ASSUME NEW i \in 1..Len(r), NEW j \in 1..Len(r), i < j
      PROVE  Before(r[i], r[j])
  <2>1. CASE j <= Len(p)
    <3>1. i \in 1..Len(p) /\ j \in 1..Len(p)
      BY <1>1, <1>2, <2>1
    <3>. QED
      BY <1>1, <1>2, <3>1 DEF Nested
  <2>2. CASE i <= Len(p) /\ j > Len(p)
    <3>1. i \in 1..Len(p)
      BY <1>1, <2>2
    <3>. QED
      BY <1>1, <2>2, <3>1
  <2>3. CASE i > Len(p)
    <3>1. j > Len(p) /\ i - Len(p) < j - Len(p)
      BY <1>1, <1>2, <2>3
    <3>. QED
      BY <1>1, <2>3, <3>1 DEF Nested
  <2>. QED
    BY <1>1, <1>2, <2>1, <2>2, <2>3
<1>. QED
  BY <1>2 DEF Nested, r

(* What remains of the agenda beside a step of gate g. *)
Rest(q, g) ==
  /\ q \in Seq(Steps) /\ Nested(q)
  /\ \A j \in 1..Len(q) : Fresh(q[j]) /\ Before(Return(g), q[j])
  /\ \A h \in Calm \ {g} : Unanswered(h) /\ posts[h] # 0 => Has(q, Return(h))

(* A gate may be called wherever it may stand to settle, and there is more *)
(* to fear from it.                                                        *)
LEMMA CallBefore ==
  ASSUME NEW g, NEW y, Before(Call(g), y)
  PROVE  Before(Return(g), y)
  BY StepFacts DEF Before, Apart, Inside, Place

LEMMA TailIsRest ==
  ASSUME CalmInv, agenda # <<>>, NEW g \in Gates, Head(agenda) \in {Call(g), Return(g)}
  PROVE  /\ Rest(Tail(agenda), g)
         /\ Head(agenda) = Call(g) =>
              \A j \in 1..Len(Tail(agenda)) : Before(Call(g), Tail(agenda)[j])
<1>. DEFINE q == Tail(agenda)
<1>1. agenda \in Seq(Steps)
  BY DEF CalmInv, GateInv, TypeOK
<1>2. /\ q \in Seq(Steps) /\ Len(q) = Len(agenda) - 1 /\ Len(agenda) \in Nat \ {0}
      /\ \A k \in 1..Len(q) : q[k] = agenda[k + 1]
  BY <1>1, TailFacts
<1>3. Nested(q) /\ \A j \in 1..Len(q) : Before(Head(agenda), q[j])
  BY <1>1, NestedTail DEF CalmInv
<1>4. ASSUME NEW j \in 1..Len(q)
      PROVE  Fresh(q[j]) /\ Before(Return(g), q[j])
  <2>1. j + 1 \in 1..Len(agenda)
    BY <1>2
  <2>2. Fresh(q[j])
    BY <1>2, <2>1 DEF CalmInv, PostInv
  <2>. QED
    BY <1>3, <2>2, CallBefore
<1>5. ASSUME NEW h \in Calm \ {g}, Unanswered(h), posts[h] # 0
      PROVE  Has(q, Return(h))
  <2>1. Has(agenda, Return(h))
    BY <1>5 DEF CalmInv, PostInv
  <2>2. Head(agenda) # Return(h)
    BY StepFacts
  <2>. QED
    BY <1>1, <2>1, <2>2, HasTail
<1>. QED
  BY <1>2, <1>3, <1>4, <1>5 DEF Rest

LEMMA EmptyIsRest ==
  ASSUME CalmInv, agenda = <<>>, NEW g
  PROVE  Rest(<<>>, g) /\ \A h \in Calm : Unanswered(h) => posts[h] = 0
<1>1. \A h \in Gates : ~Has(agenda, Return(h))
  BY DEF Has
<1>2. \A h \in Calm : Unanswered(h) => posts[h] = 0
  BY <1>1 DEF CalmInv, PostInv, Calm
<1>3. <<>> \in Seq(Steps) /\ Nested(<<>>)
  BY DEF Nested
<1>. QED
  BY <1>2, <1>3 DEF Rest

(* A gate that posts stands once in the agenda, below its own emission,    *)
(* which leads wherever being called could.                                *)
LEMMA TryPostNests ==
  ASSUME TypeOK, PostedAtMostOnce, NEW g \in Gates, NEW q, Rest(q, g),
         \A j \in 1..Len(q) : Before(Call(g), q[j]),
         g \in Calm => Unanswered(g) /\ posts[g] = 0, TryPost(g, q)
  PROVE  Nested(agenda') /\ PostInv'
<1>. DEFINE own == <<Emit(Target[g]), Return(g)>>
<1>1. /\ Target[g] \in Channels /\ own \in Seq(Steps) /\ Len(own) = 2
      /\ own[1] = Emit(Target[g]) /\ own[2] = Return(g)
  BY GatesAssumption, StepFacts
<1>2. /\ agenda' = own \o q /\ UNCHANGED answer
      /\ \A h \in Gates : posts'[h] = IF h = g THEN posts[g] + 1 ELSE posts[h]
  BY DEF TryPost, TypeOK
<1>. HIDE DEF own
<1>3. q \in Seq(Steps) /\ Len(q) \in Nat
  BY DEF Rest
<1>4. Before(Emit(Target[g]), Return(g))
  <2>1. Apart(Emit(Target[g]), Return(g))
    BY CalmFacts, StepFacts DEF Apart, OfCalm, Outlet
  <2>2. Inside(Emit(Target[g]), Return(g))
    BY LeadsFacts, StepFacts DEF Inside, Place
  <2>. QED
    BY <2>1, <2>2 DEF Before
<1>5. Nested(own)
  BY <1>1, <1>4 DEF Nested
<1>6. ASSUME NEW j \in 1..Len(q)
      PROVE  Before(Emit(Target[g]), q[j]) /\ Before(Return(g), q[j])
  <2>1. Before(Call(g), q[j]) /\ q[j] \in Steps
    BY <1>3
  <2>2. Apart(Emit(Target[g]), q[j])
    BY <2>1, StepFacts DEF Before, Apart, Outlet
  <2>3. Inside(Emit(Target[g]), q[j])
    BY <2>1, LeadsFacts, StepFacts DEF Before, Inside, Place
  <2>. QED
    BY <2>1, <2>2, <2>3, CallBefore DEF Before
<1>7. \A i \in 1..Len(own), j \in 1..Len(q) : Before(own[i], q[j])
  BY <1>1, <1>6
<1>8. Nested(agenda')
  BY <1>1, <1>2, <1>3, <1>5, <1>7, NestedConcat DEF Rest
<1>9. /\ Len(agenda') = 2 + Len(q) /\ agenda'[1] = Emit(Target[g]) /\ agenda'[2] = Return(g)
      /\ \A i \in 1..Len(agenda') : i > 2 => i - 2 \in 1..Len(q) /\ agenda'[i] = q[i - 2]
  <2>1. /\ Len(own \o q) = Len(own) + Len(q)
        /\ \A i \in 1..Len(own) : (own \o q)[i] = own[i]
        /\ \A i \in 1..Len(own \o q) : i > Len(own) => i - Len(own) \in 1..Len(q) /\ (own \o q)[i] = q[i - Len(own)]
    <3>1. own \in Seq(Steps) /\ q \in Seq(Steps)
      BY <1>1, <1>3
    <3>. QED
      BY <3>1, ConcatFacts, ZenonT(40)
  <2>2. 1 \in 1..Len(own) /\ 2 \in 1..Len(own)
    BY <1>1
  <2>. QED
    BY <1>1, <1>2, <2>1, <2>2
<1>10. ASSUME NEW i \in 1..Len(agenda')
       PROVE  Fresh(agenda[i])'
  <2>1. CASE i = 1
    BY <1>9, <2>1, StepFacts DEF Fresh, OfCalm
  <2>2. CASE i = 2
    BY <1>2, <1>9, <2>2, StepFacts DEF Fresh, OfCalm, Unanswered
  <2>3. CASE i > 2
    <3>. DEFINE x == q[i - 2]
    <3>1. agenda'[i] = x /\ Fresh(x) /\ x \in Steps /\ Before(Return(g), x)
      BY <1>3, <1>6, <1>9, <2>3 DEF Rest
    <3>. HIDE DEF x
    <3>2. OfCalm(x) => x.on \in Gates /\ x.on # g
      BY <3>1, StepFacts DEF Before, Apart, OfCalm
    <3>3. OfCalm(x) => posts'[x.on] = posts[x.on] /\ answer'[x.on] = answer[x.on]
      BY <1>2, <3>2
    <3>. QED
      BY <3>1, <3>3 DEF Fresh, Unanswered, OfCalm
  <2>. QED
    BY <1>3, <1>9, <2>1, <2>2, <2>3
<1>11. ASSUME NEW h \in Calm, Unanswered(h)', posts'[h] # 0
       PROVE  Has(agenda', Return(h))
  <2>1. CASE h = g
    BY <1>3, <1>9, <2>1 DEF Has
  <2>2. CASE h # g
    <3>1. Has(q, Return(h))
      BY <1>2, <1>11, <2>2, CalmFacts DEF Rest, Unanswered
    <3>. QED
      BY <1>1, <1>2, <1>3, <3>1, HasConcat
  <2>. QED
    BY <2>1, <2>2
<1>12. PostedAtMostOnce'
  BY <1>2, CalmFacts DEF PostedAtMostOnce
<1>. QED
  BY <1>8, <1>10, <1>11, <1>12 DEF PostInv

(* An answered gate stands in the agenda no more. *)
LEMMA AnswerNests ==
  ASSUME TypeOK, Listening, PostedAtMostOnce, NEW g \in Gates, NEW q, Rest(q, g),
         NEW a \in Answers \ {"uncalled", "pending"}, Settle(g, a), agenda' = q, UNCHANGED posts
  PROVE  Nested(agenda') /\ PostInv'
<1>1. \A h \in Gates : answer'[h] = IF h = g /\ Unanswered(g) THEN a ELSE answer[h]
  BY SettleFacts
<1>2. ~(answer'[g] \in {"uncalled", "pending"}) /\ \A h \in Gates \ {g} : answer'[h] = answer[h]
  BY <1>1 DEF Unanswered
<1>3. ASSUME NEW i \in 1..Len(q)
      PROVE  Fresh(q[i])'
  <2>. DEFINE x == q[i]
  <2>1. Fresh(x) /\ Before(Return(g), x)
    BY DEF Rest
  <2>. HIDE DEF x
  <2>2. OfCalm(x) => x.on \in Gates /\ x.on # g
    BY <2>1, CalmFacts, StepFacts DEF Before, Apart, OfCalm
  <2>3. OfCalm(x) => answer'[x.on] = answer[x.on]
    BY <1>2, <2>2
  <2>. QED
    BY <2>1, <2>3 DEF Fresh, Unanswered, OfCalm, x
<1>4. \A h \in Calm : Unanswered(h)' /\ posts'[h] # 0 => Has(q, Return(h))
  BY <1>2, CalmFacts DEF Rest, Unanswered
<1>. QED
  BY <1>3, <1>4 DEF Rest, PostInv, PostedAtMostOnce

(* An emission calls calm gates that wait and have not posted: one that    *)
(* has is below, and its message does not lead back to the channel.        *)
LEMMA EmitNests ==
  ASSUME CalmInv, RunEmit
  PROVE  Nested(agenda') /\ PostInv'
<1>. DEFINE ch    == Head(agenda).on
            heard == bus[ch]
            calls == [i \in 1..Len(heard) |-> Call(heard[i])]
            q     == Tail(agenda)
<1>1. /\ TypeOK /\ Listening /\ agenda # <<>> /\ agenda \in Seq(Steps)
      /\ ch \in Channels /\ Head(agenda) = Emit(ch) /\ q \in Seq(Steps)
      /\ Len(agenda) \in Nat \ {0} /\ Len(q) = Len(agenda) - 1
      /\ \A k \in 1..Len(q) : q[k] = agenda[k + 1]
  <2>1. /\ TypeOK /\ Listening /\ agenda # <<>> /\ agenda \in Seq(Steps)
        /\ Head(agenda).do = "emit"
    BY DEF CalmInv, GateInv, TypeOK, RunEmit
  <2>2. /\ q \in Seq(Steps) /\ Len(agenda) \in Nat \ {0} /\ Len(q) = Len(agenda) - 1
        /\ \A k \in 1..Len(q) : q[k] = agenda[k + 1]
        /\ Head(agenda) \in Steps
    BY <2>1, TailFacts
  <2>. QED
    BY <2>1, <2>2, StepFacts
<1>2. heard \in Seq(Gates) /\ IsInjective(heard)
  BY <1>1 DEF TypeOK
<1>3. calls \in Seq(Steps) /\ Len(calls) = Len(heard) /\ \A i \in 1..Len(heard) : calls[i] = Call(heard[i])
  BY <1>2, StepFacts
<1>4. agenda' = calls \o q /\ UNCHANGED <<answer, posts>>
  BY DEF RunEmit
<1>5. \A i \in 1..Len(heard) : heard[i] \in Gates /\ Watch[heard[i]] = ch /\ answer[heard[i]] = "pending"
  BY <1>1, <1>2 DEF Listening
<1>6. Nested(q) /\ \A j \in 1..Len(q) : Before(Emit(ch), q[j])
  BY <1>1, NestedTail DEF CalmInv
<1>. HIDE DEF calls, q, heard, ch
<1>7. Nested(calls)
  <2>1. ASSUME NEW i \in 1..Len(calls), NEW j \in 1..Len(calls), i < j
        PROVE  Before(Call(heard[i]), Call(heard[j]))
    <3>1. heard[i] # heard[j]
      BY <1>2, <1>3, <2>1 DEF IsInjective
    <3>2. heard[j] \in Calm => ~Leads(Target[heard[i]], Watch[heard[j]])
      BY <1>3, <1>5, CalmFacts
    <3>. QED
      BY <3>1, <3>2, StepFacts DEF Before, Apart, Inside, Outlet, OfCalm
  <2>. QED
    BY <1>3, <2>1 DEF Nested
<1>8. ASSUME NEW i \in 1..Len(heard), NEW j \in 1..Len(q)
      PROVE  Before(Call(heard[i]), q[j])
  <2>1. Before(Emit(ch), q[j]) /\ heard[i] \in Gates /\ Watch[heard[i]] = ch
    BY <1>5, <1>6
  <2>2. OfCalm(q[j]) => ~Leads(ch, Watch[q[j].on])
    BY <2>1, StepFacts DEF Before, Apart, Outlet
  <2>3. OfCalm(q[j]) => heard[i] # q[j].on /\ ~Leads(Target[heard[i]], Watch[q[j].on])
    BY <2>1, <2>2, LeadsFacts
  <2>4. Apart(Call(heard[i]), q[j])
    BY <2>3, StepFacts DEF Apart, Outlet
  <2>5. Inside(Call(heard[i]), q[j])
    BY <2>1, StepFacts DEF Before, Inside, Place
  <2>. QED
    BY <2>4, <2>5 DEF Before
<1>9. Nested(agenda')
  BY <1>1, <1>3, <1>4, <1>6, <1>7, <1>8, NestedConcat
<1>10. ASSUME NEW g \in Calm, Unanswered(g), posts[g] # 0
       PROVE  Has(q, Return(g))
  <2>1. Has(agenda, Return(g))
    BY <1>10 DEF CalmInv, PostInv
  <2>2. Head(agenda) # Return(g)
    BY <1>1, StepFacts
  <2>. QED
    BY <1>1, <2>1, <2>2, HasTail DEF q
<1>11. ASSUME NEW i \in 1..Len(heard), heard[i] \in Calm
       PROVE  posts[heard[i]] = 0
  <2>. SUFFICES ASSUME posts[heard[i]] # 0
                PROVE  FALSE
    OBVIOUS
  <2>1. Has(q, Return(heard[i]))
    BY <1>5, <1>10, <1>11 DEF Unanswered
  <2>2. PICK j \in 1..Len(q) : q[j] = Return(heard[i])
    BY <2>1 DEF Has
  <2>3. ~Leads(ch, Watch[heard[i]])
    BY <1>6, <1>11, <2>2, StepFacts DEF Before, Apart, OfCalm, Outlet
  <2>. QED
    BY <1>5, <2>3, LeadsFacts
<1>12. ASSUME NEW i \in 1..Len(agenda')
       PROVE  Fresh(agenda'[i])
  <2>1. /\ Len(calls \o q) = Len(calls) + Len(q) /\ Len(calls) \in Nat /\ Len(q) \in Nat
        /\ \A k \in 1..Len(calls) : (calls \o q)[k] = calls[k]
        /\ \A k \in 1..Len(calls \o q) : k > Len(calls) => k - Len(calls) \in 1..Len(q) /\ (calls \o q)[k] = q[k - Len(calls)]
    <3>1. calls \in Seq(Steps) /\ q \in Seq(Steps)
      BY <1>1, <1>3
    <3>. QED
      BY <3>1, ConcatFacts, ZenonT(40)
  <2>2. \A k \in 1..Len(calls) : Fresh(calls[k])
    BY <1>3, <1>5, <1>11, StepFacts DEF Fresh, OfCalm
  <2>3. \A k \in 1..Len(q) : Fresh(q[k])
    <3>1. \A k \in 1..Len(q) : k + 1 \in 1..Len(agenda) /\ q[k] = agenda[k + 1]
      BY <1>1
    <3>. QED
      BY <3>1 DEF CalmInv, PostInv
  <2>4. CASE i <= Len(calls)
    <3>1. i \in 1..Len(calls)
      BY <1>4, <2>1, <2>4
    <3>. QED
      BY <1>4, <2>1, <2>2, <3>1
  <2>5. CASE i > Len(calls)
    BY <1>4, <2>1, <2>3, <2>5
  <2>. QED
    BY <1>4, <2>1, <2>4, <2>5
<1>13. ASSUME NEW g \in Calm, Unanswered(g), posts[g] # 0
       PROVE  Has(agenda', Return(g))
  BY <1>1, <1>3, <1>4, <1>10, <1>13, HasConcat
<1>14. PostedAtMostOnce'
  BY <1>4 DEF CalmInv, PostInv, PostedAtMostOnce
<1>. QED
  BY <1>4, <1>9, <1>12, <1>13, <1>14 DEF PostInv, Fresh, Unanswered

(* A full stack throws no calm gate away: whoever stands in the agenda     *)
(* with a gate that re-enters its own emission can reach it, or be reached. *)
LEMMA OverflowSpares ==
  ASSUME TypeOK, Nested(agenda), Reentered, NEW h \in Calm
  PROVE  ~Has(agenda, Return(h))
<1>. SUFFICES ASSUME Has(agenda, Return(h))
              PROVE  FALSE
  OBVIOUS
<1>1. agenda \in Seq(Steps) /\ Len(agenda) \in Nat /\ h \in Gates
  BY CalmFacts DEF TypeOK
<1>2. PICK i \in 1..Len(agenda), j \in 1..Len(agenda) :
        i < j /\ agenda[i] = agenda[j] /\ agenda[i].do = "return"
  BY DEF Reentered
<1>. DEFINE k == agenda[j].on
<1>3. k \in Gates /\ agenda[i] = Return(k) /\ agenda[j] = Return(k)
  BY <1>1, <1>2, StepFacts
<1>4. PICK p \in 1..Len(agenda) : agenda[p] = Return(h)
  BY DEF Has
<1>. HIDE DEF k
<1>5. \A x, y \in Gates : Before(Return(x), Return(y)) => Leads(Target[y], Watch[x])
  BY StepFacts DEF Before, Inside, Place
<1>6. Loops(k)
  BY <1>2, <1>3, <1>5 DEF Nested, Loops
<1>7. ~Leads(Watch[h], Watch[k]) /\ ~Leads(Watch[k], Watch[h])
  BY <1>3, <1>6 DEF Calm
<1>8. ~Leads(Target[h], Watch[k]) /\ ~Leads(Target[k], Watch[h])
  BY <1>1, <1>3, <1>7, LeadsFacts
<1>9. ~(p < j) /\ ~(j < p)
  BY <1>1, <1>3, <1>4, <1>5, <1>8 DEF Nested
<1>10. p = j
  BY <1>1, <1>9
<1>11. h = k
  BY <1>3, <1>4, <1>10, StepFacts
<1>. QED
  BY <1>7, <1>11, LeadsFacts

LEMMA OverflowNests ==
  ASSUME CalmInv, Overflow
  PROVE  Nested(agenda') /\ PostInv' /\ \A h \in Calm : answer'[h] = answer[h]
<1>1. /\ TypeOK /\ agenda' = <<>> /\ posts' = posts
      /\ answer' = [g \in Gates |-> IF answer[g] = "uncalled" /\ Stands(Return(g)) THEN "refused"
                                    ELSE answer[g]]
  BY DEF CalmInv, GateInv, Overflow
<1>2. \A h \in Calm : ~Has(agenda, Return(h)) /\ h \in Gates
  BY OverflowSpares, CalmFacts DEF CalmInv, GateInv, Overflow
<1>3. \A h \in Calm : answer'[h] = answer[h]
  BY <1>1, <1>2 DEF Stands, Has
<1>4. \A h \in Calm : Unanswered(h)' => posts'[h] = 0
  BY <1>1, <1>2, <1>3 DEF CalmInv, PostInv, Unanswered
<1>. QED
  BY <1>1, <1>3, <1>4 DEF Nested, PostInv, PostedAtMostOnce, CalmInv

LEMMA CalmInvInductive == CalmInv /\ [Next]_vars => CalmInv'
<1>. SUFFICES ASSUME CalmInv, [Next]_vars PROVE CalmInv'
  OBVIOUS
<1>1. TypeOK /\ Listening /\ PostedAtMostOnce /\ GateInv'
  BY GateInvInductive DEF CalmInv, GateInv, PostInv
<1>2. {"refused", "sent", "timeout", "aborted"} \subseteq Answers \ {"uncalled", "pending"}
  BY DEF Answers
<1>3. CASE RunEmit
  BY <1>1, <1>3, EmitNests DEF CalmInv
<1>4. CASE RunCall
  <2>. DEFINE g == Head(agenda).on
  <2>1. agenda # <<>> /\ agenda \in Seq(Steps) /\ Head(agenda).do = "call"
    BY <1>1, <1>4 DEF RunCall, TypeOK
  <2>2. g \in Gates /\ Head(agenda) = Call(g) /\ Head(agenda) = agenda[1] /\ 1 \in 1..Len(agenda)
    BY <2>1, TailFacts, StepFacts
  <2>3. g \in Calm => Unanswered(g) /\ posts[g] = 0
    <3>1. Fresh(Head(agenda))
      BY <2>2 DEF CalmInv, PostInv
    <3>. QED
      BY <2>1, <3>1 DEF Fresh, OfCalm, Unanswered
  <2>4. Rest(Tail(agenda), g) /\ \A j \in 1..Len(Tail(agenda)) : Before(Call(g), Tail(agenda)[j])
    BY <2>1, <2>2, TailIsRest
  <2>5. CASE AllSatisfied(g) /\ TryPost(g, Tail(agenda))
    BY <1>1, <2>2, <2>3, <2>4, <2>5, TryPostNests DEF CalmInv
  <2>6. CASE AllSatisfied(g) /\ Refuse(g, Tail(agenda))
    BY <1>1, <1>2, <2>2, <2>4, <2>6, AnswerNests DEF Refuse, CalmInv
  <2>7. CASE agenda' = Tail(agenda) /\ UNCHANGED <<results, writes, bus, answer, posts>>
    <3>1. \A h \in Calm : Unanswered(h) /\ posts[h] # 0 => Has(Tail(agenda), Return(h))
      BY <2>3, <2>4 DEF Rest
    <3>2. \A j \in 1..Len(Tail(agenda)) : Fresh(Tail(agenda)[j])
      BY <2>4 DEF Rest
    <3>3. PostInv'
      BY <1>1, <2>7, <3>1, <3>2 DEF PostInv, Fresh, Unanswered, PostedAtMostOnce
    <3>. QED
      BY <1>1, <2>4, <2>7, <3>3 DEF CalmInv, Rest
  <2>. QED
    BY <1>4, <2>5, <2>6, <2>7 DEF RunCall
<1>5. CASE RunReturn
  <2>. DEFINE g == Head(agenda).on
  <2>1. agenda # <<>> /\ agenda \in Seq(Steps) /\ Head(agenda).do = "return"
    BY <1>1, <1>5 DEF RunReturn, TypeOK
  <2>2. g \in Gates /\ Head(agenda) = Return(g)
    BY <2>1, TailFacts, StepFacts
  <2>3. Rest(Tail(agenda), g)
    BY <2>1, <2>2, TailIsRest
  <2>4. Settle(g, "sent") /\ agenda' = Tail(agenda) /\ UNCHANGED posts
    BY <1>5 DEF RunReturn
  <2>. QED
    BY <1>1, <1>2, <2>2, <2>3, <2>4, AnswerNests DEF CalmInv
<1>6. CASE Overflow
  BY <1>1, <1>6, OverflowNests DEF CalmInv
<1>7. ASSUME NEW g \in Gates, Open(g)
      PROVE  CalmInv'
  <2>1. agenda = <<>> /\ answer[g] = "uncalled" /\ Unanswered(g)
    BY <1>7 DEF Open, Unanswered
  <2>2. Rest(<<>>, g) /\ \A h \in Calm : Unanswered(h) => posts[h] = 0
    BY <2>1, EmptyIsRest
  <2>3. CASE TryPost(g, <<>>)
    <3>1. g \in Calm => Unanswered(g) /\ posts[g] = 0
      BY <2>1, <2>2
    <3>2. \A j \in 1..Len(<<>>) : Before(Call(g), <<>>[j])
      OBVIOUS
    <3>. QED
      BY <1>1, <2>2, <2>3, <3>1, <3>2, TryPostNests DEF CalmInv
  <2>4. CASE Refuse(g, <<>>)
    BY <1>1, <1>2, <2>2, <2>4, AnswerNests DEF Refuse, CalmInv
  <2>5. CASE Register(g)
    <3>1. \A h \in Gates : answer'[h] = IF h = g THEN "pending" ELSE answer[h]
      BY <1>1, <2>1, <2>5, RegisterFacts
    <3>2. agenda' = agenda /\ posts' = posts
      BY <2>5 DEF Register
    <3>3. \A h \in Calm : Unanswered(h)' => posts[h] = 0
      BY <2>1, <2>2, <3>1, CalmFacts DEF Unanswered
    <3>4. PostInv'
      BY <1>1, <2>1, <3>2, <3>3 DEF PostInv, PostedAtMostOnce
    <3>. QED
      BY <1>1, <3>2, <3>4 DEF CalmInv
  <2>. QED
    BY <1>7, <2>3, <2>4, <2>5 DEF Open
<1>8. ASSUME NEW g \in Gates, NEW a \in {"timeout", "aborted"}, Close(g, a)
      PROVE  CalmInv'
  <2>1. agenda = <<>> /\ agenda' = <<>> /\ Settle(g, a) /\ UNCHANGED posts
    BY <1>8 DEF Close
  <2>2. Rest(<<>>, g)
    BY <2>1, EmptyIsRest
  <2>. QED
    BY <1>1, <1>2, <2>1, <2>2, AnswerNests DEF CalmInv
<1>9. ASSUME NEW rs \in Seq(Channels \X Tasks), PostResults(rs)
      PROVE  CalmInv'
  <2>1. agenda = <<>> /\ UNCHANGED <<answer, posts>>
    BY <1>9 DEF PostResults
  <2>2. \A i \in 1..Len(agenda') : agenda'[i].do = "emit"
    <3>1. agenda' = [i \in 1..Len(rs) |-> Emit(rs[i][1])] /\ Len(rs) \in Nat
      BY <1>9 DEF PostResults
    <3>2. Len(agenda') = Len(rs)
      BY <3>1
    <3>. QED
      BY <3>1, <3>2, StepFacts
  <2>3. Nested(agenda')
    BY <2>2 DEF Nested, Before, Apart, Inside, OfCalm
  <2>4. \A h \in Calm : Unanswered(h) => posts[h] = 0
    BY <2>1, EmptyIsRest
  <2>5. PostInv'
    BY <1>1, <2>1, <2>2, <2>4 DEF PostInv, Fresh, OfCalm, Unanswered, PostedAtMostOnce
  <2>. QED
    BY <1>1, <2>3, <2>5 DEF CalmInv
<1>10. ASSUME UNCHANGED <<answer, posts, agenda>>
       PROVE  CalmInv'
  BY <1>1, <1>10 DEF CalmInv, PostInv, Fresh, Unanswered, PostedAtMostOnce
<1>11. CASE \E r \in Channels \X Tasks : PostResults(<<r>>)
  <2>1. PICK r \in Channels \X Tasks : PostResults(<<r>>)
    BY <1>11
  <2>2. <<r>> \in Seq(Channels \X Tasks)
    OBVIOUS
  <2>. QED
    BY <1>9, <2>1, <2>2
<1>12. CASE \E r, s \in Channels \X Tasks : PostResults(<<r, s>>)
  <2>1. PICK r \in Channels \X Tasks, s \in Channels \X Tasks : PostResults(<<r, s>>)
    BY <1>12
  <2>2. <<r, s>> \in Seq(Channels \X Tasks)
    OBVIOUS
  <2>. QED
    BY <1>9, <2>1, <2>2
<1>13. CASE \E lost \in SUBSET results : LoseResults(lost)
  BY <1>10, <1>13 DEF LoseResults
<1>14. CASE UNCHANGED vars
  BY <1>10, <1>14 DEF vars
<1>. QED
  BY <1>3, <1>4, <1>5, <1>6, <1>7, <1>8, <1>11, <1>12, <1>13, <1>14 DEF Next, Run

LEMMA CalmInvInit == Init => CalmInv
<1>1. Init => GateInv
  BY GateInvInit
<1>2. Init => Nested(agenda) /\ PostInv
  BY CalmFacts DEF Init, Nested, PostInv, PostedAtMostOnce
<1>. QED
  BY <1>1, <1>2 DEF CalmInv

LEMMA CalmAlways == Spec => []CalmInv
  BY CalmInvInit, CalmInvInductive, PTL DEF Spec

(* A gate that has to do with no loop posts its message at most once,      *)
(* however many results arrive, however deep the emissions nest, and       *)
(* whatever loops run beside it.                                           *)
THEOREM MessagePostedOnce == Spec => []PostedAtMostOnce
<1>1. CalmInv => PostedAtMostOnce
  BY DEF CalmInv, PostInv
<1>. QED
  BY <1>1, CalmAlways, PTL

----------------------------------------------------------------------------
(* The gates implement the promise. *)

LEMMA ToldFacts ==
  ASSUME NEW g \in Calm
  PROVE  /\ Told[g] = CASE answer[g] = "uncalled" -> "nothing"
                        [] answer[g] = "pending" -> "waiting"
                        [] OTHER -> answer[g]
         /\ Unanswered(g) => Told[g] \in {"nothing", "waiting"}
  BY DEF Told, Unanswered

(* An answer is told to one caller, who had none. *)
LEMMA AnswerTold ==
  ASSUME TypeOK, Listening, NEW g \in Calm, NEW a \in Answers \ {"uncalled", "pending"},
         Settle(g, a), Unanswered(g)
  PROVE  Told' = [Told EXCEPT ![g] = a]
<1>1. \A h \in Calm : answer'[h] = IF h = g THEN a ELSE answer[h]
  BY SettleFacts, CalmFacts
<1>2. ASSUME NEW h \in Calm
      PROVE  (CASE answer'[h] = "uncalled" -> "nothing"
                [] answer'[h] = "pending" -> "waiting"
                [] OTHER -> answer'[h]) = IF h = g THEN a ELSE Told[h]
  <2>1. CASE h = g
    BY <1>1, <2>1
  <2>2. CASE h # g
    BY <1>1, <2>2, ToldFacts
  <2>. QED
    BY <2>1, <2>2
<1>. QED
  BY <1>2 DEF Told

LEMMA SendKept ==
  ASSUME TypeOK, NEW g \in Calm, NEW q, AllSatisfied(g), Unanswered(g), posts[g] = 0, TryPost(g, q)
  PROVE  Promise!Next
<1>1. \A t \in Deps[g] : <<Watch[g], t>> \in results
  BY DEF AllSatisfied
<1>2. {<<Watch[g], t>> : t \in Deps[g]} \subseteq results
  BY <1>1
<1>3. [h \in Calm |-> {<<Watch[h], t>> : t \in Deps[h]}][g] \subseteq results
  BY <1>2
<1>4. Promise!Unanswered(g)
  BY ToldFacts DEF Promise!Unanswered
<1>5. posts' = [posts EXCEPT ![g] = 1] /\ results \subseteq results' /\ Told' = Told
  BY DEF TryPost, TypeOK, Told
<1>6. \A h \in Calm : posts'[h] = IF h = g THEN 1 ELSE posts[h]
  BY <1>5, CalmFacts DEF TypeOK
<1>7. [h \in Calm |-> posts'[h]] = [[h \in Calm |-> posts[h]] EXCEPT ![g] = 1]
  BY <1>6
<1>8. Promise!Send(g)
  BY <1>3, <1>4, <1>5, <1>7 DEF Promise!Send
<1>. QED
  BY <1>8 DEF Promise!Next

LEMMA RefusalKept ==
  ASSUME TypeOK, Listening, NEW g \in Calm, NEW a \in {"refused", "timeout", "aborted"},
         Unanswered(g), posts[g] = 0, Settle(g, a), UNCHANGED <<results, posts>>
  PROVE  Promise!Next
<1>1. Told' = [Told EXCEPT ![g] = a]
  BY AnswerTold DEF Answers
<1>2. Promise!Unanswered(g)
  BY ToldFacts DEF Promise!Unanswered
<1>3. Promise!Refuse(g)
  BY <1>1, <1>2 DEF Promise!Refuse, Promise!Refusals
<1>. QED
  BY <1>3 DEF Promise!Next

(* What the other gates do is the world's, or nothing at all. *)
LEMMA OthersKept ==
  ASSUME \A h \in Calm : posts'[h] = posts[h] /\ answer'[h] = answer[h]
  PROVE  [Promise!Next]_(Promise!vars)
<1>1. Told' = Told
  BY DEF Told
<1>2. [h \in Calm |-> posts'[h]] = [h \in Calm |-> posts[h]]
  OBVIOUS
<1>3. CASE results' = results
  BY <1>1, <1>2, <1>3 DEF Promise!vars
<1>4. CASE results' # results
  BY <1>1, <1>2, <1>4 DEF Promise!Next, Promise!World
<1>. QED
  BY <1>3, <1>4

LEMMA TryPostKept ==
  ASSUME TypeOK, NEW g \in Gates, NEW q, g \in Calm => Unanswered(g) /\ posts[g] = 0,
         AllSatisfied(g), TryPost(g, q)
  PROVE  [Promise!Next]_(Promise!vars)
<1>1. CASE g \in Calm
  BY <1>1, SendKept
<1>2. CASE g \notin Calm
  <2>1. \A h \in Calm : posts'[h] = posts[h] /\ answer'[h] = answer[h]
    BY <1>2, CalmFacts DEF TryPost, TypeOK
  <2>. QED
    BY <2>1, OthersKept
<1>. QED
  BY <1>1, <1>2

LEMMA SettleKept ==
  ASSUME TypeOK, Listening, NEW g \in Gates, NEW a \in {"refused", "timeout", "aborted"},
         g \in Calm => Unanswered(g) /\ posts[g] = 0, Settle(g, a), UNCHANGED <<results, posts>>
  PROVE  [Promise!Next]_(Promise!vars)
<1>1. CASE g \in Calm
  BY <1>1, RefusalKept
<1>2. CASE g \notin Calm
  <2>1. \A h \in Calm : answer'[h] = answer[h]
    BY <1>2, SettleFacts, CalmFacts DEF Answers
  <2>. QED
    BY <2>1, OthersKept
<1>. QED
  BY <1>1, <1>2

LEMMA PromiseStep ==
  ASSUME CalmInv, [Next]_vars
  PROVE  [Promise!Next]_(Promise!vars)
<1>1. TypeOK /\ Listening
  BY DEF CalmInv, GateInv
<1>2. CASE RunEmit
  BY <1>2, OthersKept DEF RunEmit
<1>3. CASE RunCall
  <2>. DEFINE g == Head(agenda).on
  <2>1. agenda # <<>> /\ agenda \in Seq(Steps) /\ Head(agenda).do = "call"
    BY <1>1, <1>3 DEF RunCall, TypeOK
  <2>2. g \in Gates /\ Head(agenda) = Call(g) /\ Head(agenda) = agenda[1] /\ 1 \in 1..Len(agenda)
    BY <2>1, TailFacts, StepFacts
  <2>3. g \in Calm => Unanswered(g) /\ posts[g] = 0
    <3>1. Fresh(Head(agenda))
      BY <2>2 DEF CalmInv, PostInv
    <3>. QED
      BY <2>1, <3>1 DEF Fresh, OfCalm, Unanswered
  <2>4. CASE AllSatisfied(g) /\ TryPost(g, Tail(agenda))
    BY <1>1, <2>2, <2>3, <2>4, TryPostKept
  <2>5. CASE AllSatisfied(g) /\ Refuse(g, Tail(agenda))
    BY <1>1, <2>2, <2>3, <2>5, SettleKept DEF Refuse
  <2>6. CASE UNCHANGED <<results, writes, bus, answer, posts>>
    BY <2>6, OthersKept
  <2>. QED
    BY <1>3, <2>4, <2>5, <2>6 DEF RunCall
<1>4. CASE RunReturn
  <2>. DEFINE g == Head(agenda).on
  <2>1. agenda # <<>> /\ agenda \in Seq(Steps) /\ Head(agenda).do = "return"
    BY <1>1, <1>4 DEF RunReturn, TypeOK
  <2>2. g \in Gates /\ Head(agenda) = agenda[1] /\ 1 \in 1..Len(agenda)
    BY <2>1, TailFacts, StepFacts
  <2>3. Settle(g, "sent") /\ UNCHANGED <<results, posts>>
    BY <1>4 DEF RunReturn
  <2>4. CASE g \in Calm
    <3>1. Unanswered(g) /\ posts[g] = 1
      <4>1. Fresh(Head(agenda))
        BY <2>2 DEF CalmInv, PostInv
      <4>. QED
        BY <2>1, <2>4, <4>1 DEF Fresh, OfCalm
    <3>2. Told' = [Told EXCEPT ![g] = "sent"]
      BY <1>1, <2>3, <2>4, <3>1, AnswerTold DEF Answers
    <3>3. Promise!Unanswered(g)
      BY <2>4, <3>1, ToldFacts DEF Promise!Unanswered
    <3>4. Promise!Confirm(g)
      BY <2>3, <2>4, <3>1, <3>2, <3>3 DEF Promise!Confirm
    <3>. QED
      BY <2>4, <3>4 DEF Promise!Next
  <2>5. CASE g \notin Calm
    <3>1. \A h \in Calm : answer'[h] = answer[h]
      BY <1>1, <2>2, <2>3, <2>5, SettleFacts, CalmFacts DEF Answers
    <3>. QED
      BY <2>3, <3>1, OthersKept
  <2>. QED
    BY <2>4, <2>5
<1>5. CASE Overflow
  <2>1. \A h \in Calm : posts'[h] = posts[h] /\ answer'[h] = answer[h]
    BY <1>5, OverflowNests DEF Overflow
  <2>. QED
    BY <2>1, OthersKept
<1>6. ASSUME NEW g \in Gates, Open(g)
      PROVE  [Promise!Next]_(Promise!vars)
  <2>1. agenda = <<>> /\ answer[g] = "uncalled" /\ Unanswered(g)
    BY <1>6 DEF Open, Unanswered
  <2>2. g \in Calm => Unanswered(g) /\ posts[g] = 0
    BY <2>1, EmptyIsRest
  <2>3. CASE AllSatisfied(g) /\ TryPost(g, <<>>)
    BY <1>1, <2>2, <2>3, TryPostKept
  <2>4. CASE AllSatisfied(g) /\ Refuse(g, <<>>)
    BY <1>1, <2>2, <2>4, SettleKept DEF Refuse
  <2>5. CASE Register(g)
    <3>1. /\ \A h \in Gates : answer'[h] = IF h = g THEN "pending" ELSE answer[h]
          /\ UNCHANGED <<results, posts>>
      BY <1>1, <2>1, <2>5, RegisterFacts DEF Register
    <3>2. CASE g \in Calm
      <4>1. ASSUME NEW h \in Calm
            PROVE  (CASE answer'[h] = "uncalled" -> "nothing"
                      [] answer'[h] = "pending" -> "waiting"
                      [] OTHER -> answer'[h]) = IF h = g THEN "waiting" ELSE Told[h]
        <5>1. CASE h = g
          BY <3>1, <5>1
        <5>2. CASE h # g
          BY <3>1, <5>2, ToldFacts, CalmFacts
        <5>. QED
          BY <5>1, <5>2
      <4>2. Told' = [Told EXCEPT ![g] = "waiting"]
        BY <4>1 DEF Told
      <4>3. Told[g] = "nothing"
        BY <2>1, <3>2, ToldFacts
      <4>4. Promise!Wait(g)
        BY <3>1, <4>2, <4>3 DEF Promise!Wait
      <4>. QED
        BY <3>2, <4>4 DEF Promise!Next
    <3>3. CASE g \notin Calm
      BY <3>1, <3>3, CalmFacts, OthersKept
    <3>. QED
      BY <3>2, <3>3
  <2>. QED
    BY <1>6, <2>3, <2>4, <2>5 DEF Open
<1>7. ASSUME NEW g \in Gates, NEW a \in {"timeout", "aborted"}, Close(g, a)
      PROVE  [Promise!Next]_(Promise!vars)
  <2>1. agenda = <<>> /\ Unanswered(g) /\ Settle(g, a) /\ UNCHANGED <<results, posts>>
    BY <1>7 DEF Close, Unanswered
  <2>2. g \in Calm => Unanswered(g) /\ posts[g] = 0
    BY <2>1, EmptyIsRest
  <2>. QED
    BY <1>1, <2>1, <2>2, SettleKept
<1>8. CASE \E r \in Channels \X Tasks : PostResults(<<r>>)
  BY <1>8, OthersKept DEF PostResults
<1>9. CASE \E r, s \in Channels \X Tasks : PostResults(<<r, s>>)
  BY <1>9, OthersKept DEF PostResults
<1>10. CASE \E lost \in SUBSET results : LoseResults(lost)
  BY <1>10, OthersKept DEF LoseResults
<1>11. CASE UNCHANGED vars
  BY <1>11, OthersKept DEF vars
<1>. QED
  BY <1>2, <1>3, <1>4, <1>5, <1>6, <1>7, <1>8, <1>9, <1>10, <1>11 DEF Next, Run

(* For the gates that have to do with no loop, whatever loops run beside   *)
(* them: the bus, its listeners and their nested emissions carry out the   *)
(* steps GatePromise allows and no others.  A message goes out once, while *)
(* every result it depends on is there, and each caller gets one answer, a *)
(* true one.  That a waiting caller is answered at all is left to TLC.     *)
THEOREM GatesKeepPromise == Spec => Promise!Safe
<1>1. Init => Promise!Init
  <2>1. Init => Told = [g \in Calm |-> "nothing"]
    BY CalmFacts DEF Init, Told
  <2>2. Init => [g \in Calm |-> posts[g]] = [g \in Calm |-> 0]
    BY CalmFacts DEF Init
  <2>. QED
    BY <2>1, <2>2 DEF Init, Promise!Init
<1>2. CalmInv /\ [Next]_vars => [Promise!Next]_(Promise!vars)
  BY PromiseStep
<1>. QED
  BY <1>1, <1>2, CalmAlways, PTL DEF Spec, Promise!Safe
=============================================================================
