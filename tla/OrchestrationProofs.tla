------------------------ MODULE OrchestrationProofs ------------------------
(***************************************************************************)
(* Proofs about the orchestration loop, its state file, the messages it    *)
(* sends and the wakes it owes.                                            *)
(***************************************************************************)
EXTENDS OrchestrationLoop, SetLemmas

----------------------------------------------------------------------------
(* Numbers of messages. *)

LEMMA HighestIn ==
  ASSUME NEW m \in Nat, NEW S \in SUBSET (0..m)
  PROVE  /\ Highest(S) \in 0..m /\ \A k \in S : k <= Highest(S)
         /\ S # {} => Highest(S) \in S
<1>1. IsFiniteSet(S)
  <2>1. IsFiniteSet(0..m)
    BY FS_Interval
  <2>. QED
    BY <2>1, FS_Subset
<1>2. S \in SUBSET Int
  OBVIOUS
<1>3. CASE S = {}
  BY <1>3 DEF Highest
<1>4. CASE S # {}
  <2>1. Highest(S) \in S /\ \A k \in S : k <= Highest(S)
    BY <1>1, <1>2, <1>4, GreatestExists DEF Highest
  <2>. QED
    BY <1>4, <2>1
<1>. QED
  BY <1>3, <1>4

LEMMA LowestIn ==
  ASSUME NEW S \in SUBSET Nat
  PROVE  /\ Lowest(S) \in Nat
         /\ S # {} => (Lowest(S) \in S /\ \A k \in S : Lowest(S) <= k)
         /\ S = {} => Lowest(S) = 0
<1>1. CASE S = {}
  BY <1>1 DEF Lowest
<1>2. CASE S # {}
  BY <1>2, MinNat DEF Lowest
<1>. QED
  BY <1>1, <1>2

LEMMA SinceIs ==
  ASSUME NEW st, st.marker \in Nat
  PROVE  Since(st) = IF st.marker = 0 THEN 0 ELSE st.marker - 1
<1>1. \A n \in {0, st.marker - 1} : n <= IF st.marker = 0 THEN 0 ELSE st.marker - 1
  OBVIOUS
<1>2. (IF st.marker = 0 THEN 0 ELSE st.marker - 1) \in {0, st.marker - 1}
  OBVIOUS
<1>. DEFINE S == {0, st.marker - 1}
            h == IF st.marker = 0 THEN 0 ELSE st.marker - 1
<1>3. S # {} /\ h \in S /\ (\A n \in S : n <= h) /\ \A n \in S : n \in Int
  BY <1>1, <1>2
<1>4. Since(st) = CHOOSE n \in S : \A k \in S : k <= n
  BY <1>3 DEF Since, Highest
<1>. HIDE DEF S, h
<1>5. \A n \in S : (\A k \in S : k <= n) => n = h
  BY <1>3
<1>6. Since(st) = h
  BY <1>3, <1>4, <1>5
<1>. QED
  BY <1>6 DEF h

(* The ledger's dispatch of a task in the window of a state is its first. *)
LEMMA DispatchIdIs ==
  ASSUME NEW st, st.marker \in Nat, NEW l \in Nat, NEW t
  PROVE  /\ DispatchId(l, t, st) \in Nat
         /\ DispatchId(l, t, st) # 0 =>
              /\ DispatchId(l, t, st) \in Dispatches(l, t, Since(st))
              /\ \A n \in Dispatches(l, t, Since(st)) : DispatchId(l, t, st) <= n
         /\ DispatchId(l, t, st) = 0 => Dispatches(l, t, Since(st)) = {}
<1>1. Since(st) \in Nat
  BY SinceIs
<1>. DEFINE S == Dispatches(l, t, Since(st))
<1>2. S \in SUBSET Nat /\ 0 \notin S
  BY <1>1 DEF Dispatches
<1>3. DispatchId(l, t, st) = Lowest(S)
  BY DEF DispatchId
<1>. HIDE DEF S
<1>4. /\ Lowest(S) \in Nat
      /\ S # {} => (Lowest(S) \in S /\ \A k \in S : Lowest(S) <= k)
      /\ S = {} => Lowest(S) = 0
  BY <1>2, LowestIn
<1>5. /\ DispatchId(l, t, st) \in Nat
      /\ DispatchId(l, t, st) # 0 => DispatchId(l, t, st) \in S /\ \A n \in S : DispatchId(l, t, st) <= n
      /\ DispatchId(l, t, st) = 0 => S = {}
  BY <1>2, <1>3, <1>4
<1>. QED
  BY <1>5 DEF S

----------------------------------------------------------------------------
(* The messages so far stay. *)
Grows ==
  /\ Len(log) \in Nat /\ Len(log') \in Nat /\ Len(log) <= Len(log')
  /\ \A n \in 1..Len(log) : log'[n] = log[n]

LEMMA PostGrows ==
  ASSUME LoopTypeOK, NEW kind \in {"task", "held", "pass", "fail"}, NEW t \in Tasks \cup Reviews,
         NEW by \in {"orch", "loop", "worker"}, Post(kind, t, by)
  PROVE  /\ Grows /\ log' \in Seq(Message) /\ Len(log') <= MaxId /\ Len(log') = Len(log) + 1
         /\ log'[Len(log) + 1] = [kind |-> kind, task |-> t, by |-> by]
<1>. DEFINE m == [kind |-> kind, task |-> t, by |-> by]
<1>1. m \in Message
  BY DEF Message
<1>2. log \in Seq(Message) /\ Len(log) \in Nat /\ Len(log) < MaxId /\ log' = Append(log, m) /\ MaxId \in Nat
  BY BoundsAssumption DEF LoopTypeOK, Post
<1>. HIDE DEF m
<1>3. log' \in Seq(Message) /\ Len(log') = Len(log) + 1 /\ log'[Len(log) + 1] = m
      /\ \A n \in 1..Len(log) : log'[n] = log[n]
  BY <1>1, <1>2
<1>. QED
  BY <1>2, <1>3 DEF Grows, m

LEMMA SameGrows ==
  ASSUME LoopTypeOK, UNCHANGED log
  PROVE  Grows /\ log' \in Seq(Message) /\ Len(log') <= MaxId
BY DEF LoopTypeOK, Grows

(* States stay well formed while messages are added. *)
LEMMA StatesKept ==
  ASSUME LoopTypeOK, Grows
  PROVE  /\ saved' = saved => StateOK(saved)'
         /\ state' = state => StateOK(state)'
         /\ saved' = state => StateOK(saved)'
         /\ state' = saved => StateOK(state)'
<1>. DEFINE Good(st) ==
              /\ st \in State
              /\ {st.marker, st.baseline, st.heldSeen} \subseteq 0..Len(log')
              /\ st.marker # 0 => /\ log'[st.marker].kind = "task" /\ log'[st.marker].task = st.last
                                  /\ st.last \in Reviews
              /\ \A t \in Tasks : st.held[t] # 0 => /\ st.held[t] <= Len(log')
                                                    /\ log'[st.held[t]].kind = "held"
                                                    /\ log'[st.held[t]].task = t
              /\ IsFiniteSet(st.reviews) /\ Cardinality(st.reviews) <= st.marker
<1>1. ASSUME NEW st, StateOK(st)
      PROVE  Good(st)
  <2>1. /\ st \in State
        /\ {st.marker, st.baseline, st.heldSeen} \subseteq 0..Len(log)
        /\ IsFiniteSet(st.reviews) /\ Cardinality(st.reviews) <= st.marker
    BY <1>1 DEF StateOK
  <2>2. {st.marker, st.baseline, st.heldSeen} \subseteq 0..Len(log')
    BY <2>1 DEF Grows
  <2>3. st.marker # 0 => st.marker \in 1..Len(log)
    BY <2>1 DEF Grows
  <2>4. st.marker # 0 => /\ log'[st.marker].kind = "task" /\ log'[st.marker].task = st.last
                         /\ st.last \in Reviews
    BY <1>1, <2>3 DEF StateOK, Grows
  <2>5. ASSUME NEW t \in Tasks, st.held[t] # 0
        PROVE  st.held[t] <= Len(log') /\ log'[st.held[t]].kind = "held" /\ log'[st.held[t]].task = t
    <3>1. st.held[t] \in Nat
      BY <2>1 DEF State
    <3>2. st.held[t] <= Len(log) /\ log[st.held[t]].kind = "held" /\ log[st.held[t]].task = t
      BY <1>1, <2>5 DEF StateOK
    <3>3. st.held[t] \in 1..Len(log)
      BY <3>1, <3>2, <2>5 DEF Grows
    <3>. QED
      BY <3>2, <3>3 DEF Grows
  <2>. QED
    BY <2>1, <2>2, <2>4, <2>5
<1>2. StateOK(saved) /\ StateOK(state)
  BY DEF LoopTypeOK
<1>3. Good(saved) /\ Good(state)
  BY <1>1, <1>2
<1>4. (Good(saved') => StateOK(saved)') /\ (Good(state') => StateOK(state)')
  BY DEF StateOK
<1>. HIDE DEF Good
<1>. QED
  BY <1>3, <1>4

(* What is left of the type invariant in a step that changes neither state. *)
LEMMA TypesKept ==
  ASSUME LoopTypeOK, Grows, log' \in Seq(Message), Len(log') <= MaxId,
         \A n \in Len(log) + 1..Len(log') : log'[n].kind = "held" => log'[n].task \in Tasks,
         UNCHANGED <<reviewHead, crashes>>,
         StateOK(saved)', StateOK(state)',
         pc' \in {"new", "read", "apply", "print"}, faults' \in Nat,
         todo' \in [release : SUBSET Tasks, review : Reviews \cup {"none"}, wake : SUBSET Keys],
         todo'.review # "none" => reviewHead,
         snap' \in [ledger : 0..Len(log'), held : SUBSET (1..Len(log')),
                    gotLedger : BOOLEAN, gotHeld : BOOLEAN],
         \A n \in snap'.held : log'[n].kind = "held",
         wakes' \subseteq Keys, told' \subseteq Keys,
         covered' \subseteq 1..Len(log'), slipped' \subseteq 1..Len(log')
  PROVE  LoopTypeOK'
<1>1. \A n \in 1..Len(log') : log'[n].kind = "held" => log'[n].task \in Tasks
  <2>1. \A n \in 1..Len(log) : log'[n].kind = "held" => log'[n].task \in Tasks
    BY DEF LoopTypeOK, Grows
  <2>2. \A n \in 1..Len(log') : n \in 1..Len(log) \/ n \in Len(log) + 1..Len(log')
    BY DEF Grows
  <2>. QED
    BY <2>1, <2>2
<1>. QED
  BY <1>1 DEF LoopTypeOK

LEMMA SnapKept ==
  ASSUME LoopTypeOK, Grows, snap' \in {snap, NoSnap}
  PROVE  /\ snap' \in [ledger : 0..Len(log'), held : SUBSET (1..Len(log')),
                       gotLedger : BOOLEAN, gotHeld : BOOLEAN]
         /\ \A n \in snap'.held : log'[n].kind = "held"
<1>1. 0..Len(log) \subseteq 0..Len(log') /\ 1..Len(log) \subseteq 1..Len(log')
  BY DEF Grows
<1>2. /\ NoSnap \in [ledger : 0..Len(log'), held : SUBSET (1..Len(log')),
                     gotLedger : BOOLEAN, gotHeld : BOOLEAN]
      /\ NoSnap.held = {}
  BY DEF NoSnap, Grows
<1>3. CASE snap' = snap
  <2>1. \A n \in snap.held : n \in 1..Len(log) /\ log[n].kind = "held"
    BY DEF LoopTypeOK
  <2>2. \A n \in snap'.held : log'[n].kind = "held"
    BY <1>3, <2>1 DEF Grows
  <2>3. snap' \in [ledger : 0..Len(log'), held : SUBSET (1..Len(log')),
                   gotLedger : BOOLEAN, gotHeld : BOOLEAN]
    BY <1>1, <1>3 DEF LoopTypeOK
  <2>. QED
    BY <2>2, <2>3
<1>4. CASE snap' = NoSnap
  BY <1>2, <1>4
<1>. QED
  BY <1>3, <1>4

(* Everybody else's steps leave the loop alone. *)
LEMMA PostTypes ==
  ASSUME LoopTypeOK, NEW kind \in {"task", "held", "pass", "fail"}, NEW t \in Tasks \cup Reviews,
         NEW by \in {"orch", "loop", "worker"}, Post(kind, t, by), kind = "held" => t \in Tasks,
         Others, covered' \in {covered, covered \cup 1..Len(log)}
  PROVE  LoopTypeOK'
<1>1. /\ Grows /\ log' \in Seq(Message) /\ Len(log') <= MaxId /\ Len(log') = Len(log) + 1
      /\ log'[Len(log) + 1] = [kind |-> kind, task |-> t, by |-> by]
  BY PostGrows
<1>2. UNCHANGED <<loopVars, told, slipped, crashes, faults>>
  BY DEF Others
<1>3. StateOK(saved)' /\ StateOK(state)'
  BY <1>1, <1>2, StatesKept DEF loopVars
<1>4. /\ snap' \in [ledger : 0..Len(log'), held : SUBSET (1..Len(log')),
                    gotLedger : BOOLEAN, gotHeld : BOOLEAN]
      /\ \A n \in snap'.held : log'[n].kind = "held"
  BY <1>1, <1>2, SnapKept DEF loopVars
<1>5. \A n \in Len(log) + 1..Len(log') : log'[n].kind = "held" => log'[n].task \in Tasks
  <2>1. \A n \in Len(log) + 1..Len(log') : n = Len(log) + 1
    BY <1>1 DEF Grows
  <2>. QED
    BY <1>1, <2>1
<1>6. covered' \subseteq 1..Len(log') /\ slipped' \subseteq 1..Len(log')
  <2>1. covered \subseteq 1..Len(log) /\ slipped \subseteq 1..Len(log) /\ 1..Len(log) \subseteq 1..Len(log')
    BY <1>1 DEF LoopTypeOK, Grows
  <2>. QED
    BY <1>2, <2>1
<1>7. /\ pc' \in {"new", "read", "apply", "print"} /\ faults' \in Nat
      /\ todo' \in [release : SUBSET Tasks, review : Reviews \cup {"none"}, wake : SUBSET Keys]
      /\ todo'.review # "none" => reviewHead
      /\ wakes' \subseteq Keys /\ told' \subseteq Keys
  BY <1>2 DEF LoopTypeOK, loopVars
<1>. QED
  BY <1>1, <1>2, <1>3, <1>4, <1>5, <1>6, <1>7, TypesKept DEF loopVars

LEMMA Naturals ==
  ASSUME LoopTypeOK
  PROVE  /\ Len(log) \in Nat /\ Len(log) \in 0..MaxId /\ MaxId \in Nat
         /\ state \in State /\ saved \in State
         /\ state.marker \in 0..Len(log) /\ state.heldSeen \in 0..Len(log)
         /\ saved.marker \in 0..Len(log) /\ saved.heldSeen \in 0..Len(log)
         /\ snap.ledger \in 0..Len(log) /\ snap.held \in SUBSET (1..Len(log))
BY BoundsAssumption DEF LoopTypeOK, StateOK

LEMMA MessagesIn ==
  ASSUME LoopTypeOK
  PROVE  \A n \in 1..Len(log) : log[n].by \in {"orch", "loop", "worker"}
<1>1. \A n \in 1..Len(log) : log[n] \in Message
  BY DEF LoopTypeOK
<1>. QED
  BY <1>1 DEF Message

LEMMA DispatchIn ==
  ASSUME LoopTypeOK, NEW l \in 0..Len(log), NEW st, st.marker \in Nat, NEW t,
         DispatchId(l, t, st) # 0
  PROVE  /\ DispatchId(l, t, st) \in 1..l
         /\ log[DispatchId(l, t, st)].kind = "task" /\ log[DispatchId(l, t, st)].task = t
<1>1. l \in Nat /\ Since(st) \in Nat
  BY Naturals, SinceIs
<1>2. DispatchId(l, t, st) \in Dispatches(l, t, Since(st))
  BY <1>1, DispatchIdIs
<1>. QED
  BY <1>1, <1>2 DEF Dispatches

LEMMA FirstRunTypes == LoopTypeOK /\ FirstRun => LoopTypeOK'
<1>. SUFFICES ASSUME LoopTypeOK, FirstRun
              PROVE  LoopTypeOK'
  OBVIOUS
<1>. DEFINE R == {DispatchId(Len(log), r, Blank) : r \in Reviews} \ {0}
            U == UNION {Results(Len(log), t) : t \in Tasks \cup Reviews}
            last == IF R = {} THEN "none" ELSE log[Highest(R)].task
            init == [Blank EXCEPT !.marker = Highest(R), !.last = last, !.baseline = Highest(U)]
<1>1. /\ UNCHANGED <<reviewHead, log, snap, todo, wakes, historyVars, crashes, faults>>
      /\ pc' = "read" /\ state' = init /\ saved' = init
  BY DEF FirstRun
<1>2. Grows /\ log' \in Seq(Message) /\ Len(log') <= MaxId
  BY <1>1, SameGrows
<1>3. ASSUME NEW n \in R
      PROVE  n \in 1..Len(log) /\ log[n].kind = "task" /\ log[n].task \in Reviews
  <2>1. PICK r \in Reviews : n = DispatchId(Len(log), r, Blank)
    BY <1>3
  <2>2. Len(log) \in 0..Len(log) /\ Blank.marker \in Nat
    BY Naturals DEF Blank
  <2>. QED
    BY <1>3, <2>1, <2>2, DispatchIn
<1>4. /\ Highest(R) \in 0..Len(log)
      /\ R # {} => Highest(R) \in R
      /\ R = {} => Highest(R) = 0
  <2>1. R \in SUBSET (0..Len(log)) /\ Len(log) \in Nat
    BY <1>3, Naturals
  <2>. HIDE DEF R
  <2>2. R = {} => Highest(R) = 0
    BY DEF Highest
  <2>. QED
    BY <2>1, <2>2, HighestIn
<1>5. Highest(U) \in 0..Len(log)
  <2>1. U \in SUBSET (0..Len(log)) /\ Len(log) \in Nat
    BY Naturals DEF Results
  <2>. HIDE DEF U
  <2>. QED
    BY <2>1, HighestIn
<1>6. /\ last \in Reviews \cup {"none"}
      /\ Highest(R) # 0 => /\ log[Highest(R)].kind = "task" /\ log[Highest(R)].task = last
                           /\ last \in Reviews
  <2>1. CASE R = {}
    BY <1>4, <2>1
  <2>2. CASE R # {}
    BY <1>3, <1>4, <2>2
  <2>. QED
    BY <2>1, <2>2
<1>. HIDE DEF R, U, last
<1>7. /\ init \in State
      /\ init.marker = Highest(R) /\ init.last = last /\ init.baseline = Highest(U)
      /\ init.heldSeen = 0 /\ init.held = [t \in Tasks |-> 0] /\ init.reviews = {}
  <2>1. Highest(R) \in Nat /\ Highest(U) \in Nat
    BY <1>4, <1>5
  <2>2. /\ Blank \in State /\ Blank.heldSeen = 0 /\ Blank.held = [t \in Tasks |-> 0]
        /\ Blank.reviews = {}
    BY DEF Blank, State
  <2>. QED
    BY <1>6, <2>1, <2>2 DEF State
<1>. HIDE DEF init
<1>9. IsFiniteSet(init.reviews) /\ Cardinality(init.reviews) <= init.marker
  BY <1>4, <1>7, FS_EmptySet
<1>10. \A t \in Tasks : init.held[t] = 0
  BY <1>7
<1>11. StateOK(saved)' /\ StateOK(state)'
  <2>1. {init.marker, init.baseline, init.heldSeen} \subseteq 0..Len(log')
    BY <1>1, <1>4, <1>5, <1>7, Naturals
  <2>. QED
    BY <1>1, <1>6, <1>7, <1>9, <1>10, <2>1 DEF StateOK
<1>12. /\ snap' \in [ledger : 0..Len(log'), held : SUBSET (1..Len(log')),
                     gotLedger : BOOLEAN, gotHeld : BOOLEAN]
       /\ \A n \in snap'.held : log'[n].kind = "held"
  BY <1>1, <1>2, SnapKept
<1>13. /\ todo' \in [release : SUBSET Tasks, review : Reviews \cup {"none"}, wake : SUBSET Keys]
       /\ todo'.review # "none" => reviewHead
       /\ wakes' \subseteq Keys /\ told' \subseteq Keys /\ faults' \in Nat
       /\ covered' \subseteq 1..Len(log') /\ slipped' \subseteq 1..Len(log')
  BY <1>1 DEF LoopTypeOK, historyVars
<1>14. \A n \in Len(log) + 1..Len(log') : log'[n].kind = "held" => log'[n].task \in Tasks
  BY <1>1, Naturals
<1>. QED
  BY <1>1, <1>2, <1>11, <1>12, <1>13, <1>14, TypesKept

LEMMA NothingTodo ==
  /\ NoTodo \in [release : SUBSET Tasks, review : Reviews \cup {"none"}, wake : SUBSET Keys]
  /\ NoTodo.review = "none"
BY DEF NoTodo

LEMMA CrashTypes == LoopTypeOK /\ Crash => LoopTypeOK'
<1>. SUFFICES ASSUME LoopTypeOK, Crash
              PROVE  LoopTypeOK'
  OBVIOUS
<1>1. /\ UNCHANGED <<reviewHead, log, saved, historyVars, faults>> /\ crashes' = crashes + 1
      /\ pc' = "read" /\ state' = saved /\ snap' = NoSnap /\ todo' = NoTodo /\ wakes' = {}
  BY DEF Crash
<1>2. Grows /\ log' \in Seq(Message) /\ Len(log') <= MaxId
  BY <1>1, SameGrows
<1>3. StateOK(saved)' /\ StateOK(state)'
  BY <1>1, <1>2, StatesKept
<1>4. /\ snap' \in [ledger : 0..Len(log'), held : SUBSET (1..Len(log')),
                    gotLedger : BOOLEAN, gotHeld : BOOLEAN]
      /\ \A n \in snap'.held : log'[n].kind = "held"
  BY <1>1, <1>2, SnapKept
<1>5. crashes' \in Nat
  BY <1>1 DEF LoopTypeOK
<1>. QED
  BY <1>1, <1>3, <1>4, <1>5, NothingTodo DEF LoopTypeOK, historyVars

LEMMA ReadTypes == LoopTypeOK /\ (ReadLedger \/ ReadHeld) => LoopTypeOK'
<1>. SUFFICES ASSUME LoopTypeOK, ReadLedger \/ ReadHeld
              PROVE  LoopTypeOK'
  OBVIOUS
<1>1. /\ UNCHANGED <<reviewHead, log, saved, pc, state, todo, wakes, historyVars, crashes, faults>>
      /\ snap' \in [ledger : 0..Len(log), held : SUBSET (1..Len(log)),
                    gotLedger : BOOLEAN, gotHeld : BOOLEAN]
      /\ \A n \in snap'.held : log[n].kind = "held"
  <2>1. CASE ReadLedger
    <3>1. /\ snap' = [snap EXCEPT !.ledger = Len(log), !.gotLedger = TRUE]
          /\ Len(log) \in 0..Len(log)
      BY <2>1, Naturals DEF ReadLedger
    <3>. QED
      BY <2>1, <3>1 DEF ReadLedger, LoopTypeOK
  <2>2. CASE ReadHeld
    <3>. DEFINE new == {n \in state.heldSeen + 1..Len(log) : log[n].kind = "held"}
    <3>1. snap' = [snap EXCEPT !.gotHeld = TRUE, !.held = new]
      BY <2>2 DEF ReadHeld
    <3>2. new \in SUBSET (1..Len(log)) /\ \A n \in new : log[n].kind = "held"
      BY Naturals
    <3>3. UNCHANGED <<reviewHead, log, saved, pc, state, todo, wakes, historyVars, crashes, faults>>
      BY <2>2 DEF ReadHeld
    <3>4. snap \in [ledger : 0..Len(log), held : SUBSET (1..Len(log)),
                    gotLedger : BOOLEAN, gotHeld : BOOLEAN]
      BY DEF LoopTypeOK
    <3>. HIDE DEF new
    <3>5. /\ snap' \in [ledger : 0..Len(log), held : SUBSET (1..Len(log)),
                        gotLedger : BOOLEAN, gotHeld : BOOLEAN]
          /\ snap'.held = new
      BY <3>1, <3>2, <3>4
    <3>. QED
      BY <3>2, <3>3, <3>5
  <2>. QED
    BY <2>1, <2>2
<1>2. Grows
  BY <1>1, SameGrows
<1>3. StateOK(saved)' /\ StateOK(state)'
  BY <1>1, <1>2, StatesKept
<1>. QED
  BY <1>1, <1>3 DEF LoopTypeOK, historyVars

(* What the plan keeps of a task is a held-task of it. *)
LEMMA HeldIs ==
  ASSUME LoopTypeOK, NEW t \in Tasks, NEW known \in BOOLEAN
  PROVE  /\ Held(t, known) \in 0..Len(log)
         /\ Held(t, known) # 0 => /\ log[Held(t, known)].kind = "held"
                                  /\ log[Held(t, known)].task = t
<1>. DEFINE fresh == {n \in snap.held : log[n].task = t /\ t \notin state.released}
<1>1. Queue(t) = IF fresh # {} THEN Highest(fresh) ELSE state.held[t]
  BY DEF Queue
<1>2. CASE fresh # {}
  <2>1. fresh \in SUBSET (0..Len(log)) /\ Len(log) \in Nat
    BY Naturals
  <2>2. Highest(fresh) \in fresh
    <3>. HIDE DEF fresh
    <3>. QED
      BY <1>2, <2>1, HighestIn
  <2>3. Queue(t) \in snap.held /\ log[Queue(t)].task = t
    BY <1>1, <1>2, <2>2
  <2>4. Queue(t) \in 0..Len(log) /\ log[Queue(t)].kind = "held"
    BY <2>3, Naturals DEF LoopTypeOK
  <2>. QED
    BY <2>3, <2>4, Naturals DEF Held
<1>3. CASE fresh = {}
  <2>1. Queue(t) = state.held[t] /\ state.held[t] \in Nat
    BY <1>1, <1>3, Naturals DEF State
  <2>2. state.held[t] # 0 => /\ state.held[t] <= Len(log)
                             /\ log[state.held[t]].kind = "held" /\ log[state.held[t]].task = t
    BY DEF LoopTypeOK, StateOK
  <2>3. state.held[t] \in 0..Len(log)
    BY <2>1, <2>2, Naturals
  <2>. HIDE DEF fresh
  <2>. QED
    BY <2>1, <2>2, <2>3, Naturals DEF Held
<1>. QED
  BY <1>2, <1>3

(* The marker moves up, to dispatches of reviews. *)
LEMMA MarkerIs ==
  ASSUME LoopTypeOK
  PROVE  /\ NewMarker(state) \in 0..Len(log) /\ state.marker <= NewMarker(state)
         /\ NewMarker(state) = state.marker
              \/ \E r \in Reviews : NewMarker(state) = DispatchId(snap.ledger, r, state)
         /\ \A r \in Reviews : DispatchId(snap.ledger, r, state) <= NewMarker(state)
         /\ NewMarker(state) # 0 => /\ log[NewMarker(state)].kind = "task"
                                    /\ log[NewMarker(state)].task = NewLast(state)
                                    /\ NewLast(state) \in Reviews
         /\ NewLast(state) \in Reviews \cup {"none"}
<1>. DEFINE D == {DispatchId(snap.ledger, r, state) : r \in Reviews}
            M == NewMarker(state)
<1>1. state.marker \in Nat /\ state.marker \in 0..Len(log) /\ snap.ledger \in 0..Len(log)
      /\ Len(log) \in Nat /\ snap.ledger \in Nat
  BY Naturals
<1>2. \A r \in Reviews : DispatchId(snap.ledger, r, state) \in 0..Len(log)
  <2>. TAKE r \in Reviews
  <2>1. CASE DispatchId(snap.ledger, r, state) = 0
    BY <1>1, <2>1
  <2>2. CASE DispatchId(snap.ledger, r, state) # 0
    <3>1. DispatchId(snap.ledger, r, state) \in 1..snap.ledger
      BY <1>1, <2>2, DispatchIn
    <3>. QED
      BY <1>1, <3>1
  <2>. QED
    BY <2>1, <2>2
<1>3. D \in SUBSET (0..Len(log))
  BY <1>2
<1>4. M = Highest({state.marker} \cup D)
  BY DEF NewMarker
<1>5. /\ M \in 0..Len(log) /\ state.marker <= M /\ \A n \in D : n <= M
      /\ M = state.marker \/ M \in D
  <2>. HIDE DEF D, M
  <2>1. {state.marker} \cup D \in SUBSET (0..Len(log)) /\ {state.marker} \cup D # {}
    BY <1>1, <1>3
  <2>. DEFINE S == {state.marker} \cup D
  <2>2. M \in 0..Len(log) /\ M \in S /\ \A k \in S : k <= M
    <3>. HIDE DEF S
    <3>1. M = Highest(S) /\ S \in SUBSET (0..Len(log)) /\ S # {}
      BY <1>4, <2>1 DEF S
    <3>. QED
      BY <1>1, <3>1, HighestIn
  <2>. QED
    BY <2>2
<1>6. M > state.marker => M # 0 /\ \E r \in Reviews : log[M].kind = "task" /\ log[M].task = r
  <2>. SUFFICES ASSUME M > state.marker
                PROVE  M # 0 /\ \E r \in Reviews : log[M].kind = "task" /\ log[M].task = r
    OBVIOUS
  <2>1. M # 0 /\ M \in D
    BY <1>1, <1>5
  <2>2. PICK r \in Reviews : M = DispatchId(snap.ledger, r, state)
    BY <2>1
  <2>3. log[M].kind = "task" /\ log[M].task = r
    <3>. HIDE DEF M
    <3>. QED
      BY <1>1, <2>1, <2>2, DispatchIn
  <2>. QED
    BY <2>1, <2>3
<1>7. NewLast(state) = IF M > state.marker THEN log[M].task ELSE state.last
  BY DEF NewLast
<1>8. /\ state.last \in Reviews \cup {"none"}
      /\ state.marker # 0 => /\ log[state.marker].kind = "task" /\ log[state.marker].task = state.last
                             /\ state.last \in Reviews
  BY DEF LoopTypeOK, StateOK, State
<1>9. /\ NewLast(state) \in Reviews \cup {"none"}
      /\ M # 0 => log[M].kind = "task" /\ log[M].task = NewLast(state) /\ NewLast(state) \in Reviews
  <2>. HIDE DEF M
  <2>1. CASE M > state.marker
    BY <1>6, <1>7, <2>1
  <2>2. CASE ~(M > state.marker)
    <3>1. M = state.marker
      BY <1>1, <1>5, <2>2
    <3>. QED
      BY <1>7, <1>8, <2>2, <3>1
  <2>. QED
    BY <2>1, <2>2
<1>. QED
  BY <1>5, <1>9

(* The wakes of a plan are about messages. *)
LEMMA WakesIn ==
  ASSUME LoopTypeOK, NEW known \in BOOLEAN
  PROVE  Refused(known) \cup ResultWakes \cup ReadyWakes(known) \subseteq Keys
<1>. DEFINE kinds == {"result", "held-refused", "release-failed", "review-failed", "ready-for-review"}
<1>1. Keys = kinds \X (0..MaxId) /\ Len(log) \in 0..MaxId /\ 0..Len(log) \subseteq 0..MaxId
  BY Naturals DEF Keys
<1>2. Refused(known) \subseteq Keys
  <2>1. \A n \in snap.held : n \in 0..MaxId
    BY <1>1, Naturals
  <2>2. \A t \in Tasks : state.held[t] \in 0..MaxId
    <3>. TAKE t \in Tasks
    <3>1. state.held[t] \in Nat /\ (state.held[t] # 0 => state.held[t] <= Len(log))
      BY Naturals DEF LoopTypeOK, StateOK, State
    <3>. QED
      BY <1>1, <3>1, Naturals
  <2>3. \A n \in 0..MaxId : <<"held-refused", n>> \in Keys
    BY <1>1
  <2>. QED
    BY <2>1, <2>2, <2>3 DEF Refused
<1>3. ResultWakes \subseteq Keys
  <2>1. \A t \in Tasks \cup Reviews : ResultId(snap.ledger, t) \in 0..MaxId
    <3>. TAKE t \in Tasks \cup Reviews
    <3>. DEFINE S == Results(snap.ledger, t)
    <3>1. S \in SUBSET (0..Len(log)) /\ Len(log) \in Nat /\ ResultId(snap.ledger, t) = Highest(S)
      BY Naturals DEF Results, ResultId
    <3>. HIDE DEF S
    <3>2. Highest(S) \in 0..Len(log)
      BY <3>1, HighestIn
    <3>. QED
      BY <1>1, <3>1, <3>2
  <2>2. \A n \in 0..MaxId : <<"result", n>> \in Keys
    BY <1>1
  <2>. QED
    BY <2>1, <2>2 DEF ResultWakes
<1>4. ReadyWakes(known) \subseteq Keys
  <2>. DEFINE D == {DispatchId(snap.ledger, t, state) : t \in Sprint(state)}
  <2>1. Highest(D) \in 0..MaxId
    <3>1. \A t \in Sprint(state) : DispatchId(snap.ledger, t, state) \in 0..Len(log)
      <4>. TAKE t \in Sprint(state)
      <4>1. state.marker \in Nat /\ snap.ledger \in 0..Len(log) /\ Len(log) \in Nat
        BY Naturals
      <4>2. CASE DispatchId(snap.ledger, t, state) = 0
        BY <4>1, <4>2
      <4>3. CASE DispatchId(snap.ledger, t, state) # 0
        <5>1. DispatchId(snap.ledger, t, state) \in 1..snap.ledger
          BY <4>1, <4>3, DispatchIn
        <5>. QED
          BY <4>1, <5>1
      <4>. QED
        BY <4>2, <4>3
    <3>2. D \in SUBSET (0..Len(log)) /\ Len(log) \in Nat
      BY <3>1, Naturals
    <3>. HIDE DEF D
    <3>3. Highest(D) \in 0..Len(log)
      BY <3>2, HighestIn
    <3>. QED
      BY <1>1, <3>3
  <2>2. <<"ready-for-review", Highest(D)>> \in Keys
    <3>. HIDE DEF D
    <3>. QED
      BY <1>1, <2>1
  <2>3. ReadyWakes(known) \subseteq {<<"ready-for-review", Highest(D)>>}
    BY DEF ReadyWakes
  <2>. QED
    BY <2>2, <2>3
<1>. QED
  BY <1>2, <1>3, <1>4

LEMMA PlanTypes ==
  ASSUME LoopTypeOK, NEW known \in BOOLEAN, Plan(known)
  PROVE  LoopTypeOK'
<1>. DEFINE queue == [t \in Tasks |-> Held(t, known)]
            seen == Highest({state.heldSeen} \cup snap.held)
            owed == (Refused(known) \cup ResultWakes \cup ReadyWakes(known)) \ state.surfaced
<1>1. /\ UNCHANGED <<reviewHead, log, saved, wakes, historyVars, crashes>>
      /\ faults' = IF known THEN faults ELSE faults + 1
      /\ state' = [state EXCEPT !.held = queue, !.marker = NewMarker(state),
                                !.last = NewLast(state), !.heldSeen = seen]
      /\ snap' = IF todo'.review = "none" THEN NoSnap ELSE snap
      /\ pc' = "apply"
  BY DEF Plan
<1>2. PICK r \in IF SprintDone(state, known) /\ reviewHead /\ FreeReviews # {}
                 THEN FreeReviews ELSE {"none"} :
        todo' = [release |-> Releases(known), review |-> r, wake |-> owed]
  BY DEF Plan
<1>3. Grows /\ log' \in Seq(Message) /\ Len(log') <= MaxId
  BY <1>1, SameGrows
<1>4. queue \in [Tasks -> Nat] /\ \A t \in Tasks : queue[t] # 0 =>
         queue[t] <= Len(log) /\ log[queue[t]].kind = "held" /\ log[queue[t]].task = t
  <2>1. \A t \in Tasks : Held(t, known) \in Nat /\ Held(t, known) <= Len(log)
    BY HeldIs, Naturals
  <2>. QED
    BY <2>1, HeldIs
<1>5. seen \in 0..Len(log)
  <2>1. {state.heldSeen} \cup snap.held \in SUBSET (0..Len(log)) /\ Len(log) \in Nat
    BY Naturals
  <2>. QED
    BY <2>1, HighestIn
<1>6. /\ NewMarker(state) \in 0..Len(log) /\ state.marker <= NewMarker(state)
      /\ NewMarker(state) # 0 => /\ log[NewMarker(state)].kind = "task"
                                 /\ log[NewMarker(state)].task = NewLast(state)
                                 /\ NewLast(state) \in Reviews
      /\ NewLast(state) \in Reviews \cup {"none"}
  BY MarkerIs
<1>7. owed \subseteq Keys
  BY WakesIn
<1>8. /\ todo' \in [release : SUBSET Tasks, review : Reviews \cup {"none"}, wake : SUBSET Keys]
      /\ todo'.review # "none" => reviewHead
  <2>1. Releases(known) \subseteq Tasks /\ r \in Reviews \cup {"none"} /\ (r # "none" => reviewHead)
    BY <1>2 DEF Releases, FreeReviews
  <2>. HIDE DEF owed
  <2>. QED
    BY <1>2, <1>7, <2>1
<1>. HIDE DEF queue, seen, owed
<1>9. /\ state' \in State
      /\ state'.held = queue /\ state'.marker = NewMarker(state) /\ state'.last = NewLast(state)
      /\ state'.heldSeen = seen /\ state'.baseline = state.baseline /\ state'.reviews = state.reviews
  <2>1. state \in State /\ seen \in Nat /\ NewMarker(state) \in Nat
    BY <1>5, <1>6, Naturals
  <2>. QED
    BY <1>1, <1>4, <1>6, <2>1 DEF State
<1>10. StateOK(state)'
  <2>1. /\ IsFiniteSet(state.reviews) /\ Cardinality(state.reviews) <= state.marker
        /\ state.baseline \in 0..Len(log)
    BY DEF LoopTypeOK, StateOK
  <2>2. Cardinality(state.reviews) <= NewMarker(state)
    BY <1>6, <2>1, FS_CardinalityType, Naturals
  <2>3. {state'.marker, state'.baseline, state'.heldSeen} \subseteq 0..Len(log)
    BY <1>5, <1>6, <1>9, <2>1
  <2>. QED
    BY <1>1, <1>4, <1>6, <1>9, <2>1, <2>2, <2>3 DEF StateOK
<1>11. StateOK(saved)'
  BY <1>1, <1>3, StatesKept
<1>12. /\ snap' \in [ledger : 0..Len(log'), held : SUBSET (1..Len(log')),
                     gotLedger : BOOLEAN, gotHeld : BOOLEAN]
       /\ \A n \in snap'.held : log'[n].kind = "held"
  <2>1. snap' \in {snap, NoSnap}
    BY <1>1
  <2>. QED
    BY <1>3, <2>1, SnapKept
<1>13. faults' \in Nat
  BY <1>1 DEF LoopTypeOK
<1>. QED
  BY <1>1, <1>8, <1>10, <1>11, <1>12, <1>13 DEF LoopTypeOK, historyVars

(* How a request ends. *)
LEMMA RequestTypes ==
  ASSUME LoopTypeOK, NEW o \in {"ok", "rejected", "unanswered"}, NEW t \in Tasks \cup Reviews,
         Outcome(o), IF o = "rejected" THEN UNCHANGED log ELSE Post("task", t, "loop")
  PROVE  /\ Grows /\ log' \in Seq(Message) /\ Len(log') <= MaxId /\ faults' \in Nat
         /\ o = "ok" => /\ Len(log') = Len(log) + 1
                        /\ log'[Len(log) + 1] = [kind |-> "task", task |-> t, by |-> "loop"]
         /\ \A n \in Len(log) + 1..Len(log') : n = Len(log) + 1
              /\ log'[n] = [kind |-> "task", task |-> t, by |-> "loop"]
<1>1. faults' \in Nat
  BY DEF LoopTypeOK, Outcome
<1>2. Len(log) \in Nat
  BY Naturals
<1>3. CASE o = "rejected"
  <2>1. UNCHANGED log
    BY <1>3
  <2>2. Grows /\ log' \in Seq(Message) /\ Len(log') <= MaxId
    BY <2>1, SameGrows
  <2>3. \A n \in Len(log) + 1..Len(log') : FALSE
    BY <1>2, <2>1
  <2>. QED
    BY <1>1, <1>3, <2>2, <2>3
<1>4. CASE o # "rejected"
  <2>1. Post("task", t, "loop")
    BY <1>4
  <2>2. /\ Grows /\ log' \in Seq(Message) /\ Len(log') <= MaxId /\ Len(log') = Len(log) + 1
        /\ log'[Len(log) + 1] = [kind |-> "task", task |-> t, by |-> "loop"]
    BY <2>1, PostGrows
  <2>3. \A n \in Len(log) + 1..Len(log') : n = Len(log) + 1
    BY <1>2, <2>2
  <2>. QED
    BY <1>1, <2>2, <2>3
<1>. QED
  BY <1>3, <1>4

LEMMA ReleaseTypes ==
  ASSUME LoopTypeOK, NEW t \in Tasks, NEW o \in {"ok", "rejected", "unanswered"}, Release(t, o)
  PROVE  LoopTypeOK'
<1>. DEFINE key == <<"release-failed", state.held[t]>>
<1>1. /\ UNCHANGED <<reviewHead, saved, pc, snap, wakes, historyVars, crashes>> /\ Outcome(o)
      /\ IF o = "rejected" THEN UNCHANGED log ELSE Post("task", t, "loop")
      /\ t \in todo.release
  BY DEF Release
<1>2. /\ Grows /\ log' \in Seq(Message) /\ Len(log') <= MaxId /\ faults' \in Nat
      /\ \A n \in Len(log) + 1..Len(log') :
           log'[n] = [kind |-> "task", task |-> t, by |-> "loop"]
  BY <1>1, RequestTypes
<1>3. \A n \in Len(log) + 1..Len(log') : log'[n].kind = "held" => log'[n].task \in Tasks
  BY <1>2
<1>4. key \in Keys
  <2>1. state.held[t] \in Nat /\ (state.held[t] # 0 => state.held[t] <= Len(log))
    BY Naturals DEF LoopTypeOK, StateOK, State
  <2>. QED
    BY <2>1, Naturals DEF Keys
<1>5. /\ todo' \in [release : SUBSET Tasks, review : Reviews \cup {"none"}, wake : SUBSET Keys]
      /\ todo'.review # "none" => reviewHead
  <2>1. /\ todo \in [release : SUBSET Tasks, review : Reviews \cup {"none"}, wake : SUBSET Keys]
        /\ todo.review # "none" => reviewHead
    BY DEF LoopTypeOK
  <2>2. IF o = "ok" THEN todo' = [todo EXCEPT !.release = @ \ {t}]
        ELSE todo' = [todo EXCEPT !.release = @ \ {t}, !.wake = @ \cup ({key} \ state.surfaced)]
    BY DEF Release
  <2>. HIDE DEF key
  <2>3. CASE o = "ok"
    BY <2>1, <2>2, <2>3
  <2>4. CASE o # "ok"
    <3>. DEFINE w == todo.wake \cup ({key} \ state.surfaced)
                rest == todo.release \ {t}
    <3>1. w \in SUBSET Keys /\ rest \in SUBSET Tasks
      BY <1>4, <2>1
    <3>2. todo' = [todo EXCEPT !.release = rest, !.wake = w]
      BY <2>2, <2>4
    <3>. HIDE DEF w, rest
    <3>. QED
      BY <2>1, <3>1, <3>2
  <2>. QED
    BY <2>3, <2>4
<1>6. StateOK(saved)' /\ StateOK(state)'
  <2>1. StateOK(saved)' /\ (state' = state => StateOK(state)')
    BY <1>1, <1>2, StatesKept
  <2>2. CASE o # "ok"
    BY <2>1, <2>2 DEF Release
  <2>3. CASE o = "ok"
    <3>1. state' = [state EXCEPT !.released = @ \cup {t}, !.held[t] = 0] /\ state \in State
      BY <2>3, Naturals DEF Release
    <3>2. /\ state' \in State /\ state'.marker = state.marker /\ state'.last = state.last
          /\ state'.baseline = state.baseline /\ state'.heldSeen = state.heldSeen
          /\ state'.reviews = state.reviews /\ \A u \in Tasks : state'.held[u] \in {0, state.held[u]}
      BY <3>1 DEF State
    <3>3. /\ {state.marker, state.baseline, state.heldSeen} \subseteq 0..Len(log)
          /\ state.marker # 0 => /\ log[state.marker].kind = "task"
                                 /\ log[state.marker].task = state.last /\ state.last \in Reviews
          /\ \A u \in Tasks : state.held[u] # 0 => /\ state.held[u] \in 1..Len(log)
                                /\ log[state.held[u]].kind = "held" /\ log[state.held[u]].task = u
          /\ IsFiniteSet(state.reviews) /\ Cardinality(state.reviews) <= state.marker
      <4>1. StateOK(state)
        BY DEF LoopTypeOK
      <4>2. \A u \in Tasks : state.held[u] \in Nat
        BY <3>1 DEF State
      <4>. QED
        BY <4>1, <4>2, Naturals DEF StateOK
    <3>4. {state'.marker, state'.baseline, state'.heldSeen} \subseteq 0..Len(log')
      BY <1>2, <3>2, <3>3 DEF Grows
    <3>5. state'.marker # 0 => /\ log'[state'.marker].kind = "task"
                               /\ log'[state'.marker].task = state'.last /\ state'.last \in Reviews
      <4>1. state.marker # 0 => state.marker \in 1..Len(log)
        BY Naturals
      <4>. QED
        BY <1>2, <3>2, <3>3, <4>1 DEF Grows
    <3>6. \A u \in Tasks : state'.held[u] # 0 => /\ state'.held[u] <= Len(log')
                /\ log'[state'.held[u]].kind = "held" /\ log'[state'.held[u]].task = u
      <4>. SUFFICES ASSUME NEW u \in Tasks, state'.held[u] # 0
                    PROVE  /\ state'.held[u] <= Len(log')
                           /\ log'[state'.held[u]].kind = "held" /\ log'[state'.held[u]].task = u
        OBVIOUS
      <4>1. state'.held[u] = state.held[u]
        BY <3>2
      <4>2. /\ state.held[u] \in 1..Len(log)
            /\ log[state.held[u]].kind = "held" /\ log[state.held[u]].task = u
        BY <3>3, <4>1
      <4>3. log'[state.held[u]] = log[state.held[u]] /\ state.held[u] <= Len(log')
        BY <1>2, <4>2 DEF Grows
      <4>. QED
        BY <4>1, <4>2, <4>3
    <3>. QED
      BY <2>1, <3>2, <3>3, <3>4, <3>5, <3>6 DEF StateOK
  <2>. QED
    BY <2>2, <2>3
<1>7. /\ snap' \in [ledger : 0..Len(log'), held : SUBSET (1..Len(log')),
                    gotLedger : BOOLEAN, gotHeld : BOOLEAN]
      /\ \A n \in snap'.held : log'[n].kind = "held"
  BY <1>1, <1>2, SnapKept
<1>8. covered' \subseteq 1..Len(log') /\ slipped' \subseteq 1..Len(log')
  BY <1>1, <1>2 DEF LoopTypeOK, historyVars, Grows
<1>9. /\ pc' \in {"new", "read", "apply", "print"} /\ wakes' \subseteq Keys /\ told' \subseteq Keys
  BY <1>1 DEF LoopTypeOK, historyVars
<1>. QED
  BY <1>1, <1>2, <1>3, <1>5, <1>6, <1>7, <1>8, <1>9, TypesKept

LEMMA ReviewTypes ==
  ASSUME LoopTypeOK, NEW o \in {"ok", "rejected", "unanswered"}, Review(o)
  PROVE  LoopTypeOK'
<1>. DEFINE r == todo.review
            key == <<"review-failed", Cardinality(state.reviews)>>
<1>1. /\ UNCHANGED <<reviewHead, saved, pc, wakes, told, crashes>> /\ Outcome(o)
      /\ IF o = "rejected" THEN UNCHANGED log ELSE Post("task", r, "loop")
      /\ snap' = NoSnap /\ r # "none"
  BY DEF Review
<1>2. r \in Reviews /\ reviewHead
  BY <1>1 DEF LoopTypeOK
<1>3. /\ Grows /\ log' \in Seq(Message) /\ Len(log') <= MaxId /\ faults' \in Nat
      /\ o = "ok" => /\ Len(log') = Len(log) + 1
                     /\ log'[Len(log) + 1] = [kind |-> "task", task |-> r, by |-> "loop"]
      /\ \A n \in Len(log) + 1..Len(log') :
           log'[n] = [kind |-> "task", task |-> r, by |-> "loop"]
  BY <1>1, <1>2, RequestTypes
<1>4. \A n \in Len(log) + 1..Len(log') : log'[n].kind = "held" => log'[n].task \in Tasks
  BY <1>3
<1>5. /\ state \in State /\ Len(log) \in Nat /\ state.marker \in 0..Len(log)
      /\ IsFiniteSet(state.reviews) /\ Cardinality(state.reviews) <= state.marker
      /\ Cardinality(state.reviews) \in Nat
  <2>1. IsFiniteSet(state.reviews) /\ Cardinality(state.reviews) <= state.marker
    BY DEF LoopTypeOK, StateOK
  <2>. QED
    BY <2>1, FS_CardinalityType, Naturals
<1>6. key \in Keys
  BY <1>5, Naturals DEF Keys
<1>7. /\ todo' \in [release : SUBSET Tasks, review : Reviews \cup {"none"}, wake : SUBSET Keys]
      /\ todo'.review # "none" => reviewHead
  <2>1. /\ todo \in [release : SUBSET Tasks, review : Reviews \cup {"none"}, wake : SUBSET Keys]
        /\ todo.review # "none" => reviewHead
    BY DEF LoopTypeOK
  <2>. DEFINE w == todo.wake \cup ({key} \ state.surfaced)
  <2>2. IF o = "ok" THEN todo' = [todo EXCEPT !.review = "none"]
        ELSE todo' = [todo EXCEPT !.review = "none", !.wake = w]
    BY DEF Review
  <2>3. w \in SUBSET Keys
    BY <1>6, <2>1
  <2>. HIDE DEF w
  <2>. QED
    BY <2>1, <2>2, <2>3
<1>8. StateOK(saved)' /\ StateOK(state)'
  <2>1. StateOK(saved)' /\ (state' = state => StateOK(state)')
    BY <1>1, <1>3, StatesKept
  <2>2. CASE o # "ok"
    BY <2>1, <2>2 DEF Review
  <2>3. CASE o = "ok"
    <3>. DEFINE grown == state.reviews \cup {r}
    <3>1. state' = [state EXCEPT !.marker = Len(log'), !.last = r, !.reviews = grown]
      BY <2>3 DEF Review
    <3>2. IsFiniteSet(grown) /\ Cardinality(grown) <= Cardinality(state.reviews) + 1
          /\ grown \in SUBSET Reviews
      <4>1. IsFiniteSet(grown) /\ Cardinality(grown) = IF r \in state.reviews
                THEN Cardinality(state.reviews) ELSE Cardinality(state.reviews) + 1
        BY <1>5, FS_AddElement
      <4>2. grown \in SUBSET Reviews
        BY <1>2, <1>5 DEF State
      <4>. HIDE DEF grown
      <4>. QED
        BY <1>5, <4>1, <4>2
    <3>3. Len(log') = Len(log) + 1 /\ Len(log') \in Nat /\ Len(log') # 0
          /\ log'[Len(log')].kind = "task" /\ log'[Len(log')].task = r
      BY <1>3, <1>5, <2>3
    <3>. HIDE DEF grown
    <3>4. /\ state' \in State /\ state'.marker = Len(log') /\ state'.last = r
          /\ state'.baseline = state.baseline /\ state'.heldSeen = state.heldSeen
          /\ state'.reviews = grown /\ state'.held = state.held
      BY <1>2, <1>5, <3>1, <3>2, <3>3 DEF State
    <3>5. /\ {state.baseline, state.heldSeen} \subseteq 0..Len(log)
          /\ \A u \in Tasks : state.held[u] # 0 => /\ state.held[u] \in 1..Len(log)
                                /\ log[state.held[u]].kind = "held" /\ log[state.held[u]].task = u
      <4>1. StateOK(state)
        BY DEF LoopTypeOK
      <4>2. \A u \in Tasks : state.held[u] \in Nat
        BY <1>5 DEF State
      <4>. QED
        BY <4>1, <4>2, <1>5 DEF StateOK
    <3>6. {state'.marker, state'.baseline, state'.heldSeen} \subseteq 0..Len(log')
      BY <1>5, <3>3, <3>4, <3>5
    <3>7. Cardinality(grown) <= Len(log')
      BY <1>5, <3>2, <3>3, FS_CardinalityType
    <3>8. \A u \in Tasks : state'.held[u] # 0 => /\ state'.held[u] <= Len(log')
                /\ log'[state'.held[u]].kind = "held" /\ log'[state'.held[u]].task = u
      BY <1>3, <3>4, <3>5 DEF Grows
    <3>. QED
      BY <1>2, <2>1, <3>2, <3>3, <3>4, <3>6, <3>7, <3>8 DEF StateOK
  <2>. QED
    BY <2>2, <2>3
<1>9. /\ snap' \in [ledger : 0..Len(log'), held : SUBSET (1..Len(log')),
                    gotLedger : BOOLEAN, gotHeld : BOOLEAN]
      /\ \A n \in snap'.held : log'[n].kind = "held"
  BY <1>1, <1>3, SnapKept
<1>10. covered' \subseteq 1..Len(log') /\ slipped' \subseteq 1..Len(log')
  <2>1. /\ covered \cup slipped \subseteq 1..Len(log) /\ snap.ledger \in 0..Len(log)
        /\ state.marker \in 0..Len(log) /\ Len(log) \in Nat
    BY Naturals DEF LoopTypeOK
  <2>2. /\ covered' \subseteq covered \cup 1..snap.ledger
        /\ slipped' \subseteq slipped \cup (snap.ledger + 1..Len(log)) \cup Again
    BY DEF Review
  <2>3. Again \subseteq 1..Len(log)
    BY <2>1 DEF Again
  <2>4. 1..Len(log) \subseteq 1..Len(log')
    BY <1>3 DEF Grows
  <2>5. 1..snap.ledger \subseteq 1..Len(log) /\ snap.ledger + 1..Len(log) \subseteq 1..Len(log)
    BY <2>1
  <2>6. covered \subseteq 1..Len(log) /\ slipped \subseteq 1..Len(log)
    BY <2>1
  <2>. QED
    BY <2>2, <2>3, <2>4, <2>5, <2>6
<1>11. /\ pc' \in {"new", "read", "apply", "print"} /\ wakes' \subseteq Keys /\ told' \subseteq Keys
  BY <1>1 DEF LoopTypeOK
<1>. QED
  BY <1>1, <1>3, <1>4, <1>7, <1>8, <1>9, <1>10, <1>11, TypesKept

LEMMA WakeTypes ==
  ASSUME LoopTypeOK, NEW key \in todo.wake, NEW posted \in BOOLEAN, Wake(key, posted)
  PROVE  LoopTypeOK'
<1>1. /\ UNCHANGED <<reviewHead, log, saved, pc, snap, covered, slipped, crashes>>
      /\ state' = [state EXCEPT !.surfaced = @ \cup {key}] /\ wakes' = wakes \cup {key}
      /\ told' \subseteq told \cup {key} /\ todo' = [todo EXCEPT !.wake = @ \ {key}]
  BY DEF Wake, Surface
<1>2. faults' \in Nat
  BY DEF Wake, Outcome, LoopTypeOK
<1>3. key \in Keys /\ state \in State
  BY Naturals DEF LoopTypeOK
<1>4. Grows /\ log' \in Seq(Message) /\ Len(log') <= MaxId
  BY <1>1, SameGrows
<1>5. /\ state' \in State /\ state'.marker = state.marker /\ state'.last = state.last
      /\ state'.baseline = state.baseline /\ state'.heldSeen = state.heldSeen
      /\ state'.reviews = state.reviews /\ state'.held = state.held
  BY <1>1, <1>3 DEF State
<1>6. StateOK(saved)' /\ StateOK(state)'
  <2>1. StateOK(saved)'
    BY <1>1, <1>4, StatesKept
  <2>. QED
    BY <1>1, <1>5, <2>1 DEF LoopTypeOK, StateOK
<1>7. todo' \in [release : SUBSET Tasks, review : Reviews \cup {"none"}, wake : SUBSET Keys]
      /\ todo'.review = todo.review
  BY <1>1 DEF LoopTypeOK
<1>. QED
  BY <1>1, <1>2, <1>3, <1>6, <1>7 DEF LoopTypeOK

LEMMA SaveTypes == LoopTypeOK /\ (Save \/ PrintWakes) => LoopTypeOK'
<1>. SUFFICES ASSUME LoopTypeOK, Save \/ PrintWakes
              PROVE  LoopTypeOK'
  OBVIOUS
<1>1. /\ UNCHANGED <<reviewHead, log, state, todo, covered, slipped, crashes, faults>>
      /\ saved' \in {saved, state} /\ pc' \in {"read", "print"} /\ snap' \in {snap, NoSnap}
      /\ wakes' \subseteq wakes /\ told' \subseteq told \cup wakes
  BY DEF Save, PrintWakes, historyVars
<1>2. Grows
  BY <1>1, SameGrows
<1>3. StateOK(saved)' /\ StateOK(state)'
  BY <1>1, <1>2, StatesKept
<1>4. /\ snap' \in [ledger : 0..Len(log'), held : SUBSET (1..Len(log')),
                    gotLedger : BOOLEAN, gotHeld : BOOLEAN]
      /\ \A n \in snap'.held : log'[n].kind = "held"
  BY <1>1, <1>2, SnapKept
<1>. QED
  BY <1>1, <1>3, <1>4 DEF LoopTypeOK

LEMMA InitTypes == Init => LoopTypeOK
<1>. SUFFICES ASSUME Init
              PROVE  LoopTypeOK
  OBVIOUS
<1>1. log = <<>> /\ saved = Blank /\ state = Blank /\ snap = NoSnap /\ todo = NoTodo
  BY DEF Init
<1>2. Len(log) = 0 /\ log \in Seq(Message) /\ MaxId \in Nat
  BY <1>1, BoundsAssumption
<1>3. /\ Blank \in State /\ Blank.marker = 0 /\ Blank.baseline = 0 /\ Blank.heldSeen = 0
      /\ Blank.reviews = {} /\ \A t \in Tasks : Blank.held[t] = 0
  BY DEF Blank, State
<1>4. StateOK(Blank)
  BY <1>2, <1>3, FS_EmptySet DEF StateOK
<1>5. /\ snap \in [ledger : 0..Len(log), held : SUBSET (1..Len(log)),
                   gotLedger : BOOLEAN, gotHeld : BOOLEAN]
      /\ snap.held = {}
  BY <1>1, <1>2 DEF NoSnap
<1>. QED
  BY <1>1, <1>2, <1>4, <1>5, NothingTodo DEF Init, LoopTypeOK

----------------------------------------------------------------------------
(* What an orchestrator or a worker does is one message. *)
LEMMA EnvironmentIs ==
  ASSUME LoopTypeOK, Environment
  PROVE  /\ Grows /\ log' \in Seq(Message) /\ Len(log') <= MaxId /\ Len(log') = Len(log) + 1
         /\ UNCHANGED <<loopVars, told, slipped, crashes, faults>>
         /\ log'[Len(log) + 1].kind = "task" => log'[Len(log) + 1].by = "orch"
         /\ covered \subseteq covered'
         /\ log'[Len(log) + 1].kind = "task" /\ log'[Len(log) + 1].task \in Reviews =>
              1..Len(log) \subseteq covered'
         /\ LoopTypeOK'
<1>1. \E kind \in {"task", "held", "pass", "fail"}, t \in Tasks \cup Reviews, by \in {"orch", "worker"} :
        /\ Post(kind, t, by) /\ Others
        /\ kind = "task" => by = "orch"
        /\ kind = "held" => t \in Tasks
        /\ \/ covered' = covered /\ (kind = "task" => t \in Tasks)
           \/ covered' = covered \cup 1..Len(log)
  BY DEF Environment, Dispatch, Park, HandReview, Report
<1>2. PICK kind \in {"task", "held", "pass", "fail"}, t \in Tasks \cup Reviews, by \in {"orch", "worker"} :
        /\ Post(kind, t, by) /\ Others
        /\ kind = "task" => by = "orch"
        /\ kind = "held" => t \in Tasks
        /\ \/ covered' = covered /\ (kind = "task" => t \in Tasks)
           \/ covered' = covered \cup 1..Len(log)
  BY <1>1
<1>3. /\ Grows /\ log' \in Seq(Message) /\ Len(log') <= MaxId /\ Len(log') = Len(log) + 1
      /\ log'[Len(log) + 1] = [kind |-> kind, task |-> t, by |-> by]
  BY <1>2, PostGrows
<1>4. LoopTypeOK'
  BY <1>2, PostTypes
<1>5. /\ log'[Len(log) + 1].kind = kind /\ log'[Len(log) + 1].task = t /\ log'[Len(log) + 1].by = by
  BY <1>3
<1>6. /\ kind = "task" /\ t \in Reviews => 1..Len(log) \subseteq covered'
      /\ covered \subseteq covered'
  BY <1>2, NamesAssumption
<1>. QED
  BY <1>2, <1>3, <1>4, <1>5, <1>6 DEF Others

(* Steps of the loop that send nothing. *)
Quiet == ReadLedger \/ ReadHeld \/ Save \/ PrintWakes \/ FirstRun \/ Crash
           \/ (\E known \in BOOLEAN : Plan(known))
           \/ (\E key \in todo.wake, posted \in BOOLEAN : Wake(key, posted))

LEMMA QuietTypes ==
  ASSUME LoopTypeOK, Quiet
  PROVE  LoopTypeOK' /\ Grows /\ UNCHANGED <<log, covered, slipped, reviewHead>>
<1>1. LoopTypeOK'
  BY ReadTypes, SaveTypes, FirstRunTypes, CrashTypes, PlanTypes, WakeTypes DEF Quiet
<1>2. UNCHANGED <<log, covered, slipped, reviewHead>>
  BY DEF Quiet, ReadLedger, ReadHeld, Save, PrintWakes, FirstRun, Crash, Plan, Wake, historyVars
<1>. QED
  BY <1>1, <1>2, SameGrows

LEMMA NextIs ==
  ASSUME [Next]_vars
  PROVE  \/ Environment \/ Quiet \/ UNCHANGED vars
         \/ \E o \in {"ok", "rejected", "unanswered"} : Review(o) \/ \E t \in Tasks : Release(t, o)
BY DEF Next, Loop, Quiet

LEMMA TypesNext == LoopTypeOK /\ [Next]_vars => LoopTypeOK'
<1>. SUFFICES ASSUME LoopTypeOK, [Next]_vars
              PROVE  LoopTypeOK'
  OBVIOUS
<1>1. CASE Environment
  BY <1>1, EnvironmentIs
<1>2. CASE Quiet
  BY <1>2, QuietTypes
<1>3. ASSUME NEW o \in {"ok", "rejected", "unanswered"}, Review(o) \/ \E t \in Tasks : Release(t, o)
      PROVE  LoopTypeOK'
  BY <1>3, ReviewTypes, ReleaseTypes
<1>4. CASE UNCHANGED vars
  <2>1. UNCHANGED <<log, saved, pc, state, reviewHead, snap, todo, wakes, told, covered, slipped, crashes, faults>>
    BY <1>4 DEF vars, loopVars, historyVars
  <2>2. StateOK(saved)' /\ StateOK(state)'
    BY <2>1, StatesKept, SameGrows
  <2>. QED
    BY <2>1, <2>2 DEF LoopTypeOK
<1>. QED
  BY <1>1, <1>2, <1>3, <1>4, NextIs

----------------------------------------------------------------------------
(* Between ticks the state is the saved one and there is nothing to do.    *)
(* The loop's own messages are in the ledger it has read.                  *)
Phases ==
  /\ pc # "apply" => state = saved /\ todo = NoTodo
  /\ pc \in {"new", "read"} => wakes = {}
  /\ pc \in {"new", "print"} => snap = NoSnap
  /\ pc = "read" /\ snap.gotLedger =>
       \A n \in 1..Len(log) : log[n].kind = "task" /\ log[n].by = "loop" => n <= snap.ledger
  /\ saved.marker <= state.marker

LEMMA PhasesQuiet ==
  ASSUME LoopTypeOK, Phases, Quiet
  PROVE  Phases'
<1>0. LoopTypeOK' /\ UNCHANGED log
  BY QuietTypes
<1>1. CASE ReadLedger
  <2>1. snap \in [ledger : 0..Len(log), held : SUBSET (1..Len(log)),
                  gotLedger : BOOLEAN, gotHeld : BOOLEAN]
    BY DEF LoopTypeOK
  <2>2. snap'.ledger = Len(log)
    BY <1>1, <2>1 DEF ReadLedger
  <2>. QED
    BY <1>1, <2>2 DEF ReadLedger, Phases
<1>2. CASE ReadHeld
  <2>1. snap \in [ledger : 0..Len(log), held : SUBSET (1..Len(log)),
                  gotLedger : BOOLEAN, gotHeld : BOOLEAN]
    BY DEF LoopTypeOK
  <2>2. snap'.ledger = snap.ledger /\ snap'.gotLedger = snap.gotLedger
    BY <1>2, <2>1 DEF ReadHeld
  <2>. QED
    BY <1>2, <2>2 DEF ReadHeld, Phases
<1>3. CASE Save
  BY <1>0, <1>3, Naturals DEF Save, Phases, NoSnap
<1>4. CASE PrintWakes
  BY <1>4 DEF PrintWakes, Phases, NoSnap
<1>5. CASE FirstRun
  <2>1. saved'.marker <= state'.marker
    <3>1. saved' = state' /\ (state.marker \in Nat)'
      BY <1>0, <1>5, Naturals DEF FirstRun, LoopTypeOK, StateOK, State
    <3>. QED
      BY <3>1
  <2>. QED
    BY <1>5, <2>1 DEF FirstRun, Phases, NoSnap
<1>6. CASE Crash
  BY <1>6, Naturals DEF Crash, Phases, NoSnap
<1>7. ASSUME NEW known \in BOOLEAN, Plan(known)
      PROVE  Phases'
  <2>1. state'.marker = NewMarker(state)
    BY <1>7, Naturals DEF Plan, State
  <2>2. state.marker <= NewMarker(state) /\ NewMarker(state) \in Nat
    BY MarkerIs, Naturals
  <2>. QED
    BY <1>7, <2>1, <2>2, Naturals DEF Plan, Phases
<1>8. ASSUME NEW key \in todo.wake, NEW posted \in BOOLEAN, Wake(key, posted)
      PROVE  Phases'
  <2>1. state'.marker = state.marker
    BY <1>8, Naturals DEF Wake, Surface, State
  <2>. QED
    BY <1>8, <2>1 DEF Wake, Phases
<1>. QED
  BY <1>1, <1>2, <1>3, <1>4, <1>5, <1>6, <1>7, <1>8 DEF Quiet

LEMMA PhasesNext == LoopTypeOK /\ Phases /\ [Next]_vars => Phases'
<1>. SUFFICES ASSUME LoopTypeOK, Phases, [Next]_vars
              PROVE  Phases'
  OBVIOUS
<1>1. CASE Environment
  <2>1. /\ Grows /\ Len(log') = Len(log) + 1
        /\ UNCHANGED <<saved, pc, state, snap, todo, wakes>>
        /\ log'[Len(log) + 1].kind = "task" => log'[Len(log) + 1].by = "orch"
    BY <1>1, EnvironmentIs DEF loopVars
  <2>2. ASSUME NEW n \in 1..Len(log'), log'[n].kind = "task", log'[n].by = "loop"
        PROVE  n \in 1..Len(log) /\ log[n].kind = "task" /\ log[n].by = "loop"
    BY <2>1, <2>2 DEF Grows
  <2>. QED
    BY <2>1, <2>2 DEF Phases
<1>2. CASE Quiet
  BY <1>2, PhasesQuiet
<1>3. ASSUME NEW o \in {"ok", "rejected", "unanswered"}, NEW t \in Tasks, Release(t, o)
      PROVE  Phases'
  <2>1. state'.marker = state.marker
    BY <1>3, Naturals DEF Release, State
  <2>. QED
    BY <1>3, <2>1 DEF Release, Phases
<1>4. ASSUME NEW o \in {"ok", "rejected", "unanswered"}, Review(o)
      PROVE  Phases'
  <2>1. CASE o = "ok"
    <3>1. state'.marker = Len(log') /\ saved' = saved
      BY <1>4, <2>1, Naturals DEF Review, State
    <3>2. todo.review \in Reviews /\ Post("task", todo.review, "loop")
      BY <1>4, <2>1 DEF Review, LoopTypeOK
    <3>3. Len(log') = Len(log) + 1
      BY <3>2, PostGrows
    <3>4. saved'.marker <= state'.marker
      BY <3>1, <3>3, Naturals
    <3>. QED
      BY <1>4, <3>4 DEF Review, Phases
  <2>2. CASE o # "ok"
    BY <1>4, <2>2 DEF Review, Phases
  <2>. QED
    BY <2>1, <2>2
<1>5. CASE UNCHANGED vars
  BY <1>5 DEF vars, loopVars, Phases
<1>. QED
  BY <1>1, <1>2, <1>3, <1>4, <1>5, NextIs

----------------------------------------------------------------------------
(* Wakes.  What the loop remembers as surfaced was told, or is yet to be   *)
(* printed, and in that case its note has failed.                          *)
WakeInv ==
  /\ WakeKept
  /\ \A key \in state.surfaced : key \in told \cup wakes \/ (faults > 0 /\ crashes > 0)
  /\ wakes \subseteq told \/ faults > 0

LEMMA WakeFrame ==
  ASSUME LoopTypeOK, WakeInv, UNCHANGED <<told, wakes, saved, crashes>>,
         state'.surfaced = state.surfaced, pc = "print" => pc' = "print",
         faults' \in {faults, faults + 1}
  PROVE  WakeInv'
BY DEF WakeInv, WakeKept, LoopTypeOK

LEMMA WakeNext == LoopTypeOK /\ Phases /\ WakeInv /\ [Next]_vars => WakeInv'
<1>. SUFFICES ASSUME LoopTypeOK, Phases, WakeInv, [Next]_vars
              PROVE  WakeInv'
  OBVIOUS
<1>1. CASE Environment
  BY <1>1, EnvironmentIs, WakeFrame DEF loopVars
<1>2. CASE ReadLedger \/ ReadHeld
  BY <1>2, WakeFrame DEF ReadLedger, ReadHeld, historyVars
<1>3. CASE Save
  <2>1. CASE wakes = {}
    BY <1>3, <2>1 DEF Save, historyVars, WakeInv, WakeKept, Phases
  <2>2. CASE wakes # {}
    BY <1>3, <2>2 DEF Save, historyVars, WakeInv, WakeKept, Phases
  <2>. QED
    BY <2>1, <2>2
<1>4. CASE PrintWakes
  BY <1>4 DEF PrintWakes, WakeInv, WakeKept
<1>5. CASE FirstRun
  <2>1. state'.surfaced = {} /\ saved' = state'
    BY <1>5 DEF FirstRun, Blank
  <2>. QED
    BY <1>5, <2>1 DEF FirstRun, historyVars, WakeInv, WakeKept
<1>6. CASE Crash
  <2>1. crashes' > 0 /\ UNCHANGED <<saved, told, faults>> /\ state' = saved /\ wakes' = {}
    BY <1>6 DEF Crash, LoopTypeOK, historyVars
  <2>2. \A key \in saved.surfaced : key \in told \/ faults > 0
    BY DEF WakeInv, WakeKept
  <2>. QED
    BY <2>1, <2>2 DEF WakeInv, WakeKept
<1>7. ASSUME NEW known \in BOOLEAN, Plan(known)
      PROVE  WakeInv'
  <2>1. state'.surfaced = state.surfaced
    BY <1>7, Naturals DEF Plan, State
  <2>. QED
    BY <1>7, <2>1, WakeFrame DEF Plan, historyVars
<1>8. ASSUME NEW key \in todo.wake, NEW posted \in BOOLEAN, Wake(key, posted)
      PROVE  WakeInv'
  <2>1. /\ state'.surfaced = state.surfaced \cup {key} /\ wakes' = wakes \cup {key}
        /\ told' = IF posted THEN told \cup {key} ELSE told
        /\ UNCHANGED <<saved, crashes>> /\ pc = "apply" /\ pc' = "apply"
    BY <1>8, Naturals DEF Wake, Surface, State
  <2>2. faults \in Nat /\ crashes \in Nat /\ faults' = IF posted THEN faults ELSE faults + 1
    BY <1>8 DEF Wake, Outcome, LoopTypeOK
  <2>3. CASE posted
    BY <2>1, <2>2, <2>3 DEF WakeInv, WakeKept
  <2>4. CASE ~posted
    BY <2>1, <2>2, <2>4 DEF WakeInv, WakeKept
  <2>. QED
    BY <2>3, <2>4
<1>9. ASSUME NEW o \in {"ok", "rejected", "unanswered"}, NEW t \in Tasks, Release(t, o)
      PROVE  WakeInv'
  <2>1. state'.surfaced = state.surfaced
    BY <1>9, Naturals DEF Release, State
  <2>. QED
    BY <1>9, <2>1, WakeFrame DEF Release, Outcome, historyVars
<1>10. ASSUME NEW o \in {"ok", "rejected", "unanswered"}, Review(o)
      PROVE  WakeInv'
  <2>1. state'.surfaced = state.surfaced
    BY <1>10, Naturals DEF Review, State
  <2>. QED
    BY <1>10, <2>1, WakeFrame DEF Review, Outcome
<1>11. CASE UNCHANGED vars
  BY <1>11, WakeFrame DEF vars, loopVars, historyVars
<1>. QED
  BY <1>1, <1>2, <1>3, <1>4, <1>5, <1>6, <1>7, <1>8, <1>9, <1>10, <1>11 DEF Next, Loop

----------------------------------------------------------------------------
(* What the loop's two requests do. *)
LEMMA ReleaseIs ==
  ASSUME LoopTypeOK, NEW t \in Tasks, NEW o \in {"ok", "rejected", "unanswered"}, Release(t, o)
  PROVE  /\ LoopTypeOK' /\ Grows /\ t \in todo.release /\ pc = "apply"
         /\ UNCHANGED <<reviewHead, saved, pc, snap, wakes, told, covered, slipped, crashes>>
         /\ \A n \in Len(log) + 1..Len(log') : n = Len(log) + 1
              /\ log'[n] = [kind |-> "task", task |-> t, by |-> "loop"]
         /\ o # "rejected" => Len(log') = Len(log) + 1
         /\ state'.marker = state.marker /\ state'.heldSeen = state.heldSeen
         /\ state'.surfaced = state.surfaced
         /\ state'.released = IF o = "ok" THEN state.released \cup {t} ELSE state.released
         /\ \A u \in Tasks : state'.held[u] = IF o = "ok" /\ u = t THEN 0 ELSE state.held[u]
         /\ todo'.release = todo.release \ {t} /\ todo'.review = todo.review
         /\ todo.wake \subseteq todo'.wake
<1>1. LoopTypeOK'
  BY ReleaseTypes
<1>2. IF o = "rejected" THEN UNCHANGED log ELSE Post("task", t, "loop")
  BY DEF Release
<1>3. /\ Grows
      /\ \A n \in Len(log) + 1..Len(log') : n = Len(log) + 1
           /\ log'[n] = [kind |-> "task", task |-> t, by |-> "loop"]
  BY <1>2, RequestTypes DEF Release
<1>4. o # "rejected" => Len(log') = Len(log) + 1
  BY <1>2, PostGrows
<1>5. /\ state'.marker = state.marker /\ state'.heldSeen = state.heldSeen
      /\ state'.surfaced = state.surfaced
      /\ state'.released = IF o = "ok" THEN state.released \cup {t} ELSE state.released
      /\ \A u \in Tasks : state'.held[u] = IF o = "ok" /\ u = t THEN 0 ELSE state.held[u]
  <2>1. CASE o = "ok"
    <3>1. state' = [state EXCEPT !.released = @ \cup {t}, !.held[t] = 0] /\ state \in State
      BY <2>1, Naturals DEF Release
    <3>. QED
      BY <2>1, <3>1 DEF State
  <2>2. CASE o # "ok"
    BY <2>2 DEF Release
  <2>. QED
    BY <2>1, <2>2
<1>6. /\ todo'.release = todo.release \ {t} /\ todo'.review = todo.review
      /\ todo.wake \subseteq todo'.wake
  <2>1. todo \in [release : SUBSET Tasks, review : Reviews \cup {"none"}, wake : SUBSET Keys]
    BY DEF LoopTypeOK
  <2>. DEFINE w == todo.wake \cup ({<<"release-failed", state.held[t]>>} \ state.surfaced)
              rest == todo.release \ {t}
  <2>2. IF o = "ok" THEN todo' = [todo EXCEPT !.release = rest]
        ELSE todo' = [todo EXCEPT !.release = rest, !.wake = w]
    BY DEF Release
  <2>3. todo.wake \subseteq w
    OBVIOUS
  <2>. HIDE DEF w, rest
  <2>4. todo'.release = rest /\ todo'.review = todo.review /\ todo'.wake \in {todo.wake, w}
    BY <2>1, <2>2
  <2>. QED
    BY <2>3, <2>4 DEF rest
<1>. QED
  BY <1>1, <1>3, <1>4, <1>5, <1>6 DEF Release, historyVars

LEMMA ReviewIs ==
  ASSUME LoopTypeOK, NEW o \in {"ok", "rejected", "unanswered"}, Review(o)
  PROVE  /\ LoopTypeOK' /\ Grows /\ todo.review \in Reviews /\ todo.release = {} /\ pc = "apply"
         /\ UNCHANGED <<reviewHead, saved, pc, wakes, told, crashes>> /\ snap' = NoSnap
         /\ \A n \in Len(log) + 1..Len(log') : n = Len(log) + 1
              /\ log'[n] = [kind |-> "task", task |-> todo.review, by |-> "loop"]
         /\ o # "rejected" => Len(log') = Len(log) + 1
         /\ state'.marker = IF o = "ok" THEN Len(log) + 1 ELSE state.marker
         /\ state'.heldSeen = state.heldSeen
         /\ state'.surfaced = state.surfaced /\ state'.released = state.released
         /\ state'.held = state.held
         /\ todo'.release = {} /\ todo'.review = "none" /\ todo.wake \subseteq todo'.wake
<1>1. LoopTypeOK'
  BY ReviewTypes
<1>2. todo.review \in Reviews
  BY DEF Review, LoopTypeOK
<1>3. IF o = "rejected" THEN UNCHANGED log ELSE Post("task", todo.review, "loop")
  BY DEF Review
<1>4. /\ Grows
      /\ \A n \in Len(log) + 1..Len(log') : n = Len(log) + 1
           /\ log'[n] = [kind |-> "task", task |-> todo.review, by |-> "loop"]
  BY <1>2, <1>3, RequestTypes DEF Review
<1>5. o # "rejected" => Len(log') = Len(log) + 1
  BY <1>2, <1>3, PostGrows
<1>6. /\ state'.marker = IF o = "ok" THEN Len(log) + 1 ELSE state.marker
      /\ state'.heldSeen = state.heldSeen /\ state'.held = state.held
      /\ state'.surfaced = state.surfaced /\ state'.released = state.released
  BY <1>5, Naturals DEF Review, State
<1>7. todo'.release = {} /\ todo'.review = "none" /\ todo.wake \subseteq todo'.wake
  <2>1. /\ todo \in [release : SUBSET Tasks, review : Reviews \cup {"none"}, wake : SUBSET Keys]
        /\ todo.release = {}
    BY DEF LoopTypeOK, Review
  <2>. DEFINE w == todo.wake \cup ({<<"review-failed", Cardinality(state.reviews)>>} \ state.surfaced)
  <2>2. IF o = "ok" THEN todo' = [todo EXCEPT !.review = "none"]
        ELSE todo' = [todo EXCEPT !.review = "none", !.wake = w]
    BY DEF Review
  <2>3. todo.wake \subseteq w
    OBVIOUS
  <2>. HIDE DEF w
  <2>. QED
    BY <2>1, <2>2, <2>3
<1>. QED
  BY <1>1, <1>2, <1>4, <1>5, <1>6, <1>7 DEF Review

----------------------------------------------------------------------------
(* Dependencies.  What is planned to be released may be. *)
Passed(d) == \E k \in 1..Len(log) : log[k].kind = "pass" /\ log[k].task = d

DepInv == DependenciesFirst /\ \A t \in todo.release : \A d \in Deps[t] : Passed(d)

LEMMA PassedKept ==
  ASSUME Grows, NEW d, Passed(d)
  PROVE  Passed(d)'
BY DEF Passed, Grows

LEMMA DepFrame ==
  ASSUME LoopTypeOK, DepInv, Grows,
         \A n \in Len(log) + 1..Len(log') : n = Len(log) + 1 /\
            (log'[n].kind = "task" /\ log'[n].by = "loop" =>
               \A t \in Tasks : t = log'[n].task => t \in todo.release)
  PROVE  DependenciesFirst'
<1>. SUFFICES ASSUME NEW t \in Tasks, NEW n \in Sent(t)', NEW d \in Deps[t]
              PROVE  \E k \in 1..n - 1 : log'[k].kind = "pass" /\ log'[k].task = d
  BY DEF DependenciesFirst
<1>1. Len(log) \in Nat /\ n \in 1..Len(log') /\ Len(log') \in Nat
  BY Naturals DEF Sent, Grows
<1>2. CASE n \in 1..Len(log)
  <2>1. n \in Sent(t)
    BY <1>2 DEF Sent, Grows
  <2>2. PICK k \in 1..n - 1 : log[k].kind = "pass" /\ log[k].task = d
    BY <2>1 DEF DepInv, DependenciesFirst
  <2>3. k \in 1..Len(log)
    BY <1>1, <1>2
  <2>. QED
    BY <2>2, <2>3 DEF Grows
<1>3. CASE n \notin 1..Len(log)
  <2>1. n \in Len(log) + 1..Len(log')
    BY <1>1, <1>3
  <2>2. n = Len(log) + 1 /\ t \in todo.release
    BY <2>1 DEF Sent
  <2>3. PICK k \in 1..Len(log) : log[k].kind = "pass" /\ log[k].task = d
    BY <2>2 DEF DepInv, Passed
  <2>4. k \in 1..n - 1
    BY <1>1, <2>2
  <2>. QED
    BY <2>3, <2>4 DEF Grows
<1>. QED
  BY <1>2, <1>3

LEMMA ResultIdIs ==
  ASSUME NEW l \in Nat, NEW t, ResultId(l, t) # 0
  PROVE  ResultId(l, t) \in Results(l, t)
<1>. DEFINE S == Results(l, t)
<1>1. S \in SUBSET (0..l) /\ ResultId(l, t) = Highest(S) /\ (S = {} => Highest(S) = 0)
  BY DEF Results, ResultId, Highest
<1>2. ResultId(l, t) \in S
  <2>. HIDE DEF S
  <2>. QED
    BY <1>1, HighestIn
<1>. QED
  BY <1>2

LEMMA FinishedPassed ==
  ASSUME LoopTypeOK, NEW l \in 0..Len(log), NEW t, Finished(l, t)
  PROVE  Passed(t)
<1>1. l \in Nat /\ Len(log) \in Nat
  BY Naturals
<1>2. ResultId(l, t) # 0 /\ log[ResultId(l, t)].kind = "pass"
  BY DEF Finished
<1>3. ResultId(l, t) \in 1..l /\ log[ResultId(l, t)].task = t
  BY <1>1, <1>2, ResultIdIs DEF Results
<1>. QED
  BY <1>1, <1>2, <1>3 DEF Passed

LEMMA DepNext == LoopTypeOK /\ Phases /\ DepInv /\ [Next]_vars => DepInv'
<1>. SUFFICES ASSUME LoopTypeOK, Phases, DepInv, [Next]_vars
              PROVE  DepInv'
  OBVIOUS
<1>1. CASE Environment
  <2>1. /\ Grows /\ Len(log') = Len(log) + 1 /\ todo' = todo
        /\ log'[Len(log) + 1].kind = "task" => log'[Len(log) + 1].by = "orch"
    BY <1>1, EnvironmentIs DEF loopVars
  <2>2. \A n \in Len(log) + 1..Len(log') : n = Len(log) + 1 /\ ~(log'[n].kind = "task" /\ log'[n].by = "loop")
    BY <2>1 DEF Grows
  <2>3. DependenciesFirst'
    BY <2>1, <2>2, DepFrame
  <2>. QED
    BY <2>1, <2>3, PassedKept DEF DepInv
<1>2. CASE Quiet
  <2>1. Grows /\ UNCHANGED log
    BY <1>2, QuietTypes
  <2>2. DependenciesFirst'
    BY <2>1 DEF DepInv, DependenciesFirst, Sent
  <2>3. ASSUME NEW t \in todo'.release, NEW d \in Deps[t]
        PROVE  Passed(d)
    <3>1. CASE t \in todo.release
      BY <3>1 DEF DepInv
    <3>2. CASE t \notin todo.release
      <4>1. todo' # todo /\ todo' # NoTodo
        BY <2>3, <3>2 DEF NoTodo
      <4>2. (\E known \in BOOLEAN : Plan(known))
              \/ \E key \in todo.wake, posted \in BOOLEAN : Wake(key, posted)
        BY <1>2, <4>1 DEF Quiet, ReadLedger, ReadHeld, Save, PrintWakes, FirstRun, Crash
      <4>3. ASSUME NEW key \in todo.wake, NEW posted \in BOOLEAN, Wake(key, posted)
            PROVE  FALSE
        <5>1. todo'.release = todo.release
          BY <4>3 DEF Wake, LoopTypeOK
        <5>. QED
          BY <2>3, <3>2, <5>1
      <4>4. PICK known \in BOOLEAN : Plan(known)
        BY <4>2, <4>3
      <4>5. todo'.release = Releases(known)
        BY <4>4 DEF Plan
      <4>6. DepDone(d)
        BY <2>3, <4>5 DEF Releases
      <4>7. Finished(snap.ledger, d) \/ Finished(Len(log), d)
        BY <4>6 DEF DepDone
      <4>. QED
        BY <4>7, FinishedPassed, Naturals
    <3>. QED
      BY <3>1, <3>2
  <2>. QED
    BY <2>1, <2>2, <2>3, PassedKept DEF DepInv
<1>3. ASSUME NEW o \in {"ok", "rejected", "unanswered"}, NEW t \in Tasks, Release(t, o)
      PROVE  DepInv'
  <2>1. /\ Grows /\ t \in todo.release /\ todo'.release = todo.release \ {t}
        /\ \A n \in Len(log) + 1..Len(log') : n = Len(log) + 1
              /\ log'[n] = [kind |-> "task", task |-> t, by |-> "loop"]
    BY <1>3, ReleaseIs
  <2>2. DependenciesFirst'
    BY <2>1, DepFrame
  <2>. QED
    BY <2>1, <2>2, PassedKept DEF DepInv
<1>4. ASSUME NEW o \in {"ok", "rejected", "unanswered"}, Review(o)
      PROVE  DepInv'
  <2>1. /\ Grows /\ todo.review \in Reviews /\ todo'.release = {}
        /\ \A n \in Len(log) + 1..Len(log') : n = Len(log) + 1
              /\ log'[n] = [kind |-> "task", task |-> todo.review, by |-> "loop"]
    BY <1>4, ReviewIs
  <2>2. \A t \in Tasks : t # todo.review
    BY <2>1, NamesAssumption
  <2>3. DependenciesFirst'
    BY <2>1, <2>2, DepFrame
  <2>. QED
    BY <2>1, <2>3 DEF DepInv
<1>5. CASE UNCHANGED vars
  BY <1>5 DEF vars, loopVars, DepInv, DependenciesFirst, Sent, Passed
<1>. QED
  BY <1>1, <1>2, <1>3, <1>4, <1>5, NextIs

----------------------------------------------------------------------------
(* Reviews.  Before a review's dispatch every task was in the scope of a   *)
(* review or slipped; what the planned review is to move the marker over   *)
(* is finished in the ledger that was read, or hidden in it.               *)
AllReviewed ==
  \A r \in 1..Len(log) : log[r].kind = "task" /\ log[r].task \in Reviews =>
    \A n \in 1..r : log[n].kind = "task" /\ log[n].task \in Tasks => n \in covered \cup slipped

ScopeKnown ==
  todo.review # "none" =>
    \A t \in Tasks : \A n \in Dispatches(snap.ledger, t, state.marker) :
      Finished(snap.ledger, t) \/ n \in Again

LEMMA FinishedKept ==
  ASSUME LoopTypeOK, Grows, UNCHANGED snap, NEW t
  PROVE  /\ Results(snap.ledger, t)' = Results(snap.ledger, t)
         /\ Finished(snap.ledger, t)' <=> Finished(snap.ledger, t)
<1>1. Len(log) \in Nat /\ snap.ledger \in 0..Len(log) /\ snap.ledger \in Nat
  BY Naturals
<1>2. Results(snap.ledger, t)' = Results(snap.ledger, t)
  <2>1. \A n \in 1..snap.ledger : log'[n] = log[n]
    BY <1>1 DEF Grows
  <2>. QED
    BY <2>1 DEF Results
<1>3. ResultId(snap.ledger, t)' = ResultId(snap.ledger, t)
  BY <1>2 DEF ResultId, Highest
<1>4. ResultId(snap.ledger, t) # 0 => log'[ResultId(snap.ledger, t)] = log[ResultId(snap.ledger, t)]
  <2>. SUFFICES ASSUME ResultId(snap.ledger, t) # 0
                PROVE  log'[ResultId(snap.ledger, t)] = log[ResultId(snap.ledger, t)]
    OBVIOUS
  <2>1. ResultId(snap.ledger, t) \in 1..snap.ledger
    BY <1>1, ResultIdIs DEF Results
  <2>. QED
    BY <1>1, <2>1 DEF Grows
<1>. QED
  BY <1>2, <1>3, <1>4 DEF Finished

LEMMA ScopeFrame ==
  ASSUME LoopTypeOK, ScopeKnown, Grows, UNCHANGED snap, state'.marker = state.marker,
         todo'.review = todo.review
  PROVE  ScopeKnown'
<1>1. Len(log) \in Nat /\ snap.ledger \in 0..Len(log) /\ state.marker \in 0..Len(log)
  BY Naturals
<1>2. \A n \in 1..Len(log) : log'[n] = log[n]
  BY DEF Grows
<1>3. Again' = Again
  <2>1. \A n \in state.marker + 1..snap.ledger : n \in 1..Len(log)
    BY <1>1
  <2>2. \A n \in 1..state.marker : n \in 1..Len(log)
    BY <1>1
  <2>. QED
    BY <1>2, <2>1, <2>2 DEF Again
<1>4. ASSUME NEW t \in Tasks
      PROVE  Dispatches(snap.ledger, t, state.marker)' = Dispatches(snap.ledger, t, state.marker)
  <2>1. \A n \in state.marker + 1..snap.ledger : log'[n] = log[n]
    BY <1>1, <1>2
  <2>. QED
    BY <2>1 DEF Dispatches
<1>. QED
  BY <1>3, <1>4, FinishedKept DEF ScopeKnown

LEMMA ScopePlan ==
  ASSUME LoopTypeOK, NEW known \in BOOLEAN, Plan(known)
  PROVE  ScopeKnown'
<1>. SUFFICES ASSUME todo'.review # "none", NEW t \in Tasks,
                     NEW n \in Dispatches(snap.ledger, t, state.marker)'
              PROVE  Finished(snap.ledger, t)' \/ n \in Again'
  BY DEF ScopeKnown
<1>1. UNCHANGED <<log, snap>> /\ state'.marker = NewMarker(state) /\ SprintDone(state, known)
  <2>1. PICK r \in IF SprintDone(state, known) /\ reviewHead /\ FreeReviews # {}
                   THEN FreeReviews ELSE {"none"} :
          todo' = [release |-> Releases(known), review |-> r,
                   wake |-> (Refused(known) \cup ResultWakes \cup ReadyWakes(known)) \ state.surfaced]
    BY DEF Plan
  <2>2. r # "none"
    BY <2>1
  <2>3. SprintDone(state, known)
    BY <2>1, <2>2
  <2>4. UNCHANGED <<log, snap>>
    BY DEF Plan
  <2>5. state'.marker = NewMarker(state)
    BY Naturals DEF Plan, State
  <2>. QED
    BY <2>3, <2>4, <2>5
<1>2. /\ NewMarker(state) \in Nat /\ state.marker <= NewMarker(state) /\ state.marker \in Nat
      /\ snap.ledger \in 0..Len(log) /\ snap.ledger \in Nat /\ Len(log) \in Nat
  BY MarkerIs, Naturals
<1>3. n \in NewMarker(state) + 1..snap.ledger /\ log[n].kind = "task" /\ log[n].task = t
  BY <1>1 DEF Dispatches
<1>. DEFINE d == DispatchId(snap.ledger, t, state)
<1>4. n \in Dispatches(snap.ledger, t, Since(state))
  BY <1>2, <1>3, SinceIs DEF Dispatches
<1>5. d # 0 /\ d <= n /\ d \in 1..snap.ledger /\ log[d].kind = "task" /\ log[d].task = t
  <2>1. d # 0
    BY <1>2, <1>4, DispatchIdIs
  <2>2. d <= n
    BY <1>2, <1>4, <2>1, DispatchIdIs
  <2>. QED
    BY <1>2, <2>1, <2>2, DispatchIn
<1>6. CASE d > NewMarker(state)
  <2>1. t \in Sprint(state)
    BY <1>6 DEF Sprint
  <2>2. Finished(snap.ledger, t)
    BY <1>1, <2>1 DEF SprintDone
  <2>. QED
    BY <1>1, <2>2 DEF Finished, ResultId, Results
<1>7. CASE ~(d > NewMarker(state))
  <2>1. d \in 1..NewMarker(state)
    BY <1>2, <1>5, <1>7
  <2>. HIDE DEF d
  <2>. QED
    BY <1>1, <1>3, <1>5, <2>1 DEF Again
<1>. QED
  BY <1>6, <1>7

LEMMA ReviewedFrame ==
  ASSUME LoopTypeOK, AllReviewed, Grows, covered \subseteq covered', slipped \subseteq slipped',
         \A n \in Len(log) + 1..Len(log') : n = Len(log) + 1 /\
            (log'[n].kind = "task" /\ log'[n].task \in Reviews =>
               \A k \in 1..Len(log) : log[k].kind = "task" /\ log[k].task \in Tasks =>
                 k \in covered' \cup slipped')
  PROVE  AllReviewed'
<1>. SUFFICES ASSUME NEW r \in 1..Len(log'), log'[r].kind = "task", log'[r].task \in Reviews,
                     NEW n \in 1..r, log'[n].kind = "task", log'[n].task \in Tasks
              PROVE  n \in covered' \cup slipped'
  BY DEF AllReviewed
<1>1. Len(log) \in Nat /\ Len(log') \in Nat /\ n # r
  BY Naturals, NamesAssumption DEF Grows
<1>2. CASE r \in 1..Len(log)
  <2>1. n \in 1..Len(log) /\ log'[n] = log[n] /\ log'[r] = log[r]
    BY <1>1, <1>2 DEF Grows
  <2>. QED
    BY <1>2, <2>1 DEF AllReviewed
<1>3. CASE r \notin 1..Len(log)
  <2>1. r \in Len(log) + 1..Len(log')
    BY <1>1, <1>3
  <2>2. r = Len(log) + 1
    BY <2>1
  <2>3. n \in 1..Len(log)
    BY <1>1, <2>2
  <2>4. log'[n] = log[n]
    BY <2>3 DEF Grows
  <2>. QED
    BY <2>1, <2>3, <2>4
<1>. QED
  BY <1>2, <1>3

ReviewInv == AllReviewed /\ ScopeKnown

LEMMA ReviewNext == LoopTypeOK /\ Phases /\ ReviewInv /\ [Next]_vars => ReviewInv'
<1>. SUFFICES ASSUME LoopTypeOK, Phases, ReviewInv, [Next]_vars
              PROVE  ReviewInv'
  OBVIOUS
<1>. USE DEF ReviewInv
<1>0. Len(log) \in Nat
  BY Naturals
<1>1. CASE Environment
  <2>1. /\ Grows /\ Len(log') = Len(log) + 1 /\ UNCHANGED <<snap, todo, state, slipped>>
        /\ covered \subseteq covered'
        /\ log'[Len(log) + 1].kind = "task" /\ log'[Len(log) + 1].task \in Reviews =>
              1..Len(log) \subseteq covered'
    BY <1>1, EnvironmentIs DEF loopVars
  <2>2. \A n \in Len(log) + 1..Len(log') : n = Len(log) + 1
    BY <1>0, <2>1
  <2>3. AllReviewed'
    BY <2>1, <2>2, ReviewedFrame
  <2>. QED
    BY <2>1, <2>3, ScopeFrame
<1>2. CASE Quiet
  <2>1. Grows /\ UNCHANGED <<log, covered, slipped>>
    BY <1>2, QuietTypes
  <2>2. AllReviewed'
    BY <2>1 DEF AllReviewed
  <2>3. CASE ReadLedger \/ ReadHeld \/ Save \/ PrintWakes \/ FirstRun \/ Crash
    <3>1. todo' = NoTodo
      BY <2>3 DEF ReadLedger, ReadHeld, Save, PrintWakes, FirstRun, Crash, Phases
    <3>. QED
      BY <2>2, <3>1 DEF ScopeKnown, NoTodo
  <2>4. ASSUME NEW known \in BOOLEAN, Plan(known)
        PROVE  ReviewInv'
    BY <2>2, <2>4, ScopePlan
  <2>5. ASSUME NEW key \in todo.wake, NEW posted \in BOOLEAN, Wake(key, posted)
        PROVE  ReviewInv'
    <3>1. UNCHANGED snap /\ state'.marker = state.marker /\ todo'.review = todo.review
      BY <2>5, Naturals DEF Wake, Surface, State, LoopTypeOK
    <3>. QED
      BY <2>1, <2>2, <3>1, ScopeFrame
  <2>. QED
    BY <1>2, <2>3, <2>4, <2>5 DEF Quiet
<1>3. ASSUME NEW o \in {"ok", "rejected", "unanswered"}, NEW t \in Tasks, Release(t, o)
      PROVE  ReviewInv'
  <2>1. /\ Grows /\ UNCHANGED <<snap, covered, slipped>> /\ state'.marker = state.marker
        /\ todo'.review = todo.review
        /\ \A n \in Len(log) + 1..Len(log') : n = Len(log) + 1
              /\ log'[n] = [kind |-> "task", task |-> t, by |-> "loop"]
    BY <1>3, ReleaseIs
  <2>2. t \notin Reviews
    BY NamesAssumption
  <2>3. AllReviewed'
    BY <2>1, <2>2, ReviewedFrame
  <2>. QED
    BY <2>1, <2>3, ScopeFrame
<1>4. ASSUME NEW o \in {"ok", "rejected", "unanswered"}, Review(o)
      PROVE  ReviewInv'
  <2>1. /\ Grows /\ todo.review \in Reviews /\ todo'.review = "none"
        /\ \A n \in Len(log) + 1..Len(log') : n = Len(log) + 1
    BY <1>4, ReviewIs
  <2>2. ScopeKnown'
    BY <2>1 DEF ScopeKnown
  <2>3. CASE o = "rejected"
    <3>1. UNCHANGED <<log, covered, slipped>>
      BY <1>4, <2>3 DEF Review
    <3>. QED
      BY <2>2, <3>1 DEF AllReviewed
  <2>4. CASE o # "rejected"
    <3>1. /\ covered' = covered \cup {n \in 1..snap.ledger :
                           log[n].kind = "task" => Finished(snap.ledger, log[n].task)}
          /\ slipped' = slipped \cup snap.ledger + 1..Len(log) \cup Again
      BY <1>4, <2>4 DEF Review
    <3>2. ASSUME NEW k \in 1..Len(log), log[k].kind = "task", log[k].task \in Tasks
          PROVE  k \in covered' \cup slipped'
      <4>1. snap.ledger \in 0..Len(log) /\ state.marker \in 0..Len(log)
        BY Naturals
      <4>2. CASE k \in snap.ledger + 1..Len(log)
        BY <3>1, <4>2
      <4>3. CASE k \in state.marker + 1..snap.ledger
        <5>1. k \in Dispatches(snap.ledger, log[k].task, state.marker)
          BY <3>2, <4>3 DEF Dispatches
        <5>2. todo.review # "none"
          BY <2>1, NamesAssumption
        <5>3. Finished(snap.ledger, log[k].task) \/ k \in Again
          BY <3>2, <5>1, <5>2 DEF ScopeKnown
        <5>4. k \in 1..snap.ledger
          BY <4>1, <4>3
        <5>. QED
          BY <3>1, <5>3, <5>4
      <4>4. CASE k \in 1..state.marker
        <5>1. state.marker # 0 /\ log[state.marker].kind = "task" /\ log[state.marker].task \in Reviews
          BY <4>1, <4>4 DEF LoopTypeOK, StateOK
        <5>2. k \in covered \cup slipped
          BY <3>2, <4>1, <4>4, <5>1 DEF AllReviewed
        <5>. QED
          BY <3>1, <5>2
      <4>. QED
        BY <1>0, <4>1, <4>2, <4>3, <4>4
    <3>3. covered \subseteq covered' /\ slipped \subseteq slipped'
      BY <3>1
    <3>4. AllReviewed'
      BY <2>1, <3>2, <3>3, ReviewedFrame
    <3>. QED
      BY <2>2, <3>4
  <2>. QED
    BY <2>3, <2>4
<1>5. CASE UNCHANGED vars
  <2>1. UNCHANGED <<log, state, snap, todo, covered, slipped>>
    BY <1>5 DEF vars, loopVars, historyVars
  <2>2. AllReviewed'
    BY <2>1 DEF AllReviewed
  <2>. QED
    BY <2>1, <2>2, SameGrows, ScopeFrame
<1>. QED
  BY <1>1, <1>2, <1>3, <1>4, <1>5, NextIs

LEMMA ReviewedAll == LoopTypeOK /\ AllReviewed => ReviewCoversAll
<1>. SUFFICES ASSUME LoopTypeOK, AllReviewed, NEW n \in 1..saved.marker,
                     log[n].kind = "task", log[n].task \in Tasks
              PROVE  n \in covered \cup slipped
  BY DEF ReviewCoversAll
<1>1. saved.marker \in 0..Len(log) /\ Len(log) \in Nat
  BY Naturals
<1>2. saved.marker # 0 /\ log[saved.marker].kind = "task" /\ log[saved.marker].task \in Reviews
  BY <1>1 DEF LoopTypeOK, StateOK
<1>. QED
  BY <1>1, <1>2 DEF AllReviewed

----------------------------------------------------------------------------
(* Held tasks.  Of each there is a trace, in the file and in memory: it is *)
(* beyond what was read, queued, dispatched, or refused with a wake that   *)
(* was surfaced or is to be.                                               *)
HeldOf(t) == {n \in 1..Len(log) : log[n].kind = "held" /\ log[n].task = t}
Out(t) == \E k \in 1..Len(log) : log[k].kind = "task" /\ log[k].task = t
Refuses(t, keys) == \E k \in 1..Len(log) : log[k].task = t /\ <<"held-refused", k>> \in keys

KeptInFile ==
  \A t \in Tasks :
    /\ t \in saved.released => Out(t)
    /\ \A n \in HeldOf(t) :
         n > saved.heldSeen \/ saved.held[t] # 0 \/ Out(t) \/ Refuses(t, saved.surfaced)

KeptInMemory ==
  \A t \in Tasks :
    /\ t \in state.released => Out(t)
    /\ \A n \in HeldOf(t) :
         n > state.heldSeen \/ state.held[t] # 0 \/ Out(t) \/ Refuses(t, state.surfaced \cup todo.wake)

(* The read of the held channel misses nothing before its end, and gives   *)
(* nothing that was read before.                                           *)
HeldRead ==
  pc = "read" /\ snap.gotHeld =>
    /\ \A n \in snap.held : state.heldSeen < n
    /\ \A n \in 1..Len(log) :
         log[n].kind = "held" /\ state.heldSeen < n /\ (\E k \in snap.held : n <= k) => n \in snap.held

HeldInv == KeptInFile /\ KeptInMemory /\ HeldRead

LEMMA OutKept ==
  ASSUME Grows
  PROVE  \A t : Out(t) => Out(t)'
BY DEF Out, Grows

LEMMA FileFrame ==
  ASSUME LoopTypeOK, KeptInFile, Grows, UNCHANGED saved
  PROVE  KeptInFile'
<1>. SUFFICES ASSUME NEW t \in Tasks
              PROVE  /\ t \in saved.released => Out(t)'
                     /\ \A n \in HeldOf(t)' : n > saved.heldSeen \/ saved.held[t] # 0 \/ Out(t)'
                                                \/ Refuses(t, saved.surfaced)'
  BY DEF KeptInFile
<1>1. saved.heldSeen \in 0..Len(log) /\ Len(log) \in Nat
  BY Naturals
<1>2. ASSUME NEW n \in HeldOf(t)'
      PROVE  n > saved.heldSeen \/ n \in HeldOf(t)
  BY <1>1 DEF HeldOf, Grows
<1>3. ASSUME Refuses(t, saved.surfaced)
      PROVE  Refuses(t, saved.surfaced)'
  <2>1. PICK k \in 1..Len(log) : log[k].task = t /\ <<"held-refused", k>> \in saved.surfaced
    BY <1>3 DEF Refuses
  <2>2. k \in 1..Len(log') /\ log'[k] = log[k]
    BY DEF Grows
  <2>. QED
    BY <2>1, <2>2 DEF Refuses
<1>. QED
  BY <1>2, <1>3, OutKept DEF KeptInFile

LEMMA MemoryFrame ==
  ASSUME LoopTypeOK, KeptInMemory, Grows, state'.heldSeen = state.heldSeen,
         \A t \in Tasks : state'.held[t] = state.held[t] \/ Out(t)',
         \A t \in Tasks : t \in state'.released => t \in state.released \/ Out(t)',
         state.surfaced \cup todo.wake \subseteq state'.surfaced \cup todo'.wake
  PROVE  KeptInMemory'
<1>. SUFFICES ASSUME NEW t \in Tasks
              PROVE  /\ t \in state'.released => Out(t)'
                     /\ \A n \in HeldOf(t)' : n > state'.heldSeen \/ state'.held[t] # 0 \/ Out(t)'
                                                \/ Refuses(t, state.surfaced \cup todo.wake)'
  BY DEF KeptInMemory
<1>1. state.heldSeen \in 0..Len(log) /\ Len(log) \in Nat
  BY Naturals
<1>2. ASSUME NEW n \in HeldOf(t)'
      PROVE  n > state.heldSeen \/ n \in HeldOf(t)
  BY <1>1 DEF HeldOf, Grows
<1>3. ASSUME Refuses(t, state.surfaced \cup todo.wake)
      PROVE  Refuses(t, state.surfaced \cup todo.wake)'
  <2>1. PICK k \in 1..Len(log) :
          log[k].task = t /\ <<"held-refused", k>> \in state.surfaced \cup todo.wake
    BY <1>3 DEF Refuses
  <2>2. k \in 1..Len(log') /\ log'[k] = log[k]
    BY DEF Grows
  <2>3. <<"held-refused", k>> \in state'.surfaced \cup todo'.wake
    BY <2>1
  <2>. QED
    BY <2>1, <2>2, <2>3 DEF Refuses
<1>. QED
  BY <1>2, <1>3, OutKept DEF KeptInMemory

LEMMA KeptPlan ==
  ASSUME LoopTypeOK, Phases, HeldInv, NEW known \in BOOLEAN, Plan(known)
  PROVE  KeptInMemory'
<1>1. /\ UNCHANGED log /\ pc = "read" /\ snap.gotHeld
      /\ state'.held = [t \in Tasks |-> Held(t, known)] /\ state'.released = state.released
      /\ state'.surfaced = state.surfaced
      /\ state'.heldSeen = Highest({state.heldSeen} \cup snap.held)
  BY Naturals DEF Plan, State
<1>2. Refused(known) \subseteq state'.surfaced \cup todo'.wake
  <2>1. \E r : todo' = [release |-> Releases(known), review |-> r,
                 wake |-> (Refused(known) \cup ResultWakes \cup ReadyWakes(known)) \ state.surfaced]
    BY DEF Plan
  <2>. DEFINE owed == (Refused(known) \cup ResultWakes \cup ReadyWakes(known)) \ state.surfaced
  <2>2. todo'.wake = owed
    BY <2>1
  <2>. QED
    BY <1>1, <2>2
<1>. SUFFICES ASSUME NEW t \in Tasks
              PROVE  /\ t \in state.released => Out(t)
                     /\ \A n \in HeldOf(t) : n > state'.heldSeen \/ state'.held[t] # 0 \/ Out(t)
                                               \/ Refuses(t, state'.surfaced \cup todo'.wake)
  <2>1. \A t : HeldOf(t)' = HeldOf(t) /\ (Out(t)' <=> Out(t))
    BY <1>1 DEF HeldOf, Out
  <2>2. \A t : Refuses(t, state'.surfaced \cup todo'.wake) => Refuses(t, state.surfaced \cup todo.wake)'
    BY <1>1 DEF Refuses
  <2>. QED
    BY <1>1, <2>1, <2>2 DEF KeptInMemory
<1>3. t \in state.released => Out(t)
  BY DEF HeldInv, KeptInMemory
<1>4. /\ Len(log) \in Nat /\ state.heldSeen \in 0..Len(log) /\ snap.held \in SUBSET (1..Len(log))
      /\ state.held[t] \in 0..Len(log) /\ state.marker \in Nat /\ snap.ledger \in 0..Len(log)
      /\ state.held[t] # 0 => log[state.held[t]].kind = "held" /\ log[state.held[t]].task = t
  BY Naturals DEF LoopTypeOK, StateOK, State
<1>5. ByHand(t) => Out(t)
  <2>. SUFFICES ASSUME ByHand(t)
                PROVE  Out(t)
    OBVIOUS
  <2>. DEFINE d == DispatchId(snap.ledger, t, state)
  <2>1. d \in 1..snap.ledger /\ log[d].kind = "task" /\ log[d].task = t
    BY <1>4, DispatchIn DEF ByHand
  <2>. QED
    BY <1>4, <2>1 DEF Out
<1>6. ASSUME NEW n \in HeldOf(t), ~(n > state'.heldSeen), ~Out(t)
      PROVE  \/ n \in snap.held
             \/ n <= state.heldSeen /\ (state.held[t] # 0 \/ Refuses(t, state.surfaced \cup todo.wake))
  <2>1. n \in 1..Len(log) /\ log[n].kind = "held" /\ log[n].task = t
    BY <1>6 DEF HeldOf
  <2>2. CASE n <= state.heldSeen
    <3>1. n > state.heldSeen \/ state.held[t] # 0 \/ Out(t) \/ Refuses(t, state.surfaced \cup todo.wake)
      BY <1>6 DEF HeldInv, KeptInMemory
    <3>. QED
      BY <1>4, <1>6, <2>1, <2>2, <3>1
  <2>3. CASE ~(n <= state.heldSeen)
    <3>. DEFINE S == {state.heldSeen} \cup snap.held
    <3>1. S \in SUBSET (0..Len(log)) /\ S # {}
      BY <1>4
    <3>2. Highest(S) \in S
      <4>. HIDE DEF S
      <4>. QED
        BY <1>4, <3>1, HighestIn
    <3>3. Highest(S) \in snap.held /\ n <= Highest(S)
      BY <1>1, <1>4, <1>6, <2>1, <2>3, <3>2
    <3>. QED
      BY <1>1, <1>4, <2>1, <2>3, <3>3 DEF HeldInv, HeldRead
  <2>. QED
    BY <2>2, <2>3
<1>7. Refuses(t, state.surfaced \cup todo.wake) => Refuses(t, state'.surfaced)
  <2>1. pc = "read" => todo.wake = {}
    BY DEF Phases, NoTodo
  <2>. QED
    BY <1>1, <2>1 DEF Refuses
<1>8. ASSUME NEW n \in HeldOf(t), ~(n > state'.heldSeen), ~Out(t), ~Refuses(t, state'.surfaced)
      PROVE  state'.held[t] # 0 \/ Refuses(t, state'.surfaced \cup todo'.wake)
  <2>1. ~ByHand(t) /\ t \notin state.released
    BY <1>3, <1>5, <1>8
  <2>2. n \in snap.held \/ state.held[t] # 0
    BY <1>6, <1>7, <1>8
  <2>3. CASE known
    <3>. DEFINE fresh == {k \in snap.held : log[k].task = t /\ t \notin state.released}
    <3>1. state'.held[t] = IF fresh # {} THEN Highest(fresh) ELSE state.held[t]
      BY <1>1, <2>1, <2>3 DEF Held, Queue
    <3>2. fresh # {} => Highest(fresh) \in fresh
      <4>1. fresh \in SUBSET (0..Len(log))
        BY <1>4
      <4>. HIDE DEF fresh
      <4>. QED
        BY <1>4, <4>1, HighestIn
    <3>3. \A k \in fresh : k # 0
      BY <1>4
    <3>4. n \in snap.held => n \in fresh
      BY <1>8, <2>1 DEF HeldOf
    <3>. HIDE DEF fresh
    <3>. QED
      BY <2>2, <3>1, <3>2, <3>3, <3>4
  <2>4. CASE ~known
    <3>1. CASE n \in snap.held
      <4>1. log[n].task = t /\ n \in 1..Len(log)
        BY <1>8 DEF HeldOf
      <4>2. <<"held-refused", n>> \in Refused(known)
        BY <2>1, <2>4, <3>1, <4>1 DEF Refused
      <4>. QED
        BY <1>2, <4>1, <4>2 DEF Refuses
    <3>2. CASE state.held[t] # 0
      <4>1. state.held[t] \in 1..Len(log) /\ log[state.held[t]].task = t
        BY <1>4, <3>2
      <4>2. <<"held-refused", state.held[t]>> \in Refused(known)
        BY <2>1, <2>4, <3>2 DEF Refused
      <4>. QED
        BY <1>2, <4>1, <4>2 DEF Refuses
    <3>. QED
      BY <2>2, <3>1, <3>2
  <2>. QED
    BY <2>3, <2>4
<1>9. Refuses(t, state'.surfaced) => Refuses(t, state'.surfaced \cup todo'.wake)
  BY DEF Refuses
<1>. QED
  BY <1>3, <1>8, <1>9

LEMMA HeldReadNext ==
  ASSUME LoopTypeOK, Phases, HeldRead, [Next]_vars
  PROVE  HeldRead'
<1>0. /\ snap \in [ledger : 0..Len(log), held : SUBSET (1..Len(log)),
                   gotLedger : BOOLEAN, gotHeld : BOOLEAN]
      /\ Len(log) \in Nat /\ state.heldSeen \in Nat
  BY Naturals DEF LoopTypeOK
<1>1. CASE Environment
  <2>1. Grows /\ UNCHANGED <<pc, state, snap>>
    BY <1>1, EnvironmentIs DEF loopVars
  <2>2. ASSUME NEW n \in 1..Len(log'), NEW k \in snap.held, n <= k
        PROVE  n \in 1..Len(log) /\ log'[n] = log[n]
    BY <1>0, <2>1, <2>2 DEF Grows
  <2>. QED
    BY <2>1, <2>2 DEF HeldRead
<1>2. CASE ReadLedger
  <2>1. snap'.held = snap.held /\ snap'.gotHeld = snap.gotHeld /\ UNCHANGED <<log, state>> /\ pc = "read"
    BY <1>0, <1>2 DEF ReadLedger
  <2>. QED
    BY <2>1 DEF HeldRead
<1>3. CASE ReadHeld
  <2>1. /\ snap'.held = {n \in state.heldSeen + 1..Len(log) : log[n].kind = "held"}
        /\ UNCHANGED <<log, state>>
    BY <1>0, <1>3 DEF ReadHeld
  <2>2. \A n \in 1..Len(log) : state.heldSeen < n => n \in state.heldSeen + 1..Len(log)
    BY <1>0
  <2>3. \A n \in snap'.held : state.heldSeen < n
    BY <1>0, <2>1
  <2>. QED
    BY <2>1, <2>2, <2>3 DEF HeldRead
<1>4. CASE Save \/ PrintWakes \/ FirstRun \/ Crash
  <2>1. snap' = NoSnap
    BY <1>4 DEF Save, PrintWakes, FirstRun, Crash, Phases
  <2>. QED
    BY <2>1 DEF HeldRead, NoSnap
<1>5. ASSUME pc' = "apply"
      PROVE  HeldRead'
  BY <1>5 DEF HeldRead
<1>6. CASE UNCHANGED vars
  BY <1>6 DEF vars, loopVars, HeldRead
<1>7. ASSUME NEW known \in BOOLEAN, Plan(known)
      PROVE  pc' = "apply"
  BY <1>7 DEF Plan
<1>8. ASSUME NEW key \in todo.wake, NEW posted \in BOOLEAN, Wake(key, posted)
      PROVE  pc' = "apply"
  BY <1>8 DEF Wake
<1>9. ASSUME NEW o \in {"ok", "rejected", "unanswered"}, Review(o) \/ \E t \in Tasks : Release(t, o)
      PROVE  pc' = "apply"
  BY <1>9 DEF Review, Release
<1>. QED
  BY <1>1, <1>2, <1>3, <1>4, <1>5, <1>6, <1>7, <1>8, <1>9, NextIs DEF Quiet

LEMMA KeptNext ==
  ASSUME LoopTypeOK, Phases, HeldInv, [Next]_vars
  PROVE  KeptInFile' /\ KeptInMemory'
<1>. USE DEF HeldInv
<1>1. CASE Environment
  <2>1. Grows /\ UNCHANGED <<saved, state, todo>>
    BY <1>1, EnvironmentIs DEF loopVars
  <2>. QED
    BY <2>1, FileFrame, MemoryFrame
<1>2. CASE ReadLedger \/ ReadHeld \/ PrintWakes
  <2>1. UNCHANGED <<log, saved, state, todo>>
    BY <1>2 DEF ReadLedger, ReadHeld, PrintWakes
  <2>. QED
    BY <2>1, SameGrows, FileFrame, MemoryFrame
<1>3. CASE Save
  <2>1. UNCHANGED <<log, state, todo>> /\ saved' = state /\ todo = NoTodo
    BY <1>3 DEF Save
  <2>2. KeptInMemory'
    BY <2>1, SameGrows, MemoryFrame
  <2>3. state'.surfaced \cup todo'.wake = saved'.surfaced
    BY <2>1 DEF NoTodo
  <2>4. \A t : Refuses(t, state.surfaced \cup todo.wake)' => Refuses(t, saved.surfaced)'
    BY <2>3 DEF Refuses
  <2>5. KeptInFile'
    BY <2>1, <2>2, <2>4 DEF KeptInMemory, KeptInFile
  <2>. QED
    BY <2>2, <2>5
<1>4. CASE Crash
  <2>1. UNCHANGED <<log, saved>> /\ state' = saved /\ todo' = NoTodo
    BY <1>4 DEF Crash
  <2>2. KeptInFile'
    BY <2>1, SameGrows, FileFrame
  <2>3. state'.surfaced \cup todo'.wake = saved'.surfaced
    BY <2>1 DEF NoTodo
  <2>4. \A t : Refuses(t, saved.surfaced)' => Refuses(t, state.surfaced \cup todo.wake)'
    BY <2>3 DEF Refuses
  <2>5. KeptInMemory'
    BY <2>1, <2>2, <2>4 DEF KeptInMemory, KeptInFile
  <2>. QED
    BY <2>2, <2>5
<1>5. CASE FirstRun
  <2>1. saved' = state' /\ state'.heldSeen = 0 /\ state'.released = {}
    BY <1>5 DEF FirstRun, Blank
  <2>2. \A t : \A n \in HeldOf(t)' : n > 0
    BY DEF HeldOf
  <2>. QED
    BY <2>1, <2>2 DEF KeptInFile, KeptInMemory
<1>6. ASSUME NEW known \in BOOLEAN, Plan(known)
      PROVE  KeptInFile' /\ KeptInMemory'
  <2>1. UNCHANGED <<log, saved>>
    BY <1>6 DEF Plan
  <2>. QED
    BY <1>6, <2>1, SameGrows, FileFrame, KeptPlan
<1>7. ASSUME NEW key \in todo.wake, NEW posted \in BOOLEAN, Wake(key, posted)
      PROVE  KeptInFile' /\ KeptInMemory'
  <2>1. /\ UNCHANGED <<log, saved>> /\ state'.heldSeen = state.heldSeen
        /\ state'.held = state.held /\ state'.released = state.released
        /\ state'.surfaced = state.surfaced \cup {key}
    BY <1>7, Naturals DEF Wake, Surface, State
  <2>2. todo'.wake = todo.wake \ {key}
    <3>. DEFINE rest == todo.wake \ {key}
    <3>1. todo' = [todo EXCEPT !.wake = rest]
      BY <1>7 DEF Wake
    <3>2. todo \in [release : SUBSET Tasks, review : Reviews \cup {"none"}, wake : SUBSET Keys]
      BY DEF LoopTypeOK
    <3>. HIDE DEF rest
    <3>3. todo'.wake = rest
      BY <3>1, <3>2
    <3>. QED
      BY <3>3 DEF rest
  <2>3. state.surfaced \cup todo.wake \subseteq state'.surfaced \cup todo'.wake
    BY <2>1, <2>2
  <2>. QED
    BY <2>1, <2>3, SameGrows, FileFrame, MemoryFrame
<1>8. ASSUME NEW o \in {"ok", "rejected", "unanswered"}, NEW t \in Tasks, Release(t, o)
      PROVE  KeptInFile' /\ KeptInMemory'
  <2>1. /\ Grows /\ UNCHANGED saved /\ state'.heldSeen = state.heldSeen
        /\ state'.released = IF o = "ok" THEN state.released \cup {t} ELSE state.released
        /\ \A u \in Tasks : state'.held[u] = IF o = "ok" /\ u = t THEN 0 ELSE state.held[u]
        /\ state.surfaced \cup todo.wake \subseteq state'.surfaced \cup todo'.wake
    BY <1>8, ReleaseIs
  <2>2. o = "ok" => Out(t)'
    <3>1. o = "ok" => Len(log) + 1 \in 1..Len(log') /\ Len(log) + 1 \in Len(log) + 1..Len(log')
      <4>1. o = "ok" => Len(log') = Len(log) + 1
        BY <1>8, ReleaseIs
      <4>2. Len(log) \in Nat
        BY Naturals
      <4>. QED
        BY <4>1, <4>2
    <3>2. o = "ok" => log'[Len(log) + 1] = [kind |-> "task", task |-> t, by |-> "loop"]
      BY <1>8, <3>1, ReleaseIs
    <3>. QED
      BY <3>1, <3>2 DEF Out
  <2>. QED
    BY <2>1, <2>2, FileFrame, MemoryFrame
<1>9. ASSUME NEW o \in {"ok", "rejected", "unanswered"}, Review(o)
      PROVE  KeptInFile' /\ KeptInMemory'
  <2>1. /\ Grows /\ UNCHANGED saved /\ state'.heldSeen = state.heldSeen
        /\ state'.released = state.released /\ state'.held = state.held
        /\ state.surfaced \cup todo.wake \subseteq state'.surfaced \cup todo'.wake
    BY <1>9, ReviewIs
  <2>. QED
    BY <2>1, FileFrame, MemoryFrame
<1>10. CASE UNCHANGED vars
  <2>1. UNCHANGED <<log, saved, state, todo>>
    BY <1>10 DEF vars, loopVars
  <2>. QED
    BY <2>1, SameGrows, FileFrame, MemoryFrame
<1>. QED
  BY <1>1, <1>2, <1>3, <1>4, <1>5, <1>6, <1>7, <1>8, <1>9, <1>10, NextIs DEF Quiet

LEMMA HeldNext == LoopTypeOK /\ Phases /\ HeldInv /\ [Next]_vars => HeldInv'
BY HeldReadNext, KeptNext DEF HeldInv

LEMMA HeldTraced == LoopTypeOK /\ KeptInFile => HeldNotForgotten
<1>. SUFFICES ASSUME LoopTypeOK, KeptInFile, NEW n \in 1..Len(log), log[n].kind = "held"
              PROVE  \/ n > saved.heldSeen
                     \/ saved.held[log[n].task] # 0
                     \/ Dispatches(Len(log), log[n].task, 0) # {}
                     \/ \E k \in 1..Len(log) :
                          log[k].task = log[n].task /\ <<"held-refused", k>> \in saved.surfaced
  BY DEF HeldNotForgotten
<1>1. log[n].task \in Tasks
  BY DEF LoopTypeOK
<1>2. n \in HeldOf(log[n].task)
  BY DEF HeldOf
<1>3. Out(log[n].task) => Dispatches(Len(log), log[n].task, 0) # {}
  BY DEF Out, Dispatches
<1>. QED
  BY <1>1, <1>2, <1>3 DEF KeptInFile, Refuses

----------------------------------------------------------------------------
(* One review at a time.  Before a review is planned, each of the loop's   *)
(* earlier ones was answered or stands behind one of the orchestrator's;   *)
(* and under the id of a loop's review there is nothing earlier, but what  *)
(* the orchestrator sent or the saved marker has left behind.              *)
LoopReviews == {k \in 1..Len(log) : /\ log[k].kind = "task" /\ log[k].by = "loop"
                                    /\ log[k].task \in Reviews}
OrchReview(k) == log[k].kind = "task" /\ log[k].by = "orch" /\ log[k].task \in Reviews
Settled(m, n) ==
  \/ Results(Len(log), log[m].task) # {}
  \/ \E k \in 1..n : OrchReview(k) /\ (m < k \/ log[k].task = log[m].task)

OneOut == \A m, n \in LoopReviews : m < n => Settled(m, n)

NoneOut == todo.review # "none" => \A m \in LoopReviews : Settled(m, Len(log))

FreshIds ==
  /\ \A m \in LoopReviews : \A j \in 1..m - 1 :
       log[j].kind = "task" /\ log[j].task = log[m].task => j < saved.marker \/ log[j].by = "orch"
  /\ todo.review # "none" =>
       \A j \in 1..Len(log) :
         log[j].kind = "task" /\ log[j].task = todo.review => j < saved.marker \/ log[j].by = "orch"

OutInv ==
  /\ OneOut /\ NoneOut /\ FreshIds
  /\ \A n \in 1..Len(log) : log[n].kind = "task" => log[n].by # "worker"
  /\ pc = "new" => saved.marker = 0

LEMMA SettledKept ==
  ASSUME Grows, NEW m \in 1..Len(log), NEW n \in 0..Len(log), NEW o \in Nat, n <= o, Settled(m, n),
         o <= Len(log')
  PROVE  Settled(m, o)'
<1>1. log'[m] = log[m] /\ m \in 1..Len(log') /\ Len(log) \in Nat /\ Len(log') \in Nat
  BY DEF Grows
<1>2. CASE Results(Len(log), log[m].task) # {}
  <2>1. PICK k \in 1..Len(log) : log[k].kind \in {"pass", "fail"} /\ log[k].task = log[m].task
    BY <1>2 DEF Results
  <2>2. k \in 1..Len(log') /\ log'[k] = log[k]
    BY DEF Grows
  <2>. QED
    BY <1>1, <2>1, <2>2 DEF Settled, Results
<1>3. CASE \E k \in 1..n : OrchReview(k) /\ (m < k \/ log[k].task = log[m].task)
  <2>1. PICK k \in 1..n : OrchReview(k) /\ (m < k \/ log[k].task = log[m].task)
    BY <1>3
  <2>2. k \in 1..Len(log) /\ k \in 1..o
    BY <1>1
  <2>3. log'[k] = log[k]
    BY <2>2 DEF Grows
  <2>. QED
    BY <1>1, <2>1, <2>2, <2>3 DEF Settled, OrchReview
<1>. QED
  BY <1>2, <1>3 DEF Settled

(* A step by which the loop sends no review. *)
LEMMA OutFrame ==
  ASSUME LoopTypeOK, OutInv, Grows, pc' # "new" \/ (pc = "new" /\ saved' = saved),
         saved.marker <= saved'.marker, saved'.marker \in Nat,
         todo'.review \in {todo.review, "none"},
         \A n \in Len(log) + 1..Len(log') : log'[n].kind = "task" =>
            log'[n].by # "worker" /\ (log'[n].task \in Reviews => log'[n].by = "orch")
  PROVE  OutInv'
<1>1. /\ Len(log) \in Nat /\ Len(log') \in Nat /\ saved.marker \in Nat
      /\ \A n \in 1..Len(log') : n \in 1..Len(log) \/ n \in Len(log) + 1..Len(log')
      /\ \A n \in 1..Len(log) : n \in 1..Len(log') /\ log'[n] = log[n]
  BY Naturals DEF Grows
<1>2. \A m \in LoopReviews' : m \in LoopReviews /\ m \in 1..Len(log)
  BY <1>1 DEF LoopReviews
<1>3. OneOut'
  <2>. SUFFICES ASSUME NEW m \in LoopReviews', NEW n \in LoopReviews', m < n
                PROVE  Settled(m, n)'
    BY DEF OneOut
  <2>1. m \in 1..Len(log) /\ n \in 1..Len(log) /\ Settled(m, n)
    BY <1>2 DEF OutInv, OneOut
  <2>2. n \in 0..Len(log) /\ n \in Nat /\ n <= Len(log')
    BY <1>1, <2>1
  <2>. QED
    BY <2>1, <2>2, SettledKept
<1>4. NoneOut'
  <2>. SUFFICES ASSUME todo'.review # "none", NEW m \in LoopReviews'
                PROVE  Settled(m, Len(log))'
    BY DEF NoneOut
  <2>1. m \in 1..Len(log) /\ Settled(m, Len(log))
    BY <1>2 DEF OutInv, NoneOut
  <2>2. Len(log) \in 0..Len(log) /\ Len(log) <= Len(log')
    BY <1>1 DEF Grows
  <2>3. \A o \in Nat : Len(log) <= o /\ o <= Len(log') => Settled(m, o)'
    BY <2>1, <2>2, SettledKept
  <2>. QED
    BY <1>1, <2>2, <2>3 DEF Settled
<1>5. FreshIds'
  <2>1. ASSUME NEW m \in LoopReviews', NEW j \in 1..m - 1, log'[j].kind = "task",
               log'[j].task = log'[m].task
        PROVE  j < saved'.marker \/ log'[j].by = "orch"
    <3>1. m \in LoopReviews /\ m \in 1..Len(log)
      BY <1>2
    <3>2. j \in 1..Len(log) /\ log'[j] = log[j] /\ log'[m] = log[m]
      BY <1>1, <3>1
    <3>3. j < saved.marker \/ log[j].by = "orch"
      BY <2>1, <3>1, <3>2 DEF OutInv, FreshIds
    <3>. QED
      BY <1>1, <3>2, <3>3
  <2>2. ASSUME todo'.review # "none", NEW j \in 1..Len(log'), log'[j].kind = "task",
               log'[j].task = todo'.review
        PROVE  j < saved'.marker \/ log'[j].by = "orch"
    <3>1. todo'.review = todo.review /\ todo.review \in Reviews
      BY <2>2 DEF LoopTypeOK
    <3>2. CASE j \in 1..Len(log)
      <4>1. j < saved.marker \/ log[j].by = "orch"
        BY <1>1, <2>2, <3>1, <3>2 DEF OutInv, FreshIds
      <4>. QED
        BY <1>1, <3>2, <4>1
    <3>3. CASE j \in Len(log) + 1..Len(log')
      BY <2>2, <3>1, <3>3
    <3>. QED
      BY <1>1, <3>2, <3>3
  <2>. QED
    BY <2>1, <2>2 DEF FreshIds
<1>6. \A n \in 1..Len(log') : log'[n].kind = "task" => log'[n].by # "worker"
  BY <1>1 DEF OutInv
<1>. QED
  BY <1>3, <1>4, <1>5, <1>6 DEF OutInv

LEMMA OutPlan ==
  ASSUME LoopTypeOK, Phases, OutInv, NEW known \in BOOLEAN, Plan(known)
  PROVE  OutInv'
<1>1. /\ UNCHANGED <<log, saved>> /\ pc = "read" /\ pc' = "apply" /\ state = saved /\ snap.gotLedger
  BY DEF Plan, Phases
<1>2. /\ Len(log) \in Nat /\ state.marker \in Nat /\ snap.ledger \in 0..Len(log) /\ snap.ledger \in Nat
  BY Naturals
<1>3. Since(state) = IF state.marker = 0 THEN 0 ELSE state.marker - 1
  BY <1>2, SinceIs
<1>4. CASE todo'.review = "none"
  BY <1>1, <1>2, <1>4, SameGrows, OutFrame
<1>5. ASSUME todo'.review # "none"
      PROVE  OutInv'
  <2>1. PICK r \in IF SprintDone(state, known) /\ reviewHead /\ FreeReviews # {}
                   THEN FreeReviews ELSE {"none"} : todo'.review = r
    BY DEF Plan
  <2>2. r \in FreeReviews /\ SprintDone(state, known)
    BY <1>5, <2>1
  <2>3. r \in Reviews /\ ~InWindow(snap.ledger, r, state) /\ ~LastReviewOpen(state)
    BY <2>2 DEF FreeReviews, SprintDone
  <2>. DEFINE marker == NewMarker(state)
  <2>4. /\ marker \in 0..Len(log) /\ state.marker <= marker
        /\ \A s \in Reviews : DispatchId(snap.ledger, s, state) <= marker
        /\ marker # 0 => /\ log[marker].kind = "task" /\ log[marker].task = NewLast(state)
                         /\ NewLast(state) \in Reviews
    BY MarkerIs
  <2>. HIDE DEF marker
  <2>5. marker # 0 => Results(Len(log), NewLast(state)) # {}
    <3>1. marker # 0 => Results(snap.ledger, NewLast(state)) # {}
      BY <2>3, <2>4, NamesAssumption DEF LastReviewOpen
    <3>. QED
      BY <1>2, <3>1 DEF Results
  <2>6. ASSUME NEW m \in LoopReviews, ~(m <= marker)
        PROVE  \E j \in 1..Len(log) : OrchReview(j) /\ log[j].task = log[m].task
    <3>1. /\ m \in 1..Len(log) /\ log[m].kind = "task" /\ log[m].by = "loop" /\ log[m].task \in Reviews
      BY DEF LoopReviews
    <3>2. m <= snap.ledger
      BY <1>1, <3>1 DEF Phases
    <3>3. m \in Dispatches(snap.ledger, log[m].task, Since(state))
      BY <1>2, <1>3, <2>4, <2>6, <3>1, <3>2 DEF Dispatches
    <3>. DEFINE j == DispatchId(snap.ledger, log[m].task, state)
    <3>4. j \in Nat /\ j \in Dispatches(snap.ledger, log[m].task, Since(state))
      BY <1>2, <3>3, DispatchIdIs
    <3>5. j <= marker
      BY <2>4, <3>1
    <3>. HIDE DEF j
    <3>6. /\ j \in 1..Len(log) /\ j \in 1..m - 1 /\ log[j].kind = "task" /\ log[j].task = log[m].task
          /\ ~(j < state.marker)
      BY <1>2, <1>3, <2>4, <2>6, <3>1, <3>4, <3>5 DEF Dispatches
    <3>7. log[j].by = "orch"
      BY <1>1, <3>6 DEF OutInv, FreshIds
    <3>. QED
      BY <3>1, <3>6, <3>7 DEF OrchReview
  <2>7. ASSUME NEW m \in LoopReviews
        PROVE  Settled(m, Len(log))
    <3>1. m \in 1..Len(log)
      BY DEF LoopReviews
    <3>2. CASE ~(m <= marker)
      BY <2>6, <3>2 DEF Settled
    <3>3. CASE m = marker
      BY <2>4, <2>5, <3>1, <3>3 DEF Settled
    <3>4. CASE m < marker
      <4>1. /\ marker \in 1..Len(log) /\ log[marker].kind = "task" /\ log[marker].task \in Reviews
            /\ log[marker].by \in {"orch", "loop", "worker"}
        <5>1. marker \in 1..Len(log)
          BY <1>2, <2>4, <3>1, <3>4
        <5>2. log[marker].by \in {"orch", "loop", "worker"}
          BY <5>1, MessagesIn
        <5>. QED
          BY <2>4, <5>1, <5>2
      <4>2. CASE log[marker].by = "orch"
        BY <3>4, <4>1, <4>2 DEF Settled, OrchReview
      <4>3. CASE log[marker].by = "loop"
        <5>1. Settled(m, marker)
          BY <3>4, <4>1, <4>3 DEF OutInv, OneOut, LoopReviews
        <5>2. 1..marker \subseteq 1..Len(log)
          BY <1>2, <4>1
        <5>. QED
          BY <5>1, <5>2 DEF Settled
      <4>. QED
        BY <4>1, <4>2, <4>3 DEF OutInv
    <3>. QED
      BY <1>2, <2>4, <3>1, <3>2, <3>3, <3>4
  <2>8. ASSUME NEW j \in 1..Len(log), log[j].kind = "task", log[j].task = r
        PROVE  j < saved.marker \/ log[j].by = "orch"
    <3>1. Dispatches(snap.ledger, r, Since(state)) = {}
      BY <1>2, <2>3, DispatchIdIs DEF InWindow
    <3>2. CASE log[j].by = "loop"
      <4>1. j <= snap.ledger
        BY <1>1, <2>8, <3>2 DEF Phases
      <4>2. ~(j > Since(state))
        BY <1>2, <1>3, <2>8, <3>1, <4>1 DEF Dispatches
      <4>. QED
        BY <1>1, <1>2, <1>3, <4>2
    <3>3. log[j].by \in {"orch", "loop"}
      BY <2>8, MessagesIn DEF OutInv
    <3>. QED
      BY <3>2, <3>3
  <2>9. /\ LoopReviews' = LoopReviews /\ \A m, n : Settled(m, n)' <=> Settled(m, n)
    BY <1>1 DEF LoopReviews, Settled, Results, OrchReview
  <2>10. OneOut' /\ NoneOut'
    BY <1>1, <2>7, <2>9 DEF OneOut, NoneOut, OutInv
  <2>11. FreshIds'
    BY <1>1, <2>1, <2>8, <2>9 DEF FreshIds, OutInv
  <2>. QED
    BY <1>1, <2>10, <2>11 DEF OutInv
<1>. QED
  BY <1>4, <1>5

LEMMA OutReview ==
  ASSUME LoopTypeOK, OutInv, NEW o \in {"ok", "rejected", "unanswered"}, Review(o)
  PROVE  OutInv'
<1>1. /\ LoopTypeOK' /\ Grows /\ todo.review \in Reviews /\ UNCHANGED saved /\ pc = "apply" /\ pc' = "apply"
      /\ \A n \in Len(log) + 1..Len(log') : n = Len(log) + 1
            /\ log'[n] = [kind |-> "task", task |-> todo.review, by |-> "loop"]
      /\ todo'.review = "none" /\ todo.review # "none"
  BY ReviewIs, NamesAssumption
<1>2. /\ Len(log) \in Nat /\ Len(log') \in Nat
      /\ \A n \in 1..Len(log') : n \in 1..Len(log) \/ n \in Len(log) + 1..Len(log')
      /\ \A n \in 1..Len(log) : n \in 1..Len(log') /\ log'[n] = log[n]
  BY <1>1 DEF Grows
<1>3. ASSUME NEW m \in LoopReviews'
      PROVE  \/ m \in LoopReviews /\ m \in 1..Len(log)
             \/ m = Len(log) + 1 /\ log'[m].task = todo.review
  BY <1>1, <1>2 DEF LoopReviews
<1>4. ASSUME NEW m \in LoopReviews', NEW n \in LoopReviews', m < n
      PROVE  Settled(m, n)'
  <2>1. n \in 1..Len(log')
    BY DEF LoopReviews
  <2>2. m \in LoopReviews /\ m \in 1..Len(log)
    BY <1>1, <1>2, <1>3, <1>4, <2>1
  <2>3. CASE n \in LoopReviews /\ n \in 1..Len(log)
    <3>1. Settled(m, n)
      BY <1>4, <2>2, <2>3 DEF OutInv, OneOut
    <3>2. n \in 0..Len(log) /\ n \in Nat /\ n <= Len(log')
      BY <1>2, <2>3
    <3>. QED
      BY <1>1, <2>2, <3>1, <3>2, SettledKept
  <2>4. CASE n = Len(log) + 1
    <3>1. Settled(m, Len(log))
      BY <1>1, <2>2 DEF OutInv, NoneOut
    <3>2. Len(log) \in 0..Len(log) /\ n \in Nat /\ Len(log) <= n /\ n <= Len(log')
      BY <1>2, <2>1, <2>4
    <3>. QED
      BY <1>1, <2>2, <3>1, <3>2, SettledKept
  <2>. QED
    BY <1>3, <2>3, <2>4
<1>5. ASSUME NEW m \in LoopReviews', NEW j \in 1..m - 1, log'[j].kind = "task",
             log'[j].task = log'[m].task
      PROVE  j < saved'.marker \/ log'[j].by = "orch"
  <2>1. m \in 1..Len(log')
    BY DEF LoopReviews
  <2>2. j \in 1..Len(log) /\ log'[j] = log[j]
    BY <1>1, <1>2, <2>1
  <2>3. CASE m \in LoopReviews /\ m \in 1..Len(log)
    <3>1. log'[m] = log[m]
      BY <1>2, <2>3
    <3>2. j < saved.marker \/ log[j].by = "orch"
      BY <1>5, <2>2, <2>3, <3>1 DEF OutInv, FreshIds
    <3>. QED
      BY <1>1, <2>2, <3>2
  <2>4. CASE log'[m].task = todo.review
    <3>1. j < saved.marker \/ log[j].by = "orch"
      BY <1>1, <1>5, <2>2, <2>4 DEF OutInv, FreshIds
    <3>. QED
      BY <1>1, <2>2, <3>1
  <2>. QED
    BY <1>3, <2>3, <2>4
<1>6. OneOut' /\ NoneOut' /\ FreshIds'
  BY <1>1, <1>4, <1>5 DEF OneOut, NoneOut, FreshIds
<1>7. \A n \in 1..Len(log') : log'[n].kind = "task" => log'[n].by # "worker"
  BY <1>1, <1>2 DEF OutInv
<1>. QED
  BY <1>1, <1>6, <1>7 DEF OutInv

LEMMA OutNext == LoopTypeOK /\ Phases /\ OutInv /\ [Next]_vars => OutInv'
<1>. SUFFICES ASSUME LoopTypeOK, Phases, OutInv, [Next]_vars
              PROVE  OutInv'
  OBVIOUS
<1>0. Len(log) \in Nat /\ saved.marker \in Nat /\ saved.marker <= state.marker /\ state.marker \in Nat
  BY Naturals DEF Phases
<1>1. CASE Environment
  <2>1. /\ Grows /\ Len(log') = Len(log) + 1 /\ UNCHANGED <<saved, pc, todo>>
        /\ log'[Len(log) + 1].kind = "task" => log'[Len(log) + 1].by = "orch"
    BY <1>1, EnvironmentIs DEF loopVars
  <2>2. \A n \in Len(log) + 1..Len(log') : n = Len(log) + 1
    BY <1>0, <2>1
  <2>. QED
    BY <1>0, <2>1, <2>2, OutFrame
<1>2. CASE ReadLedger \/ ReadHeld \/ PrintWakes \/ Crash
  <2>1. UNCHANGED <<log, saved>> /\ todo'.review \in {todo.review, "none"} /\ pc' # "new"
    BY <1>2 DEF ReadLedger, ReadHeld, PrintWakes, Crash, NoTodo
  <2>. QED
    BY <1>0, <2>1, SameGrows, OutFrame
<1>3. CASE Save
  <2>1. UNCHANGED <<log, todo>> /\ saved' = state /\ pc' # "new"
    BY <1>3 DEF Save
  <2>. QED
    BY <1>0, <2>1, SameGrows, OutFrame
<1>4. CASE FirstRun
  <2>1. UNCHANGED <<log, todo>> /\ saved' = state' /\ pc' # "new" /\ pc = "new"
    BY <1>4 DEF FirstRun
  <2>2. saved'.marker \in Nat /\ saved.marker <= saved'.marker
    <3>1. (state.marker \in Nat)'
      BY <1>4, FirstRunTypes DEF LoopTypeOK, StateOK, State
    <3>. QED
      BY <2>1, <3>1 DEF OutInv
  <2>. QED
    BY <2>1, <2>2, SameGrows, OutFrame
<1>5. ASSUME NEW key \in todo.wake, NEW posted \in BOOLEAN, Wake(key, posted)
      PROVE  OutInv'
  <2>1. UNCHANGED <<log, saved, pc>> /\ pc = "apply" /\ todo'.review = todo.review
    BY <1>5 DEF Wake, LoopTypeOK
  <2>. QED
    BY <1>0, <2>1, SameGrows, OutFrame
<1>6. ASSUME NEW o \in {"ok", "rejected", "unanswered"}, NEW t \in Tasks, Release(t, o)
      PROVE  OutInv'
  <2>1. /\ Grows /\ UNCHANGED <<saved, pc>> /\ pc = "apply" /\ todo'.review = todo.review
        /\ \A n \in Len(log) + 1..Len(log') : n = Len(log) + 1
              /\ log'[n] = [kind |-> "task", task |-> t, by |-> "loop"]
    BY <1>6, ReleaseIs
  <2>2. t \notin Reviews
    BY NamesAssumption
  <2>. QED
    BY <1>0, <2>1, <2>2, OutFrame
<1>7. CASE UNCHANGED vars
  <2>1. UNCHANGED <<log, saved, pc, todo>>
    BY <1>7 DEF vars, loopVars
  <2>. QED
    BY <1>0, <2>1, SameGrows, OutFrame
<1>. QED
  BY <1>1, <1>2, <1>3, <1>4, <1>5, <1>6, <1>7, NextIs, OutPlan, OutReview DEF Quiet

LEMMA OutOne == OutInv => OneReviewOut
<1>. SUFFICES ASSUME OutInv, NEW m \in LoopReviews, NEW n \in LoopReviews, m < n
              PROVE  \/ Results(Len(log), log[m].task) # {}
                     \/ \E k \in 1..n : /\ log[k].kind = "task" /\ log[k].by = "orch"
                                        /\ log[k].task \in Reviews
                                        /\ (m < k \/ log[k].task = log[m].task)
  BY DEF OneReviewOut, LoopReviews
<1>1. Settled(m, n)
  BY DEF OutInv, OneOut
<1>. QED
  BY <1>1 DEF Settled, OrchReview

----------------------------------------------------------------------------
(* Releases.  A task's releases number no more than its held-tasks that    *)
(* were read, and what is queued has one of these to spare - or the ledger *)
(* of the next tick shows a release, and the queued entry will be dropped. *)
Parked(t, l) == {n \in 1..l : log[n].kind = "held" /\ log[n].task = t}
Spare(t, st) ==
  Cardinality(Sent(t)) + (IF st.held[t] = 0 THEN 0 ELSE 1) <= Cardinality(Parked(t, st.heldSeen))
SeesRelease(t, st) == \E n \in Sent(t) : n > Since(st)

Released(t)      == Cardinality(Sent(t)) <= Cardinality(Parked(t, Len(log)))
SpareInFile(t)   == SeesRelease(t, saved) \/ Spare(t, saved)
SpareInMemory(t) == SeesRelease(t, state) \/ Spare(t, state)
SpareInRead(t)   == pc = "read" /\ snap.gotHeld =>
  Cardinality(Sent(t)) <= Cardinality(Parked(t, Highest({state.heldSeen} \cup snap.held)))
SpareInTodo(t)   ==
  /\ t \in todo.release => state.held[t] # 0 /\ Spare(t, state)
  /\ todo.review # "none" => t \notin todo.release /\ Spare(t, state)

ReleaseInv == \A t \in Tasks :
  /\ Released(t) /\ SpareInFile(t) /\ SpareInMemory(t) /\ SpareInRead(t) /\ SpareInTodo(t)
  /\ pc = "new" => Sent(t) = {}

LEMMA Counts ==
  ASSUME LoopTypeOK, NEW t
  PROVE  /\ IsFiniteSet(Sent(t)) /\ Cardinality(Sent(t)) \in Nat
         /\ \A l \in 0..Len(log) : IsFiniteSet(Parked(t, l)) /\ Cardinality(Parked(t, l)) \in Nat
<1>1. Len(log) \in Nat
  BY Naturals
<1>2. ASSUME NEW l \in 0..Len(log), NEW S \in SUBSET (1..l)
      PROVE  IsFiniteSet(S) /\ Cardinality(S) \in Nat
  <2>1. IsFiniteSet(1..l)
    BY FS_Interval
  <2>2. IsFiniteSet(S)
    BY <2>1, FS_Subset
  <2>. QED
    BY <2>2, FS_CardinalityType
<1>3. Len(log) \in 0..Len(log) /\ Sent(t) \in SUBSET (1..Len(log))
  BY <1>1 DEF Sent
<1>4. \A l : Parked(t, l) \in SUBSET (1..l)
  BY DEF Parked
<1>. QED
  BY <1>2, <1>3, <1>4

LEMMA ParkedGrows ==
  ASSUME LoopTypeOK, NEW t, NEW k \in 0..Len(log), NEW l \in 0..Len(log), k <= l
  PROVE  /\ Cardinality(Parked(t, k)) <= Cardinality(Parked(t, l))
         /\ \A n \in Parked(t, l) : k < n => Cardinality(Parked(t, k)) + 1 <= Cardinality(Parked(t, l))
<1>1. /\ IsFiniteSet(Parked(t, l)) /\ IsFiniteSet(Parked(t, k))
      /\ Cardinality(Parked(t, l)) \in Nat /\ Cardinality(Parked(t, k)) \in Nat
  BY Counts
<1>2. Parked(t, k) \in SUBSET Parked(t, l)
  BY DEF Parked
<1>3. Cardinality(Parked(t, k)) <= Cardinality(Parked(t, l))
  BY <1>1, <1>2, FS_Subset
<1>4. ASSUME NEW n \in Parked(t, l), k < n
      PROVE  Cardinality(Parked(t, k)) + 1 <= Cardinality(Parked(t, l))
  <2>1. n \notin Parked(t, k)
    BY <1>4 DEF Parked
  <2>2. Cardinality(Parked(t, k)) # Cardinality(Parked(t, l))
    BY <1>1, <1>2, <1>4, <2>1, FS_Subset
  <2>. QED
    BY <1>1, <1>3, <2>2
<1>. QED
  BY <1>3, <1>4

(* A step that sends no release of a task and reads nothing more. *)
LEMMA SpareKept ==
  ASSUME LoopTypeOK, Grows, NEW t \in Tasks, Sent(t)' = Sent(t)
  PROVE  /\ Released(t) => Released(t)'
         /\ saved' = saved /\ SpareInFile(t) => SpareInFile(t)'
         /\ saved' = state /\ SpareInMemory(t) => SpareInFile(t)'
         /\ state' = saved /\ SpareInFile(t) => SpareInMemory(t)'
         /\ state'.held[t] = state.held[t] /\ state'.heldSeen = state.heldSeen =>
              (Spare(t, state) => Spare(t, state)')
         /\ state'.marker = state.marker => (SeesRelease(t, state) => SeesRelease(t, state)')
<1>1. /\ Len(log) \in Nat /\ Len(log') \in Nat
      /\ saved.heldSeen \in 0..Len(log) /\ state.heldSeen \in 0..Len(log)
  BY Naturals DEF Grows
<1>2. \A l \in 0..Len(log) :
        {n \in 1..l : log'[n].kind = "held" /\ log'[n].task = t} = Parked(t, l)
  BY <1>1 DEF Parked, Grows
<1>3. Cardinality(Sent(t))' = Cardinality(Sent(t))
  OBVIOUS
<1>4. Released(t) => Released(t)'
  <2>1. Parked(t, Len(log)) \in SUBSET {n \in 1..Len(log') : log'[n].kind = "held" /\ log'[n].task = t}
    BY <1>1 DEF Parked, Grows
  <2>. DEFINE P == {n \in 1..Len(log') : log'[n].kind = "held" /\ log'[n].task = t}
  <2>2. IsFiniteSet(1..Len(log'))
    BY <1>1, FS_Interval
  <2>3. IsFiniteSet(P)
    BY <2>2, FS_Subset
  <2>4. Cardinality(P) \in Nat
    BY <2>3, FS_CardinalityType
  <2>5. Cardinality(Parked(t, Len(log))) <= Cardinality(P)
    BY <2>1, <2>3, FS_Subset
  <2>6. Cardinality(Parked(t, Len(log))) \in Nat /\ Cardinality(Sent(t)) \in Nat
    BY <1>1, Counts
  <2>7. Parked(t, Len(log))' = P
    BY DEF Parked
  <2>. HIDE DEF P
  <2>. QED
    BY <1>3, <2>4, <2>5, <2>6, <2>7 DEF Released
<1>5. saved' = saved => (Spare(t, saved) => Spare(t, saved)')
  <2>1. saved' = saved => Parked(t, saved.heldSeen)' = Parked(t, saved.heldSeen)
    BY <1>1, <1>2 DEF Parked
  <2>. QED
    BY <1>3, <2>1 DEF Spare
<1>6. saved' = state => (Spare(t, state) => Spare(t, saved)')
  <2>1. saved' = state => Parked(t, saved.heldSeen)' = Parked(t, state.heldSeen)
    BY <1>1, <1>2 DEF Parked
  <2>. QED
    BY <1>3, <2>1 DEF Spare
<1>7. state' = saved => (Spare(t, saved) => Spare(t, state)')
  <2>1. state' = saved => Parked(t, state.heldSeen)' = Parked(t, saved.heldSeen)
    BY <1>1, <1>2 DEF Parked
  <2>. QED
    BY <1>3, <2>1 DEF Spare
<1>8. ASSUME state'.held[t] = state.held[t], state'.heldSeen = state.heldSeen, Spare(t, state)
      PROVE  Spare(t, state)'
  <2>1. Parked(t, state.heldSeen)' = Parked(t, state.heldSeen)
    BY <1>1, <1>2, <1>8 DEF Parked
  <2>. QED
    BY <1>3, <1>8, <2>1 DEF Spare
<1>9. /\ saved' = saved => (SeesRelease(t, saved) => SeesRelease(t, saved)')
      /\ saved' = state => (SeesRelease(t, state) => SeesRelease(t, saved)')
      /\ state' = saved => (SeesRelease(t, saved) => SeesRelease(t, state)')
      /\ state'.marker = state.marker => (SeesRelease(t, state) => SeesRelease(t, state)')
  BY DEF SeesRelease, Since, Highest
<1>. QED
  BY <1>4, <1>5, <1>6, <1>7, <1>8, <1>9 DEF SpareInFile, SpareInMemory

LEMMA SpareReadNext ==
  ASSUME LoopTypeOK, Phases, [Next]_vars, NEW t \in Tasks, Released(t), SpareInRead(t)
  PROVE  SpareInRead(t)'
<1>0. /\ snap \in [ledger : 0..Len(log), held : SUBSET (1..Len(log)),
                   gotLedger : BOOLEAN, gotHeld : BOOLEAN]
      /\ Len(log) \in Nat /\ state.heldSeen \in 0..Len(log)
  BY Naturals DEF LoopTypeOK
<1>. DEFINE seen == Highest({state.heldSeen} \cup snap.held)
<1>1. seen \in 0..Len(log)
  <2>. DEFINE S == {state.heldSeen} \cup snap.held
  <2>1. S \in SUBSET (0..Len(log))
    BY <1>0
  <2>2. Highest(S) \in 0..Len(log)
    <3>. HIDE DEF S
    <3>. QED
      BY <1>0, <2>1, HighestIn
  <2>. QED
    BY <2>2
<1>2. ASSUME Grows, Sent(t)' = Sent(t), state' = state, pc' = pc, snap'.held = snap.held,
             snap'.gotHeld = snap.gotHeld
      PROVE  SpareInRead(t)'
  <2>1. seen' = seen
    BY <1>2 DEF Highest
  <2>. HIDE DEF seen
  <2>2. Parked(t, seen)' = Parked(t, seen)
    BY <1>1, <1>2, <2>1 DEF Parked, Grows
  <2>3. Cardinality(Sent(t))' = Cardinality(Sent(t))
    BY <1>2
  <2>4. Cardinality(Parked(t, seen))' = Cardinality(Parked(t, seen))
    BY <2>2
  <2>5. (SpareInRead(t) <=> (pc = "read" /\ snap.gotHeld => Cardinality(Sent(t)) <= Cardinality(Parked(t, seen))))
        /\ (SpareInRead(t)' <=> (pc = "read" /\ snap.gotHeld => Cardinality(Sent(t)) <= Cardinality(Parked(t, seen)))')
    BY DEF SpareInRead, seen
  <2>. QED
    BY <1>2, <2>3, <2>4, <2>5
<1>3. CASE Environment
  <2>1. /\ Grows /\ UNCHANGED <<pc, state, snap>> /\ Len(log') = Len(log) + 1
        /\ log'[Len(log) + 1].kind = "task" => log'[Len(log) + 1].by = "orch"
    BY <1>3, EnvironmentIs DEF loopVars
  <2>2. Sent(t)' = Sent(t)
    BY <2>1 DEF Sent, Grows
  <2>. QED
    BY <1>2, <2>1, <2>2
<1>4. CASE ReadLedger
  <2>1. snap'.held = snap.held /\ snap'.gotHeld = snap.gotHeld /\ UNCHANGED <<log, state, pc>>
    BY <1>0, <1>4 DEF ReadLedger
  <2>2. Sent(t)' = Sent(t)
    BY <2>1 DEF Sent
  <2>. QED
    BY <1>2, <2>1, <2>2, SameGrows
<1>5. CASE ReadHeld
  <2>. DEFINE fresh == {n \in state.heldSeen + 1..Len(log) : log[n].kind = "held"}
              S == {state.heldSeen} \cup fresh
  <2>1. snap'.held = fresh /\ UNCHANGED <<log, state>>
    BY <1>0, <1>5 DEF ReadHeld
  <2>2. S \in SUBSET (0..Len(log)) /\ state.heldSeen \in S
    BY <1>0
  <2>3. Highest(S) \in 0..Len(log) /\ \A k \in S : k <= Highest(S)
    <3>. HIDE DEF S
    <3>. QED
      BY <1>0, <2>2, HighestIn
  <2>4. ASSUME NEW n \in Parked(t, Len(log))
        PROVE  n \in Parked(t, Highest(S))
    <3>1. n \in 1..Len(log) /\ log[n].kind = "held" /\ log[n].task = t
      BY DEF Parked
    <3>2. n <= state.heldSeen \/ n \in S
      BY <1>0, <3>1
    <3>. HIDE DEF S
    <3>3. n <= Highest(S)
      BY <1>0, <2>2, <2>3, <3>1, <3>2
    <3>. QED
      BY <1>0, <2>3, <3>1, <3>3 DEF Parked
  <2>. HIDE DEF S
  <2>5. Parked(t, Len(log)) = Parked(t, Highest(S))
    BY <1>0, <2>3, <2>4 DEF Parked
  <2>6. Cardinality(Sent(t)) <= Cardinality(Parked(t, Highest(S)))
    BY <2>5 DEF Released
  <2>7. Parked(t, Highest({state.heldSeen} \cup snap.held))' = Parked(t, Highest(S))
    BY <2>1 DEF Parked, S, Highest
  <2>8. Cardinality(Parked(t, Highest({state.heldSeen} \cup snap.held)))' = Cardinality(Parked(t, Highest(S)))
        /\ Cardinality(Sent(t))' = Cardinality(Sent(t))
    BY <2>1, <2>7 DEF Sent
  <2>. QED
    BY <2>6, <2>8 DEF SpareInRead
<1>6. CASE Save \/ PrintWakes \/ FirstRun \/ Crash
  <2>1. snap' = NoSnap
    BY <1>6 DEF Save, PrintWakes, FirstRun, Crash, Phases
  <2>. QED
    BY <2>1 DEF SpareInRead, NoSnap
<1>7. ASSUME pc' = "apply"
      PROVE  SpareInRead(t)'
  BY <1>7 DEF SpareInRead
<1>8. CASE UNCHANGED vars
  <2>1. UNCHANGED <<log, pc, state, snap>>
    BY <1>8 DEF vars, loopVars
  <2>2. Sent(t)' = Sent(t)
    BY <2>1 DEF Sent
  <2>. QED
    BY <1>2, <2>1, <2>2, SameGrows
<1>9. ASSUME NEW known \in BOOLEAN, Plan(known)
      PROVE  pc' = "apply"
  BY <1>9 DEF Plan
<1>10. ASSUME NEW key \in todo.wake, NEW posted \in BOOLEAN, Wake(key, posted)
      PROVE  pc' = "apply"
  BY <1>10 DEF Wake
<1>11. ASSUME NEW o \in {"ok", "rejected", "unanswered"}, Review(o) \/ \E u \in Tasks : Release(u, o)
      PROVE  pc' = "apply"
  BY <1>11 DEF Review, Release
<1>. QED
  BY <1>3, <1>4, <1>5, <1>6, <1>7, <1>8, <1>9, <1>10, <1>11, NextIs DEF Quiet

LEMMA SparePlan ==
  ASSUME LoopTypeOK, Phases, HeldRead, ReleaseInv, NEW known \in BOOLEAN, Plan(known), NEW t \in Tasks
  PROVE  SpareInMemory(t)' /\ SpareInTodo(t)'
<1>. DEFINE S == {state.heldSeen} \cup snap.held
<1>1. /\ UNCHANGED log /\ pc = "read" /\ state = saved /\ snap.gotLedger /\ snap.gotHeld
      /\ state'.held[t] = Held(t, known) /\ state'.heldSeen = Highest(S)
  BY Naturals DEF Plan, Phases, State
<1>2. /\ Len(log) \in Nat /\ state.marker \in Nat /\ snap.ledger \in 0..Len(log) /\ snap.ledger \in Nat
      /\ state.heldSeen \in 0..Len(log) /\ snap.held \in SUBSET (1..Len(log))
  BY Naturals
<1>3. S \in SUBSET (0..Len(log)) /\ state.heldSeen \in S
  BY <1>2
<1>4. Highest(S) \in 0..Len(log) /\ Highest(S) \in S /\ \A k \in S : k <= Highest(S)
  <2>. HIDE DEF S
  <2>. QED
    BY <1>2, <1>3, HighestIn
<1>5. Cardinality(Sent(t)) <= Cardinality(Parked(t, Highest(S)))
  BY <1>1 DEF ReleaseInv, SpareInRead
<1>6. /\ Cardinality(Sent(t)) \in Nat /\ Cardinality(Parked(t, Highest(S))) \in Nat
      /\ Cardinality(Parked(t, state.heldSeen)) \in Nat
  BY <1>2, <1>4, Counts
<1>7. ASSUME Held(t, known) # 0
      PROVE  Cardinality(Sent(t)) + 1 <= Cardinality(Parked(t, Highest(S)))
  <2>1. known /\ ~ByHand(t) /\ Held(t, known) = Queue(t)
    BY <1>7 DEF Held
  <2>2. Dispatches(snap.ledger, t, Since(state)) = {}
    BY <1>2, <2>1, DispatchIdIs DEF ByHand
  <2>3. ~SeesRelease(t, state)
    <3>. SUFFICES ASSUME NEW n \in Sent(t), n > Since(state)
                  PROVE  FALSE
      BY DEF SeesRelease
    <3>1. n \in 1..Len(log) /\ log[n].kind = "task" /\ log[n].task = t /\ n <= snap.ledger
      BY <1>1 DEF Sent, Phases
    <3>2. Since(state) \in Nat
      BY <1>2, SinceIs
    <3>3. n \in Dispatches(snap.ledger, t, Since(state))
      BY <1>2, <3>1, <3>2 DEF Dispatches
    <3>. QED
      BY <2>2, <3>3
  <2>4. Spare(t, state)
    BY <2>3 DEF ReleaseInv, SpareInMemory
  <2>. DEFINE fresh == {n \in snap.held : log[n].task = t /\ t \notin state.released}
  <2>5. CASE fresh = {}
    <3>1. state.held[t] # 0
      BY <1>7, <2>1, <2>5 DEF Queue
    <3>2. Cardinality(Sent(t)) + 1 <= Cardinality(Parked(t, state.heldSeen))
      BY <2>4, <3>1 DEF Spare
    <3>3. Cardinality(Parked(t, state.heldSeen)) <= Cardinality(Parked(t, Highest(S)))
      BY <1>2, <1>3, <1>4, ParkedGrows
    <3>. QED
      BY <1>6, <3>2, <3>3
  <2>6. ASSUME NEW n \in fresh
        PROVE  Cardinality(Sent(t)) + 1 <= Cardinality(Parked(t, Highest(S)))
    <3>1. n \in S /\ n \in 1..Len(log) /\ log[n].task = t /\ log[n].kind = "held"
      BY <1>2 DEF LoopTypeOK
    <3>2. n \in Parked(t, Highest(S)) /\ n <= Highest(S)
      <4>1. n <= Highest(S) /\ Highest(S) \in 0..Len(log)
        BY <1>4, <3>1
      <4>. HIDE DEF S
      <4>. QED
        BY <1>2, <3>1, <4>1 DEF Parked
    <3>3. state.heldSeen < n
      BY <1>1 DEF HeldRead
    <3>4. Cardinality(Parked(t, state.heldSeen)) + 1 <= Cardinality(Parked(t, Highest(S)))
      BY <1>2, <1>3, <1>4, <3>2, <3>3, ParkedGrows
    <3>5. Cardinality(Sent(t)) <= Cardinality(Parked(t, state.heldSeen))
      BY <1>6, <2>4 DEF Spare
    <3>. QED
      BY <1>6, <3>4, <3>5
  <2>. QED
    BY <2>5, <2>6
<1>8. Spare(t, state)'
  <2>1. Parked(t, state.heldSeen)' = Parked(t, Highest(S))
    BY <1>1 DEF Parked
  <2>2. Cardinality(Parked(t, state.heldSeen))' = Cardinality(Parked(t, Highest(S)))
        /\ Cardinality(Sent(t))' = Cardinality(Sent(t))
    BY <1>1, <2>1 DEF Sent
  <2>. HIDE DEF S
  <2>. QED
    BY <1>1, <1>5, <1>6, <1>7, <2>2 DEF Spare
<1>9. t \in todo'.release => Held(t, known) # 0
  BY DEF Plan, Releases
<1>10. todo'.review # "none" => Held(t, known) = 0
  BY DEF Plan, SprintDone
<1>. QED
  BY <1>1, <1>8, <1>9, <1>10 DEF SpareInMemory, SpareInTodo

(* A release takes the place that its entry had to spare. *)
LEMMA SpareRelease ==
  ASSUME LoopTypeOK, Phases, ReleaseInv, NEW o \in {"ok", "rejected", "unanswered"}, NEW u \in Tasks,
         Release(u, o), NEW t \in Tasks
  PROVE  Released(t)' /\ SpareInFile(t)' /\ SpareInMemory(t)' /\ SpareInTodo(t)'
<1>1. /\ Grows /\ u \in todo.release /\ UNCHANGED saved
      /\ \A n \in Len(log) + 1..Len(log') : n = Len(log) + 1
           /\ log'[n] = [kind |-> "task", task |-> u, by |-> "loop"]
      /\ o # "rejected" => Len(log') = Len(log) + 1
      /\ state'.marker = state.marker /\ state'.heldSeen = state.heldSeen
      /\ state'.held[t] = IF o = "ok" /\ t = u THEN 0 ELSE state.held[t]
      /\ todo'.release = todo.release \ {u} /\ todo'.review = todo.review
  BY ReleaseIs
<1>2. /\ Len(log) \in Nat /\ Len(log') \in Nat /\ state.heldSeen \in 0..Len(log)
      /\ state.marker \in 0..Len(log) /\ saved.marker \in 0..Len(log)
  BY <1>1, Naturals DEF Grows
<1>3. todo.review = "none"
  BY <1>1 DEF ReleaseInv, SpareInTodo
<1>4. ASSUME t # u \/ o = "rejected"
      PROVE  Released(t)' /\ SpareInFile(t)' /\ SpareInMemory(t)' /\ SpareInTodo(t)'
  <2>1. Sent(t)' = Sent(t)
    <3>1. CASE o = "rejected"
      BY <3>1 DEF Sent, Release
    <3>2. CASE t # u
      <4>1. \A n \in Len(log) + 1..Len(log') : log'[n].task # t
        BY <1>1, <3>2
      <4>. QED
        BY <1>1, <4>1 DEF Sent, Grows
    <3>. QED
      BY <1>4, <3>1, <3>2
  <2>2. state'.held[t] = state.held[t]
    BY <1>1, <1>4
  <2>3. Released(t)' /\ SpareInFile(t)' /\ SpareInMemory(t)' /\ (Spare(t, state) => Spare(t, state)')
    BY <1>1, <2>1, <2>2, SpareKept DEF ReleaseInv, SpareInMemory
  <2>. QED
    BY <1>1, <1>3, <2>2, <2>3 DEF ReleaseInv, SpareInTodo
<1>5. ASSUME t = u, o # "rejected"
      PROVE  Released(t)' /\ SpareInFile(t)' /\ SpareInMemory(t)' /\ SpareInTodo(t)'
  <2>1. Len(log') = Len(log) + 1 /\ log'[Len(log) + 1] = [kind |-> "task", task |-> t, by |-> "loop"]
    BY <1>1, <1>2, <1>5
  <2>2. Sent(t)' = Sent(t) \cup {Len(log) + 1} /\ Len(log) + 1 \notin Sent(t)
    BY <1>1, <1>2, <2>1 DEF Sent, Grows
  <2>3. IsFiniteSet(Sent(t)) /\ Cardinality(Sent(t)) \in Nat
        /\ Cardinality(Parked(t, state.heldSeen)) \in Nat /\ Cardinality(Parked(t, Len(log))) \in Nat
    <3>1. Len(log) \in 0..Len(log)
      BY <1>2
    <3>. QED
      BY <1>2, <3>1, Counts
  <2>4. Cardinality(Sent(t) \cup {Len(log) + 1}) = Cardinality(Sent(t)) + 1
    BY <2>2, <2>3, FS_AddElement
  <2>5. Cardinality(Sent(t))' = Cardinality(Sent(t)) + 1
    BY <2>2, <2>4
  <2>6. Cardinality(Sent(t)) + 1 <= Cardinality(Parked(t, state.heldSeen))
    BY <1>1, <1>5 DEF ReleaseInv, SpareInTodo, Spare
  <2>7. /\ Parked(t, Len(log))' = Parked(t, Len(log))
        /\ Parked(t, state.heldSeen)' = Parked(t, state.heldSeen)
    <3>1. \A n \in 1..Len(log') : log'[n].kind = "held" => n \in 1..Len(log)
      BY <1>2, <2>1
    <3>. QED
      BY <1>1, <1>2, <3>1 DEF Parked, Grows
  <2>8. Cardinality(Parked(t, state.heldSeen)) <= Cardinality(Parked(t, Len(log)))
    BY <1>2, ParkedGrows
  <2>9. Released(t)'
    <3>1. Cardinality(Parked(t, Len(log)))' = Cardinality(Parked(t, Len(log)))
      BY <2>7
    <3>. QED
      BY <2>3, <2>5, <2>6, <2>8, <3>1 DEF Released
  <2>10. SeesRelease(t, saved)'
    <3>1. Since(saved)' = Since(saved) /\ Since(saved) < Len(log) + 1
      BY <1>1, <1>2, SinceIs DEF Since, Highest
    <3>. QED
      BY <2>2, <3>1 DEF SeesRelease
  <2>11. SeesRelease(t, state)'
    <3>1. Since(state)' = Since(state) /\ Since(state) < Len(log) + 1
      BY <1>1, <1>2, SinceIs DEF Since, Highest
    <3>. QED
      BY <2>2, <3>1 DEF SeesRelease
  <2>. QED
    BY <1>1, <1>3, <1>5, <2>9, <2>10, <2>11 DEF SpareInFile, SpareInMemory, SpareInTodo
<1>. QED
  BY <1>4, <1>5

LEMMA ReleaseNext ==
  LoopTypeOK /\ Phases /\ HeldRead /\ ReleaseInv /\ [Next]_vars => ReleaseInv'
<1>. SUFFICES ASSUME LoopTypeOK, Phases, HeldRead, ReleaseInv, [Next]_vars, NEW t \in Tasks
              PROVE  /\ Released(t)' /\ SpareInFile(t)' /\ SpareInMemory(t)' /\ SpareInRead(t)'
                     /\ SpareInTodo(t)' /\ (pc = "new" => Sent(t) = {})'
  BY DEF ReleaseInv
<1>0. /\ Released(t) /\ SpareInFile(t) /\ SpareInMemory(t) /\ SpareInRead(t) /\ SpareInTodo(t)
      /\ pc = "new" => Sent(t) = {}
  BY DEF ReleaseInv
<1>1. SpareInRead(t)'
  BY <1>0, SpareReadNext
<1>2. CASE Environment
  <2>1. /\ Grows /\ UNCHANGED <<saved, pc, state, todo>> /\ Len(log') = Len(log) + 1
        /\ log'[Len(log) + 1].kind = "task" => log'[Len(log) + 1].by = "orch"
    BY <1>2, EnvironmentIs DEF loopVars
  <2>2. Sent(t)' = Sent(t)
    BY <2>1 DEF Sent, Grows
  <2>4. Released(t)' /\ SpareInFile(t)'
    BY <1>0, <2>1, <2>2, SpareKept
  <2>5. (Spare(t, state) => Spare(t, state)') /\ (SeesRelease(t, state) => SeesRelease(t, state)')
    BY <2>1, <2>2, SpareKept
  <2>. QED
    BY <1>0, <1>1, <2>1, <2>2, <2>4, <2>5 DEF SpareInMemory, SpareInTodo
<1>3. CASE ReadLedger \/ ReadHeld \/ PrintWakes \/ UNCHANGED vars
  <2>1. UNCHANGED <<log, saved, state, todo>> /\ (pc' = "new" => pc = "new")
    BY <1>3 DEF ReadLedger, ReadHeld, PrintWakes, vars, loopVars
  <2>2. Sent(t)' = Sent(t) /\ Grows
    BY <2>1, SameGrows DEF Sent
  <2>3. Released(t)' /\ SpareInFile(t)'
    BY <1>0, <2>1, <2>2, SpareKept
  <2>4. (Spare(t, state) => Spare(t, state)') /\ (SeesRelease(t, state) => SeesRelease(t, state)')
    BY <2>1, <2>2, SpareKept
  <2>. QED
    BY <1>0, <1>1, <2>1, <2>2, <2>3, <2>4 DEF SpareInMemory, SpareInTodo
<1>4. CASE Save
  <2>1. UNCHANGED <<log, state, todo>> /\ saved' = state /\ pc' # "new"
    BY <1>4 DEF Save
  <2>2. Sent(t)' = Sent(t) /\ Grows
    BY <2>1, SameGrows DEF Sent
  <2>3. Released(t)' /\ SpareInFile(t)'
    BY <1>0, <2>1, <2>2, SpareKept
  <2>4. (Spare(t, state) => Spare(t, state)') /\ (SeesRelease(t, state) => SeesRelease(t, state)')
    BY <2>1, <2>2, SpareKept
  <2>. QED
    BY <1>0, <1>1, <2>1, <2>3, <2>4 DEF SpareInMemory, SpareInTodo
<1>5. CASE Crash
  <2>1. UNCHANGED <<log, saved>> /\ state' = saved /\ todo' = NoTodo /\ pc' # "new"
    BY <1>5 DEF Crash
  <2>2. Sent(t)' = Sent(t) /\ Grows
    BY <2>1, SameGrows DEF Sent
  <2>3. Released(t)' /\ SpareInFile(t)' /\ SpareInMemory(t)'
    BY <1>0, <2>1, <2>2, SpareKept
  <2>4. SpareInTodo(t)'
    BY <2>1 DEF SpareInTodo, NoTodo
  <2>. QED
    BY <1>1, <2>1, <2>3, <2>4
<1>6. CASE FirstRun
  <2>1. /\ UNCHANGED <<log, todo>> /\ todo = NoTodo /\ saved' = state' /\ pc' # "new" /\ pc = "new"
        /\ state'.heldSeen = 0 /\ state'.held = [u \in Tasks |-> 0]
    BY <1>6 DEF FirstRun, Phases, Blank
  <2>2. Sent(t)' = Sent(t) /\ Sent(t) = {} /\ Grows
    BY <1>0, <2>1, SameGrows DEF Sent
  <2>3. Released(t)'
    BY <1>0, <2>2, SpareKept
  <2>4. Cardinality(Sent(t))' = 0 /\ Cardinality(Parked(t, state.heldSeen))' = 0
        /\ Cardinality(Parked(t, saved.heldSeen))' = 0
    <3>1. Parked(t, state.heldSeen)' = {} /\ Parked(t, saved.heldSeen)' = {}
      BY <2>1 DEF Parked
    <3>. QED
      BY <2>2, <3>1, FS_EmptySet
  <2>5. Spare(t, state)' /\ Spare(t, saved)'
    BY <2>1, <2>4 DEF Spare
  <2>. QED
    BY <1>1, <2>1, <2>3, <2>5 DEF SpareInFile, SpareInMemory, SpareInTodo, NoTodo
<1>7. ASSUME NEW known \in BOOLEAN, Plan(known)
      PROVE  /\ Released(t)' /\ SpareInFile(t)' /\ SpareInMemory(t)' /\ SpareInTodo(t)' /\ pc' # "new"
  <2>1. UNCHANGED <<log, saved>> /\ pc' # "new"
    BY <1>7 DEF Plan
  <2>2. Sent(t)' = Sent(t) /\ Grows
    BY <2>1, SameGrows DEF Sent
  <2>. QED
    BY <1>0, <1>7, <2>1, <2>2, SpareKept, SparePlan
<1>8. ASSUME NEW key \in todo.wake, NEW posted \in BOOLEAN, Wake(key, posted)
      PROVE  /\ Released(t)' /\ SpareInFile(t)' /\ SpareInMemory(t)' /\ SpareInTodo(t)' /\ pc' # "new"
  <2>1. /\ UNCHANGED <<log, saved>> /\ pc' # "new" /\ state'.marker = state.marker
        /\ state'.held = state.held /\ state'.heldSeen = state.heldSeen
    BY <1>8, Naturals DEF Wake, Surface, State
  <2>2. todo'.release = todo.release /\ todo'.review = todo.review
    BY <1>8 DEF Wake, LoopTypeOK
  <2>3. Sent(t)' = Sent(t) /\ Grows
    BY <2>1, SameGrows DEF Sent
  <2>4. Released(t)' /\ SpareInFile(t)'
    BY <1>0, <2>1, <2>3, SpareKept
  <2>5. (Spare(t, state) => Spare(t, state)') /\ (SeesRelease(t, state) => SeesRelease(t, state)')
    BY <2>1, <2>3, SpareKept
  <2>. QED
    BY <1>0, <2>1, <2>2, <2>4, <2>5 DEF SpareInMemory, SpareInTodo
<1>9. ASSUME NEW o \in {"ok", "rejected", "unanswered"}, NEW u \in Tasks, Release(u, o)
      PROVE  /\ Released(t)' /\ SpareInFile(t)' /\ SpareInMemory(t)' /\ SpareInTodo(t)' /\ pc' # "new"
  BY <1>9, SpareRelease DEF Release
<1>10. ASSUME NEW o \in {"ok", "rejected", "unanswered"}, Review(o)
       PROVE  /\ Released(t)' /\ SpareInFile(t)' /\ SpareInMemory(t)' /\ SpareInTodo(t)' /\ pc' # "new"
  <2>1. /\ Grows /\ todo.review \in Reviews /\ UNCHANGED <<saved, pc>> /\ pc = "apply"
        /\ \A n \in Len(log) + 1..Len(log') : n = Len(log) + 1
              /\ log'[n] = [kind |-> "task", task |-> todo.review, by |-> "loop"]
        /\ state'.heldSeen = state.heldSeen /\ state'.held = state.held
        /\ todo'.release = {} /\ todo'.review = "none"
    BY <1>10, ReviewIs
  <2>2. t # todo.review /\ todo.review # "none"
    BY <2>1, NamesAssumption
  <2>3. Sent(t)' = Sent(t)
    <3>1. \A n \in Len(log) + 1..Len(log') : log'[n].task # t
      BY <2>1, <2>2
    <3>. QED
      BY <2>1, <3>1 DEF Sent, Grows
  <2>4. Released(t)' /\ SpareInFile(t)'
    BY <1>0, <2>1, <2>3, SpareKept
  <2>5. Spare(t, state)'
    BY <1>0, <2>1, <2>2, <2>3, SpareKept DEF SpareInTodo
  <2>. QED
    BY <2>1, <2>4, <2>5 DEF SpareInMemory, SpareInTodo
<1>. QED
  BY <1>1, <1>2, <1>3, <1>4, <1>5, <1>6, <1>7, <1>8, <1>9, <1>10, NextIs DEF Quiet

----------------------------------------------------------------------------
(* Together. *)
LoopInv ==
  LoopTypeOK /\ Phases /\ WakeInv /\ ReviewInv /\ DepInv /\ HeldInv /\ OutInv /\ ReleaseInv

LEMMA LoopInvInit == Init => LoopInv
<1>. SUFFICES ASSUME Init
              PROVE  LoopInv
  OBVIOUS
<1>1. /\ log = <<>> /\ pc = "new" /\ saved = Blank /\ state = Blank /\ snap = NoSnap /\ todo = NoTodo
      /\ wakes = {} /\ told = {}
  BY DEF Init
<1>2. Len(log) = 0 /\ \A n : n \notin 1..Len(log)
  BY <1>1
<1>3. /\ Blank.marker = 0 /\ Blank.heldSeen = 0 /\ Blank.released = {} /\ Blank.surfaced = {}
      /\ \A t \in Tasks : Blank.held[t] = 0
  BY DEF Blank
<1>4. todo.release = {} /\ todo.review = "none" /\ todo.wake = {}
  BY <1>1 DEF NoTodo
<1>5. LoopTypeOK
  BY InitTypes
<1>6. Phases /\ WakeInv
  BY <1>1, <1>3 DEF Phases, WakeInv, WakeKept
<1>7. ReviewInv /\ DepInv
  BY <1>2, <1>4 DEF ReviewInv, AllReviewed, ScopeKnown, DepInv, DependenciesFirst, Sent
<1>8. HeldInv
  BY <1>1, <1>2, <1>3 DEF HeldInv, KeptInFile, KeptInMemory, HeldRead, HeldOf
<1>9. OutInv
  BY <1>1, <1>2, <1>3, <1>4 DEF OutInv, OneOut, NoneOut, FreshIds, LoopReviews
<1>10. ReleaseInv
  <2>1. \A t, l : Sent(t) = {} /\ (l = 0 => Parked(t, l) = {})
    BY <1>2 DEF Sent, Parked
  <2>2. Cardinality({}) = 0
    BY FS_EmptySet
  <2>3. \A t \in Tasks : Released(t) /\ Spare(t, saved) /\ Spare(t, state)
    <3>. TAKE t \in Tasks
    <3>1. /\ Sent(t) = {} /\ Parked(t, Len(log)) = {}
          /\ Parked(t, saved.heldSeen) = {} /\ Parked(t, state.heldSeen) = {}
      BY <1>1, <1>2, <1>3, <2>1
    <3>2. saved.held[t] = 0 /\ state.held[t] = 0
      BY <1>1, <1>3
    <3>. QED
      BY <2>2, <3>1, <3>2 DEF Released, Spare
  <2>. QED
    BY <1>1, <1>4, <2>1, <2>3 DEF ReleaseInv, SpareInFile, SpareInMemory, SpareInRead, SpareInTodo
<1>. QED
  BY <1>5, <1>6, <1>7, <1>8, <1>9, <1>10 DEF LoopInv

LEMMA LoopInvNext == LoopInv /\ [Next]_vars => LoopInv'
<1>. SUFFICES ASSUME LoopInv, [Next]_vars
              PROVE  LoopInv'
  OBVIOUS
<1>1. HeldRead
  BY DEF LoopInv, HeldInv
<1>. QED
  BY <1>1, TypesNext, PhasesNext, WakeNext, ReviewNext, DepNext, HeldNext, OutNext, ReleaseNext
     DEF LoopInv

LEMMA LoopInvAlways == Spec => []LoopInv
<1>. QED
  BY LoopInvInit, LoopInvNext, PTL DEF Spec

----------------------------------------------------------------------------
(* What tick, applyActions and saveState do to the loop's variables keeps  *)
(* their types, whatever is sent meanwhile and wherever the loop dies: a   *)
(* state's marker is always the dispatch of its last review, and what it   *)
(* holds back is a held-task of that task.                                 *)
THEOREM LoopTypeCorrect == Spec => []LoopTypeOK
<1>1. LoopInv => LoopTypeOK
  BY DEF LoopInv
<1>. QED
  BY <1>1, LoopInvAlways, PTL

(* However often the loop dies between a release and saveState, and        *)
(* whichever of its requests fail or lose their answer, it releases a task *)
(* no more often than the task was parked.                                 *)
THEOREM ReleasesOnce == Spec => []ReleasedOnce
<1>1. LoopInv => ReleasedOnce
  BY DEF LoopInv, ReleaseInv, Released, Parked, ReleasedOnce
<1>. QED
  BY <1>1, LoopInvAlways, PTL

(* planActions releases a task only when each of its dependencies has a    *)
(* PASS in the ledger, and that is so even though the releases are sent    *)
(* long after the reads.                                                   *)
THEOREM DependenciesComeFirst == Spec => []DependenciesFirst
<1>1. LoopInv => DependenciesFirst
  BY DEF LoopInv, DepInv
<1>. QED
  BY <1>1, LoopInvAlways, PTL

(* Of every held-task the state file keeps a trace until the task is       *)
(* dispatched or its refusal is told: no death of the loop, and no failed  *)
(* GET /workers, makes a parked task disappear.                            *)
THEOREM HeldNeverForgotten == Spec => []HeldNotForgotten
<1>1. LoopInv => HeldNotForgotten
  BY HeldTraced DEF LoopInv, HeldInv
<1>. QED
  BY <1>1, LoopInvAlways, PTL

(* The loop sends a review when its last one was answered - or when the    *)
(* orchestrator's own reviews have taken its place.                        *)
THEOREM OneReviewAtATime == Spec => []OneReviewOut
<1>1. LoopInv => OneReviewOut
  BY OutOne DEF LoopInv
<1>. QED
  BY <1>1, LoopInvAlways, PTL

(* The saved marker passes no dispatch that was not in the scope of a      *)
(* review, or out of sight of the tick that sent it.                       *)
THEOREM ReviewsCoverAll == Spec => []ReviewCoversAll
<1>1. LoopInv => ReviewCoversAll
  BY ReviewedAll DEF LoopInv, ReviewInv
<1>. QED
  BY <1>1, LoopInvAlways, PTL

(* A wake that saveState recorded as surfaced has been told or is about to *)
(* be printed, but for a failed note followed by a death.                  *)
THEOREM WakesKept == Spec => []WakeKept
<1>1. LoopInv => WakeKept
  BY DEF LoopInv, WakeInv
<1>. QED
  BY <1>1, LoopInvAlways, PTL
=============================================================================
