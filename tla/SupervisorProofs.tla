-------------------------- MODULE SupervisorProofs --------------------------
(***************************************************************************)
(* Proofs about Supervisor, for any workers, faults and number of          *)
(* watchdogs ever spawned.                                                 *)
(***************************************************************************)
EXTENDS Supervisor, TLAPS

Dead(p)     == proc[p].state \in {"exited", "gone"}
Locks(p)    == proc[p].state \in {"write", "up", "ending"}
Unsought(p) == proc[p].state \in Locking \cup {"up"}

(* A watchdog that was not robbed has the lock file it created.            *)
LockInv ==
  \A p \in Pids \ robbed : Locks(p) => lock[proc[p].name].by = p

(* The file about to be removed was read from a dead watchdog, or before   *)
(* its pid was in it.                                                      *)
ReadInv ==
  \A p \in Pids : proc[p].state = "remove" /\ found[p].written =>
    found[p].by \in Pids /\ Dead(found[p].by)

(* The broker will still hear of the end of a watchdog it spawned; and the *)
(* pid of one it adopted is given away before its eyes.                    *)
EntryInv ==
  \A n \in Names : entry[n] # NoEntry =>
    /\ ~entry[n].adopted => proc[entry[n].pid].child /\ proc[entry[n].pid].state # "gone"
    /\ entry[n].pid \in strangers => entry[n].pid \in mistaken

(* A watchdog nobody asked to stop is known by entry and pidfile, from its *)
(* spawn on, and its worker stays registered while the broker is down.     *)
ReachInv ==
  \A n \in Names : \A p \in Of(n) \ slipped : Unsought(p) =>
    n \in config /\ pidfile[n] = p /\ (brokerUp => entry[n].pid = p)

IInv == TypeOK /\ LockInv /\ ReadInv /\ EntryInv /\ ReachInv

(* The first invariant speaks of lock files alone, the last two of the     *)
(* broker alone.                                                           *)
LEMMA PidFacts ==
  /\ \A p \in Pids : p \in Nat /\ p # None
  /\ None \notin Pids /\ NoEntry \notin Entry /\ NoLock \notin [by : Pids, written : BOOLEAN]
  /\ NoEntry.pid = None /\ NoLock.by = None /\ ~NoLock.written
BY MaxPidAssumption DEF Pids, None, NoEntry, NoLock, Entry

LEMMA InitInv == Init => IInv
<1>. SUFFICES ASSUME Init PROVE IInv
  OBVIOUS
<1>1. \A p \in Pids : proc[p].state = "unused"
  BY DEF Init
<1>2. (CHOOSE n \in Names : TRUE) \in Names
  BY NamesAssumption
<1>3. proc \in [Pids -> [name : Names, state : ProcStates, child : BOOLEAN]]
  BY <1>2 DEF Init, ProcStates
<1>4. \A n \in Names : entry[n] = NoEntry /\ pidfile[n] = None /\ lock[n] = NoLock
  BY DEF Init
<1>5. TypeOK
  BY <1>1, <1>3, <1>4, PidFacts DEF Init, TypeOK
<1>6. LockInv /\ ReadInv /\ ReachInv
  BY <1>1 DEF LockInv, ReadInv, ReachInv, Locks, Unsought, Of, Locking
<1>7. EntryInv
  BY <1>4 DEF EntryInv
<1>. QED
  BY <1>5, <1>6, <1>7 DEF IInv

----------------------------------------------------------------------------
(* The broker's steps that touch no process. *)

(* What is not running and was not asked to stop is not there.             *)
LEMMA NothingUnsought ==
  ASSUME IInv, brokerUp, NEW n \in Names, ~Running(n)
  PROVE  \A p \in Of(n) \ slipped : ~Unsought(p)
<1>. SUFFICES ASSUME NEW p \in Of(n) \ slipped, Unsought(p)
              PROVE  FALSE
  OBVIOUS
<1>1. p \in Pids /\ entry[n].pid = p
  BY DEF IInv, ReachInv, Of
<1>2. entry[n] # NoEntry
  BY <1>1, PidFacts
<1>3. Alive(p)
  BY <1>1, PidFacts DEF Alive, Unsought
<1>. QED
  BY <1>1, <1>2, <1>3 DEF Running, InUse

LEMMA BookStep ==
  ASSUME IInv, brokerUp, brokerUp' = brokerUp, NEW n \in Names, config' \subseteq Names,
         \A k \in Names \ {n} : k \in config => k \in config',
         \/ UNCHANGED <<entry, pidfile>> /\ (n \in config => n \in config' \/ ~Running(n))
         \/ /\ ~Running(n)
            /\ entry' = [entry EXCEPT ![n] = NoEntry]
            /\ pidfile' = [pidfile EXCEPT ![n] = None],
         UNCHANGED <<proc, slipped, lockVars, pidVars>>
  PROVE  IInv'
<1>. USE DEF lockVars, pidVars
<1>1. TypeOK'
  <2>1. /\ entry' \in [Names -> Entry \cup {NoEntry}] /\ pidfile' \in [Names -> Pids \cup {None}]
        /\ \A k \in Names : entry'[k] \in {entry[k], NoEntry} /\ pidfile'[k] \in {pidfile[k], None}
    BY DEF IInv, TypeOK
  <2>2. \A k \in Names : {entry'[k].pid, pidfile'[k], lock'[k].by} \subseteq Of(k) \cup {None}
    BY <2>1, PidFacts DEF IInv, TypeOK
  <2>3. \A k \in Names : {entry'[k].pid, pidfile'[k], lock'[k].by} \subseteq Of(k)' \cup {None}
    BY <2>2 DEF Of
  <2>. QED
    BY <2>1, <2>3 DEF IInv, TypeOK
<1>2. LockInv' /\ ReadInv'
  BY DEF IInv, LockInv, ReadInv, Locks, Dead
<1>3. EntryInv'
  <2>1. \A k \in Names : entry'[k] \in {entry[k], NoEntry}
    BY DEF IInv, TypeOK
  <2>. QED
    BY <2>1 DEF IInv, EntryInv
<1>4. ReachInv'
  <2>. SUFFICES ASSUME NEW k \in Names, NEW p \in Of(k) \ slipped, Unsought(p)
                PROVE  k \in config' /\ pidfile'[k] = p /\ entry'[k].pid = p
    BY DEF ReachInv, Unsought, Of
  <2>1. k \in config /\ pidfile[k] = p /\ entry[k].pid = p
    BY DEF IInv, ReachInv
  <2>2. k = n => Running(n)
    BY NothingUnsought
  <2>. QED
    BY <2>1, <2>2 DEF IInv, TypeOK
<1>. QED
  BY <1>1, <1>2, <1>3, <1>4 DEF IInv

LEMMA ListStep ==
  ASSUME IInv, NEW n \in Names, ListWorker(n)
  PROVE  IInv'
BY BookStep DEF ListWorker, Drop, IInv, TypeOK

LEMMA RegisterStep ==
  ASSUME IInv, NEW n \in Names, Register(n)
  PROVE  IInv'
BY BookStep DEF Register, IInv, TypeOK

LEMMA DeregisterStep ==
  ASSUME IInv, NEW n \in Names, Deregister(n)
  PROVE  IInv'
BY BookStep DEF Deregister, Drop, IInv, TypeOK

----------------------------------------------------------------------------
(* Steps of a watchdog: its state and its lock file change, and what the   *)
(* broker knows does not.                                                  *)

Moves(p, st) ==
  /\ Alive(p) /\ st # "unused"
  /\ proc' = [proc EXCEPT ![p].state = st]
  /\ st = "gone" => ~proc[p].child
  /\ st \in Locking \cup {"up"} => Unsought(p)
  /\ slipped' = slipped \/ (slipped' = slipped \ {p} /\ st \in {"exited", "gone"})
  /\ UNCHANGED <<brokerUp, config, entry, pidfile, pidVars>>

LEMMA OwnIsMove ==
  ASSUME NEW p \in Pids, NEW st \in Locking \cup {"up"}, Unsought(p), OwnStep(p, st)
  PROVE  Moves(p, st)
BY PidFacts DEF OwnStep, Moves, Alive, Unsought, Locking

LEMMA LeaveIsMove ==
  ASSUME TypeOK, NEW p \in Pids, Alive(p), Leave(p)
  PROVE  \E st \in {"exited", "gone"} : Moves(p, st)
<1>. DEFINE st == IF proc[p].child THEN "exited" ELSE "gone"
<1>1. proc' = [proc EXCEPT ![p].state = st]
  BY DEF Leave, Ended, TypeOK
<1>. QED
  BY <1>1 DEF Leave, Moves, Locking

(* What a move leaves true, whatever happens to the file.                  *)
LEMMA MoveKeeps ==
  ASSUME IInv, NEW p \in Pids, NEW st \in ProcStates, Moves(p, st)
  PROVE  /\ proc' \in [Pids -> [name : Names, state : ProcStates, child : BOOLEAN]]
         /\ \A q \in Pids : proc'[q].name = proc[q].name /\ (q # p => proc'[q] = proc[q])
         /\ proc'[p].state = st
         /\ \A n \in Names : Of(n)' = Of(n)
         /\ \A q \in strangers : proc'[q].state = "gone"
         /\ \A q \in Pids : Dead(q) => proc'[q].state \in {"exited", "gone"}
         /\ EntryInv'
         /\ ReachInv'
<1>1. /\ proc' = [proc EXCEPT ![p].state = st] /\ st # "unused" /\ (st = "gone" => ~proc[p].child)
      /\ proc[p].state \in Locking \cup {"up", "ending"}
  BY DEF Moves, Alive
<1>2. /\ proc \in [Pids -> [name : Names, state : ProcStates, child : BOOLEAN]]
      /\ \A q \in strangers : proc[q].state = "gone" /\ q \in Pids
  BY DEF IInv, TypeOK
<1>3. proc' \in [Pids -> [name : Names, state : ProcStates, child : BOOLEAN]]
  BY <1>1, <1>2
<1>4. /\ \A q \in Pids : /\ proc'[q].name = proc[q].name /\ proc'[q].child = proc[q].child
                         /\ q # p => proc'[q] = proc[q]
      /\ proc'[p].state = st
  BY <1>1, <1>2
<1>5. \A n \in Names : Of(n)' = Of(n)
  BY <1>1, <1>4 DEF Of, Locking
<1>6. \A q \in strangers : proc'[q].state = "gone"
  BY <1>1, <1>2, <1>4 DEF Locking
<1>7. \A q \in Pids : Dead(q) => proc'[q].state \in {"exited", "gone"}
  BY <1>1, <1>4 DEF Dead, Locking
<1>8. EntryInv'
  <2>. SUFFICES ASSUME NEW n \in Names, entry[n] # NoEntry
                PROVE  /\ ~entry[n].adopted => proc'[entry[n].pid].child /\ proc'[entry[n].pid].state # "gone"
                       /\ entry[n].pid \in strangers => entry[n].pid \in mistaken
    BY DEF EntryInv, Moves, pidVars
  <2>1. entry[n].pid \in Pids
    BY DEF IInv, TypeOK, Entry
  <2>. QED
    BY <1>1, <1>4, <2>1 DEF IInv, EntryInv
<1>9. ReachInv'
  <2>. SUFFICES ASSUME NEW n \in Names, NEW q \in Of(n), q \notin slipped', Unsought(q)'
                PROVE  n \in config /\ pidfile[n] = q /\ (brokerUp => entry[n].pid = q)
    BY <1>5 DEF ReachInv, Moves
  <2>1. Unsought(q) /\ q \in Pids
    BY <1>4 DEF Unsought, Moves, Of
  <2>2. q \notin slipped
    <3>1. q \in slipped => q = p /\ st \in {"exited", "gone"}
      BY DEF Moves
    <3>. QED
      BY <1>4, <3>1 DEF Unsought, Locking
  <2>. QED
    BY <2>1, <2>2 DEF IInv, ReachInv
<1>. QED
  BY <1>3, <1>4, <1>5, <1>6, <1>7, <1>8, <1>9

Files == [by : Pids, written : BOOLEAN] \cup {NoLock}

(* A move that does not put a wrong file in place keeps all types.         *)
LEMMA MoveTypes ==
  ASSUME IInv, NEW p \in Pids, NEW st \in ProcStates, Moves(p, st),
         lock' \in [Names -> Files], found' \in [Pids -> Files], robbed' \subseteq Pids,
         \A n \in Names : lock'[n].by \in {lock[n].by, None} \cup ({p} \cap Of(n))
  PROVE  TypeOK'
<1>1. \A n \in Names : {entry[n].pid, pidfile[n], lock[n].by} \subseteq Of(n) \cup {None}
  BY DEF IInv, TypeOK
<1>2. \A n \in Names : {entry'[n].pid, pidfile'[n], lock'[n].by} \subseteq Of(n)' \cup {None}
  <2>1. UNCHANGED <<entry, pidfile>>
    BY DEF Moves
  <2>2. \A n \in Names : Of(n)' = Of(n)
    BY MoveKeeps
  <2>. QED
    BY <1>1, <2>1, <2>2
<1>3. /\ mistaken' \subseteq strangers' /\ strangers' \subseteq Pids
      /\ \A q \in strangers' : proc'[q].state = "gone"
  <2>1. UNCHANGED <<strangers, mistaken>>
    BY DEF Moves, pidVars
  <2>. QED
    BY <2>1, MoveKeeps DEF IInv, TypeOK
<1>4. slipped' \subseteq Pids
  BY DEF IInv, TypeOK, Moves
<1>5. /\ brokerUp' \in BOOLEAN /\ config' \subseteq Names
      /\ entry' \in [Names -> Entry \cup {NoEntry}] /\ pidfile' \in [Names -> Pids \cup {None}]
  BY DEF IInv, TypeOK, Moves
<1>6. proc' \in [Pids -> [name : Names, state : ProcStates, child : BOOLEAN]]
  BY MoveKeeps
<1>. QED
  BY <1>2, <1>3, <1>4, <1>5, <1>6 DEF TypeOK, Files

LEMMA MoveReads ==
  ASSUME IInv, NEW p \in Pids, NEW st \in ProcStates \ {"remove"}, Moves(p, st),
         \A q \in Pids \ {p} : found'[q] = found[q]
  PROVE  ReadInv'
<1>. SUFFICES ASSUME NEW q \in Pids, proc'[q].state = "remove", found'[q].written
              PROVE  found'[q].by \in Pids /\ proc'[found'[q].by].state \in {"exited", "gone"}
  BY DEF ReadInv, Dead
<1>1. q # p /\ proc[q].state = "remove" /\ found'[q] = found[q]
  BY MoveKeeps
<1>2. found[q].by \in Pids /\ Dead(found[q].by)
  BY <1>1 DEF IInv, ReadInv
<1>. QED
  BY <1>1, <1>2, MoveKeeps

(* Files stay with those that have them.                                   *)
LEMMA MoveLocks ==
  ASSUME IInv, NEW p \in Pids, NEW st \in ProcStates, Moves(p, st),
         \A n \in Names : lock'[n].by = lock[n].by,
         robbed \ {p} \subseteq robbed', p \in robbed' \/ p \notin robbed \/ st \in {"exited", "gone"},
         st \in {"write", "up", "ending"} => Locks(p)
  PROVE  LockInv'
<1>. SUFFICES ASSUME NEW q \in Pids, q \notin robbed', proc'[q].state \in {"write", "up", "ending"}
              PROVE  lock'[proc'[q].name].by = q
  BY DEF LockInv, Locks
<1>1. proc'[q].name = proc[q].name /\ proc[q].name \in Names
  BY MoveKeeps DEF IInv, TypeOK
<1>2. Locks(q) /\ q \notin robbed
  BY MoveKeeps DEF Locks
<1>. QED
  BY <1>1, <1>2 DEF IInv, LockInv

(* A file is taken away only from a dead watchdog or from one that counts  *)
(* as robbed from then on.                                                 *)
LEMMA MoveUnlocks ==
  ASSUME IInv, NEW p \in Pids, NEW st \in ProcStates \ {"write", "up", "ending"}, Moves(p, st),
         lock' = [lock EXCEPT ![proc[p].name] = NoLock], robbed \ {p} \subseteq robbed',
         LET q == lock[proc[p].name].by IN q \in Pids \ {p} /\ Alive(q) => q \in robbed'
  PROVE  LockInv'
<1>. SUFFICES ASSUME NEW q \in Pids, q \notin robbed', proc'[q].state \in {"write", "up", "ending"}
              PROVE  lock'[proc'[q].name].by = q
  BY DEF LockInv, Locks
<1>1. q # p /\ proc'[q].name = proc[q].name /\ proc[q].name \in Names /\ proc[p].name \in Names
  BY MoveKeeps DEF IInv, TypeOK
<1>2. Locks(q) /\ q \notin robbed
  BY <1>1, MoveKeeps DEF Locks
<1>3. lock[proc[q].name].by = q
  BY <1>1, <1>2 DEF IInv, LockInv
<1>4. Alive(q)
  BY <1>2, PidFacts DEF Alive, Locks, Locking
<1>. QED
  BY <1>1, <1>3, <1>4 DEF IInv, TypeOK

LEMMA CreateStep ==
  ASSUME IInv, NEW p \in Pids, CreateLock(p)
  PROVE  IInv'
<1>. DEFINE n == proc[p].name
<1>1. /\ proc[p].state \in {"create", "again"} /\ Unsought(p) /\ Alive(p) /\ UNCHANGED <<found, robbed>>
      /\ n \in Names /\ p \in Of(n)
  BY PidFacts DEF CreateLock, Unsought, Alive, Locking, IInv, TypeOK, Of
<1>2. CASE lock[n] = NoLock
  <2>1. Moves(p, "write") /\ "write" \in ProcStates \ {"remove"}
    BY <1>1, <1>2, OwnIsMove DEF CreateLock, Locking, ProcStates
  <2>2. lock' = [lock EXCEPT ![n] = [by |-> p, written |-> FALSE]]
    BY <1>2 DEF CreateLock
  <2>3. lock' \in [Names -> Files] /\ \A k \in Names : lock'[k].by \in {lock[k].by, None} \cup ({p} \cap Of(k))
    BY <1>1, <2>2 DEF IInv, TypeOK, Files
  <2>4. TypeOK'
    BY <1>1, <2>1, <2>3, MoveTypes DEF IInv, TypeOK, Files
  <2>5. LockInv'
    <3>. SUFFICES ASSUME NEW q \in Pids, q \notin robbed', proc'[q].state \in {"write", "up", "ending"}
                  PROVE  lock'[proc'[q].name].by = q
      BY DEF LockInv, Locks
    <3>1. proc'[q].name = proc[q].name /\ proc[q].name \in Names
      BY <2>1, MoveKeeps DEF IInv, TypeOK
    <3>2. CASE q = p
      BY <1>1, <2>2, <3>1, <3>2 DEF IInv, TypeOK
    <3>3. CASE q # p
      <4>1. Locks(q)
        BY <2>1, <3>3, MoveKeeps DEF Locks
      <4>2. lock[proc[q].name].by = q
        BY <1>1, <4>1 DEF IInv, LockInv
      <4>3. proc[q].name # n
        BY <1>2, <4>2, PidFacts
      <4>. QED
        BY <2>2, <3>1, <4>2, <4>3 DEF IInv, TypeOK
    <3>. QED
      BY <3>2, <3>3
  <2>. QED
    BY <1>1, <2>1, <2>4, <2>5, MoveKeeps, MoveReads DEF IInv
<1>3. CASE lock[n] # NoLock
  <2>1. UNCHANGED lock /\ \E st \in {"look", "exited", "gone"} : Moves(p, st)
    BY <1>1, <1>3, OwnIsMove, LeaveIsMove DEF CreateLock, Locking, IInv
  <2>2. PICK st \in {"look", "exited", "gone"} : Moves(p, st)
    BY <2>1
  <2>3. st \in ProcStates \ {"remove"} /\ st \notin {"write", "up", "ending"}
    BY DEF ProcStates, Locking
  <2>4. TypeOK'
    BY <1>1, <2>1, <2>2, <2>3, MoveTypes DEF IInv, TypeOK, Files
  <2>5. LockInv'
    BY <1>1, <2>1, <2>2, <2>3, MoveLocks
  <2>. QED
    BY <1>1, <2>2, <2>3, <2>4, <2>5, MoveKeeps, MoveReads DEF IInv
<1>. QED
  BY <1>2, <1>3

LEMMA WriteStep ==
  ASSUME IInv, NEW p \in Pids, WriteLock(p)
  PROVE  IInv'
<1>. DEFINE n == proc[p].name
            g == IF lock[n].by = p THEN [lock[n] EXCEPT !.written = TRUE] ELSE lock[n]
<1>1. /\ proc[p].state = "write" /\ Unsought(p) /\ Locks(p) /\ UNCHANGED <<found, robbed>>
      /\ n \in Names /\ lock[n] \in Files
  BY DEF WriteLock, Unsought, Locks, Locking, IInv, TypeOK, Files
<1>2. Moves(p, "up") /\ "up" \in ProcStates \ {"remove"}
  BY <1>1, OwnIsMove DEF WriteLock, ProcStates
<1>3. lock' = [lock EXCEPT ![n] = g]
  BY DEF WriteLock
<1>4. g.by = lock[n].by /\ g \in Files
  BY <1>1, PidFacts DEF Files
<1>. HIDE DEF g
<1>5. lock' \in [Names -> Files] /\ \A k \in Names : lock'[k].by = lock[k].by
  BY <1>1, <1>3, <1>4 DEF IInv, TypeOK, Files
<1>6. TypeOK'
  BY <1>1, <1>2, <1>5, MoveTypes DEF IInv, TypeOK, Files
<1>7. LockInv'
  BY <1>1, <1>2, <1>5, MoveLocks
<1>. QED
  BY <1>1, <1>2, <1>6, <1>7, MoveKeeps, MoveReads DEF IInv

LEMMA LookStep ==
  ASSUME IInv, NEW p \in Pids, LookAtLock(p)
  PROVE  IInv'
<1>. DEFINE f == lock[proc[p].name]
<1>1. /\ proc[p].state = "look" /\ Unsought(p) /\ Alive(p) /\ UNCHANGED <<lock, robbed>>
      /\ proc[p].name \in Names /\ f \in Files
  BY PidFacts DEF LookAtLock, Unsought, Alive, Locking, IInv, TypeOK, Files
<1>2. CASE Leave(p) /\ UNCHANGED found
  <2>1. PICK st \in {"exited", "gone"} : Moves(p, st)
    BY <1>1, <1>2, LeaveIsMove DEF IInv
  <2>2. st \in ProcStates \ {"remove"} /\ st \notin {"write", "up", "ending"}
    BY DEF ProcStates
  <2>3. TypeOK'
    BY <1>1, <1>2, <2>1, <2>2, MoveTypes DEF IInv, TypeOK, Files
  <2>4. LockInv'
    BY <1>1, <2>1, <2>2, MoveLocks
  <2>. QED
    BY <1>2, <2>1, <2>2, <2>3, <2>4, MoveKeeps, MoveReads DEF IInv
<1>3. CASE ~HolderLives(f) /\ OwnStep(p, "remove") /\ found' = [found EXCEPT ![p] = f]
  <2>1. Moves(p, "remove") /\ "remove" \in ProcStates
    BY <1>1, <1>3, OwnIsMove DEF ProcStates, Locking
  <2>2. found' \in [Pids -> Files] /\ found'[p] = f /\ \A q \in Pids \ {p} : found'[q] = found[q]
    BY <1>1, <1>3 DEF IInv, TypeOK, Files
  <2>3. TypeOK'
    BY <1>1, <2>1, <2>2, MoveTypes DEF IInv, TypeOK, Files
  <2>4. LockInv'
    BY <1>1, <2>1, MoveLocks
  <2>5. f.written => f.by \in Pids /\ Dead(f.by)
    <3>1. f.written => f.by \in Pids /\ ~Alive(f.by)
      BY <1>1, <1>3, PidFacts DEF HolderLives, Files
    <3>2. f.by \in Of(proc[p].name) \cup {None}
      BY <1>1 DEF IInv, TypeOK
    <3>3. f.written => proc[f.by].state \in ProcStates \ {"unused"}
      BY <3>1, <3>2, PidFacts DEF Of, IInv, TypeOK
    <3>. QED
      BY <3>1, <3>3, PidFacts DEF Alive, Dead, ProcStates
  <2>6. ReadInv'
    <3>. SUFFICES ASSUME NEW q \in Pids, proc'[q].state = "remove", found'[q].written
                  PROVE  found'[q].by \in Pids /\ proc'[found'[q].by].state \in {"exited", "gone"}
      BY DEF ReadInv, Dead
    <3>1. found'[q].by \in Pids /\ Dead(found'[q].by)
      <4>1. CASE q = p
        BY <2>2, <2>5, <4>1
      <4>2. CASE q # p
        <5>1. proc[q].state = "remove" /\ found'[q] = found[q]
          BY <2>1, <2>2, <4>2, MoveKeeps
        <5>. QED
          BY <5>1 DEF IInv, ReadInv
      <4>. QED
        BY <4>1, <4>2
    <3>. QED
      BY <2>1, <3>1, MoveKeeps
  <2>. QED
    BY <2>1, <2>3, <2>4, <2>6, MoveKeeps DEF IInv
<1>. QED
  BY <1>2, <1>3 DEF LookAtLock

LEMMA RemoveStep ==
  ASSUME IInv, NEW p \in Pids, RemoveLock(p)
  PROVE  IInv'
<1>. DEFINE q == lock[proc[p].name].by
<1>1. /\ proc[p].state = "remove" /\ Unsought(p) /\ proc[p].name \in Names
      /\ lock' = [lock EXCEPT ![proc[p].name] = NoLock] /\ found' = [found EXCEPT ![p] = NoLock]
      /\ robbed' = robbed \cup {k \in {q} : Alive(k) /\ (found[p].by # k \/ ~found[p].written)}
  BY DEF RemoveLock, Unsought, Locking, IInv, TypeOK
<1>2. Moves(p, "again") /\ "again" \in ProcStates \ {"remove"}
  BY <1>1, OwnIsMove DEF RemoveLock, ProcStates, Locking
<1>3. q \in Pids \cup {None}
  BY <1>1 DEF IInv, TypeOK, Of
<1>4. /\ lock' \in [Names -> Files] /\ \A k \in Names : lock'[k].by \in {lock[k].by, None}
      /\ found' \in [Pids -> Files] /\ \A k \in Pids \ {p} : found'[k] = found[k]
  BY <1>1, PidFacts DEF IInv, TypeOK, Files
<1>5. robbed' \subseteq Pids
  BY <1>1, <1>3 DEF IInv, TypeOK, Alive
<1>6. TypeOK'
  BY <1>2, <1>4, <1>5, MoveTypes
<1>7. q \in Pids /\ Alive(q) => q \in robbed'
  <2>. SUFFICES ASSUME q \in Pids, Alive(q), found[p].by = q, found[p].written
                PROVE  FALSE
    BY <1>1
  <2>1. Dead(q)
    BY <1>1 DEF IInv, ReadInv
  <2>. QED
    BY <2>1 DEF Dead, Alive, Locking
<1>8. LockInv'
  BY <1>1, <1>2, <1>7, MoveUnlocks DEF ProcStates
<1>. QED
  BY <1>2, <1>4, <1>6, <1>8, MoveKeeps, MoveReads DEF IInv

LEMMA FinishStep ==
  ASSUME IInv, NEW p \in Pids, Finish(p)
  PROVE  IInv'
<1>. DEFINE q == lock[proc[p].name].by
<1>1. /\ Alive(p) /\ Locks(p) /\ proc[p].name \in Names /\ UNCHANGED found
      /\ lock' = [lock EXCEPT ![proc[p].name] = NoLock]
      /\ robbed' = IF p \in robbed THEN (robbed \cup {k \in {q} : Alive(k)}) \ {p} ELSE robbed
  BY PidFacts DEF Finish, Alive, Locks, IInv, TypeOK
<1>2. PICK st \in {"exited", "gone"} : Moves(p, st)
  BY <1>1, LeaveIsMove DEF Finish, IInv
<1>3. st \in ProcStates \ {"remove", "write", "up", "ending"}
  BY DEF ProcStates
<1>4. q \in Pids \cup {None}
  BY <1>1 DEF IInv, TypeOK, Of
<1>5. lock' \in [Names -> Files] /\ \A k \in Names : lock'[k].by \in {lock[k].by, None}
  BY <1>1, PidFacts DEF IInv, TypeOK, Files
<1>6. robbed' \subseteq Pids
  BY <1>1, <1>4 DEF IInv, TypeOK, Alive
<1>7. TypeOK'
  BY <1>1, <1>2, <1>3, <1>5, <1>6, MoveTypes DEF IInv, TypeOK, Files
<1>8. q \in Pids \ {p} /\ Alive(q) => q \in robbed'
  BY <1>1 DEF IInv, LockInv
<1>9. LockInv'
  BY <1>1, <1>2, <1>3, <1>8, MoveUnlocks
<1>. QED
  BY <1>1, <1>2, <1>3, <1>7, <1>9, MoveKeeps, MoveReads DEF IInv

LEMMA DieStep ==
  ASSUME IInv, NEW p \in Pids, Die(p)
  PROVE  IInv'
<1>1. /\ Alive(p) /\ UNCHANGED lock /\ robbed' = robbed \ {p}
      /\ found' = [found EXCEPT ![p] = NoLock]
  BY DEF Die
<1>2. PICK st \in {"exited", "gone"} : Moves(p, st)
  BY <1>1, LeaveIsMove DEF Die, IInv
<1>3. st \in ProcStates \ {"remove", "write", "up", "ending"}
  BY DEF ProcStates
<1>4. found' \in [Pids -> Files] /\ \A k \in Pids \ {p} : found'[k] = found[k]
  BY <1>1 DEF IInv, TypeOK, Files
<1>5. TypeOK'
  BY <1>1, <1>2, <1>3, <1>4, MoveTypes DEF IInv, TypeOK, Files
<1>6. LockInv'
  BY <1>1, <1>2, <1>3, MoveLocks
<1>. QED
  BY <1>2, <1>3, <1>4, <1>5, <1>6, MoveKeeps, MoveReads DEF IInv

----------------------------------------------------------------------------
(* The broker's steps that start or stop watchdogs, or lose them.          *)

(* Files and losses of watchdogs are as they were; the broker's books, and *)
(* who lives, may change.                                                  *)
LEMMA BrokerKeeps ==
  ASSUME IInv, UNCHANGED lockVars,
         proc' \in [Pids -> [name : Names, state : ProcStates, child : BOOLEAN]],
         \A p \in Pids : /\ proc[p].state # "unused" => proc'[p].name = proc[p].name /\ proc'[p].state # "unused"
                         /\ Dead(p) => proc'[p].state \in {"exited", "gone"}
                         /\ proc'[p].state \in {"write", "up", "ending"} => Locks(p)
                         /\ proc'[p].state = "remove" => proc[p].state = "remove"
  PROVE  /\ LockInv' /\ ReadInv'
         /\ \A n \in Names : Of(n) \subseteq Of(n)'
         /\ lock' \in [Names -> Files] /\ robbed' \subseteq Pids /\ found' \in [Pids -> Files]
         /\ \A n \in Names : lock'[n].by \in Of(n)' \cup {None}
<1>1. UNCHANGED <<lock, found, robbed>>
  BY DEF lockVars
<1>2. LockInv'
  <2>. SUFFICES ASSUME NEW p \in Pids, p \notin robbed, proc'[p].state \in {"write", "up", "ending"}
                PROVE  lock[proc'[p].name].by = p
    BY <1>1 DEF LockInv, Locks
  <2>1. Locks(p) /\ proc'[p].name = proc[p].name
    BY DEF Locks
  <2>. QED
    BY <2>1 DEF IInv, LockInv
<1>3. ReadInv'
  <2>. SUFFICES ASSUME NEW p \in Pids, proc'[p].state = "remove", found[p].written
                PROVE  found[p].by \in Pids /\ proc'[found[p].by].state \in {"exited", "gone"}
    BY <1>1 DEF ReadInv, Dead
  <2>1. found[p].by \in Pids /\ Dead(found[p].by)
    BY DEF IInv, ReadInv
  <2>. QED
    BY <2>1
<1>4. \A n \in Names : Of(n) \subseteq Of(n)'
  BY DEF Of
<1>5. \A n \in Names : lock[n].by \in Of(n) \cup {None}
  BY DEF IInv, TypeOK
<1>6. \A n \in Names : lock'[n].by \in Of(n)' \cup {None}
  BY <1>1, <1>4, <1>5
<1>. QED
  BY <1>1, <1>2, <1>3, <1>4, <1>6 DEF IInv, TypeOK, Files

LEMMA StartStep ==
  ASSUME IInv, NEW n \in Names, Start(n)
  PROVE  IInv'
<1>1. PICK p \in Pids : /\ Fork(n, p, TRUE)
                        /\ entry' = [entry EXCEPT ![n] = [pid |-> p, adopted |-> FALSE]]
                        /\ pidfile' = [pidfile EXCEPT ![n] = p]
  BY DEF Start
<1>2. /\ brokerUp /\ n \in config /\ ~Running(n)
      /\ UNCHANGED <<brokerUp, config, slipped, lock, found, robbed, strangers, mistaken>>
  BY DEF Start, lockVars, pidVars
<1>3. /\ proc[p].state = "unused"
      /\ proc' = [proc EXCEPT ![p] = [name |-> n, state |-> "create", child |-> TRUE]]
  BY <1>1 DEF Fork, Unused
<1>4. proc' \in [Pids -> [name : Names, state : ProcStates, child : BOOLEAN]]
  BY <1>3 DEF IInv, TypeOK, ProcStates, Locking
<1>5. /\ proc'[p].name = n /\ proc'[p].state = "create" /\ proc'[p].child
      /\ \A q \in Pids \ {p} : proc'[q] = proc[q]
  BY <1>3 DEF IInv, TypeOK
<1>6. /\ LockInv' /\ ReadInv'
      /\ \A k \in Names : Of(k) \subseteq Of(k)'
      /\ lock' \in [Names -> Files] /\ robbed' \subseteq Pids /\ found' \in [Pids -> Files]
      /\ \A k \in Names : lock'[k].by \in Of(k)' \cup {None}
  <2>1. UNCHANGED lockVars
    BY <1>2 DEF lockVars
  <2>2. \A q \in Pids : /\ proc[q].state # "unused" => proc'[q].name = proc[q].name /\ proc'[q].state # "unused"
                        /\ Dead(q) => proc'[q].state \in {"exited", "gone"}
                        /\ proc'[q].state \in {"write", "up", "ending"} => Locks(q)
                        /\ proc'[q].state = "remove" => proc[q].state = "remove"
    BY <1>3, <1>5 DEF Dead, Locks
  <2>. QED
    BY <1>4, <2>1, <2>2, BrokerKeeps
<1>7. /\ entry' \in [Names -> Entry \cup {NoEntry}] /\ pidfile' \in [Names -> Pids \cup {None}]
      /\ entry'[n] = [pid |-> p, adopted |-> FALSE] /\ pidfile'[n] = p
      /\ \A k \in Names \ {n} : entry'[k] = entry[k] /\ pidfile'[k] = pidfile[k]
  BY <1>1 DEF IInv, TypeOK, Entry
<1>8. \A k \in Names : {entry'[k].pid, pidfile'[k]} \subseteq Of(k)' \cup {None}
  <2>1. p \in Of(n)'
    BY <1>5 DEF Of
  <2>2. \A k \in Names : {entry[k].pid, pidfile[k]} \subseteq Of(k) \cup {None}
    BY DEF IInv, TypeOK
  <2>. QED
    BY <1>6, <1>7, <2>1, <2>2
<1>9. p \notin strangers /\ \A q \in strangers : proc'[q].state = "gone"
  BY <1>3, <1>5 DEF IInv, TypeOK
<1>10. TypeOK'
  BY <1>2, <1>4, <1>6, <1>7, <1>8, <1>9 DEF IInv, TypeOK, Files
<1>11. EntryInv'
  <2>. SUFFICES ASSUME NEW k \in Names, entry'[k] # NoEntry
                PROVE  /\ ~entry'[k].adopted => proc'[entry'[k].pid].child /\ proc'[entry'[k].pid].state # "gone"
                       /\ entry'[k].pid \in strangers => entry'[k].pid \in mistaken
    BY <1>2 DEF EntryInv
  <2>1. CASE k = n
    BY <1>5, <1>7, <1>9, <2>1
  <2>2. CASE k # n
    <3>1. entry'[k] = entry[k] /\ entry[k].pid \in Pids /\ entry[k].pid \in Of(k)
      BY <1>7, <2>2, PidFacts DEF IInv, TypeOK, Entry
    <3>2. entry[k].pid # p
      BY <1>3, <3>1 DEF Of
    <3>. QED
      BY <1>5, <3>1, <3>2 DEF IInv, EntryInv
  <2>. QED
    BY <2>1, <2>2
<1>12. ReachInv'
  <2>. SUFFICES ASSUME NEW k \in Names, NEW q \in Pids, q \notin slipped, proc'[q].name = k,
                       proc'[q].state \in Locking \cup {"up"}
                PROVE  k \in config /\ pidfile'[k] = q /\ entry'[k].pid = q
    BY <1>2 DEF ReachInv, Unsought, Of
  <2>1. CASE q = p
    BY <1>2, <1>5, <1>7, <2>1
  <2>2. CASE q # p
    <3>1. q \in Of(k) /\ Unsought(q)
      BY <1>5, <2>2 DEF Of, Unsought, Locking
    <3>2. k # n
      BY <1>2, <3>1, NothingUnsought
    <3>. QED
      BY <1>2, <1>7, <3>1, <3>2 DEF IInv, ReachInv
  <2>. QED
    BY <2>1, <2>2
<1>. QED
  BY <1>6, <1>10, <1>11, <1>12 DEF IInv

LEMMA StopStep ==
  ASSUME IInv, NEW n \in Names, Stop(n)
  PROVE  IInv'
<1>. DEFINE p == entry[n].pid
            r == CASE proc[p].state \in Locking -> Ended(p)
                   [] proc[p].state = "up" -> [proc[p] EXCEPT !.state = "ending"]
                   [] OTHER -> proc[p]
<1>1. /\ brokerUp /\ p \in Pids /\ p \in Of(n) /\ entry' = [entry EXCEPT ![n] = NoEntry]
      /\ UNCHANGED <<brokerUp, config, slipped, lock, found, robbed, strangers, mistaken>>
      /\ proc \in [Pids -> [name : Names, state : ProcStates, child : BOOLEAN]]
  BY PidFacts DEF Stop, lockVars, pidVars, IInv, TypeOK, Entry
<1>2. /\ pidfile' \in {pidfile, [pidfile EXCEPT ![n] = None]}
      /\ \/ proc' = [proc EXCEPT ![p] = r]
         \/ ~Alive(p) /\ UNCHANGED proc
  BY DEF Stop
<1>3. /\ r \in [name : Names, state : ProcStates, child : BOOLEAN]
      /\ r.name = proc[p].name /\ r.child = proc[p].child
      /\ r.state \notin Locking \cup {"up", "unused"}
      /\ r.state = "gone" => proc[p].state = "gone" \/ ~proc[p].child
      /\ Dead(p) => r = proc[p]
      /\ r.state = "ending" => Locks(p)
  <2>1. proc[p].state # "unused" /\ proc[p] \in [name : Names, state : ProcStates, child : BOOLEAN]
    BY <1>1 DEF Of
  <2>2. CASE proc[p].state \in Locking
    BY <2>1, <2>2 DEF Ended, Locking, ProcStates, Dead
  <2>3. CASE proc[p].state = "up"
    BY <2>1, <2>3 DEF Locking, ProcStates, Dead, Locks
  <2>4. CASE proc[p].state \notin Locking \cup {"up"}
    BY <2>1, <2>4 DEF Locking, ProcStates, Dead, Locks
  <2>. QED
    BY <2>2, <2>3, <2>4
<1>. HIDE DEF r
<1>4. /\ proc' \in [Pids -> [name : Names, state : ProcStates, child : BOOLEAN]]
      /\ \A q \in Pids \ {p} : proc'[q] = proc[q]
      /\ proc'[p] \in {r, proc[p]} /\ (proc'[p] # r => ~Alive(p))
  BY <1>1, <1>2, <1>3
<1>5. ~(proc'[p].state \in Locking \cup {"up"})
  BY <1>1, <1>3, <1>4, PidFacts DEF Alive
<1>6. /\ LockInv' /\ ReadInv'
      /\ \A k \in Names : Of(k) \subseteq Of(k)'
      /\ lock' \in [Names -> Files] /\ robbed' \subseteq Pids /\ found' \in [Pids -> Files]
      /\ \A k \in Names : lock'[k].by \in Of(k)' \cup {None}
  <2>1. UNCHANGED lockVars
    BY <1>1 DEF lockVars
  <2>2. \A q \in Pids : /\ proc[q].state # "unused" => proc'[q].name = proc[q].name /\ proc'[q].state # "unused"
                        /\ Dead(q) => proc'[q].state \in {"exited", "gone"}
                        /\ proc'[q].state \in {"write", "up", "ending"} => Locks(q)
                        /\ proc'[q].state = "remove" => proc[q].state = "remove"
    <3>. SUFFICES ASSUME NEW q \in Pids
                  PROVE  /\ proc[q].state # "unused" => proc'[q].name = proc[q].name /\ proc'[q].state # "unused"
                         /\ Dead(q) => proc'[q].state \in {"exited", "gone"}
                         /\ proc'[q].state \in {"write", "up", "ending"} => Locks(q)
                         /\ proc'[q].state = "remove" => proc[q].state = "remove"
      OBVIOUS
    <3>1. CASE q # p
      BY <1>4, <3>1 DEF Dead, Locks
    <3>2. CASE q = p
      BY <1>3, <1>4, <1>5, <3>2 DEF Dead, Locks, Locking
    <3>. QED
      BY <3>1, <3>2
  <2>. QED
    BY <1>4, <2>1, <2>2, BrokerKeeps
<1>7. /\ entry' \in [Names -> Entry \cup {NoEntry}] /\ pidfile' \in [Names -> Pids \cup {None}]
      /\ entry'[n] = NoEntry /\ \A k \in Names : pidfile'[k] \in {pidfile[k], None}
      /\ \A k \in Names \ {n} : entry'[k] = entry[k] /\ pidfile'[k] = pidfile[k]
  BY <1>1, <1>2 DEF IInv, TypeOK
<1>8. \A k \in Names : {entry'[k].pid, pidfile'[k]} \subseteq Of(k)' \cup {None}
  <2>1. \A k \in Names : {entry[k].pid, pidfile[k]} \subseteq Of(k) \cup {None}
    BY DEF IInv, TypeOK
  <2>. QED
    BY <1>6, <1>7, <2>1, PidFacts
<1>9. \A q \in strangers : proc'[q].state = "gone"
  <2>1. \A q \in strangers : q \in Pids /\ proc[q].state = "gone"
    BY DEF IInv, TypeOK
  <2>. QED
    BY <1>3, <1>4, <2>1 DEF Dead
<1>10. TypeOK'
  BY <1>1, <1>4, <1>6, <1>7, <1>8, <1>9 DEF IInv, TypeOK, Files
<1>11. EntryInv'
  <2>. SUFFICES ASSUME NEW k \in Names \ {n}, entry[k] # NoEntry
                PROVE  /\ ~entry[k].adopted => proc'[entry[k].pid].child /\ proc'[entry[k].pid].state # "gone"
                       /\ entry[k].pid \in strangers => entry[k].pid \in mistaken
    BY <1>1, <1>7 DEF EntryInv
  <2>1. entry[k].pid \in Pids /\ entry[k].pid \in Of(k)
    BY PidFacts DEF IInv, TypeOK, Entry
  <2>2. entry[k].pid # p
    BY <1>1, <2>1 DEF Of
  <2>. QED
    BY <1>4, <2>1, <2>2 DEF IInv, EntryInv
<1>12. ReachInv'
  <2>. SUFFICES ASSUME NEW k \in Names, NEW q \in Pids, q \notin slipped, proc'[q].name = k,
                       proc'[q].state \in Locking \cup {"up"}
                PROVE  k \in config /\ pidfile'[k] = q /\ entry'[k].pid = q
    BY <1>1 DEF ReachInv, Unsought, Of
  <2>1. q # p /\ q \in Of(k) /\ Unsought(q)
    BY <1>4, <1>5 DEF Of, Unsought, Locking
  <2>2. k \in config /\ pidfile[k] = q /\ entry[k].pid = q
    BY <1>1, <2>1 DEF IInv, ReachInv
  <2>. QED
    BY <1>7, <2>1, <2>2
<1>. QED
  BY <1>6, <1>10, <1>11, <1>12 DEF IInv

LEMMA ExitStep ==
  ASSUME IInv, NEW p \in Pids, OnExit(p)
  PROVE  IInv'
<1>. DEFINE n == proc[p].name
<1>1. /\ brokerUp /\ proc[p].state = "exited" /\ n \in Names
      /\ entry' = [entry EXCEPT ![n] = NoEntry] /\ pidfile' = [pidfile EXCEPT ![n] = None]
      /\ proc' = [proc EXCEPT ![p].state = "gone"]
      /\ slipped' = slipped \cup {q \in {entry[n].pid, pidfile[n]} \ {p} : Alive(q)}
      /\ UNCHANGED <<brokerUp, config, lock, found, robbed, strangers, mistaken>>
  BY DEF OnExit, lockVars, pidVars, IInv, TypeOK
<1>2. /\ proc' \in [Pids -> [name : Names, state : ProcStates, child : BOOLEAN]]
      /\ proc'[p].state = "gone" /\ proc'[p].name = n
      /\ \A q \in Pids \ {p} : proc'[q] = proc[q]
  BY <1>1 DEF IInv, TypeOK, ProcStates
<1>3. /\ LockInv' /\ ReadInv'
      /\ \A k \in Names : Of(k) \subseteq Of(k)'
      /\ lock' \in [Names -> Files] /\ robbed' \subseteq Pids /\ found' \in [Pids -> Files]
      /\ \A k \in Names : lock'[k].by \in Of(k)' \cup {None}
  <2>1. UNCHANGED lockVars
    BY <1>1 DEF lockVars
  <2>2. \A q \in Pids : /\ proc[q].state # "unused" => proc'[q].name = proc[q].name /\ proc'[q].state # "unused"
                        /\ Dead(q) => proc'[q].state \in {"exited", "gone"}
                        /\ proc'[q].state \in {"write", "up", "ending"} => Locks(q)
                        /\ proc'[q].state = "remove" => proc[q].state = "remove"
    BY <1>2 DEF Dead, Locks
  <2>. QED
    BY <1>2, <2>1, <2>2, BrokerKeeps
<1>4. /\ entry' \in [Names -> Entry \cup {NoEntry}] /\ pidfile' \in [Names -> Pids \cup {None}]
      /\ entry'[n] = NoEntry /\ pidfile'[n] = None
      /\ \A k \in Names \ {n} : entry'[k] = entry[k] /\ pidfile'[k] = pidfile[k]
  BY <1>1 DEF IInv, TypeOK
<1>5. \A k \in Names : {entry[k].pid, pidfile[k]} \subseteq Of(k) \cup {None}
  BY DEF IInv, TypeOK
<1>6. \A k \in Names : {entry'[k].pid, pidfile'[k]} \subseteq Of(k)' \cup {None}
  BY <1>3, <1>4, <1>5, PidFacts
<1>7. slipped' \subseteq Pids
  <2>1. {entry[n].pid, pidfile[n]} \subseteq Pids \cup {None}
    BY <1>1, <1>5 DEF Of
  <2>. QED
    BY <1>1, <2>1 DEF IInv, TypeOK, Alive
<1>8. \A q \in strangers : proc'[q].state = "gone"
  BY <1>1, <1>2 DEF IInv, TypeOK
<1>9. TypeOK'
  BY <1>1, <1>2, <1>3, <1>4, <1>6, <1>7, <1>8 DEF IInv, TypeOK, Files
<1>10. EntryInv'
  <2>. SUFFICES ASSUME NEW k \in Names \ {n}, entry[k] # NoEntry
                PROVE  /\ ~entry[k].adopted => proc'[entry[k].pid].child /\ proc'[entry[k].pid].state # "gone"
                       /\ entry[k].pid \in strangers => entry[k].pid \in mistaken
    BY <1>1, <1>4 DEF EntryInv
  <2>1. entry[k].pid \in Pids /\ entry[k].pid \in Of(k)
    BY PidFacts DEF IInv, TypeOK, Entry
  <2>2. entry[k].pid # p
    BY <1>1, <2>1 DEF Of
  <2>. QED
    BY <1>2, <2>1, <2>2 DEF IInv, EntryInv
<1>11. ReachInv'
  <2>. SUFFICES ASSUME NEW k \in Names, NEW q \in Pids, q \notin slipped', proc'[q].name = k,
                       proc'[q].state \in Locking \cup {"up"}
                PROVE  k \in config /\ pidfile'[k] = q /\ entry'[k].pid = q
    BY <1>1 DEF ReachInv, Unsought, Of
  <2>1. q # p /\ q \in Of(k) /\ Unsought(q) /\ q \notin slipped
    BY <1>1, <1>2 DEF Of, Unsought, Locking
  <2>2. k \in config /\ pidfile[k] = q /\ entry[k].pid = q
    BY <1>1, <2>1 DEF IInv, ReachInv
  <2>3. k # n
    <3>1. Alive(q)
      BY <2>1, PidFacts DEF Alive, Unsought
    <3>. QED
      BY <1>1, <2>1, <2>2, <3>1
  <2>. QED
    BY <1>4, <2>2, <2>3
<1>. QED
  BY <1>3, <1>9, <1>10, <1>11 DEF IInv

(* The broker goes down, alone or with a watchdog it just spawned.         *)
LEMMA DownKeeps ==
  ASSUME IInv, brokerUp' = FALSE, entry' = [n \in Names |-> NoEntry],
         UNCHANGED <<config, pidfile, lockVars, pidVars>>, slipped \subseteq slipped', slipped' \subseteq Pids,
         NEW new \in SUBSET slipped', NEW n \in Names,
         \A p \in new : proc[p].state = "unused",
         proc' = [p \in Pids |-> IF p \in new THEN [name |-> n, state |-> "create", child |-> FALSE]
                                             ELSE Orphaned(p)]
  PROVE  IInv'
<1>1. UNCHANGED <<config, pidfile, lock, found, robbed, strangers, mistaken>>
  BY DEF lockVars, pidVars
<1>2. \A p \in Pids : /\ Orphaned(p) \in [name : Names, state : ProcStates, child : BOOLEAN]
                      /\ Orphaned(p).name = proc[p].name
                      /\ Orphaned(p).state = IF proc[p].state = "exited" THEN "gone" ELSE proc[p].state
  <2>. SUFFICES ASSUME NEW p \in Pids
                PROVE  /\ Orphaned(p) \in [name : Names, state : ProcStates, child : BOOLEAN]
                       /\ Orphaned(p).name = proc[p].name
                       /\ Orphaned(p).state = IF proc[p].state = "exited" THEN "gone" ELSE proc[p].state
    OBVIOUS
  <2>. DEFINE st == IF proc[p].state = "exited" THEN "gone" ELSE proc[p].state
  <2>1. proc[p] \in [name : Names, state : ProcStates, child : BOOLEAN] /\ st \in ProcStates
    BY DEF IInv, TypeOK, ProcStates
  <2>2. Orphaned(p) = [proc[p] EXCEPT !.child = FALSE, !.state = st]
    BY DEF Orphaned
  <2>. QED
    BY <2>1, <2>2
<1>3. /\ proc' \in [Pids -> [name : Names, state : ProcStates, child : BOOLEAN]]
      /\ \A p \in Pids \ new : /\ proc'[p].name = proc[p].name
                               /\ proc'[p].state = IF proc[p].state = "exited" THEN "gone" ELSE proc[p].state
      /\ \A p \in new : proc'[p].state = "create"
  <2>1. "create" \in ProcStates /\ new \subseteq Pids
    BY DEF ProcStates, Locking
  <2>. QED
    BY <1>2, <2>1
<1>4. /\ LockInv' /\ ReadInv'
      /\ \A k \in Names : Of(k) \subseteq Of(k)'
      /\ lock' \in [Names -> Files] /\ robbed' \subseteq Pids /\ found' \in [Pids -> Files]
      /\ \A k \in Names : lock'[k].by \in Of(k)' \cup {None}
  <2>1. UNCHANGED lockVars
    OBVIOUS
  <2>2. \A q \in Pids : /\ proc[q].state # "unused" => proc'[q].name = proc[q].name /\ proc'[q].state # "unused"
                        /\ Dead(q) => proc'[q].state \in {"exited", "gone"}
                        /\ proc'[q].state \in {"write", "up", "ending"} => Locks(q)
                        /\ proc'[q].state = "remove" => proc[q].state = "remove"
    BY <1>3 DEF Dead, Locks
  <2>. QED
    BY <1>3, <2>1, <2>2, BrokerKeeps
<1>5. /\ entry' \in [Names -> Entry \cup {NoEntry}]
      /\ \A k \in Names : {entry'[k].pid, pidfile'[k]} \subseteq Of(k)' \cup {None}
  <2>1. \A k \in Names : {entry[k].pid, pidfile[k]} \subseteq Of(k) \cup {None}
    BY DEF IInv, TypeOK
  <2>. QED
    BY <1>1, <1>4, <2>1, PidFacts
<1>6. \A q \in strangers : proc'[q].state = "gone"
  BY <1>3 DEF IInv, TypeOK
<1>7. TypeOK'
  <2>1. /\ config \subseteq Names /\ mistaken \subseteq strangers /\ strangers \subseteq Pids
        /\ pidfile \in [Names -> Pids \cup {None}]
    BY DEF IInv, TypeOK
  <2>2. brokerUp' \in BOOLEAN /\ slipped' \subseteq Pids
    OBVIOUS
  <2>3. \A k \in Names : {entry'[k].pid, pidfile'[k], lock'[k].by} \subseteq Of(k)' \cup {None}
    BY <1>4, <1>5
  <2>. QED
    BY <1>1, <1>3, <1>4, <1>5, <1>6, <2>1, <2>2, <2>3 DEF TypeOK, Files
<1>8. EntryInv'
  BY DEF EntryInv
<1>9. ReachInv'
  <2>. SUFFICES ASSUME NEW k \in Names, NEW q \in Pids, q \notin slipped', proc'[q].name = k,
                       proc'[q].state \in Locking \cup {"up"}
                PROVE  k \in config /\ pidfile[k] = q
    BY <1>1 DEF ReachInv, Unsought, Of
  <2>1. q \in Of(k) /\ Unsought(q) /\ q \notin slipped
    BY <1>3 DEF Of, Unsought, Locking
  <2>. QED
    BY <2>1 DEF IInv, ReachInv
<1>. QED
  BY <1>4, <1>7, <1>8, <1>9 DEF IInv

LEMMA DownStep ==
  ASSUME IInv, BrokerDown
  PROVE  IInv'
<1>1. proc' = [p \in Pids |-> IF p \in {} THEN [name |-> CHOOSE n \in Names : TRUE, state |-> "create", child |-> FALSE]
                                         ELSE Orphaned(p)]
  BY DEF BrokerDown
<1>2. (CHOOSE n \in Names : TRUE) \in Names
  BY NamesAssumption
<1>3. slipped' = slipped /\ slipped \subseteq Pids
  BY DEF BrokerDown, IInv, TypeOK
<1>4. /\ brokerUp' = FALSE /\ entry' = [n \in Names |-> NoEntry]
      /\ UNCHANGED <<config, pidfile, lockVars, pidVars>>
  BY DEF BrokerDown
<1>5. {} \in SUBSET slipped' /\ \A p \in {} : proc[p].state = "unused"
  OBVIOUS
<1>. QED
  BY <1>1, <1>2, <1>3, <1>4, <1>5, DownKeeps

LEMMA CrashStep ==
  ASSUME IInv, NEW n \in Names, CrashInSpawn(n)
  PROVE  IInv'
<1>1. PICK q \in Unused : /\ proc' = [p \in Pids |-> IF p = q THEN [name |-> n, state |-> "create", child |-> FALSE]
                                                            ELSE Orphaned(p)]
                          /\ slipped' = slipped \cup {q}
  BY DEF CrashInSpawn
<1>2. proc' = [p \in Pids |-> IF p \in {q} THEN [name |-> n, state |-> "create", child |-> FALSE]
                                          ELSE Orphaned(p)]
  BY <1>1
<1>3. /\ slipped \subseteq slipped' /\ slipped' \subseteq Pids /\ {q} \in SUBSET slipped'
      /\ \A p \in {q} : proc[p].state = "unused"
  BY <1>1 DEF Unused, IInv, TypeOK
<1>4. /\ brokerUp' = FALSE /\ entry' = [k \in Names |-> NoEntry]
      /\ UNCHANGED <<config, pidfile, lockVars, pidVars>>
  BY DEF CrashInSpawn
<1>. QED
  BY <1>2, <1>3, <1>4, DownKeeps

LEMMA UpStep ==
  ASSUME IInv, BrokerStarts
  PROVE  IInv'
<1>1. UNCHANGED <<config, proc, slipped, strangers, lock, found, robbed>> /\ mistaken' = {} /\ brokerUp' = TRUE
  BY DEF BrokerStarts, lockVars
<1>2. \A n \in Names :
        /\ Alive(pidfile[n]) =>
             /\ entry'[n] \in Entry /\ entry'[n].pid = pidfile[n] /\ entry'[n].adopted
             /\ pidfile'[n] = pidfile[n] /\ pidfile[n] \in Pids
        /\ ~Alive(pidfile[n]) => entry'[n] = NoEntry /\ pidfile'[n] = None
        /\ pidfile[n] \in Of(n) \cup {None}
  <2>. SUFFICES ASSUME NEW n \in Names
                PROVE  /\ Alive(pidfile[n]) =>
                            /\ entry'[n] \in Entry /\ entry'[n].pid = pidfile[n] /\ entry'[n].adopted
                            /\ pidfile'[n] = pidfile[n] /\ pidfile[n] \in Pids
                       /\ ~Alive(pidfile[n]) => entry'[n] = NoEntry /\ pidfile'[n] = None
                       /\ pidfile[n] \in Of(n) \cup {None}
    OBVIOUS
  <2>1. pidfile[n] \in Of(n) \cup {None} /\ (Alive(pidfile[n]) => pidfile[n] \in Pids)
    BY DEF IInv, TypeOK, Alive
  <2>2. ~Alive(pidfile[n]) => entry'[n] = NoEntry /\ pidfile'[n] = None
    BY DEF BrokerStarts
  <2>3. Alive(pidfile[n]) => entry'[n] = [pid |-> pidfile[n], adopted |-> TRUE] /\ pidfile'[n] = pidfile[n]
    BY DEF BrokerStarts
  <2>4. CASE Alive(pidfile[n])
    <3>1. entry'[n] = [pid |-> pidfile[n], adopted |-> TRUE] /\ pidfile[n] \in Pids
      BY <2>1, <2>3, <2>4
    <3>2. entry'[n] \in Entry /\ entry'[n].pid = pidfile[n] /\ entry'[n].adopted
      BY <3>1 DEF Entry
    <3>. QED
      BY <2>1, <2>3, <2>4, <3>2
  <2>5. CASE ~Alive(pidfile[n])
    BY <2>1, <2>2, <2>5
  <2>. QED
    BY <2>4, <2>5
<1>3. TypeOK'
  <2>1. entry' \in [Names -> Entry \cup {NoEntry}] /\ pidfile' \in [Names -> Pids \cup {None}]
    <3>1. ASSUME NEW n \in Names
          PROVE  entry'[n] \in Entry \cup {NoEntry} /\ pidfile'[n] \in Pids \cup {None}
      <4>1. CASE Alive(pidfile[n])
        BY <1>2, <4>1
      <4>2. CASE ~Alive(pidfile[n])
        BY <1>2, <4>2
      <4>. QED
        BY <4>1, <4>2
    <3>2. entry' = [n \in Names |-> entry'[n]] /\ pidfile' = [n \in Names |-> pidfile'[n]]
      BY DEF BrokerStarts
    <3>. QED
      BY <3>1, <3>2
  <2>2. ASSUME NEW n \in Names
        PROVE  {entry'[n].pid, pidfile'[n], lock'[n].by} \subseteq Of(n) \cup {None}
    <3>1. lock'[n].by \in Of(n) \cup {None}
      BY <1>1 DEF IInv, TypeOK
    <3>2. CASE Alive(pidfile[n])
      BY <1>2, <3>1, <3>2
    <3>3. CASE ~Alive(pidfile[n])
      BY <1>2, <3>1, <3>3, PidFacts
    <3>. QED
      BY <3>2, <3>3
  <2>3. \A n \in Names : {entry'[n].pid, pidfile'[n], lock'[n].by} \subseteq Of(n)' \cup {None}
    BY <1>1, <2>2 DEF Of
  <2>. QED
    BY <1>1, <2>1, <2>3 DEF IInv, TypeOK
<1>4. LockInv' /\ ReadInv'
  BY <1>1 DEF IInv, LockInv, ReadInv, Locks, Dead
<1>5. EntryInv'
  <2>. SUFFICES ASSUME NEW n \in Names, Alive(pidfile[n])
                PROVE  pidfile[n] \notin strangers
    <3>1. \A n \in Names : ~Alive(pidfile[n]) => entry'[n] = NoEntry
      BY <1>2
    <3>2. \A n \in Names : Alive(pidfile[n]) => entry'[n].adopted /\ entry'[n].pid = pidfile[n]
      BY <1>2
    <3>. QED
      BY <1>1, <3>1, <3>2 DEF EntryInv
  <2>. QED
    BY DEF Alive, IInv, TypeOK, Locking
<1>6. ReachInv'
  <2>. SUFFICES ASSUME NEW k \in Names, NEW q \in Of(k) \ slipped, Unsought(q)
                PROVE  k \in config /\ pidfile'[k] = q /\ entry'[k].pid = q
    BY <1>1 DEF ReachInv, Unsought, Of
  <2>1. k \in config /\ pidfile[k] = q
    BY DEF IInv, ReachInv
  <2>2. Alive(q)
    BY PidFacts DEF Alive, Unsought, Of
  <2>. QED
    <3>1. Alive(pidfile[k])
      BY <2>1, <2>2
    <3>. QED
      BY <1>2, <2>1, <3>1
<1>. QED
  BY <1>3, <1>4, <1>5, <1>6 DEF IInv

(* Pids come and go; the broker's books and the watchdogs stay.            *)
LEMMA StrangerStep ==
  ASSUME IInv, NEW p \in Pids, Recycle(p) \/ StrangerEnds(p)
  PROVE  IInv'
<1>1. UNCHANGED <<brokerUp, config, entry, pidfile, proc, slipped, lock, found, robbed>>
  BY DEF Recycle, StrangerEnds, lockVars
<1>2. LockInv' /\ ReadInv' /\ ReachInv'
  BY <1>1 DEF IInv, LockInv, ReadInv, ReachInv, Locks, Dead, Unsought, Of
<1>3. \A n \in Names : Of(n)' = Of(n)
  BY <1>1 DEF Of
<1>4. CASE Recycle(p)
  <2>1. /\ proc[p].state = "gone" /\ strangers' = strangers \cup {p}
        /\ mistaken' = IF entry[proc[p].name].pid = p THEN mistaken \cup {p} ELSE mistaken
    BY <1>4 DEF Recycle
  <2>2. TypeOK'
    BY <1>1, <1>3, <2>1 DEF IInv, TypeOK
  <2>3. EntryInv'
    <3>. SUFFICES ASSUME NEW n \in Names, entry[n] # NoEntry
                  PROVE  entry[n].pid \in strangers' => entry[n].pid \in mistaken'
      BY <1>1 DEF IInv, EntryInv
    <3>1. entry[n].pid = p => proc[p].name = n
      BY PidFacts DEF IInv, TypeOK, Of
    <3>. QED
      BY <2>1, <3>1 DEF IInv, EntryInv
  <2>. QED
    BY <1>2, <2>2, <2>3 DEF IInv
<1>5. CASE StrangerEnds(p)
  <2>1. strangers' = strangers \ {p} /\ mistaken' = mistaken \ {p}
    BY <1>5 DEF StrangerEnds
  <2>2. TypeOK'
    BY <1>1, <1>3, <2>1 DEF IInv, TypeOK
  <2>3. EntryInv'
    BY <1>1, <2>1 DEF IInv, EntryInv
  <2>. QED
    BY <1>2, <2>2, <2>3 DEF IInv
<1>. QED
  BY <1>4, <1>5

----------------------------------------------------------------------------

LEMMA NextInv == IInv /\ [Next]_vars => IInv'
<1>. SUFFICES ASSUME IInv, [Next]_vars PROVE IInv'
  OBVIOUS
<1>1. CASE UNCHANGED vars
  BY <1>1 DEF vars, lockVars, pidVars, IInv, TypeOK, LockInv, ReadInv, EntryInv, ReachInv,
              Locks, Dead, Unsought, Of
<1>2. ASSUME NEW n \in Names, ListWorker(n) \/ Start(n) \/ Stop(n) \/ CrashInSpawn(n)
                              \/ Register(n) \/ Deregister(n)
      PROVE  IInv'
  BY <1>2, ListStep, StartStep, StopStep, CrashStep, RegisterStep, DeregisterStep
<1>3. ASSUME NEW p \in Pids, Own(p)
      PROVE  IInv'
  BY <1>3, CreateStep, WriteStep, LookStep, RemoveStep, FinishStep, DieStep DEF Own
<1>4. ASSUME NEW p \in Pids, OnExit(p) \/ Recycle(p) \/ StrangerEnds(p)
      PROVE  IInv'
  BY <1>4, ExitStep, StrangerStep
<1>. QED
  BY <1>1, <1>2, <1>3, <1>4, DownStep, UpStep DEF Next

LEMMA AlwaysInv == Spec => []IInv
BY InitInv, NextInv, PTL DEF Spec

(* Every entry, pidfile, lock file and process is well formed, and an      *)
(* entry, a pidfile or a lock names a watchdog of its own worker.          *)
THEOREM SupervisorTypeCorrect == Spec => []TypeOK
<1>1. IInv => TypeOK
  BY DEF IInv
<1>. QED
  BY AlwaysInv, <1>1, PTL

(* One watchdog at a time works under a worker's name, but for those whose *)
(* lock file another one removed while they lived: whatever the broker     *)
(* starts, stops, forgets or adopts, and however often it crashes.         *)
THEOREM AtMostOneWatchdog == Spec => []OneWatchdog
<1>1. ASSUME IInv PROVE OneWatchdog
  <2>. SUFFICES ASSUME NEW n \in Names, NEW p \in Of(n) \ robbed, NEW q \in Of(n) \ robbed,
                       proc[p].state \in {"up", "ending"}, proc[q].state \in {"up", "ending"}
                PROVE  p = q
    BY DEF OneWatchdog
  <2>1. lock[n].by = p /\ lock[n].by = q
    BY <1>1 DEF IInv, LockInv, Locks, Of
  <2>. QED
    BY <2>1
<1>. QED
  BY AlwaysInv, <1>1, PTL

(* The broker never takes a watchdog that is gone for a running one,       *)
(* unless its pid became another process's while it was adopted.           *)
THEOREM NoDeadEntryRuns == Spec => []NoGhost
<1>1. ASSUME IInv PROVE NoGhost
  <2>. SUFFICES ASSUME NEW n \in Names, brokerUp, Running(n), proc[entry[n].pid].state = "gone"
                PROVE  entry[n].pid \in mistaken
    BY DEF NoGhost
  <2>1. entry[n] # NoEntry /\ (entry[n].adopted => InUse(entry[n].pid))
    BY DEF Running
  <2>2. entry[n].adopted /\ ~Alive(entry[n].pid)
    BY <1>1, <2>1 DEF IInv, EntryInv, IInv, TypeOK, Entry, Alive, Locking
  <2>. QED
    BY <1>1, <2>1, <2>2 DEF InUse, IInv, EntryInv
<1>. QED
  BY AlwaysInv, <1>1, PTL

(* A working watchdog stays within the reach of this broker and of the     *)
(* next one, unless an 'exit' event of a predecessor or a crash between    *)
(* spawn and pidfile made it slip.                                         *)
THEOREM WorkingStaysInReach == Spec => []StillInReach
<1>1. ASSUME IInv PROVE StillInReach
  BY <1>1 DEF IInv, ReachInv, StillInReach, InReach, Unsought, Of
<1>. QED
  BY AlwaysInv, <1>1, PTL
=============================================================================
