---------------------------- MODULE VerifierLock ----------------------------
(***************************************************************************)
(* The lock of the standalone verifier of one namespace (takeLock and the  *)
(* exit handler of verify-result.mjs --watch): <status>.lock, broken only  *)
(* under <status>.lock.takeover.  Every call to the file system is a step  *)
(* of its own, creating a file and writing the pid into it are two, and    *)
(* judging a lock - its pid, its age, its holder's command - is one;       *)
(* starters run side by side, and any may be killed at any step.           *)
(*                                                                         *)
(* A starter is a process; pids are not reused.  Ages are abstracted: a    *)
(* file of a live process is young, for each lives through few calls, and  *)
(* one of a dead process becomes old.  Left out: the alerts, and ps that   *)
(* fails, whose live verifier would be taken for a foreign process.        *)
(***************************************************************************)

CONSTANTS
  Starters,  \* processes of this verifier
  Others     \* the pids of dead and foreign processes

(* Where a starter is: the call it makes next. *)
Guarded == {"check", "unlink", "recreate", "rewrite", "release", "keep"}
Created == {"write", "rewrite", "keep", "confirm", "watching", "exiting"}
Places  == {"off", "create", "look", "guard", "age", "breakGuard", "gone"} \cup Guarded \cup Created

(* Files hold at most one pid, and a missing one none: all are sets. *)
VARIABLES
  owner,   \* who created the lock
  pid,     \* what can be read in it
  guard,   \* who created the takeover file
  at,
  judged,  \* starter -> the pid it read, and found to be no live verifier
  gaps     \* history: a file was removed that nobody had judged
starterVars == <<owner, pid, guard, at, judged, gaps>>

lockVars == <<owner, pid>>

Alive(p)       == p \in Starters /\ at[p] \notin {"off", "gone"}
Goto(p, place) == at' = [at EXCEPT ![p] = place]

----------------------------------------------------------------------------

StartUp(p) ==
  /\ at[p] = "off"
  /\ Goto(p, "create")
  /\ UNCHANGED <<lockVars, guard, judged, gaps>>

(* create, at the top of the loop: fails when the file is there. *)
Create(p) ==
  /\ at[p] = "create"
  /\ IF owner = {} THEN owner' = {p} /\ pid' = {} /\ Goto(p, "write")
                   ELSE Goto(p, "look") /\ UNCHANGED lockVars
  /\ UNCHANGED <<guard, judged, gaps>>

(* After fifty rounds. *)
GiveUp(p) ==
  /\ at[p] = "create"
  /\ Goto(p, "confirm")
  /\ UNCHANGED <<lockVars, guard, judged, gaps>>

(* The pid goes into the file that was created, be it removed since. *)
WriteInto(p) == pid' = IF owner = {p} THEN {p} ELSE pid

WritePid(p) ==
  /\ at[p] = "write"
  /\ WriteInto(p)
  /\ Goto(p, "confirm")
  /\ UNCHANGED <<owner, guard, judged, gaps>>

(* A fresh file without a pid is left to its starter; a file that is gone  *)
(* by now has no pid either, and counts as old.                            *)
Wait(p) ==
  /\ at[p] = "look" /\ pid = {} /\ owner # {}
  /\ Goto(p, "create")
  /\ UNCHANGED <<lockVars, guard, judged, gaps>>

Judge(p) ==
  /\ at[p] = "look"
  /\ \A q \in pid : ~Alive(q)
  /\ pid = {} => \A q \in owner : ~Alive(q)
  /\ judged' = [judged EXCEPT ![p] = pid]
  /\ Goto(p, "guard")
  /\ UNCHANGED <<lockVars, guard, gaps>>

(* Another verifier holds the lock. *)
Refuse(p) ==
  /\ at[p] = "look"
  /\ \E q \in pid : Alive(q)
  /\ Goto(p, "gone")
  /\ UNCHANGED <<lockVars, guard, judged, gaps>>

TakeGuard(p) ==
  /\ at[p] = "guard"
  /\ IF guard = {} THEN guard' = {p} /\ Goto(p, "check")
                   ELSE Goto(p, "age") /\ UNCHANGED guard
  /\ UNCHANGED <<lockVars, judged, gaps>>

(* A takeover file that is gone by now counts as old. *)
Age(p) ==
  /\ at[p] = "age"
  /\ \/ Goto(p, "create") /\ guard # {}
     \/ Goto(p, "breakGuard") /\ \A q \in guard : ~Alive(q)
  /\ UNCHANGED <<lockVars, guard, judged, gaps>>

(* unlinkSync, whatever is there. *)
RemoveGuard(p) ==
  /\ guard' = {}
  /\ gaps' = gaps \cup {<<"guard", q>> : q \in {r \in guard : Alive(r) /\ r # p}}

BreakGuard(p) ==
  /\ at[p] = "breakGuard"
  /\ RemoveGuard(p)
  /\ Goto(p, "create")
  /\ UNCHANGED <<lockVars, judged>>

(* lockPid(lock) === pid *)
Check(p) ==
  /\ at[p] = "check"
  /\ Goto(p, IF pid = judged[p] THEN "unlink" ELSE "recreate")
  /\ UNCHANGED <<lockVars, guard, judged, gaps>>

Unlink(p) ==
  /\ at[p] = "unlink"
  /\ owner' = {} /\ pid' = {}
  /\ gaps' = gaps \cup {<<"unread", q>> : q \in IF judged[p] = {} THEN owner ELSE {}}
  /\ Goto(p, "recreate")
  /\ UNCHANGED <<guard, judged>>

Recreate(p) ==
  /\ at[p] = "recreate"
  /\ IF owner = {} THEN owner' = {p} /\ pid' = {} /\ Goto(p, "rewrite")
                   ELSE Goto(p, "release") /\ UNCHANGED lockVars
  /\ UNCHANGED <<guard, judged, gaps>>

Rewrite(p) ==
  /\ at[p] = "rewrite"
  /\ WriteInto(p)
  /\ Goto(p, "keep")
  /\ UNCHANGED <<owner, guard, judged, gaps>>

(* The takeover file goes, with the lock taken or not. *)
Release(p) ==
  /\ at[p] \in {"release", "keep"}
  /\ RemoveGuard(p)
  /\ Goto(p, IF at[p] = "keep" THEN "confirm" ELSE "create")
  /\ UNCHANGED <<lockVars, judged>>

Confirm(p) ==
  /\ at[p] = "confirm"
  /\ Goto(p, IF pid = {p} THEN "watching" ELSE "gone")
  /\ UNCHANGED <<lockVars, guard, judged, gaps>>

(* The exit handler. *)
Exit(p) ==
  /\ at[p] = "watching"
  /\ Goto(p, IF pid = {p} THEN "exiting" ELSE "gone")
  /\ UNCHANGED <<lockVars, guard, judged, gaps>>

ExitUnlink(p) ==
  /\ at[p] = "exiting"
  /\ owner' = {} /\ pid' = {}
  /\ Goto(p, "gone")
  /\ UNCHANGED <<guard, judged, gaps>>

Die(p) ==
  /\ Alive(p)
  /\ Goto(p, "gone")
  /\ UNCHANGED <<lockVars, guard, judged, gaps>>

----------------------------------------------------------------------------

LockInit ==
  /\ owner \in {{}} \cup {{q} : q \in Others \ Starters} /\ pid = owner
  /\ guard = {}
  /\ at = [p \in Starters |-> "off"]
  /\ judged = [p \in Starters |-> {}]
  /\ gaps = {}

LockNext ==
  \E p \in Starters :
    \/ StartUp(p) \/ Create(p) \/ GiveUp(p) \/ WritePid(p) \/ Wait(p) \/ Judge(p) \/ Refuse(p)
    \/ TakeGuard(p) \/ Age(p) \/ BreakGuard(p) \/ Check(p) \/ Unlink(p) \/ Recreate(p)
    \/ Rewrite(p) \/ Release(p) \/ Confirm(p) \/ Exit(p) \/ ExitUnlink(p) \/ Die(p)

LockSpec == LockInit /\ [][LockNext]_starterVars

----------------------------------------------------------------------------

(* Two starters never both hold the lock (docs/protocol-v3.md).            *)
OneVerifier ==
  \A p, q \in Starters : at[p] = "watching" /\ at[q] = "watching" => p = q

(* They do only after a file was removed that nobody had judged: a lock    *)
(* that appeared where a starter had found none to read, or the takeover   *)
(* file of a starter still at work.                                        *)
OneVerifierButForGaps == gaps = {} => OneVerifier
=============================================================================
