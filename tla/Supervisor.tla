----------------------------- MODULE Supervisor -----------------------------
(***************************************************************************)
(* The broker as supervisor of its workers' watchdogs: lib/workers.js in   *)
(* subprocess mode, with the instance lock of watchdog.sh.                 *)
(*                                                                         *)
(* A watchdog is a detached process that outlives the broker.  The broker  *)
(* knows it by an entry in memory and by a pidfile that lets the next      *)
(* broker adopt it; the watchdog itself takes a lock file per worker and   *)
(* leaves when another live watchdog holds it.  Killing is asynchronous:   *)
(* a stopped watchdog ends some time later, and the broker that spawned it *)
(* hears of that in an 'exit' event, later still.                          *)
(* The history variable slipped keeps the watchdogs that event, or a crash *)
(* between spawn and pidfile, made the broker lose.                        *)
(*                                                                         *)
(* The lock is taken as the shell does it: create the file if it is not    *)
(* there (noclobber) and write the pid into it, else read it, leave if its *)
(* holder lives, remove it otherwise and create it again.  So the file of  *)
(* a live watchdog can be removed: an empty one that was read before the   *)
(* pid was in it, or one put in the place of the stale one that was read.  *)
(* robbed keeps who lost the file in one of these two ways, or to the      *)
(* cleanup of such a loser.                                                *)
(*                                                                         *)
(* The pid of a watchdog that is gone may be given to another process, of  *)
(* no worker; to another worker's watchdog it is not given here.           *)
(***************************************************************************)
EXTENDS Integers

CONSTANTS
  Names,    \* workers there may be
  Faults,   \* what a run includes, see below
  MaxPid    \* bound: watchdogs ever spawned

(* "hasty"        start_worker while a stopped watchdog is still ending;   *)
(* "spawn_crash"  the broker dies between spawn() and the pidfile;         *)
(* "recycle"      pids are given to other processes.                       *)
ASSUME FaultsAssumption == Faults \subseteq {"hasty", "spawn_crash", "recycle"}
ASSUME NamesAssumption == Names # {}
ASSUME MaxPidAssumption == MaxPid \in Nat

None == 0
Pids == 1..MaxPid
Entry == [pid : Pids, adopted : BOOLEAN]

(* The steps to the lock; up: holding it; ending: SIGTERM received;        *)
(* exited: gone, the 'exit' event not yet handled; gone: nothing left.     *)
Locking == {"create", "look", "remove", "again", "write"}
ProcStates == Locking \cup {"unused", "up", "ending", "exited", "gone"}

VARIABLES
  brokerUp,
  config,    \* WORKERS_CONFIG: the workers registered
  entry,     \* watchdogProcs: name -> Entry or None
  pidfile,   \* name -> pid or None
  lock,      \* LOCK_FILE: name -> who created it, and whether the pid is in it
  proc,      \* pid -> [name, state, child]; child: of the running broker
  strangers, \* pids of watchdogs that now belong to other processes
  mistaken,  \* history: those an entry of the broker named at that moment
  slipped,   \* history: live pids the first two ways in Faults made it lose
  found,     \* history: pid -> the lock file it is about to remove
  robbed     \* history: live pids whose lock file was removed under them

lockVars == <<lock, found, robbed>>
pidVars  == <<strangers, mistaken>>
vars == <<brokerUp, config, entry, pidfile, proc, slipped, lockVars, pidVars>>

NoEntry == [pid |-> None, adopted |-> FALSE]
NoLock  == [by |-> None, written |-> FALSE]

Alive(p) == p # None /\ proc[p].state \in Locking \cup {"up", "ending"}
Of(n)    == {p \in Pids : proc[p].name = n /\ proc[p].state # "unused"}
Unused   == {p \in Pids : proc[p].state = "unused"}

(* What an ended process turns into: an event only its own broker gets. *)
Ended(p) == [proc[p] EXCEPT !.state = IF proc[p].child THEN "exited" ELSE "gone"]

----------------------------------------------------------------------------
(* The broker. *)

(* isAlive: some process has this pid. *)
InUse(p) == Alive(p) \/ p \in strangers

(* workerRunningInfo: adopted watchdogs send no event, so they are polled, *)
(* by their pid alone.                                                     *)
Running(n) == entry[n] # NoEntry /\ (entry[n].adopted => InUse(entry[n].pid))

(* A dead adopted entry is dropped. *)
Drop(n) ==
  IF Running(n) \/ entry[n] = NoEntry
  THEN UNCHANGED <<entry, pidfile>>
  ELSE /\ entry' = [entry EXCEPT ![n] = NoEntry]
       /\ pidfile' = [pidfile EXCEPT ![n] = None]

(* list_workers, GET /workers *)
ListWorker(n) ==
  /\ brokerUp /\ n \in config
  /\ entry[n] # NoEntry /\ ~Running(n)
  /\ Drop(n)
  /\ UNCHANGED <<brokerUp, config, proc, slipped, lockVars, pidVars>>

Register(n) ==
  /\ brokerUp
  /\ config' = config \cup {n}
  /\ UNCHANGED <<brokerUp, entry, pidfile, proc, slipped, lockVars, pidVars>>

(* Mutant: a running worker may be deregistered. *)
Deregister_Running(n) ==
  /\ brokerUp
  /\ Drop(n)
  /\ config' = config \ {n}
  /\ UNCHANGED <<brokerUp, proc, slipped, lockVars, pidVars>>

Deregister(n) ==
  /\ brokerUp /\ ~Running(n)
  /\ Drop(n)
  /\ config' = config \ {n}
  /\ UNCHANGED <<brokerUp, proc, slipped, lockVars, pidVars>>

Fork(n, p, child) ==
  /\ p \in Unused /\ \A k \in Unused : p <= k
  /\ proc' = [proc EXCEPT ![p] = [name |-> n, state |-> "create", child |-> child]]

(* startWorker: spawn, remember, write the pidfile. *)
Start(n) ==
  /\ brokerUp /\ n \in config
  /\ ~Running(n)
  /\ "hasty" \notin Faults => \A p \in Of(n) : proc[p].state = "gone"
  /\ \E p \in Pids :
       /\ Fork(n, p, TRUE)
       /\ entry' = [entry EXCEPT ![n] = [pid |-> p, adopted |-> FALSE]]
       /\ pidfile' = [pidfile EXCEPT ![n] = p]
  /\ UNCHANGED <<brokerUp, config, slipped, lockVars, pidVars>>

(* stopWorker: forget, SIGTERM the process group, remove the pidfile.  The *)
(* kill fails, and leaves the pidfile, when nothing of the process is left *)
(* - or, depending on the system, only a zombie; it succeeds when the pid  *)
(* now leads another group.  Before its trap is set a watchdog dies of the *)
(* signal at once.                                                         *)
Stop(n) ==
  /\ brokerUp
  /\ entry[n] # NoEntry
  /\ LET p == entry[n].pid
     IN  \/ /\ proc[p].state # "gone" \/ p \in strangers
            /\ pidfile' = [pidfile EXCEPT ![n] = None]
            /\ proc' = [proc EXCEPT ![p] =
                 CASE @.state \in Locking -> Ended(p)
                   [] @.state = "up" -> [@ EXCEPT !.state = "ending"]
                   [] OTHER -> @]
         \/ ~Alive(p) /\ UNCHANGED <<pidfile, proc>>
  /\ entry' = [entry EXCEPT ![n] = NoEntry]
  /\ UNCHANGED <<brokerUp, config, slipped, lockVars, pidVars>>

(* The 'exit' handler of the watchdog with pid p, by name alone. *)
OnExit(p) ==
  LET n == proc[p].name
  IN  /\ brokerUp /\ proc[p].state = "exited"
      /\ entry' = [entry EXCEPT ![n] = NoEntry]
      /\ pidfile' = [pidfile EXCEPT ![n] = None]
      /\ proc' = [proc EXCEPT ![p].state = "gone"]
      /\ slipped' = slipped \cup {q \in {entry[n].pid, pidfile[n]} \ {p} : Alive(q)}
      /\ UNCHANGED <<brokerUp, config, lockVars, pidVars>>

Orphaned(p) ==
  [proc[p] EXCEPT !.child = FALSE, !.state = IF @ = "exited" THEN "gone" ELSE @]

(* The broker stops or crashes; its watchdogs stay. *)
BrokerDown ==
  /\ brokerUp
  /\ brokerUp' = FALSE
  /\ entry' = [n \in Names |-> NoEntry]
  /\ proc' = [p \in Pids |-> Orphaned(p)]
  /\ UNCHANGED <<config, pidfile, slipped, lockVars, pidVars>>

CrashInSpawn(n) ==
  /\ "spawn_crash" \in Faults
  /\ brokerUp /\ n \in config /\ ~Running(n)
  /\ brokerUp' = FALSE
  /\ entry' = [k \in Names |-> NoEntry]
  /\ \E q \in Unused :
       /\ \A k \in Unused : q <= k
       /\ proc' = [p \in Pids |-> IF p = q THEN [name |-> n, state |-> "create", child |-> FALSE]
                                  ELSE Orphaned(p)]
       /\ slipped' = slipped \cup {q}
  /\ UNCHANGED <<config, pidfile, lockVars, pidVars>>

(* Mutant: a pidfile is believed unread. *)
BrokerStarts_Unchecked ==
  /\ ~brokerUp
  /\ brokerUp' = TRUE
  /\ entry' = [n \in Names |-> [pid |-> pidfile[n], adopted |-> TRUE]]
  /\ mistaken' = {}
  /\ UNCHANGED <<config, pidfile, proc, slipped, strangers, lockVars>>

(* Mutant: any process with the pid is taken for the watchdog. *)
BrokerStarts_AnyProcess ==
  /\ ~brokerUp
  /\ brokerUp' = TRUE
  /\ entry' = [n \in Names |-> IF InUse(pidfile[n]) THEN [pid |-> pidfile[n], adopted |-> TRUE]
                                                    ELSE NoEntry]
  /\ pidfile' = [n \in Names |-> IF InUse(pidfile[n]) THEN pidfile[n] ELSE None]
  /\ mistaken' = {}
  /\ UNCHANGED <<config, proc, slipped, strangers, lockVars>>

(* adoptOrphanWatchdogs: adopt what lives and, by its command, is still a  *)
(* watchdog; remove stale pidfiles.                                        *)
BrokerStarts ==
  /\ ~brokerUp
  /\ brokerUp' = TRUE
  /\ entry' = [n \in Names |-> IF Alive(pidfile[n]) THEN [pid |-> pidfile[n], adopted |-> TRUE]
                                                    ELSE NoEntry]
  /\ pidfile' = [n \in Names |-> IF Alive(pidfile[n]) THEN pidfile[n] ELSE None]
  /\ mistaken' = {}
  /\ UNCHANGED <<config, proc, slipped, strangers, lockVars>>

----------------------------------------------------------------------------
(* The watchdogs.  Nothing of theirs touches the broker's own state. *)

OwnStep(p, state) ==
  /\ proc' = [proc EXCEPT ![p].state = state]
  /\ UNCHANGED <<brokerUp, config, entry, pidfile, slipped, pidVars>>

Leave(p) ==
  /\ proc' = [proc EXCEPT ![p] = Ended(p)]
  /\ slipped' = slipped \ {p}
  /\ UNCHANGED <<brokerUp, config, entry, pidfile, pidVars>>

(* echo $$ > LOCK_FILE under noclobber, the first time and after the       *)
(* removal: the one that finds the file then has lost the race and leaves. *)
CreateLock(p) ==
  LET n == proc[p].name
  IN  /\ proc[p].state \in {"create", "again"}
      /\ IF lock[n] = NoLock
           THEN lock' = [lock EXCEPT ![n] = [by |-> p, written |-> FALSE]] /\ OwnStep(p, "write")
           ELSE IF proc[p].state = "create" THEN OwnStep(p, "look") /\ UNCHANGED lock
                                            ELSE Leave(p) /\ UNCHANGED lock
      /\ UNCHANGED <<found, robbed>>

(* The pid goes into the file this watchdog created, if that still is at   *)
(* its path.  Then the trap is set and the main loop begins.               *)
WriteLock(p) ==
  LET n == proc[p].name
  IN  /\ proc[p].state = "write"
      /\ lock' = [lock EXCEPT ![n] = IF @.by = p THEN [@ EXCEPT !.written = TRUE] ELSE @]
      /\ OwnStep(p, "up")
      /\ UNCHANGED <<found, robbed>>

(* Mutant: a lock whose holder is ending counts as stale. *)
HolderLives_NotEnding(f) == f.written /\ Alive(f.by) /\ proc[f.by].state # "ending"

(* [[ -n "$ex" ]] && kill -0 "$ex" *)
HolderLives(f) == f.written /\ Alive(f.by)

(* A zombie may pass for alive, and so does another process that has the   *)
(* holder's pid and may be signalled.                                      *)
LookAtLock(p) ==
  LET f == lock[proc[p].name]
  IN  /\ proc[p].state = "look"
      /\ \/ /\ HolderLives(f) \/ (f.written /\ (proc[f.by].state = "exited" \/ f.by \in strangers))
            /\ Leave(p) /\ UNCHANGED found
         \/ /\ ~HolderLives(f)
            /\ OwnStep(p, "remove")
            /\ found' = [found EXCEPT ![p] = f]
      /\ UNCHANGED <<lock, robbed>>

(* rm -f, whatever stands at the path by now. *)
RemoveLock(p) ==
  LET n == proc[p].name
      f == lock[n]
  IN  /\ proc[p].state = "remove"
      /\ lock' = [lock EXCEPT ![n] = NoLock]
      /\ robbed' = robbed \cup {q \in {f.by} : Alive(q) /\ (found[p].by # q \/ ~found[p].written)}
      /\ found' = [found EXCEPT ![p] = NoLock]
      /\ OwnStep(p, "again")

(* The trap, or the end of a --once run: _cleanup removes the file at the  *)
(* path.                                                                   *)
Finish(p) ==
  LET n == proc[p].name
  IN  /\ proc[p].state \in {"up", "ending"}
      /\ lock' = [lock EXCEPT ![n] = NoLock]
      /\ robbed' = IF p \in robbed THEN (robbed \cup {q \in {lock[n].by} : Alive(q)}) \ {p} ELSE robbed
      /\ Leave(p)
      /\ UNCHANGED found

(* Killed, or ended by set -e: the lock stays. *)
Die(p) ==
  /\ Alive(p) /\ Leave(p)
  /\ found' = [found EXCEPT ![p] = NoLock] /\ robbed' = robbed \ {p}
  /\ UNCHANGED lock

(* The pid of a watchdog that is gone, and that something still names, is  *)
(* given to another process; and that process ends.                        *)
Recycle(p) ==
  /\ "recycle" \in Faults
  /\ proc[p].state = "gone" /\ p \notin strangers
  /\ LET n == proc[p].name IN p \in {entry[n].pid, pidfile[n], lock[n].by}
  /\ strangers' = strangers \cup {p}
  /\ mistaken' = IF entry[proc[p].name].pid = p THEN mistaken \cup {p} ELSE mistaken
  /\ UNCHANGED <<brokerUp, config, entry, pidfile, proc, slipped, lockVars>>

StrangerEnds(p) ==
  /\ p \in strangers
  /\ strangers' = strangers \ {p} /\ mistaken' = mistaken \ {p}
  /\ UNCHANGED <<brokerUp, config, entry, pidfile, proc, slipped, lockVars>>

----------------------------------------------------------------------------

Init ==
  /\ brokerUp = TRUE
  /\ config \in SUBSET Names
  /\ strangers = {} /\ mistaken = {}
  /\ entry = [n \in Names |-> NoEntry]
  /\ pidfile = [n \in Names |-> None]
  /\ lock = [n \in Names |-> NoLock]
  /\ proc = [p \in Pids |-> [name |-> CHOOSE n \in Names : TRUE, state |-> "unused",
                              child |-> FALSE]]
  /\ slipped = {} /\ robbed = {}
  /\ found = [p \in Pids |-> NoLock]

Own(p) ==
  \/ CreateLock(p) \/ WriteLock(p) \/ LookAtLock(p) \/ RemoveLock(p)
  \/ Finish(p)
  \/ Die(p)

Next ==
  \/ \E n \in Names : ListWorker(n) \/ Start(n) \/ Stop(n) \/ CrashInSpawn(n)
                     \/ Register(n) \/ Deregister(n)
  \/ \E p \in Pids : OnExit(p) \/ Own(p) \/ Recycle(p) \/ StrangerEnds(p)
  \/ BrokerDown
  \/ BrokerStarts

Spec == Init /\ [][Next]_vars

----------------------------------------------------------------------------

(* Every variable has its type; a pidfile, a lock or an entry names a      *)
(* watchdog of its own worker.                                             *)
TypeOK ==
  /\ brokerUp \in BOOLEAN /\ config \subseteq Names
  /\ entry \in [Names -> Entry \cup {NoEntry}]
  /\ pidfile \in [Names -> Pids \cup {None}]
  /\ lock \in [Names -> [by : Pids, written : BOOLEAN] \cup {NoLock}]
  /\ proc \in [Pids -> [name : Names, state : ProcStates, child : BOOLEAN]]
  /\ mistaken \subseteq strangers
  /\ strangers \subseteq Pids /\ \A p \in strangers : proc[p].state = "gone"
  /\ slipped \subseteq Pids /\ robbed \subseteq Pids
  /\ found \in [Pids -> [by : Pids, written : BOOLEAN] \cup {NoLock}]
  /\ \A n \in Names : {entry[n].pid, pidfile[n], lock[n].by} \subseteq Of(n) \cup {None}

(* However fast a worker is stopped and started, and whichever broker      *)
(* loses track of it, one watchdog at a time works under its name: a       *)
(* second one is there only when a lock file was taken from a live one in  *)
(* the gap between reading it and removing it, or before its pid was in.   *)
OneWatchdog ==
  \A n \in Names : \A p, q \in Of(n) \ robbed :
    proc[p].state \in {"up", "ending"} /\ proc[q].state \in {"up", "ending"} => p = q

(* The broker does not take a dead watchdog for a running one: the entry   *)
(* of one it spawned goes with the watchdog, at the latest when its 'exit' *)
(* event comes, and an adopted one when the broker next looks - unless the *)
(* pid was by then another process's; that lasts no longer than that       *)
(* process and this broker, as the next one looks at the command.          *)
NoGhost ==
  \A n \in Names :
    brokerUp /\ Running(n) => proc[entry[n].pid].state # "gone" \/ entry[n].pid \in mistaken

InReach(n, p) == pidfile[n] = p /\ (brokerUp => n \in config /\ entry[n].pid = p)

(* A working watchdog stays within the broker's reach: its worker is       *)
(* registered, it is the one list_workers shows and stop_worker kills, and *)
(* its pidfile lets the next broker adopt it.  Nothing but a late 'exit'   *)
(* event of its predecessor and a crash between spawn and pidfile takes it *)
(* out of reach.                                                           *)
StillInReach ==
  \A n \in Names : \A p \in Of(n) \ slipped : proc[p].state = "up" => InReach(n, p)

(* Every working watchdog is within the broker's reach. *)
EveryWatchdogInReach ==
  \A n \in Names : \A p \in Of(n) : proc[p].state = "up" => InReach(n, p)
=============================================================================
