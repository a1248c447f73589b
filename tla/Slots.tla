------------------------------- MODULE Slots -------------------------------
(***************************************************************************)
(* The fleet-wide session semaphore of watchdog.sh: _acquire_slot and      *)
(* _release_slot over the files slot-1 .. slot-MAX_CONCURRENT of one       *)
(* directory, shared by every watchdog of the machine.  A watchdog walks   *)
(* the files in order; at each it looks whether the file is there, reads   *)
(* the pid in it, tests that pid, removes a file whose holder is dead, and *)
(* creates the file if it is not there (noclobber).  Each of these is a    *)
(* step of its own here, as it is in the shell, and so are creating a file *)
(* and writing the pid into it.  Pids are not reused.                      *)
(*                                                                         *)
(* Because they are separate, a watchdog can remove the file of a live     *)
(* one: a file it read before the pid was in it; a file put in the place   *)
(* of the stale one it tested; or a file put in the place of one that was  *)
(* released between [[ -f ]] and cat, which gives the empty pid of a stale *)
(* file.  The history variables keep what a watchdog has read, and who     *)
(* lost a file in one of these ways or to the release of such a loser.     *)
(***************************************************************************)
EXTENDS Integers, FiniteSets

CONSTANTS
  Watchdogs,      \* pids
  MAX_CONCURRENT,
  MaxDeaths       \* bound: watchdogs killed without their trap

ASSUME WatchdogsAssumption == 0 \notin Watchdogs /\ IsFiniteSet(Watchdogs)
ASSUME SlotsAssumption == MAX_CONCURRENT \in Nat \ {0} /\ MaxDeaths \in Nat

Files == 1..MAX_CONCURRENT

(* A slot file: who created it, and whether the pid is in it yet. *)
NoFile  == [by |-> 0, written |-> FALSE]
File(w) == [by |-> w, written |-> FALSE]

Places == {"idle", "look", "read", "test", "remove", "create", "write", "session", "dead"}

VARIABLES
  slot,   \* number -> the slot file
  at,     \* watchdog -> the step it is about to take
  i,      \* watchdog -> the number it has come to (local: 1 outside the walk)
  mine,   \* watchdog -> _SLOT_FILE, 0 when empty
  read,   \* watchdog -> the file it has read, while it judges it
  robbed  \* history: the watchdogs whose file was removed under them

slotsVars == <<slot, at, i, mine, read, robbed>>

Goto(w, place) == at' = [at EXCEPT ![w] = place]

Deaths == Cardinality({w \in Watchdogs : at[w] = "dead"})

----------------------------------------------------------------------------

(* The main loop has a reason to start a session. *)
Begin(w) ==
  /\ at[w] = "idle"
  /\ Goto(w, "look")
  /\ UNCHANGED <<slot, i, mine, read, robbed>>

(* [[ -f ]]: is there a file of this number? *)
Look(w) ==
  /\ at[w] = "look"
  /\ Goto(w, IF slot[i[w]] = NoFile THEN "create" ELSE "read")
  /\ UNCHANGED <<slot, i, mine, read, robbed>>

(* cat: the pid, or nothing, where none is written yet or the file has     *)
(* gone since; with nothing read the file counts as stale.                 *)
ReadPid(w) ==
  /\ at[w] = "read"
  /\ read' = [read EXCEPT ![w] = slot[i[w]]]
  /\ Goto(w, IF slot[i[w]].written THEN "test" ELSE "remove")
  /\ UNCHANGED <<slot, i, mine, robbed>>

(* Mutant: the pid in the file is not tested. *)
Stale_Always(pid) == TRUE

(* Mutant: a slot is never found stale. *)
Stale_Never(pid) == FALSE

(* ! kill -0 "$spid" *)
Stale(pid) == at[pid] = "dead"

(* A file that names a dead watchdog is to be removed. *)
TestPid(w) ==
  /\ at[w] = "test"
  /\ Goto(w, IF Stale(read[w].by) THEN "remove" ELSE "create")
  /\ read' = [read EXCEPT ![w] = IF Stale(@.by) THEN @ ELSE NoFile]
  /\ UNCHANGED <<slot, i, mine, robbed>>

Loses(v) == IF v \in Watchdogs /\ at[v] # "dead" THEN {v} ELSE {}

(* rm -f, whatever the file holds by now. *)
RemoveFile(w) ==
  LET f == slot[i[w]]
  IN  /\ at[w] = "remove"
      /\ slot' = [slot EXCEPT ![i[w]] = NoFile]
      /\ robbed' = robbed \cup (IF f.by # read[w].by \/ ~read[w].written THEN Loses(f.by) ELSE {})
      /\ read' = [read EXCEPT ![w] = NoFile]
      /\ Goto(w, "create")
      /\ UNCHANGED <<i, mine>>

(* Mutant: the walk goes one file too far. *)
Create_OneMore(w) ==
  /\ at[w] = "create"
  /\ IF slot[i[w]] = NoFile
       THEN /\ slot' = [slot EXCEPT ![i[w]] = File(w)]
            /\ Goto(w, "write")
            /\ mine' = [mine EXCEPT ![w] = i[w]]
            /\ UNCHANGED i
       ELSE /\ Goto(w, "look")
            /\ i' = [i EXCEPT ![w] = @ + 1]
            /\ UNCHANGED <<slot, mine>>
  /\ UNCHANGED <<read, robbed>>

(* echo $$ > file under noclobber; when the file is there, on to the next, *)
(* and after the last one the watchdog goes back to sleep.                 *)
Create(w) ==
  /\ at[w] = "create"
  /\ IF slot[i[w]] = NoFile
       THEN /\ slot' = [slot EXCEPT ![i[w]] = File(w)]
            /\ Goto(w, "write")
            /\ mine' = [mine EXCEPT ![w] = i[w]]
            /\ UNCHANGED i
       ELSE /\ Goto(w, IF i[w] < MAX_CONCURRENT THEN "look" ELSE "idle")
            /\ i' = [i EXCEPT ![w] = IF @ < MAX_CONCURRENT THEN @ + 1 ELSE 1]
            /\ UNCHANGED <<slot, mine>>
  /\ UNCHANGED <<read, robbed>>

(* The pid goes into the file this watchdog created; if that has been      *)
(* removed, nowhere, even where another has created one at its path.       *)
WritePid(w) ==
  /\ at[w] = "write"
  /\ slot' = [slot EXCEPT ![i[w]] = IF @.by = w THEN [@ EXCEPT !.written = TRUE] ELSE @]
  /\ i' = [i EXCEPT ![w] = 1]
  /\ Goto(w, "session")
  /\ UNCHANGED <<mine, read, robbed>>

(* _release_slot after the session: the file at the path goes. *)
EndSession(w) ==
  LET f == slot[mine[w]]
  IN  /\ at[w] = "session"
      /\ slot' = [slot EXCEPT ![mine[w]] = NoFile]
      /\ mine' = [mine EXCEPT ![w] = 0]
      /\ robbed' = IF w \in robbed THEN (robbed \ {w}) \cup (Loses(f.by) \ {w}) ELSE robbed
      /\ Goto(w, "idle")
      /\ UNCHANGED <<i, read>>

(* Killed without its trap: its variables go with it, the file stays, with *)
(* or without the pid.                                                     *)
Die(w) ==
  /\ at[w] # "dead"
  /\ Deaths < MaxDeaths
  /\ Goto(w, "dead")
  /\ i' = [i EXCEPT ![w] = 1]
  /\ mine' = [mine EXCEPT ![w] = 0]
  /\ read' = [read EXCEPT ![w] = NoFile]
  /\ UNCHANGED <<slot, robbed>>

----------------------------------------------------------------------------

SlotsInit ==
  /\ slot = [f \in Files |-> NoFile]
  /\ at = [w \in Watchdogs |-> "idle"]
  /\ i = [w \in Watchdogs |-> 1]
  /\ mine = [w \in Watchdogs |-> 0]
  /\ read = [w \in Watchdogs |-> NoFile]
  /\ robbed = {}

Step(w) ==
  \/ Begin(w) \/ Look(w) \/ ReadPid(w) \/ TestPid(w) \/ RemoveFile(w)
  \/ Create(w) \/ WritePid(w) \/ EndSession(w)

SlotsNext == \E w \in Watchdogs : Step(w) \/ Die(w)

(* A watchdog goes on while it lives: its sessions end at the latest at    *)
(* --max-session-minutes, and it keeps having work.                        *)
SlotsSpec == SlotsInit /\ [][SlotsNext]_slotsVars /\ \A w \in Watchdogs : WF_slotsVars(Step(w))

----------------------------------------------------------------------------

(* Every variable has its type. *)
SlotsTypeOK ==
  /\ slot \in [Files -> {NoFile} \cup [by : Watchdogs, written : BOOLEAN]]
  /\ at \in [Watchdogs -> Places]
  /\ i \in [Watchdogs -> Files]
  /\ mine \in [Watchdogs -> Files \cup {0}]
  /\ read \in [Watchdogs -> {NoFile} \cup [by : Watchdogs, written : BOOLEAN]]
  /\ robbed \subseteq Watchdogs

InSession == {w \in Watchdogs : at[w] = "session"}

(* A watchdog in session owns the file at the path it will remove, so that *)
(* releasing its slot frees nobody else's.  A live watchdog loses its file *)
(* only where another found nothing to read - no pid in it yet, or no file *)
(* any more - or found a dead pid, and removed what stood there by then;   *)
(* or where one who lost its own file so releases its slot.                *)
SlotIsMine ==
  \A w \in InSession \ robbed : mine[w] # 0 /\ slot[mine[w]].by = w

(* So sessions beyond the limit are those of watchdogs robbed of their file *)
(* (it follows from SlotIsMine), whoever was killed holding one.            *)
SessionsBounded == Cardinality(InSession \ robbed) <= MAX_CONCURRENT

(* Never more sessions at a time than slots. *)
NeverMoreThanSlots == Cardinality(InSession) <= MAX_CONCURRENT

(* Killed watchdogs do not exhaust the fleet: with every slot in the hands *)
(* of a dead one, a watchdog that is left gets into a session.             *)
DeadFleetRecovers ==
  (\A f \in Files : slot[f] # NoFile /\ at[slot[f].by] = "dead") ~> InSession # {}
=============================================================================
