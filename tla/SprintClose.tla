---------------------------- MODULE SprintClose ----------------------------
(***************************************************************************)
(* sprint-close-merge.sh: at the end of a sprint the orchestrator merges   *)
(* every worker's branch into main, pushes main, and resets every worker's *)
(* worktree.  The script is a sequence of git commands, any of which may   *)
(* fail (`set -e` ends the script there); the workers' sessions are other  *)
(* processes, which edit and commit in their worktrees as they like, and   *)
(* somebody else may push to origin.  worktree-setup.sh gives a worker its *)
(* branch and worktree.                                                    *)
(*                                                                         *)
(* A branch is the set of commits it contains.  A commit is its work and   *)
(* the commits below it: as in git, the same work on another base is       *)
(* another commit, on the same base it is the same commit.                 *)
(***************************************************************************)
EXTENDS Naturals, SequencesExt

CONSTANTS
  Workers,   \* names the script may be called with
  MaxWork,   \* pieces of work ever begun
  MaxRuns,   \* the script is started at most so often
  MaxFaults  \* so often a command fails, the script is killed, or somebody else pushes

ASSUME WorkersAssumption == IsFiniteSet(Workers)
ASSUME CloseBounds == MaxWork \in Nat /\ MaxRuns \in Nat /\ MaxFaults \in Nat

VARIABLES
  remote,    \* the repository has an origin (HAS_ORIGIN)
  trees,     \* workers with a worktree
  main,      \* the local main branch
  origin,    \* main at origin
  branch,    \* worker/<w>, {} if there is none
  begun,     \* pieces of work begun
  draft,     \* the uncommitted edit in w's worktree, or NoWork
  elsewhere, \* workers whose worktree has another branch checked out
  aside,     \* works committed on such branches
  lock,      \* LOCK_DIR exists
  phase,     \* of the script; "idle" or "done" if none runs
  list, place, \* its arguments, and the loop's place in them
  dirty,     \* DIRTY is not empty
  merged,    \* MERGED is not empty
  stuck,     \* workers whose worktree or branch the script passed over in its last loop
  runs, faults,
  behind,    \* history: origin lacked part of main when the script started
  late       \* history: works the script cannot have seen, see Edit and Commit

refs      == <<remote, main, origin, branch>>
session   == <<trees, begun, draft, elsewhere, aside, late>>
script    == <<lock, phase, list, place, dirty, merged, stuck, runs, behind>>
closeVars == <<refs, session, script, faults>>

NoWork == 0
Root   == [work |-> NoWork, on |-> {}]

\* A new commit on top of a history.
Extend(history, work) == history \cup {[work |-> work, on |-> history]}
Works(history)        == {c.work : c \in history} \ {NoWork}

\* `git merge --no-ff`: both histories, and a commit on top of them.
Merge(into, from) == Extend(into \cup from, NoWork)

\* The orders `git rebase` may pick in: ancestors first.  Between two lines of work
\* commit dates decide, which are not modelled.
PickOrders(commits) ==
  {s \in SetToSeqs(commits) : \A a, b \in DOMAIN s : s[a] \in s[b].on => a < b}

\* One pick.  What is there already is dropped; a commit whose base is the head
\* remains itself, being put together again from the same parts.
Pick(head, c) == IF c.work \in Works(head) THEN head ELSE Extend(head, c.work)

\* `git rebase origin/main`: merge commits are left out, so that the merges of an
\* earlier run that was not pushed become a line.
Rebase(order) ==
  LET head[n \in 0 .. Len(order)] ==
        IF n = 0 THEN origin ELSE Pick(head[n - 1], order[n])
  IN  head[Len(order)]

ToPick == {c \in main \ origin : c.work # NoWork}

Running   == phase \notin {"idle", "done"}
Passed(w) == \E n \in DOMAIN list : list[n] = w /\ n < place
Here(w)   == place <= Len(list) /\ list[place] = w

\* The script has looked at w's worktree, has merged its branch, and has not reset it.
Looked(w) ==
  w \in Range(list) /\ \/ phase = "preflight" /\ Passed(w)
                       \/ phase \in {"merge", "push"}
                       \/ phase = "reset" /\ ~Passed(w)
Merged(w) ==
  w \in Range(list) /\ \/ phase = "merge" /\ Passed(w)
                       \/ phase = "push"
                       \/ phase = "reset" /\ ~Passed(w)

CloseInit ==
  /\ remote \in BOOLEAN
  /\ trees = {}
  /\ main = {Root}
  /\ origin = {Root}
  /\ branch = [w \in Workers |-> {}]
  /\ begun = 0
  /\ draft = [w \in Workers |-> NoWork]
  /\ elsewhere = {}
  /\ aside = {}
  /\ lock = FALSE
  /\ phase = "idle"
  /\ list = <<>>
  /\ place = 1
  /\ dirty = FALSE
  /\ merged = FALSE
  /\ stuck = {}
  /\ runs = 0
  /\ faults = 0
  /\ behind = FALSE
  /\ late = {}

-----------------------------------------------------------------------------
(* The script *)

\* The lock is a directory; another run's lock ends the script before it starts.
Start ==
  /\ ~Running
  /\ ~lock
  /\ runs < MaxRuns
  /\ runs' = runs + 1
  /\ lock' = TRUE
  /\ phase' = "sync"
  /\ \E W \in SUBSET Workers \ {{}} : list' \in SetToSeqs(W)
  /\ place' = 1
  /\ dirty' = FALSE
  /\ merged' = FALSE
  /\ stuck' = {}
  /\ behind' = (remote /\ ~(main \subseteq origin))
  /\ UNCHANGED <<refs, session, faults>>

\* fetch and rebase of main.
Sync ==
  /\ phase = "sync"
  /\ IF remote THEN \E order \in PickOrders(ToPick) : main' = Rebase(order)
               ELSE UNCHANGED main
  /\ phase' = "preflight"
  /\ UNCHANGED <<remote, origin, branch, session, faults, lock, list, place, dirty, merged, stuck,
                 runs, behind>>

(* Mutant: only the last worktree looked at decides. *)
LookAt_LastOnly(w) ==
  /\ phase = "preflight"
  /\ Here(w)
  /\ dirty' = (w \in trees /\ draft[w] # NoWork)
  /\ place' = place + 1
  /\ UNCHANGED <<refs, session, faults, lock, phase, list, merged, stuck, runs, behind>>

LookAt(w) ==
  /\ phase = "preflight"
  /\ Here(w)
  /\ dirty' = (dirty \/ (w \in trees /\ draft[w] # NoWork))
  /\ place' = place + 1
  /\ UNCHANGED <<refs, session, faults, lock, phase, list, merged, stuck, runs, behind>>

\* exit 1, the trap removes the lock.
RefuseDirty ==
  /\ phase = "preflight"
  /\ place > Len(list)
  /\ dirty
  /\ phase' = "idle"
  /\ lock' = FALSE
  /\ UNCHANGED <<refs, session, faults, list, place, dirty, merged, stuck, runs, behind>>

(* Mutant: the lock covers the preflight only. *)
PreflightPassed_Unlocks ==
  /\ phase = "preflight"
  /\ place > Len(list)
  /\ ~dirty
  /\ phase' = "merge"
  /\ place' = 1
  /\ lock' = FALSE
  /\ UNCHANGED <<refs, session, faults, list, dirty, merged, stuck, runs, behind>>

PreflightPassed ==
  /\ phase = "preflight"
  /\ place > Len(list)
  /\ ~dirty
  /\ phase' = "merge"
  /\ place' = 1
  /\ UNCHANGED <<refs, session, faults, lock, list, dirty, merged, stuck, runs, behind>>

(* Mutant: a skipped branch empties MERGED. *)
MergeBranch_ForgetsMerged(w) ==
  /\ phase = "merge"
  /\ Here(w)
  /\ merged' = ~(branch[w] \subseteq main)
  /\ main' = IF merged' THEN Merge(main, branch[w]) ELSE main
  /\ place' = place + 1
  /\ UNCHANGED <<remote, origin, branch, session, faults, lock, phase, list, dirty, stuck, runs,
                 behind>>

\* A branch that is not there or has no commit ahead of main is skipped.
MergeBranch(w) ==
  /\ phase = "merge"
  /\ Here(w)
  /\ IF branch[w] \subseteq main
     THEN UNCHANGED <<main, merged>>
     ELSE main' = Merge(main, branch[w]) /\ merged' = TRUE
  /\ place' = place + 1
  /\ UNCHANGED <<remote, origin, branch, session, faults, lock, phase, list, dirty, stuck, runs,
                 behind>>

AllMerged ==
  /\ phase = "merge"
  /\ place > Len(list)
  /\ phase' = "push"
  /\ UNCHANGED <<refs, session, faults, lock, list, place, dirty, merged, stuck, runs, behind>>

\* Only what this run merged is pushed, and only on top of what origin has; if
\* somebody else has pushed, what is left to the script is to fail.
Push ==
  /\ phase = "push"
  /\ IF merged /\ remote
     THEN origin \subseteq main /\ origin' = main
     ELSE UNCHANGED origin
  /\ phase' = "reset"
  /\ place' = 1
  /\ UNCHANGED <<remote, main, branch, session, faults, lock, list, dirty, merged, stuck, runs,
                 behind>>

\* `reset --hard` to origin's main where there is one; without a worktree
\* `branch -f` to the local main.
ResetWorktree(w) ==
  /\ phase = "reset"
  /\ Here(w)
  /\ branch' = [branch EXCEPT ![w] = IF w \in trees /\ remote THEN origin
                                   ELSE IF @ # {} THEN main ELSE @]
  /\ draft' = [draft EXCEPT ![w] = NoWork]
  /\ elsewhere' = elsewhere \ {w}
  /\ place' = place + 1
  /\ UNCHANGED <<remote, trees, main, origin, begun, aside, late, faults, lock, phase, list, dirty,
                 merged, stuck, runs, behind>>

\* The worktree has another branch checked out and the checkout of its own fails.
LeaveWorktree(w) ==
  /\ phase = "reset"
  /\ Here(w)
  /\ w \in elsewhere
  /\ stuck' = stuck \cup {w}
  /\ place' = place + 1
  /\ UNCHANGED <<refs, session, faults, lock, phase, list, dirty, merged, runs, behind>>

\* There is no worktree at its place, and `branch -f` is refused: the branch is checked
\* out in a worktree elsewhere, or in one whose directory was deleted and that git still
\* lists.  `|| true`: the script says "reset" and goes on.
KeepBranch(w) ==
  /\ phase = "reset"
  /\ Here(w)
  /\ w \notin trees /\ branch[w] # {}
  /\ stuck' = stuck \cup {w}
  /\ place' = place + 1
  /\ UNCHANGED <<refs, session, faults, lock, phase, list, dirty, merged, runs, behind>>

Finish ==
  /\ phase = "reset"
  /\ place > Len(list)
  /\ phase' = "done"
  /\ lock' = FALSE
  /\ UNCHANGED <<refs, session, faults, list, place, dirty, merged, stuck, runs, behind>>

\* A command fails: a conflict (the merge or rebase is then aborted by hand), a
\* network error, a rejected push, a stale index.lock.  The ERR trap exits.
Fail ==
  /\ Running
  /\ faults < MaxFaults
  /\ faults' = faults + 1
  /\ phase' = "idle"
  /\ lock' = FALSE
  /\ UNCHANGED <<refs, session, list, place, dirty, merged, stuck, runs, behind>>

\* Killed: no trap, the lock stays.
Kill ==
  /\ Running
  /\ faults < MaxFaults
  /\ faults' = faults + 1
  /\ phase' = "idle"
  /\ UNCHANGED <<refs, session, lock, list, place, dirty, merged, stuck, runs, behind>>

\* "If stale: rm -rf", by hand.
RemoveLock ==
  /\ ~Running
  /\ lock
  /\ lock' = FALSE
  /\ UNCHANGED <<refs, session, faults, phase, list, place, dirty, merged, stuck, runs, behind>>

-----------------------------------------------------------------------------
(* The workers' sessions, and somebody else *)

\* Work begun between the script's look at the worktree and its reset is late.
Edit(w) ==
  /\ w \in trees
  /\ draft[w] = NoWork
  /\ begun < MaxWork
  /\ begun' = begun + 1
  /\ draft' = [draft EXCEPT ![w] = begun']
  /\ late' = IF Looked(w) THEN late \cup {begun'} ELSE late
  /\ UNCHANGED <<refs, trees, elsewhere, aside, script, faults>>

\* What is committed before the branch is merged is not late, what is committed
\* after is.
Commit(w) ==
  /\ draft[w] # NoWork
  /\ draft' = [draft EXCEPT ![w] = NoWork]
  /\ IF w \in elsewhere
     THEN /\ aside' = aside \cup {draft[w]}
          /\ late' = late \ {draft[w]}
          /\ UNCHANGED branch
     ELSE /\ branch' = [branch EXCEPT ![w] = Extend(@, draft[w])]
          /\ late' = IF Merged(w) THEN late \cup {draft[w]} ELSE late \ {draft[w]}
          /\ UNCHANGED aside
  /\ UNCHANGED <<remote, main, origin, trees, begun, elsewhere, script, faults>>

\* A session checks out another branch.
Leave(w) ==
  /\ w \in trees \ elsewhere
  /\ draft[w] = NoWork
  /\ elsewhere' = elsewhere \cup {w}
  /\ UNCHANGED <<refs, trees, begun, draft, aside, late, script, faults>>

\* worktree-setup.sh, once or again: a worktree on w's branch, or on a new one.
Setup(w) ==
  /\ w \notin trees
  /\ trees' = trees \cup {w}
  /\ branch' = [branch EXCEPT ![w] = IF @ = {} THEN main ELSE @]
  /\ UNCHANGED <<remote, main, origin, begun, draft, elsewhere, aside, late, script, faults>>

\* `git worktree remove`, which refuses one with changes, or the directory of one
\* without changes deleted by hand.
RemoveWorktree(w) ==
  /\ w \in trees
  /\ draft[w] = NoWork
  /\ trees' = trees \ {w}
  /\ elsewhere' = elsewhere \ {w}
  /\ UNCHANGED <<refs, begun, draft, aside, late, script, faults>>

PushedByOther ==
  /\ remote
  /\ faults < MaxFaults
  /\ begun < MaxWork
  /\ faults' = faults + 1
  /\ begun' = begun + 1
  /\ origin' = Extend(origin, begun')
  /\ UNCHANGED <<remote, main, branch, trees, draft, elsewhere, aside, late, script>>

CloseNext ==
  \/ Start \/ Sync \/ RefuseDirty \/ PreflightPassed \/ AllMerged \/ Push \/ Finish
  \/ Fail \/ Kill \/ RemoveLock \/ PushedByOther
  \/ \E w \in Workers : \/ LookAt(w) \/ MergeBranch(w)
                        \/ ResetWorktree(w) \/ LeaveWorktree(w) \/ KeepBranch(w)
                        \/ Edit(w) \/ Commit(w) \/ Leave(w) \/ Setup(w)
                        \/ RemoveWorktree(w)

CloseSpec == CloseInit /\ [][CloseNext]_closeVars

-----------------------------------------------------------------------------
(* Properties *)

\* A branch contains what its commits are built on.
IsHistory(h) ==
  /\ IsFiniteSet(h)
  /\ Root \in h
  /\ \A c \in h : c.work \in 0 .. MaxWork /\ c.on \subseteq h

\* The type invariant: what the script leaves at every point are histories, and a
\* running script has its lock.
CloseTypeOK ==
  /\ remote \in BOOLEAN
  /\ trees \subseteq Workers
  /\ IsHistory(main) /\ IsHistory(origin)
  /\ DOMAIN branch = Workers
  /\ \A w \in Workers : IsHistory(branch[w]) \/ (branch[w] = {} /\ w \notin trees)
  /\ begun \in 0 .. MaxWork
  /\ draft \in [Workers -> 0 .. MaxWork]
  /\ elsewhere \subseteq trees
  /\ aside \cup late \subseteq 1 .. begun
  /\ lock \in BOOLEAN
  /\ phase \in {"idle", "sync", "preflight", "merge", "push", "reset", "done"}
  /\ Running => lock
  /\ list \in Seq(Workers) /\ stuck \subseteq Workers
  /\ place \in 1 .. Len(list) + 1
  /\ dirty \in BOOLEAN /\ merged \in BOOLEAN /\ behind \in BOOLEAN
  /\ runs \in 0 .. MaxRuns
  /\ faults \in 0 .. MaxFaults

\* A worker's work outlives the close of the sprint: whatever was begun is in a
\* worktree or in some branch, wherever the script failed, was killed or was started
\* again, but for what a session edited after the script had looked or committed after
\* it had merged (reset --hard, :111).
NoWorkLost ==
  \A k \in (1 .. begun) \ late :
    \/ k \in aside
    \/ k \in Works(main) \cup Works(origin)
    \/ \E w \in Workers : k = draft[w] \/ k \in Works(branch[w])

\* Without that exception, false: nothing stops the sessions while the script runs.
NoWorkEverLost ==
  \A k \in 1 .. begun :
    k \in aside \cup Works(main) \cup Works(origin)
           \cup UNION {Works(branch[w]) \cup {draft[w]} : w \in Workers}

\* "reset every worker worktree to the new main HEAD so the next sprint starts clean"
\* (:3): when the script says it is done, every branch it named has what main has, but
\* for those it passed over because git refused the checkout (:108) or the update (:114);
\* and origin has it too.
HandedOver ==
  phase = "done" =>
    /\ \A w \in Range(list) \ stuck : branch[w] # {} => Works(main) \subseteq Works(branch[w])
    /\ remote => Works(main) \subseteq Works(origin)

\* Without that exception, false: the script ends with "done - worker worktrees reset"
\* (:119) all the same.
EveryBranchHandedOver ==
  phase = "done" =>
    \A w \in Range(list) : branch[w] # {} => Works(main) \subseteq Works(branch[w])

\* HandedOver holds unless main was ahead of origin before (a push that failed, a conflict
\* after the first merge) and nothing is left to merge: then the script pushes nothing
\* and resets the worktrees to an origin that lacks the sprint.
HandedOverUnlessBehind == HandedOver \/ (behind /\ ~merged)
=============================================================================
