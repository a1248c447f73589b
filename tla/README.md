# A TLA+ model of the Claude broker

The repository is a message broker for fleets of coding agents: a Node server
over one SQLite file (`server.js`, `lib/`), a bash watchdog per worker that
starts the agent's sessions (`watchdog.sh`), and a few processes that sit
beside them (`runner/orchestrate.mjs`, `verify-result.mjs`,
`sprint-close-merge.sh`). This directory holds TLA+ modules of its control
logic, the configurations that model-check them with TLC, and proofs checked by
TLAPS.

Contents: [the system](#1-the-system), [modules](#2-modules-and-the-code),
[runs](#3-runs), [fairness](#4-fairness), [proofs](#5-proofs),
[where code and docs part](#6-where-code-and-docs-part),
[not modelled](#7-what-is-not-modelled), [plan](#8-plan).
`PROJECT.json` lists the components, the runs, a mutant for every property of
every run, the source lines behind each definition, the hazards and the
theorems.

## 1. The system

One broker process serves every worker, over MCP tools and REST. It is
synchronous inside a request: better-sqlite3 blocks, so a handler is atomic
unless it awaits, and what awaits is short to list - long polls, gated posts,
the supervisor's child processes, adoption. Everything else that can go wrong
comes from the order of requests, from rows that are removed behind the back of
logic that is derived from rows, and from processes that die.

| component | state | operations | talks to | hard because |
|---|---|---|---|---|
| message store (`lib/db.js`, `lib/messages.js`) | `messages` under AUTOINCREMENT ids | insert, batch insert, telemetry compaction, heartbeat replacement, delete, purge, auto-prune | emits every row on the message bus | every other component re-derives its state from rows that may be gone |
| read cursors (`lib/cursors.js`, `lib/tools/cursors.js`) | `cursors(consumer, channel, last_id)` | reads advance, handoffs and `PUT /cursors` lower, `worker_cursor` sets | store | limited, filtered, explicit, tail and joint reads share a cursor with rewinds |
| namespace adoption (`lib/adoption.js`) | the `adopted` flags; copies cursors | adopt, revert | cursors | two names of one worker read on side by side; the plan awaits child processes |
| waiting requests (`lib/tools/messaging.js`, `lib/rest.js`) | listeners on the bus | `wait_for_messages`, `GET /inbox?wait_ms` | store, cursors | the start is fixed at the call, the answer comes later |
| gated posts (`lib/tools/messaging.js`) | listeners with a timer | `post_gated_message` | store, bus | a listener posts, so emissions nest, and a gate may call itself |
| plan gate and ledger (`lib/tools/sprint.js`, `lib/tools/typed.js`) | none but the cached gate-live marker | dispatch, plan, decide, result; ledger, review queue | store | three readers derive one verdict by different code from different rows |
| open questions (`lib/messages.js`) | none | `ask`, replies, `scanOpenQuestions`, the ledger's "blocked" | store, ledger, watchdog | answered by any of three kinds of row, each pruned on its own terms |
| worker supervisor (`lib/workers.js`, `server.js`) | `watchdogProcs`, pidfiles | start, stop, list, adopt, `exit` event | watchdogs | asynchronous kills, late events, restarts |
| session slots (`watchdog.sh`) | slot files | acquire, release, trap | other watchdogs | test, remove, create and write are separate shell steps |
| watchdog main loop (`watchdog.sh`) | its cursor file, counters | launch, classify the end of a session, rewind, follow up | broker, session, slots | two cursors on one inbox, a dozen ways a session ends |
| orchestration loop (`runner/orchestrate.mjs`) | a state file | release held tasks, dispatch the review, wake | broker, orchestrator | a tick is many requests and one save at the end |
| verification (`verify-result.mjs`, `lib/rest.js`) | a cursor file, stamps on results, a lock file | pending, stamp, watch, one-shot after a session | broker, watchdogs | cursor file and stamps move separately; who verifies changes with a broker restart; stale locks |
| sprint close (`sprint-close-merge.sh`, `worktree-setup.sh`) | branches, worktrees, a lock directory | merge, push, reset | git, the workers' sessions | any command may fail, the script is started again, sessions go on committing |
| schemas, credentials, dashboard, hooks, setup, reports | | | | see section 7 |

What makes each correct, in one line:

- store: an id is given out once; a durable channel loses nothing by itself.
- cursors: nothing is skipped silently, nothing is repeated, a handoff makes its task due.
- adoption: the same, for a worker whose name changes.
- waits: no request sleeps on a message it should answer with.
- gated posts: one post, after all results; a true answer to every caller no loop reaches.
- plan gate: ledger, gate and queue agree but for what a peer's dispatch changes; a reject stands; history is not re-judged.
- questions: an answered question is reopened by no message.
- supervisor: one watchdog per worker, and one the broker can show, stop and adopt.
- slots: no more sessions than slots; a dead holder's slot comes back.
- watchdog: a relaunch sees the work; the worker idles on open work only after giving up; launches without progress are bounded.
- orchestration loop: a task is released once, after its dependencies, and never forgotten; the review leaves nothing behind; no wake is lost.
- verification: no result is passed over, none is verified twice, every one is verified in the end; one verifier per namespace.
- sprint close: no work is lost; a finished close has handed the sprint to origin and to every worker.

## 2. Modules and the code

    BrokerStore -- Cursors -- Adoption -- MCCursors
                      |-- LongPolls -- MCLongPolls

    GatePromise <~~ GatedPosts -- MCGatedPosts        (<~~ is implemented by)

    PlanGate -- Questions -- MCPlanGate

    Slots   VerifierLock   Supervisor   Watchdog   Verification
    OrchestrationLoop -- MCOrchestrationLoop   SprintClose -- MCSprintClose

    proofs:  ReadersProofs (Cursors, Adoption, LongPolls)   GatedPostsProofs
             PlanGateProofs (with Questions)   SupervisorProofs
             ScriptProofs (Watchdog, Slots, SprintClose)
             VerifierProofs (with VerifierLock)   OrchestrationProofs
             SetLemmas (facts they share)

`Cursors` extends `BrokerStore`; `Adoption` and `LongPolls` put renamed workers
and open requests beside its reads; `Questions` works on the rows of `PlanGate`.
The other modules stand alone and state in their header what they take from each
other: `Watchdog` sees a slot as free or busy (`Slots`), `Supervisor` sees a
watchdog as working or not (`Watchdog`), `OrchestrationLoop` reads a ledger
without plan states (`PlanGate`), `Verification` has one standalone verifier
(`VerifierLock`). `MC*` modules only give constants their values.
`SetLemmas` holds what the proof modules share: least and greatest elements of
sets of numbers, finite images. `Slots`, `SprintClose` and `VerifierLock` name
their specification `SlotsSpec`, `CloseSpec` and `LockSpec`, since their proofs
share a module with another component's.
Definitions whose name ends in `_Something` are mutants: what a plausible slip
in the code would make of the definition after them.

Data is abstracted to what the code's own decisions look at. A row is its id,
channel, sender, kind and task; its creation time is its id, since both grow
together and pruning only compares against a cutoff. Names are model values or
short strings. Texts, schemas and layout are left out.

**BrokerStore** (`lib/db.js`). `messages` and `lastId` are the table and
`sqlite_sequence`; ids are not reused after deletions because the column is
AUTOINCREMENT. `EvictedBy` is the telemetry compaction in the insert,
`ReplacedBy` the heartbeat's, `DeleteMessage`, `PurgeChannels` and `AutoPrune`
the three removals with their exemptions. Every operation is one step since
the handler does not await.

**Cursors** (`lib/cursors.js`, `lib/tools/cursors.js`, `read_messages`,
`GET/PUT /cursors`). `cursor[c][ch]` is the row of the cursors table, `-1` if
there is none. `ResolveSince` is the choice of a start (explicit, stored,
tail), `Fetch` the limited query, `CursorAfter` the conditional advance,
`TurnStart` the joint read of inbox and control channel. `HandoffTargets` is
`handoffRewind`, run inside every insert. `shown` and `passed` are history: what
was delivered since the last rewind, and how far the consumer gave up older
rows (a tail, an explicit start, a forced set).

**Adoption** (`lib/adoption.js`). `Adopt` and `Revert` are `planAdoption` with
`copyAndStore`: for the entries whose identity could be derived, the higher of
both names' cursors is written under the new one, on the namespace's own
channels. Plan and copies are one step: the child processes are awaited before
anything is read. Both names go on reading beside it. `shown` and `passed` go
with a copied cursor, since what the old name was shown the worker was shown.

**LongPolls** (`wait_for_messages`, the long-polled inbox). `polls` are the open
requests with what they fixed at the call. `SendAndWake`, `HeartbeatAndWake` and
`SendBatchAndWake` are the writes: each inserts, evicts and rewinds, then emits
its rows one by one, and the EventEmitter calls the listeners inside the writing
request; so a batch may wake a request on its first row and move a cursor the
next row finds moved. `OnlyOwn` is the rule that a caller is not woken by its own
posts, with its full-page exception.

**GatedPosts**. `bus` has for each channel the listening gates in the order
in which they registered, `Off` is the removal of a listener, `agenda` the
stack of work the running request has left: emission calls the listeners it
found at its start, a listener that is satisfied posts, and its emission runs
before the outer one goes on. Outside actions wait for an empty agenda, as they
do in Node. A gate that posts to the channel it watches - the default for a post
to `<ns>-status` - is called by its own emission, and posts again, and so on:
`Overflow` is what the full stack then does, to it and to every gate the
thrown-away calls were about to reach (`missed`). `Loops` are the gates whose
message comes back to them, directly or over others; `Calm` those that no loop
reaches and that reach none. **GatePromise** is the abstract specification: three
variables, and four moves of a call - wait, send, confirm, refuse. `GatedPosts`
implements it for the calm gates under the mapping at its end (`KeepsPromise`),
whatever the others do: a stored result stays itself, `posts` is `sent`, a
caller's answer what it was told; lists, agenda and emissions are invisible.

**PlanGate**. `Verdict` is `planVerdict`; `GateVerdict`/`Gated`/`MayPass` are
`planApproval` as `post_result` asks it, `LedgerVerdict`/`LedgerGated`/
`LedgerState` the ledger, `AwaitingDecision` the review queue. Each is translated
from its own query, so that their agreement is a property and not a definition:
the ledger counts everybody's dispatches (`Dispatches`), the gate the
orchestrators' (`Trusted`), and a peer may send a `type:task` too
(`Dispatchers`). `gateLive` is the one cached value; `Restart` empties it.

**Questions**. `Answers` is the union of the three queries `scanOpenQuestions`
asks (a row naming the task on the asker's inbox, an answer anywhere, the asker's
own result); `ShownState` the ledger's last word, "blocked" included. Nothing of
it is stored, so the losses of `PlanGate` act on it as well.

**Supervisor** (`lib/workers.js`, subprocess mode). `entry` is `watchdogProcs`,
`config`, `pidfile` and `lock` the files, `proc` the operating system's view.
`Register`, `Deregister`, `Start`, `Stop`, `ListWorker`, `OnExit`, `BrokerDown`,
`BrokerStarts` are the functions of those names; `Recycle` gives the pid of a
watchdog that is gone to some other process (`strangers`), which a poll by pid
takes for the watchdog and `BrokerStarts`, which asks `ps`, does not. The watchdog's side takes its instance lock one shell operation at a
time: `CreateLock` (noclobber), `WriteLock`, `LookAtLock`, `RemoveLock`, with
`HolderLives` as the test of the pid read; then `Finish` and `Die`.

**Slots** (`_acquire_slot`, `_release_slot`). The test for the file (`Look`), its
read (`ReadPid`), the test of the pid (`TestPid`), `RemoveFile`, `Create`
(noclobber), `WritePid`, `EndSession` and `Die` are steps of their own, so that a
file may be written, released or put there by another between any two. A file
released between the test and the read gives an empty pid, and so a removal.

**Watchdog**. `fileCursor` is the watchdog's own cursor, `brokerCursor` the
one the session's `turn_start` advances. `Launch` is one round of the loop that
has a reason; `After...` are the branches after a session, in the code's order of
tests: `AfterNetDown`, `AfterLimit`, `AfterFailure`, `AfterRotation`,
`AfterOutput`, `AfterSilence`. A session may read or not, report, hand off, end.
`Restart` keeps only the cursor file and runs the startup follow-up. `excuse` is
history: why the relaunched session need not see its predecessor's work (it gave
up, a call failed, the session was rate-limited).

**OrchestrationLoop**. A tick is `ReadLedger` and `ReadHeld` in either order (two
requests in flight together), `Plan` (`planActions`, pure), then one action per
request - `Release`, `Review`, `Wake` - and `Save`, `PrintWakes`. `Crash` may come
between any two; `Outcome` lets a request be rejected, or carried out with its
answer lost. The orchestrator and the workers post meanwhile. `reviewHead` is
the `--review-head` flag, fixed at the start: without it no review is dispatched
and the end of a sprint is a wake (`ReadyWakes`).

**Verification** (`verify-result.mjs`, `lib/rest.js`). `log` is every message of
the namespace, `gone` those removed, `stamps` the verifications table. `Pending`
is the endpoint: a page of the oldest results (`Pool`), stamped ones included,
then the latest per task, then those without a stamp and with checks. A pass of
the watch loop is `Look` (is the credential required), `ReadMax`, `Ask`,
`PostStamp` once per candidate, `Advance`; `Truncate` and `Write` are the two
halves of writing the cursor file, and `Crash` may come between any two steps.
`ShotLook`, `ShotAsk`, `ShotPost` are the watchdog's verification after a session.
`Switch` is a broker restart that turns the credential on or off.

**VerifierLock** (`takeLock` and the exit handler of `verify-result.mjs --watch`).
Every call to the file system is an action; creating a file and writing the pid
into it are two. `owner` and `pid` are the lock's creator and content, `guard`
the takeover file, `judged` what a starter read and found stale. `gaps` is
history: the removals of a file that nobody had judged.

**SprintClose** (`sprint-close-merge.sh`, `worktree-setup.sh`). A branch is a set
of commits, a commit its work and what it is built on; `Extend`, the merge and
the rebase are what git does to such sets - in particular a rebase keeps only what
the other side lacks, on new commits. `phase`, `list` and `place` are where the
script is in its loops, one git command per action; `Fail` ends it with its lock
removed (`set -e` and the trap), `Kill` leaves the lock. Two refusals of git do
not end it: `LeaveWorktree`, the checkout that fails (`:108`), and `KeepBranch`,
the `branch -f ... || true` of a branch still registered in a worktree (`:114`),
which the script reports as a reset; `stuck` has the branches passed over so.
Sessions edit, commit and change branch at any moment; somebody else may push.
`late` is history: work a session did behind the script's back, which
`reset --hard` takes.

## 3. Runs

All runs are exhaustive over their bounds. `CHECK_DEADLOCK FALSE` is set
everywhere: each model has a bound on rows, posts, pids or deaths, or processes
that may all be gone, and stops there.

| run | module | states | what it shows |
|---|---|---|---|
| `cursors` | MCCursors | 134k | two workers on a shared telemetry channel and one inbox, one renamed to the other and back |
| `long_polls` | MCLongPolls | 167k | two open waits of one worker beside its ordinary reads |
| `gated_posts` | MCGatedPosts | 795k | three gates, one's message the other's result, and a fourth on its own channel |
| `plan_gate` | MCPlanGate | 1.0M | two tasks through every order of posts, a peer's dispatches, questions, losses, restarts |
| `supervisor` | Supervisor | 918k | one worker, registered or not, four watchdogs ever spawned, pids reused |
| `slots` | Slots | 806k | four watchdogs, two slots, two deaths |
| `watchdog` | Watchdog | 5.7M | two tasks, every end of a session, faults |
| `orchestration_loop` | MCOrchestrationLoop | 1.8M | a task and one that depends on it, two reviews or none, one death, one failed request |
| `verification` | Verification | 254k | a standalone verifier and a watchdog's, pages of one row, one fault, one switch |
| `sprint_close` | MCSprintClose | 2.4M | two branches, two pieces of work, three closes, two faults |
| `long_polls_handoff` | MCLongPolls | violation | section 6, item 1 |
| `verifier_lock` | VerifierLock | violation | section 6, item 2 |

Properties, and why the bounds let them fail:

**cursors.** `NoSilentSkip`: a stored row at or below a cursor was delivered
since the last rewind or given up. `NothingShownTwice`: what was delivered lies
at or below the cursor. `HandoffMakesTaskDue`: after a handoff the latest
dispatch is due. Two rows, limits 1 and 2, since 0 and 1, one filter: enough for
a full page, a filtered read between unfiltered ones, an eviction leaving a gap,
a rewind below, at and above a cursor, and a copy between names of which either
is ahead. The proofs remove the bounds.

**long_polls.** `NoMissedWake`: while a request is open no stored row matches
it, its own posts aside if it said so. Limit 2 with three rows lets a foreign
row hide behind a full page of the caller's own, and a batch bring both.

**gated_posts.** `NoGateAsleep`: an idle broker has no gate whose results are
all there, but one a full stack kept from being called, until the next message on
its channel (`missed`). `KeepsPromise`: for the calm gates the run implements
`GatePromise!Spec` - one message at most, when all results are there; one answer,
"sent" exactly if the message went out; and an answer for everyone who waits,
which is the liveness half. Three results and a chain of two gates give an
emission inside an emission and a listener added or removed while another emission
runs; a fourth gate watches the channel it posts to and fills the stack, also in
the middle of a batch whose other results the chain waits for. To that gate
nothing is promised: `EveryMessageOnce`, which covers it, is false (section 6,
item 3).

**plan_gate.** `OneRule`: of a task an orchestrator has dispatched, ledger and
gate agree on whether it is gated, unless a peer was the first to dispatch it
(`TakenOver`) or the last to say `plan_required` (`Relabelled`); on where its plan
stands, unless `TakenOver` or a peer dispatched it after a reject
(`ReopenedByPeer`); and, with a plan, on whether it is approved, always. Here a
peer - the worker itself - dispatches as well as the orchestrator; what it
changes is that the two read different dispatches, and `OneRuleOneReading`,
without the exceptions, is false. `ReviewQueueComplete`: what the ledger shows in
plan-review is in the queue. `HistoryNotRewritten`: a task older than the first
plan is never gated, across restarts and losses. `RejectStands`: no message lifts a
reject but a dispatch - an orchestrator's for `post_result`, anybody's for the
ledger - or one that overrules it (`Overrules`: an orchestrator's decision, or a
plan or result that makes the one who decided its author). `AnswersStand`:
no message reopens an answered question, and a task is blocked by a question about
it alone. Four rows hold dispatch, plan, decision and a re-dispatch, result, second
plan or question. The cut of signal types is kept to at most two rows, and of the
ways to answer a question only `type:answer` is in the run; the proofs have them
all.

**supervisor.** `OneWatchdog`: one watchdog at work per name, those robbed of
their lock file aside (`robbed`). `NoGhost`: a dead one is not shown as running,
but while another process has its pid, and by the broker alone that knew it then
(`mistaken`). `StillInReach`: a working watchdog has its entry, its pidfile and
its line in the configuration, but for those that slipped through one of two
named gaps (`slipped`). Four pids allow stop, start, restart of the broker and
start again, with three watchdogs at one lock.

**slots.** `SlotIsMine`: but for a watchdog robbed of its file (`robbed`), a
session owns its slot; so there are no more of those than slots
(`SessionsBounded`, proved). `DeadFleetRecovers`: all slots held by the
dead, a living watchdog gets a session. Robbed is who lost a file to a watchdog
that had found nothing to read - no pid in it yet, or a file released meanwhile -
or that had read a dead pid from a file since replaced; or to the release of one
so robbed. Four watchdogs and two deaths let each of them happen.

**watchdog.** `RelaunchSeesWork`: a launched session finds a message for every
open task beyond the watchdog's own cursor, unless it gave up, was rate-limited
or a call failed (`excuse`). `IdleOnlyAfterGivingUp`: with a task open and no
reason to launch, something gave up or failed; a rate limit is no excuse here.
`SpendBounded`: launches without news, failure or progress are at most
NO_OUTPUT_MAX + FOLLOWUP_MAX. Two tasks are the least for progress that is not
completion; three messages allow a dispatch during a session.

**orchestration_loop.** `ReleasedOnce`, `DependenciesFirst`, `HeldNotForgotten`
(as far as the state file goes a held task is unread, queued, dispatched or
reported refused), `OneReviewOut` (a review is sent when the loop's last one was
answered, or a review of the orchestrator's own came after it or bears its id),
`ReviewCoversAll` (what the marker has passed
was finished and in a review's scope, or in `slipped`), `WakeKept`. Four messages
are: two held tasks, a dispatch, a result; or a dispatch, its result, a review
and something between snapshot and review. One death and one failed request may
meet.

**verification.** `NoResultPassedOver`: a stored result with checks at or below
the cursor, in the file or in memory, has been verified, or a later one of its
task has - unless it was there when a verifier had no cursor and started at the
channel's maximum (`base`; a cursor file torn by a death between truncation and
writing counts as none). `VerifiedOnce`: nothing is stamped twice, not even while
a restart hands verification from the watchdogs to the verifier; only a pass
that was open when the credential was turned off again may stamp what a watchdog
stamps too (`late`). `EveryResultVerified`: once the credential stays required,
every such result is verified in the end. A dispatch and two results with a page
limit of one are the least for a full page with a result behind it; one fault
and one switch may come between any two steps. The three invariants' instance
with two tasks and four messages (8.5M states) holds too and is left out for its
length.

**sprint_close.** `NoWorkLost`: whatever a worker began is in a worktree or a
branch, wherever the script failed, was killed or was started again, but for what
a session edited after the script had looked at its worktree or committed after
its branch was merged (`late`). `HandedOverUnlessBehind`: a script that says it
is done has put main into origin and into every branch it named, those aside that
git would not check out or update (`stuck`) - unless main was ahead of origin at
its start and it merged nothing (section 6, item 4). Two
branches let a conflict come after a first merge; a failed push and two more
starts let a rebase meet unpushed merges.

Where a property excepts something, the exception is either a condition on the
rows stored or kept in a history variable that only the named steps write, so that
nothing else can hide behind it, and the strict form stands beside it in the
module: `EveryMessageOnce`, `OneRuleOneReading`, `RejectIsTerminal`,
`NeverMoreThanSlots`, `EveryWatchdogInReach`, `EveryLaunchSeesWork`,
`ReviewLeavesNothing`, `NoWorkEverLost`, `HandedOver`, `EveryBranchHandedOver`.
Each strict form is false, as section 6 says.

## 4. Fairness

- `GatedPosts`: `WF(Run)`, because a Node request once running runs to its end,
  and `WF(Close(g, "timeout"))`, because the handler sets a timer per gate. That
  every caller is answered follows only because nested emissions end, which the
  run shows and the fairness does not say.
- `GatePromise` states no fairness of its own: that a waiting call is answered is
  part of the promise, as a property.
- `Slots`: `WF(Step(w))` for each living watchdog, because its loop polls
  forever and sessions are killed at `--max-session-minutes`. Nothing is assumed
  about deaths.
- `Verification`: `WF(Watch)`, because the watch loop never ends by itself - it
  catches every error and sleeps - and launchd restarts a verifier that died. The
  watchdogs' one-shots have none.
- No other specification has fairness; their properties are safety.

## 5. Proofs

TLAPS checks 44 theorems, each for all values of the constants under the named
assumptions of the modules. TLC had found each invariant to hold, in the runs
above or in an instance of its own, before it was proved. Every safety property the
passing runs check, invariant or action property, is a theorem.

| module | theorems | about |
|---|---|---|
| `ReadersProofs` | `CursorsTypeCorrect`, `CursorsNeverSkip`, `CursorsNeverRepeat`, `CursorsHandoffTaskDue` | cursors |
| | `AdoptionNeverSkips`, `AdoptionNeverRepeats` | cursors with adoption |
| | `PollsTypeCorrect`, `NoRequestSleeps`, `WaitsKeepCursors` | waiting requests |
| `GatedPostsProofs` | `GatesTypeCorrect`, `NoGateSleeps`, `MessagePostedOnce`, `GatesKeepPromise` | gated posts and their promise |
| `PlanGateProofs` | `PlanGateTypeCorrect`, `NeverRewritesHistory`, `ReviewQueueAlwaysComplete`, `LedgerAndGateAgree`, `RejectsStand`, `AnswersAlwaysStand` | plans and questions |
| `SupervisorProofs` | `SupervisorTypeCorrect`, `AtMostOneWatchdog`, `NoDeadEntryRuns`, `WorkingStaysInReach` | the supervisor |
| `ScriptProofs` | `WatchdogTypeCorrect`, `RelaunchFindsWork`, `NoIdleWithOpenWork`, `LaunchesBounded` | the watchdog's main loop |
| | `SlotsTypeCorrect`, `SlotsAreOwned`, `FleetLimit` | session slots |
| | `CloseTypeCorrect`, `CloseLosesNothing`, `CloseHandsOver` | the close of a sprint |
| `VerifierProofs` | `VerificationTypeCorrect`, `NoResultVerifiedTwice`, `CursorPassesOverNothing` | verification |
| | `NeverTwoVerifiers` | the verifier's lock |
| `OrchestrationProofs` | `LoopTypeCorrect`, `ReleasesOnce`, `DependenciesComeFirst`, `HeldNeverForgotten`, `OneReviewAtATime`, `ReviewsCoverAll`, `WakesKept` | the orchestration loop |

**Cursors.** For all channels, consumers, payloads, page limits, starts, filters
and numbers of rows; telemetry and durable channels are channels, payloads are
envelopes, consumers are senders, limits are positive. Neither property is
inductive. A page is a prefix of what lies beyond its start (`FetchIsPrefix`), so
the rows under its end are shown - but a later write must not land under a
cursor, for which ids must be given out above every stored and shown one
(`IdsInOrder`) and a cursor must not stand beyond the last id unless its consumer
put it there (`CursorWithinReach`: a forced set may aim beyond the end of the
table, and then everything up to its target is given up). `CursorInv` is the
conjunction of these with `TypeOK` and the two properties. It is shown inductive
by one lemma per way a step changes the state: reads (`ReadPreserves`, from
`ReadLemma` for one channel), rewinds with or without new rows (`RewindPreserves`,
`PostPreserves`), exact sets (`SetCursorPreserves`) and removals
(`RemovePreserves`). `CursorsHandoffTaskDue` is an action property and follows from
the same invariant: the request that stores a handoff has the latest dispatch among
the targets its sender's cursor is lowered to (`HandoffAims`).

**Adoption** needs no more: `CursorInv` is preserved by the copies too, whichever
entries could be derived and however their names overlap, because a raised cursor
is that of one of the names copied (`FiniteMax`), and comes with what that name
was shown.

**Waiting requests.** For any finite set of requests (`PollsAssumption`: a broker
has finitely many open). A write inserts, rewinds, and then emits its rows one
after the other, so between two emissions a request may well sleep through a row
that is stored. The invariant of an emission (`Awake`) therefore speaks of the
channels that are not still to be woken; each row's emission takes its channel
off that list, because it wakes every request there that the row matches, and one
that answers with nothing - a full page of the caller's own - waits on from above
that page. `CursorInv` is kept by the wakes as it is by reads.

**Gated posts.** For any gates, channels and bounds, loops included; no theorem
assumes how they hang together. `NoGateAsleep` holds of an idle broker only; while
it works, a gate whose results are all there is on its way to being called
(`Awake`): its channel's emission, its call or its return is on the agenda, or it
is in `missed`. The promise needs the shape of that agenda as well. The steps of
nested emissions stand innermost first: what stands before a gate that is posting
is part of its emission and leads from the channel it posts to, and does not lead
back to a calm gate below (`Nested`). So a calm gate stands there once, no emission
calls one that is already posting, and a full stack, which is the work of a loop,
throws none away while it posts (`OverflowSpares`). `GatesKeepPromise` is the safety
half of `KeepsPromise`: the initial state is one of `GatePromise`, every step one of
its steps or a stutter, seen from the calm gates.

**Plan gate and questions.** Verdicts are functions of the rows, so the invariant
only says what the rows can be: ids are unique and at most `lastId`, no plan and no
marker is older than the first plan there ever was (`MarkerInv`). With it, a lemma
says what the first and the latest row of a set are (`FirstAmong`, `LatestAmong`),
and each property follows from the rows there are or a step adds; no theorem
assumes who dispatches, decides or posts plans. `LedgerAndGateAgree`: the
orchestrators' dispatches are among all of them, so the first, or latest, of all
is the first, or latest, of theirs when it is theirs (`SameFirst`, `SameLatest`);
and the last dispatch enters a verdict only by reopening a reject (`VerdictSame`),
never an approval (`ApprovedVerdict`). `RejectsStand`: a post takes no row of a
task away, so its latest decision changes only by a new one of an
orchestrator, and whoever it is measured against - the plan's author or the
worker - only by a plan or result of another sender, or it would overrule
(`DecisionKept`).

**Slots.** `MineInv`: who holds a slot knows its path, and unless robbed its file
is there. `ReadInv`: who is about to remove a file and has read a pid from it
has found that watchdog dead, for good. `FleetLimit` is then a pigeonhole
argument: sessions that were not robbed map one to one into the files.

**Supervisor.** `LockInv`: a watchdog that was not robbed has the lock file it
created. `ReadInv`: a file about to be removed was read from a dead watchdog, or
before a pid was in it. `EntryInv`: the broker will still hear of the end of a
child of its own, and a pid given away while adopted is in `mistaken`. `ReachInv`:
a watchdog nobody asked to stop has entry, pidfile and registration from its
spawn on, the two known gaps aside. The first two are about lock files alone, the
others about the broker alone.

**Watchdog main loop.** For any finite set of tasks and any limits. `RelaunchSeesWork`
speaks of a session that is running; `WorkDue` says the same from the moment the
last session was dealt with, which is where each branch has to establish it.
`SpendBounded` is not inductive: `SpentInLoop` and `SpentInSession` say what the
launches so far were paid with - the silent runs counted when messages wait, those
and the follow-ups when a follow-up is due, nothing since the last progress.

**Verification.** `StampInv`: a result a verifier has in hand has no stamp, unless
verification changed hands while it was there (`late`): two watchdogs have only
their own workers' results, and with the standalone verifier at work theirs are
refused. `PassInv`: what a pass is about to move its cursor over is settled or in
hand. With a full page the cursor moves to its last row, otherwise to a maximum
read before the page; both lie below anything the page did not show.

**Verifier lock.** As long as nothing was removed unjudged (`gaps = {}`), the
takeover file stands while its creator needs it (`GuardInv`), so the lock a
starter is about to unlink is the one it judged (`UnlinkInv`), of a process that
is gone for good (`JudgedInv`): never that of a verifier at work (`WatchInv`). The
theorem says that two verifiers need one of the two gaps of section 6, item 2.

**Orchestration loop.** For any tasks, reviews, dependencies, and any number of
messages, deaths and failed requests. The invariant has a part per property, for
what is in memory and what is in the file, since a death puts the one in the
place of the other; `Phases` says when they are the same, and that every message
of the loop's own is in the ledger it has read.

- `ReleasedOnce`: a release takes the place of a held-task. As long as no release
  of a task is in the window of the next tick, its releases and its queue entry
  together are no more than the held-tasks read (`Spare`); when one is, the tick
  sees it (`SeesRelease`) and drops the entry. So a lost answer or a lost state
  never leads to a second release.
- `DependenciesFirst`: what is planned has its dependencies' PASS in the log, and
  a log only grows.
- `HeldNotForgotten`: the same of file and memory, with the wakes still planned;
  and the read of the held channel misses nothing below its end (`HeldRead`), so
  the new `heldSeen` passes over nothing.
- `ReviewCoversAll`: every dispatch before a review's is in a scope or in
  `slipped` (`AllReviewed`); what the planned review is to move the marker over is
  finished in the ledger that was read (`ScopeKnown`).
- `OneReviewOut`: under the id of a planned review there is nothing yet but what
  the orchestrator dispatched or the saved marker has left behind (`FreshIds`),
  hence an unanswered review of the loop's is the one the marker stands on.
- `WakeKept`: what the memory has as surfaced was told or is in this tick's wakes,
  and a note fails only at the price of a fault.

The proof found an exception `OneReviewOut` needs and the run's instance is too
small to show: an id the orchestrator has used already (section 6).

**Sprint close.** For any finite set of workers and any bounds on works, runs and
faults. What a reset throws away has to be somewhere else or late, from the look
at the worktree and the merge of the branch on (`ResetIsSafe`); for that an edit
must be in one worktree and nowhere else (`DraftsApart`), or committing it
elsewhere would take it off `late`, and the list must name nobody twice
(`Listing`), or a worktree would be reset again after the session went on.
`CloseHandsOver` rests on `OriginHasMain`: a run that merged something, or that
found main no further than origin, has pushed its main when it resets; a branch
the loop has passed was reset or is in `stuck` (`PassedOverKeeps`). `Rebase` is
a recursive function of the picks; that it has a value at all is proved
(`HeadsExist`, by the least length for which it had none), and then what a rebase
keeps and adds, for any number of commits and any order of picks (`RebaseLemma`).

Only model-checked, since temporal reasoning under fairness is out of the provers'
reach: the liveness properties `DeadFleetRecovers`, `EveryResultVerified`, and the
liveness half of `KeepsPromise`.

## 6. Where code and docs part

Met while translating. The first two have a run that exhibits them.

1. *A long poll undoes a handoff* (`lib/tools/messaging.js:116`). The start is
   computed when the wait opens. A handoff rewinds the cursor; the wait, answered
   later, raises it over the dispatch again, undelivered. `README.md:76`: "a
   handoff status rewinds the cursor so the task is seen again".
2. *Two verifiers of one namespace* (`verify-result.mjs:419`). A lock that is gone
   has pid 0 and counts as old, as one without a pid does. A starter that read it
   in that moment passes the second look too if the next starter has created its
   lock and not written into it, and unlinks it; both watch. A second gap is the
   takeover file itself: one that has vanished has an infinite age, so a starter
   may remove the file of a live one. `docs/protocol-v3.md:751-752`: "A lock is
   broken only under an exclusive `<status>.lock.takeover` file and only if it
   still holds the pid judged, so two concurrent starts never both hold it".

Seen as violations of strict forms, or by reading, without a run of their own:

3. *A gate on its own channel* (`lib/tools/messaging.js:290`). `tryPost` emits
   before it settles; if it posts on the channel it watches - which is the default
   `watch_channel` of a post to `<ns>-status` (`:231`) - the emission calls its own
   listener again, without end: a message is stored at every turn, until the stack
   is full. The error passes through the emissions into the request whose result
   began it, which fails though its result is stored; the gates it had not reached
   are not called, and the gate itself stays on the bus to do the same at the next
   message. `:214`: "Post a message only after...". `EveryMessageOnce` is violated.
4. *A close after a failed push hands nothing over*
   (`sprint-close-merge.sh:63`, `:84`, `:91`). A first run merges and then fails - the
   push is rejected, or the second branch conflicts. The next run's
   `git rebase origin/main` drops the merge commits and puts the work, in a line,
   on top of origin; a branch whose commits come out unchanged is now "no commits
   ahead", so nothing is merged, nothing is pushed, and the worktrees are reset to
   an origin that lacks the sprint, while the script prints "done". `:2-3`: "then
   reset every worker worktree to the new main HEAD so the next sprint starts
   clean". `HandedOver` is violated; the script, run on a repository with two
   worktrees, does the same. No work is lost: main has it.
5. *A late exit event* (`lib/workers.js:230`). The handler deletes entry and
   pidfile by name, and so those of the successor. A crash between the spawn and
   the pidfile (`:234`) loses a watchdog as well. `EveryWatchdogInReach` is violated.

- A rate-limited session keeps its batch (`watchdog.sh:1060`): no rewind of the
  broker's cursor, no fallback handoff, so the retry is given nothing, against
  `docs/protocol-v3.md:489`, "the watchdog rewinds with PUT /cursors after a
  silent exit, timeout, rotation or backoff" (`EveryLaunchSeesWork` is violated).
- A reject is not terminal once auto-pruning takes the decision
  (`lib/config.js:20` keeps plan-decisions no longer than chatter unless
  configured; `lib/tools/sprint.js:104`), a second decision of the
  orchestrator reopens it (`lib/tools/typed.js:308`), and in the ledger a peer's
  `type:task` does (`RejectIsTerminal` is violated in each way).
- Questions are kept as signals, their replies, answers and the decisions about
  them as chatter (`lib/config.js:19-20`, `:27`): after the pruning an answered
  question is open again, its task shows "blocked", and the watchdog does not count
  it as open work (`watchdog.sh:664`), against `docs/protocol-v3.md:351`. When a
  task goes to another worker, the first one's question stays open.
- A handoff under one name of a worker is undone when its namespace is adopted or
  reverted while the other name stands higher, and what is read under the old name
  between the adoption and the watchdog's restart is not carried over, against
  "lossless" (`lib/adoption.js:7-9`). An entry that cannot be derived gets no copy,
  and the namespace is adopted all the same.
- A PASS accepted under an approval shows as failed after the approval is pruned
  (`lib/tools/sprint.js:318`), and pruning the oldest plan moves the gate-live
  marker of a restarted broker (`lib/tools/sprint.js:121-125`).
- A peer's `type:task` counts for the ledger (`lib/tools/sprint.js:225`) and not for
  the gate (`:138`), against `:90`, "one rule for the ledger, post_result and the verifier": it may put a task in the ledger, give a dispatched one another worker, scope or
  age, change whether it needs a plan, or lift a reject, all in the ledger alone
  (`OneRuleOneReading` is violated). When a plan's author is itself one of the orchestrator's names, its
  own later decision is the latest, is ignored, and so hides the earlier one (`:107`).
- A slow `rm` of a stale slot or instance lock removes the file another watchdog
  has put there; a file without its pid yet counts as stale, and so does one
  released between `[[ -f ]]` and `cat`, in whose place another's may stand by the
  time of the `rm` (`watchdog.sh:799`, `:815-817`, `:819`), against the limit stated
  at `watchdog.sh:53`.
- A branch that git will not update is reported as reset: the failure of
  `git branch -f` is ignored (`sprint-close-merge.sh:114`), as is a checkout that
  fails (`:108`), and the script ends with "done" (`EveryBranchHandedOver` is
  violated), against `:2-3`.
- An adopted watchdog that died while its pid passed to another process is shown
  as running, cannot be started, and its stop goes to that process
  (`lib/workers.js:341`, `:386`); the next broker asks for the command.
- A peer's post on the shared status channel counts as the session's output
  (`watchdog.sh:1023`); giving up advances the cursor over unread work (`:1047`); a
  follow-up is dropped when slots are busy (`:893`) or its rewind fails (`:1069`).
- A task dispatched between the loop's snapshot and its review falls out of the
  next window, and a re-dispatch shows under its first dispatch id
  (`runner/orchestrate.mjs:300`), against "once every task dispatched since the
  last sprint-close review is done/skipped" (`:21-22`). A failing `GET /workers`
  turns queued tasks into refused ones. A hand dispatch between snapshot and
  release is followed by the loop's. A failed note and a death before the
  printing lose a wake. A purge of the status channel leaves the last review
  open for good (`:285`).
- A review the orchestrator dispatches by hand after the loop's snapshot may bear
  the id the loop gives its own (`runner/orchestrate.mjs:295-297`), and then hides
  it in the ledger's row. With another one dispatched by hand after it, and the
  answer to the loop's request lost, the latter is taken for the last review; once
  it is answered the loop sends its next while its own is still open, against
  "last review answered" (`:278`). It takes nine messages, more than the run's
  instance has.
- A dispatch with more checks than `POST /verifications` takes (`lib/rest.js:283`)
  makes every pass fail at its result, and those after it wait behind it. A
  verifier that dies while writing its cursor file starts over at the channel's
  maximum, past what was pending (`verify-result.mjs:440`, `:447`).
- Work a session commits after its branch was merged, or edits after its worktree
  was looked at, goes with `reset --hard` (`sprint-close-merge.sh:111`;
  `NoWorkEverLost` is violated). A rejected push is reported as a merge conflict
  (`:50`).

## 7. What is not modelled

The map covers a small share of the repository's lines. Most of them are test
scripts, setup and migration text, the dashboard, reports over stored messages,
and the argument checking, formatting and error texts around the control that is
modelled. Of what changes shared state, the following is left out.

- Validation of a body against a schema (`lib/validate.js`, `lib/namespaces.js`):
  data, not control. What a refusal does to the write is in the writers.
- Tokens, roles, tool profiles (`lib/auth.js`, `lib/profiles.js`): stateless.
- Dashboard, metrics, full-text search, retrospectives, usage reports: reads.
- Scratchpad keys and tags: single rows, last write wins.
- Setup, migration and check scripts: sequential, one-shot.
- Session hooks: text rules over one tool call. A request to rotate is an outcome
  of a session in `Watchdog`; how the watchdog waits for it
  (`watchdog.sh:926-985`) is not modelled.
- tmux mode of the supervisor: it keeps no state of its own. A pid that passes from
  one worker's watchdog to another's.
- Model routing, patrol and `--once` of the watchdog; worker starts and the wakes
  for questions and plans of the orchestration loop.
- In the sprint close: how a merge conflict is resolved by hand, worktrees with a
  detached HEAD, a directory deleted by hand with changes in it. A conflict, of
  merge or rebase, is a command that fails.
- The stop of the workers before an adoption, and the rewriting of the
  configuration.
- Pid reuse for slots and verifiers, clock skew, SQLite failures, a disk that is
  full, a `ps` that fails.
- What a check does in its worktree, and reruns of one result by hand.

## 8. Plan

Done: store, cursors, adoption, waits, gates with their abstract promise, plan
gate, questions, supervisor with its lock, slots, watchdog loop, orchestration
loop, verification, the verifier's lock, sprint close; the theorems of section 5.

Next, in this order:

1. Proofs. That a review's scope was finished when it was dispatched; that a row
   delivered by a resumed read was never delivered before.
2. The rotation of a session: the subprocess that watches for the request beside
   the session's end, and the flag between them; a session that ends between the
   two looks counts as rotated.
3. Worker starts of the orchestration loop: starts per hour, and a failing start
   that ends the tick.
4. Patrol and `--once` of the watchdog.
5. An abstract cursor, "the set of rows still due", implemented by `Cursors`.
