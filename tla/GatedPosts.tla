----------------------------- MODULE GatedPosts -----------------------------
(***************************************************************************)
(* post_gated_message (lib/tools/messaging.js): a request that posts its   *)
(* message once every task it depends on has a result on the channel it    *)
(* watches.  A gate whose results are missing listens on the message bus   *)
(* (lib/messages.js, an EventEmitter); a write emits on its channel, and   *)
(* the emission calls the listeners it finds, one after the other, inside  *)
(* the writing request.  A listener that posts emits in turn, before the   *)
(* outer emission goes on.  A gate may so call itself: posting to the      *)
(* channel it watches - the default for a post to <ns>-status - it finds   *)
(* its own listener still there, its results still stored, and posts       *)
(* again, until the stack is full and every call in progress is thrown     *)
(* away.                                                                   *)
(*                                                                         *)
(* agenda is what the running request has still to do, innermost first.    *)
(* Node runs it to the end before it takes up another request or a timer,  *)
(* so every action from outside waits for an empty agenda.                 *)
(***************************************************************************)
EXTENDS Integers, Sequences, FiniteSets, SequencesExt

CONSTANTS
  Gates,      \* the post_gated_message calls
  Channels,
  Tasks,
  NoTask,     \* a message that is no result
  Watch,      \* gate -> watch_channel
  Target,     \* gate -> channel it posts to
  Deps,       \* gate -> depends_on
  Carries,    \* gate -> the task its own message is a result of, or NoTask
  MaxWrites,  \* bound: results posted by others
  MaxPosts    \* bound: messages one gate posts

ASSUME GatesAssumption ==
  /\ Watch \in [Gates -> Channels] /\ Target \in [Gates -> Channels]
  /\ Deps \in [Gates -> SUBSET Tasks \ {{}}]
  /\ Carries \in [Gates -> Tasks \cup {NoTask}] /\ NoTask \notin Tasks
ASSUME BoundsAssumption == MaxWrites \in Nat /\ MaxPosts \in Nat

VARIABLES
  results,  \* <<channel, task>>: the results stored
  writes,   \* how many results others have posted
  bus,      \* channel -> the gates listening there, in the order they registered
  answer,   \* what each gate's caller has been told
  posts,    \* how many messages each gate has posted
  agenda,
  missed    \* history: gates a thrown-away agenda was to call, until one calls them

vars == <<results, writes, bus, answer, posts, agenda, missed>>

Answers == {"uncalled", "pending", "sent", "refused", "timeout", "aborted"}

Emit(ch)  == [do |-> "emit", on |-> ch]
Call(g)   == [do |-> "call", on |-> g]
Return(g) == [do |-> "return", on |-> g]

Steps == {Emit(ch) : ch \in Channels} \cup {Call(g) : g \in Gates} \cup {Return(g) : g \in Gates}

----------------------------------------------------------------------------

(* stmtCheckResult > 0 for every dependency. *)
AllSatisfied(g) == \A t \in Deps[g] : <<Watch[g], t>> \in results

(* Mutant: the answer is given, the listener stays. *)
Settle_StaysOnBus(g, a) ==
  /\ answer' = [answer EXCEPT ![g] = IF @ \in {"uncalled", "pending"} THEN a ELSE @]
  /\ UNCHANGED bus

(* messageBus.off: a listener is taken off; one that is not there is not missed. *)
Off(listeners, g) ==
  IF g \notin Range(listeners) THEN listeners
  ELSE RemoveAt(listeners, CHOOSE i \in 1..Len(listeners) : listeners[i] = g)

(* settle: the first answer counts; cleanup takes the listener off. *)
Settle(g, a) ==
  /\ answer' = [answer EXCEPT ![g] = IF @ \in {"uncalled", "pending"} THEN a ELSE @]
  /\ bus' = [bus EXCEPT ![Watch[g]] = Off(@, g)]

(* tryPost: insert, emit, and only then settle; rest: what runs afterwards. *)
TryPost(g, rest) ==
  /\ posts[g] < MaxPosts
  /\ posts' = [posts EXCEPT ![g] = @ + 1]
  /\ results' = IF Carries[g] = NoTask THEN results
                ELSE results \cup {<<Target[g], Carries[g]>>}
  /\ agenda' = <<Emit(Target[g]), Return(g)>> \o rest
  /\ UNCHANGED <<writes, bus, answer>>

(* A strict schema, a reserved sender or a stack that fills up inside the  *)
(* insert refuses the post.                                                *)
Refuse(g, rest) ==
  /\ Settle(g, "refused")
  /\ agenda' = rest
  /\ UNCHANGED <<results, writes, posts>>

----------------------------------------------------------------------------
(* The running request. *)

(* emit calls the listeners registered at that moment. *)
RunEmit ==
  /\ agenda # <<>> /\ Head(agenda).do = "emit"
  /\ LET heard == bus[Head(agenda).on]
     IN  agenda' = [i \in 1..Len(heard) |-> Call(heard[i])] \o Tail(agenda)
  /\ UNCHANGED <<results, writes, bus, answer, posts, missed>>

(* onResult. *)
RunCall ==
  /\ agenda # <<>> /\ Head(agenda).do = "call"
  /\ LET g == Head(agenda).on
     IN  /\ IF AllSatisfied(g) THEN TryPost(g, Tail(agenda)) \/ Refuse(g, Tail(agenda))
            ELSE agenda' = Tail(agenda) /\ UNCHANGED <<results, writes, bus, answer, posts>>
         /\ missed' = missed \ {g}

RunReturn ==
  /\ agenda # <<>> /\ Head(agenda).do = "return"
  /\ Settle(Head(agenda).on, "sent")
  /\ agenda' = Tail(agenda)
  /\ UNCHANGED <<results, writes, posts, missed>>

Stands(x) == \E i \in 1..Len(agenda) : agenda[i] = x

(* A gate that posts inside its own emission; the stack will be full.  The *)
(* error passes every emission, since no one catches it there: the gates   *)
(* that were posting are not settled, the others not called, and a caller  *)
(* still at its first look gets the error.                                 *)
Reentered ==
  \E i, j \in 1..Len(agenda) : i < j /\ agenda[i] = agenda[j] /\ agenda[i].do = "return"

Overflow ==
  /\ Reentered /\ Head(agenda).do # "return"
  /\ agenda' = <<>>
  /\ missed' = missed \cup {g \in Gates : Stands(Emit(Watch[g])) \/ Stands(Call(g)) \/ Stands(Return(g))}
  /\ answer' = [g \in Gates |-> IF answer[g] = "uncalled" /\ Stands(Return(g)) THEN "refused"
                                ELSE answer[g]]
  /\ UNCHANGED <<results, writes, bus, posts>>

Run == RunEmit \/ RunCall \/ RunReturn \/ Overflow

----------------------------------------------------------------------------
(* From outside. *)

Register(g) ==
  /\ bus' = [bus EXCEPT ![Watch[g]] = Append(@, g)]
  /\ answer' = [answer EXCEPT ![g] = "pending"]
  /\ UNCHANGED <<results, writes, posts, agenda>>

(* Mutant: the listener is registered without looking at what is there. *)
Open_Blind(g) == agenda = <<>> /\ answer[g] = "uncalled" /\ Register(g) /\ UNCHANGED missed

(* Mutant: the listener is registered a second time. *)
Open_Twice(g) ==
  /\ agenda = <<>> /\ answer[g] \in {"uncalled", "pending"} /\ ~AllSatisfied(g) /\ Register(g)
  /\ UNCHANGED missed

(* Post at once, or listen.  The handler looks a second time after it has  *)
(* registered; nothing can have happened in between.                       *)
Open(g) ==
  /\ agenda = <<>>
  /\ answer[g] = "uncalled"
  /\ IF AllSatisfied(g) THEN TryPost(g, <<>>) \/ Refuse(g, <<>>) ELSE Register(g)
  /\ UNCHANGED missed

(* The timer fires ("timeout") or the client disconnects ("aborted"). *)
Close(g, a) ==
  /\ agenda = <<>>
  /\ answer[g] = "pending"
  /\ Settle(g, a)
  /\ UNCHANGED <<results, writes, posts, agenda, missed>>

(* Another request posts results: one, or a batch, all inserted before the *)
(* first emission.                                                         *)
PostResults(rs) ==
  /\ agenda = <<>>
  /\ writes + Len(rs) <= MaxWrites
  /\ writes' = writes + Len(rs)
  /\ results' = results \cup {rs[i] : i \in 1..Len(rs)}
  /\ agenda' = [i \in 1..Len(rs) |-> Emit(rs[i][1])]
  /\ UNCHANGED <<bus, answer, posts, missed>>

(* Results are deleted, purged or pruned; nothing is emitted. *)
LoseResults(lost) ==
  /\ agenda = <<>>
  /\ results' = results \ lost
  /\ UNCHANGED <<writes, bus, answer, posts, agenda, missed>>

----------------------------------------------------------------------------

Init ==
  /\ results = {} /\ writes = 0
  /\ bus = [ch \in Channels |-> <<>>] /\ agenda = <<>>
  /\ answer = [g \in Gates |-> "uncalled"]
  /\ posts = [g \in Gates |-> 0] /\ missed = {}

Next ==
  \/ Run
  \/ \E g \in Gates : Open(g) \/ Close(g, "timeout") \/ Close(g, "aborted")
  \/ \E r \in Channels \X Tasks : PostResults(<<r>>)
  \/ \E r, s \in Channels \X Tasks : PostResults(<<r, s>>)
  \/ \E lost \in SUBSET results : LoseResults(lost)

(* A request, once running, runs on; a timer that stays due fires. *)
Fairness == WF_vars(Run) /\ \A g \in Gates : WF_vars(Close(g, "timeout"))

Spec == Init /\ [][Next]_vars /\ Fairness

----------------------------------------------------------------------------

(* Every variable has its type; a gate listens at most once. *)
TypeOK ==
  /\ results \subseteq Channels \X Tasks
  /\ writes \in 0..MaxWrites
  /\ bus \in [Channels -> Seq(Gates)] /\ \A ch \in Channels : IsInjective(bus[ch])
  /\ answer \in [Gates -> Answers]
  /\ posts \in [Gates -> 0..MaxPosts]
  /\ agenda \in Seq(Steps)
  /\ missed \subseteq Gates

(* A message on channel c may bring about one on d. *)
Leads(c, d) ==
  \A C \in SUBSET Channels :
    c \in C /\ (\A g \in Gates : Watch[g] \in C => Target[g] \in C) => d \in C

(* A gate whose message may come back to it. *)
Loops(g) == Leads(Target[g], Watch[g])

(* The gates no loop can reach, and that can reach none. *)
Calm == {g \in Gates : \A h \in Gates :
           Loops(h) => ~Leads(Watch[g], Watch[h]) /\ ~Leads(Watch[h], Watch[g])}

(* A gate posts its message once, however many results arrive, in however  *)
(* many nested emissions, where no loop comes in.                          *)
PostedAtMostOnce == \A g \in Calm : posts[g] <= 1

(* No gate sleeps through its last result: whenever the broker is idle, a  *)
(* listening gate lacks one - but for a gate that was to be called when a  *)
(* full stack threw everything away, until the next message on its channel. *)
NoGateAsleep ==
  agenda = <<>> => \A g \in Gates \ missed : answer[g] = "pending" => ~AllSatisfied(g)

(* What a caller knows. *)
Told == [g \in Calm |-> CASE answer[g] = "uncalled" -> "nothing"
                           [] answer[g] = "pending" -> "waiting"
                           [] OTHER -> answer[g]]

(* Every call that has to do with no loop keeps the promise of GatePromise, *)
(* however the emissions nest and whatever loops run beside it: one        *)
(* message at most, sent when all the results are there, one true answer,  *)
(* and none left waiting - the nested emissions come to an end, and then   *)
(* the timer answers whoever still waits.  A call whose own message comes  *)
(* back to it, or that shares a chain of channels with one, is promised    *)
(* nothing: it may post again and again and be told "timeout".             *)
Promise == INSTANCE GatePromise WITH
  Gates  <- Calm,
  Needs  <- [g \in Calm |-> {<<Watch[g], t>> : t \in Deps[g]}],
  stored <- results,
  sent   <- [g \in Calm |-> posts[g]],
  told   <- Told

KeepsPromise == Promise!Spec

(* Without that exception, false: a gate that watches the channel it posts *)
(* to posts again inside its own emission (:231, :290).                    *)
EveryMessageOnce == \A g \in Gates : posts[g] <= 1
=============================================================================
