---------------------------- MODULE GatePromise ----------------------------
(***************************************************************************)
(* What post_gated_message (lib/tools/messaging.js) promises its caller,   *)
(* whatever bus, listeners and emissions carry it out: the message goes    *)
(* out at most once, at a moment when every task it depends on has its     *)
(* result; the call is answered once; the answer says what happened; and   *)
(* an opened call is answered.                                             *)
(***************************************************************************)
EXTENDS Naturals

CONSTANTS
  Gates,  \* the calls
  Needs   \* gate -> the results it waits for

VARIABLES
  stored,  \* the results there are; the world's, not the promise's
  sent,    \* gate -> how often its message has gone out
  told     \* gate -> "nothing", "waiting", or the answer

vars == <<stored, sent, told>>

Refusals == {"refused", "timeout", "aborted"}

Unanswered(g) == told[g] \in {"nothing", "waiting"}

Init ==
  /\ stored = {}
  /\ sent = [g \in Gates |-> 0]
  /\ told = [g \in Gates |-> "nothing"]

(* Results come and go. *)
World == stored' # stored /\ UNCHANGED <<sent, told>>

Wait(g) ==
  /\ told[g] = "nothing"
  /\ told' = [told EXCEPT ![g] = "waiting"]
  /\ UNCHANGED <<stored, sent>>

(* The message may be a result itself. *)
Send(g) ==
  /\ Needs[g] \subseteq stored
  /\ Unanswered(g) /\ sent[g] = 0
  /\ sent' = [sent EXCEPT ![g] = 1]
  /\ stored \subseteq stored'
  /\ UNCHANGED told

Confirm(g) ==
  /\ Unanswered(g) /\ sent[g] = 1
  /\ told' = [told EXCEPT ![g] = "sent"]
  /\ UNCHANGED <<stored, sent>>

Refuse(g) ==
  /\ Unanswered(g) /\ sent[g] = 0
  /\ \E a \in Refusals : told' = [told EXCEPT ![g] = a]
  /\ UNCHANGED <<stored, sent>>

Next ==
  \/ World
  \/ \E g \in Gates : Wait(g) \/ Send(g) \/ Confirm(g) \/ Refuse(g)

Answered == \A g \in Gates : told[g] = "waiting" ~> ~Unanswered(g)

(* What the steps promise, without the answer that must come. *)
Safe == Init /\ [][Next]_vars

Spec == Safe /\ Answered
=============================================================================
