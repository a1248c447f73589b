---------------------------- MODULE MCGatedPosts ----------------------------
(* Small instances of GatedPosts for TLC. *)
EXTENDS GatedPosts

(* A chain: "build" waits on status for two tasks and tells the backend    *)
(* channel, where its message is itself the result "ship" waits for; "log" *)
(* waits on status for one of the two.  And a loop beside it: "echo" posts *)
(* to the channel it watches, as a gated post to <ns>-status does when     *)
(* watch_channel is left out.                                              *)
MCWatch   == [build |-> "status", ship |-> "backend", log |-> "status", echo |-> "team"]
MCTarget  == [build |-> "backend", ship |-> "notes", log |-> "notes", echo |-> "team"]
MCDeps    == [build |-> {"t1", "t2"}, ship |-> {"t1"}, log |-> {"t2"}, echo |-> {"t1"}]
MCCarries == [build |-> "t1", ship |-> "none", log |-> "none", echo |-> "none"]

(* The loop and the chain are what they are meant to be. *)
ASSUME InstanceAssumption ==
  {g \in Gates : Loops(g)} = {"echo"} /\ Calm = {"build", "ship", "log"}
=============================================================================
