----------------------------- MODULE MCCursors -----------------------------
(* A small instance of Cursors, with Adoption, for TLC. *)
EXTENDS Adoption

Msg(ch, s, ty, t) == [channel |-> ch, sender |-> s, type |-> ty, task_id |-> t]

(* The orchestrator dispatches into an inbox, one worker hands off and     *)
(* another beats on a shared telemetry channel; both workers read both.    *)
FleetPayloads ==
  {Msg("inbox", "orch", "task", "t1"), Msg("tele", "w1", "handoff", "t1"),
   Msg("tele", "w2", "beat", "t1")}

(* Adopting the namespace turns the first worker's name into the second's. *)
OldName == [e \in Entries |-> "w1"]
NewName == [e \in Entries |-> "w2"]
=============================================================================
