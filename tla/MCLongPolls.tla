---------------------------- MODULE MCLongPolls ----------------------------
(* Small instances of LongPolls for TLC. *)
EXTENDS LongPolls, TLC

Msg(ch, s, ty, t) == [channel |-> ch, sender |-> s, type |-> ty, task_id |-> t]

(* The open requests are interchangeable. *)
PollSymmetry == Permutations(Polls)

(* An orchestrator and a worker posting on one channel the worker waits on. *)
SharedChannelPayloads ==
  {Msg("ctl", "orch", "task", "t1"), Msg("ctl", "w1", "beat", "t1"),
   Msg("ctl", "w1", "handoff", "t1")}

(* A worker handing off its inbox's task while it waits on that inbox. *)
HandoffPayloads ==
  {Msg("inbox", "orch", "task", "t1"), Msg("inbox", "orch", "note", "t1"),
   Msg("status", "w1", "handoff", "t1")}
=============================================================================
