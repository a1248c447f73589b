---------------------------- MODULE BrokerStore ----------------------------
(***************************************************************************)
(* The broker's message table (lib/db.js) and the operations that add rows *)
(* to it or remove rows from it.  better-sqlite3 is synchronous and the    *)
(* broker is one Node process, so every operation below is one atomic      *)
(* step.  A row keeps what the broker's own logic looks at: its channel,   *)
(* its sender, the kind of envelope it carries and its task_id.  The rows' *)
(* creation times are abstracted by their ids, which grow together: "older *)
(* than a cutoff" is "id at most n".                                       *)
(***************************************************************************)
EXTENDS Integers, Sequences, FiniteSets

CONSTANTS
  Channels,     \* channel names
  Senders,      \* sender names, consumers (workers) among them
  TaskIds,      \* values of task_id
  Payloads,     \* what clients post: records of Envelope
  Telemetry,    \* the channels whose name ends in "-telemetry"
  Exempt,       \* PRUNE_EXEMPT: the durable channels
  SignalTypes,  \* PRUNE_SIGNAL_TYPES
  MaxId         \* bound: rows ever inserted

(* "handoff" is a type:status with a task_id and body.handoff_notes;       *)
(* "beat" is a heartbeat in a transient state; "note" is anything else.    *)
Types == {"task", "handoff", "beat", "note"}

Envelope == [channel : Channels, sender : Senders, type : Types, task_id : TaskIds]

Row == [id : Nat, channel : Channels, sender : Senders, type : Types, task_id : TaskIds]

ASSUME PayloadsAssumption == Payloads \subseteq Envelope
ASSUME ChannelsAssumption == Telemetry \subseteq Channels /\ Exempt \subseteq Channels
ASSUME MaxIdAssumption == MaxId \in Nat

VARIABLES
  messages,   \* the rows stored now
  lastId      \* sqlite_sequence: the largest id ever given out

storeVars == <<messages, lastId>>

StoreInit == messages = {} /\ lastId = 0

----------------------------------------------------------------------------

RowOf(p, n) ==
  [id |-> n, channel |-> p.channel, sender |-> p.sender, type |-> p.type,
   task_id |-> p.task_id]

(* The rows one request inserts, in order, under fresh AUTOINCREMENT ids.  *)
NewRows(ps) == {RowOf(ps[i], lastId + i) : i \in 1..Len(ps)}

Insert(ps) == lastId + Len(ps) <= MaxId /\ lastId' = lastId + Len(ps)

(* compactTelemetry: a new row of a sender on a telemetry channel evicts   *)
(* the sender's older rows there that report a transient state.            *)
EvictedBy(m) ==
  {k \in messages : /\ m.channel \in Telemetry
                    /\ k.channel = m.channel /\ k.sender = m.sender
                    /\ k.type = "beat"}

(* upsert_heartbeat: the sender's other rows on the channel go, whatever   *)
(* they carry.                                                             *)
ReplacedBy(m) ==
  {k \in messages : k.channel = m.channel /\ k.sender = m.sender}

(* delete_message: a row of a durable channel goes only at its own         *)
(* sender's request.                                                       *)
DeleteMessage(m, by) ==
  /\ m.channel \in Exempt => by = m.sender
  /\ messages' = messages \ {m}
  /\ UNCHANGED lastId

(* purge_channel and purge_channels_by_prefix: the rows up to n of the     *)
(* named channels.  A durable channel is refused (or skipped) unless       *)
(* purge_channel is forced with the admin secret.                          *)
PurgeChannels(chs, n, admin) ==
  /\ admin => \E ch \in chs : chs = {ch}
  /\ messages' = messages \ {m \in messages : /\ m.id <= n
                                              /\ m.channel \in chs
                                              /\ m.channel \notin Exempt \/ admin}
  /\ UNCHANGED lastId

(* runAutoPrune: chatter goes at the short cutoff, signal types at the     *)
(* long one, durable channels never.                                       *)
AutoPrune(chatterCut, signalCut) ==
  /\ signalCut <= chatterCut
  /\ messages' = messages \
       {m \in messages : /\ m.channel \notin Exempt
                         /\ m.id <= IF m.type \in SignalTypes THEN signalCut
                                                              ELSE chatterCut}
  /\ UNCHANGED lastId

Remove ==
  \/ \E m \in messages, by \in Senders : DeleteMessage(m, by)
  \/ \E chs \in SUBSET Channels, n \in 1..MaxId, admin \in BOOLEAN :
       PurgeChannels(chs, n, admin)
  \/ \E chatterCut, signalCut \in 0..MaxId : AutoPrune(chatterCut, signalCut)
=============================================================================
