------------------------------ MODULE Adoption ------------------------------
(***************************************************************************)
(* Namespace adoption (lib/adoption.js) beside the reads and rewinds of    *)
(* Cursors.  Adopting a namespace gives its workers new names to read      *)
(* under; so that a renamed worker does not start afresh, the cursors of   *)
(* its old name on the namespace's own channels are copied to the new one, *)
(* and back when the adoption is reverted.  A watchdog keeps the name it   *)
(* was started with, so both names may go on reading.                      *)
(*                                                                         *)
(* The plan is made when the identities of all entries have been derived   *)
(* by child processes, and is written before anything else runs: the whole *)
(* is one step.  An entry whose derivation fails or times out is left out  *)
(* of it, and the namespace is adopted all the same.                       *)
(*                                                                         *)
(* What was shown to the old name was shown to the worker: where a cursor  *)
(* is copied, shown and passed go with it.                                 *)
(***************************************************************************)
EXTENDS Cursors

CONSTANTS
  Entries,     \* entries of workers.json in the namespace
  LegacyKey,   \* entry -> the name it reads under before adoption
  AdoptedKey,  \* entry -> the name it reads under afterwards
  OwnChannels  \* the channels whose name starts with the namespace's prefix

ASSUME AdoptionAssumption ==
  /\ IsFiniteSet(Entries)
  /\ LegacyKey \in [Entries -> Consumers] /\ AdoptedKey \in [Entries -> Consumers]
  /\ OwnChannels \subseteq Channels

VARIABLE adopted

adoptionVars == <<vars, adopted>>

(* The names whose position on ch the plan gives to c, out of those that   *)
(* stand higher there: the copies with "changes".                          *)
Raising(from, to, derived, c, ch) ==
  {k \in Consumers : /\ \E e \in derived : from[e] = k /\ to[e] = c
                     /\ ch \in OwnChannels
                     /\ cursor[k][ch] > cursor[c][ch]}

(* Mutant: what the plan found is written as it is, the lowest one too. *)
CopyCursors_Exact(from, to, derived) ==
  /\ cursor' = [c \in Consumers |-> [ch \in Channels |->
       IF ch \in OwnChannels /\ \E e \in derived : to[e] = c /\ cursor[from[e]][ch] # NoCursor
         THEN Min({cursor[from[e]][ch] : e \in {d \in derived : to[d] = c}})
         ELSE cursor[c][ch]]]
  /\ UNCHANGED <<storeVars, shown, passed>>

(* planAdoption and copyAndStore: MAX of what is there and every copy. *)
CopyCursors(from, to, derived) ==
  LET raising(c, ch) == Raising(from, to, derived, c, ch)
  IN  /\ cursor' = [c \in Consumers |-> [ch \in Channels |->
                      Max({cursor[k][ch] : k \in {c} \cup raising(c, ch)})]]
      /\ shown'  = [c \in Consumers |-> [ch \in Channels |->
                      UNION {shown[k][ch] : k \in {c} \cup raising(c, ch)}]]
      /\ passed' = [c \in Consumers |-> [ch \in Channels |->
                      Max({passed[k][ch] : k \in {c} \cup raising(c, ch)})]]
      /\ UNCHANGED storeVars

(* adopt_namespace; adopting again copies again. *)
Adopt(derived) ==
  /\ CopyCursors(LegacyKey, AdoptedKey, derived)
  /\ adopted' = TRUE

(* adopt_namespace with revert: nothing to do unless adopted. *)
Revert(derived) ==
  /\ adopted
  /\ CopyCursors(AdoptedKey, LegacyKey, derived)
  /\ adopted' = FALSE

AdoptionInit == Init /\ adopted = FALSE

AdoptionNext ==
  \/ Next /\ UNCHANGED adopted
  \/ \E derived \in SUBSET Entries : Adopt(derived) \/ Revert(derived)

AdoptionSpec == AdoptionInit /\ [][AdoptionNext]_adoptionVars
=============================================================================
