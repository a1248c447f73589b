---------------------------- MODULE MCSprintClose ----------------------------
(* A small instance of SprintClose for TLC. *)
EXTENDS SprintClose

(* Any worker is as good as another. *)
WorkerSymmetry == Permutations(Workers)
=============================================================================
