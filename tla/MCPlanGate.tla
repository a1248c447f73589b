----------------------------- MODULE MCPlanGate -----------------------------
(* A small instance of PlanGate and Questions for TLC. *)
EXTENDS Questions, TLC

(* Tasks are interchangeable. *)
TaskSymmetry == Permutations(Tasks)
=============================================================================
