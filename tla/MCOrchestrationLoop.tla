------------------------ MODULE MCOrchestrationLoop ------------------------
(* A small instance of OrchestrationLoop for TLC. *)
EXTENDS OrchestrationLoop, TLC

CONSTANTS build, ship

(* One task, and another that waits for it. *)
ChainTasks == {build, ship}
ChainDeps == (build :> {}) @@ (ship :> {build})

(* Any review name is as good as another. *)
ReviewSymmetry == Permutations(Reviews)
=============================================================================
