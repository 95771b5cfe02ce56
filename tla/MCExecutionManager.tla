------------------------- MODULE MCExecutionManager -------------------------
(* ExecutionManager on small instances; executions are interchangeable.    *)
EXTENDS ExecutionManager, TLC

Symmetry == Permutations(Exec)
=============================================================================
