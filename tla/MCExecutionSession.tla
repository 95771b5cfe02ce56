------------------------- MODULE MCExecutionSession -------------------------
(* ExecutionSession alone; executions and clients are interchangeable.      *)
EXTENDS ExecutionSession, TLC

Symmetry == Permutations(Exec) \cup Permutations(Client)
=============================================================================
