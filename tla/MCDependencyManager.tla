------------------------- MODULE MCDependencyManager -------------------------
(* DependencyManager on a small instance: "my-lib" and "my_lib" name one    *)
(* distribution.                                                            *)
EXTENDS DependencyManager, TLC

MCCanonicalName == [p \in Package |-> "my-lib"]
MCPinned == {[op |-> "==", version |-> 1], [op |-> "bare", version |-> 2]}
=============================================================================
