--------------------------- MODULE MCNotebookStore ---------------------------
(* NotebookStore on small instances; sessions, keys, cells and dependencies *)
(* are interchangeable.                                                     *)
EXTENDS NotebookStore, TLC

Symmetry == Permutations(Session) \cup Permutations(Key) \cup Permutations(Cell) \cup Permutations(Dependency)
=============================================================================
