---------------------------- MODULE NotebookTables ----------------------------
(***************************************************************************)
(* What the tables of the notebook store promise, whatever requests are at *)
(* work: the committed rows change by one operation at a time, and that    *)
(* operation could have been the only one.  NotebookStore implements it.   *)
(***************************************************************************)
CONSTANTS Id, Top, RowOf(_), None

VARIABLE row

Present == {i \in Id : row[i] # None}

\* No other row has the parent and the key.
Unclaimed(i, r) == \A j \in Present \ {i} : row[j] # r

Inserted(i, r) ==
  /\ i \notin Present /\ Unclaimed(i, r)
  /\ r.parent \in Present \cup {Top}
  /\ row' = [row EXCEPT ![i] = r]

Rekeyed(i, r) ==
  /\ i \in Present /\ Unclaimed(i, r)
  /\ r.parent = row[i].parent
  /\ row' = [row EXCEPT ![i] = r]

\* A row goes with all that is below it and with nothing else.
Removed(i) ==
  /\ i \in Present
  /\ LET gone == {j \in Present : row'[j] = None}
     IN /\ row' = [j \in Id |-> IF j \in gone THEN None ELSE row[j]]
        /\ \A j \in Present : j \in gone <=> j = i \/ row[j].parent \in gone

Init == row = [i \in Id |-> None]

Next == \E i \in Id : Removed(i) \/ \E r \in RowOf(i) : Inserted(i, r) \/ Rekeyed(i, r)

Spec == Init /\ [][Next]_row
=============================================================================
