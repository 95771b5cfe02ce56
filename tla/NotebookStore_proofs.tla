------------------------- MODULE NotebookStore_proofs -------------------------
(***************************************************************************)
(* Theorems about NotebookStore, for any tables of any size, keys, any     *)
(* number of sessions, and whatever their owners do with them: types, the  *)
(* unique and foreign keys, the keys only a rename changes, and that the   *)
(* committed rows change as NotebookTables says, one operation at a time.  *)
(***************************************************************************)
EXTENDS NotebookStore, TLAPS

-----------------------------------------------------------------------------
(* Ids and rows.                                                           *)

\* An id is of one table, and None is neither an id nor a row.
LEMMA OneTable ==
  /\ Workspace \cap Project = {} /\ Workspace \cap Notebook = {} /\ Workspace \cap Cell = {}
  /\ Workspace \cap Metadata = {} /\ Workspace \cap Dependency = {}
  /\ Project \cap Notebook = {} /\ Project \cap Cell = {} /\ Project \cap Metadata = {}
  /\ Project \cap Dependency = {} /\ Notebook \cap Cell = {} /\ Notebook \cap Metadata = {}
  /\ Notebook \cap Dependency = {} /\ Cell \cap Metadata = {} /\ Cell \cap Dependency = {}
  /\ Metadata \cap Dependency = {}
  /\ None \notin Id /\ None \notin Row
BY StoreAssumption DEF Table

\* A row of a table is a row, and its table tells where its parent is.
LEMMA RowTypes ==
  ASSUME NEW i \in Id, NEW r \in RowOf(i)
  PROVE  /\ r \in Row /\ r # None
         /\ i \in Workspace => r.parent = None
         /\ i \in Project => r.parent \in Workspace
         /\ i \in Notebook => r.parent \in Project
         /\ i \in Cell \cup Metadata \cup Dependency => r.parent \in Notebook
BY OneTable DEF RowOf, Row, Id, WorkspaceRow, ProjectRow, NotebookRow, CellRow, MetadataRow, DependencyRow

\* A row may take the key of another row of its table.
LEMMA RekeyedType ==
  ASSUME NEW i \in Id, NEW q \in RowOf(i), NEW r \in RowOf(i)
  PROVE  /\ [q EXCEPT !.key = r.key] \in RowOf(i)
         /\ [q EXCEPT !.key = r.key].parent = q.parent
         /\ [q EXCEPT !.key = r.key].key = r.key
BY OneTable DEF RowOf, Row, Id, WorkspaceRow, ProjectRow, NotebookRow, CellRow, MetadataRow, DependencyRow

-----------------------------------------------------------------------------
(* The cascade of a deletion.                                              *)

\* What goes with a row is the row and what was below something that goes.
LEMMA CascadeDown ==
  ASSUME NEW i \in Id
  PROVE  /\ i \in Cascade(i) /\ Cascade(i) \subseteq Id
         /\ \A j \in Cascade(i) : j # i => Exists(j) /\ row[j].parent \in Cascade(i)
BY DEF Cascade, Children

\* Three levels are enough: nothing below a row that goes is left.
LEMMA CascadeClosed ==
  ASSUME TypeOK, NEW i \in Id, NEW j \in Id, Exists(j), row[j].parent \in Cascade(i)
  PROVE  j \in Cascade(i)
<1> DEFINE one == {i} \cup Children({i})
           two == one \cup Children(one)
           three == two \cup Children(two)
<1>1. Cascade(i) = three
  BY DEF Cascade
<1>2. \A k \in Id : Exists(k) => row[k] \in RowOf(k)
  BY DEF TypeOK
<1>3. \A k \in three : k \in Workspace => k = i
  BY <1>2, RowTypes, OneTable DEF Children
<1>4. \A k \in three : k \in Project => k \in one
  BY <1>2, <1>3, RowTypes, OneTable DEF Children, Id
<1>5. \A k \in three : k \in Notebook => k \in two
  BY <1>2, <1>4, RowTypes, OneTable DEF Children, Id
<1>6. three \subseteq Id /\ row[j].parent \in three
  BY <1>1 DEF Children
<1>7. row[j].parent \in Workspace \cup Project \cup Notebook
  BY <1>2, <1>6, RowTypes, OneTable DEF Id
<1>8. row[j].parent \in two
  BY <1>3, <1>4, <1>5, <1>6, <1>7
<1> QED
  BY <1>1, <1>8 DEF Children

-----------------------------------------------------------------------------
(* The invariant.                                                          *)

\* What the routes and checks hand to the write: an update and a deletion are
\* about a row with an id and write a row of its table, a new row has no id
\* until it is flushed, and a request for metadata or a dependency has looked
\* for it before it writes.
CallFits(c) ==
  /\ c.op \in {"create", "upsert"} /\ c.at # "flushed" => c.id = None
  /\ c.op = "upsert" => c.at = "check" /\ c.new \in MetadataRow \cup DependencyRow
  /\ c.op \in {"update", "delete"} => c.id \in Id /\ c.new \in RowOf(c.id)

\* The database would accept the flushed statement c if it came now: the row
\* it is about is still there, or not yet, no other row is equal to the one it
\* writes, and a new row has its parent.  (An update does not move its row, so
\* that its foreign key is that of the committed row.)
Allowed(c) ==
  /\ c.id \in Id /\ c.new \in RowOf(c.id)
  /\ Exists(c.id) <=> c.op # "create"
  /\ c.op # "delete" => \A j \in Id \ {c.id} : row[j] # NewRow(c)
  /\ c.op = "create" => c.new.parent = None \/ Exists(c.new.parent)

CallsFit == \A s \in Session : call[s] # Idle => CallFits(call[s])

FlushedAllowed == \A s \in Session : InFlight(s) => Allowed(call[s])

\* No flushed statement is in the way of another.
FlushedApart ==
  \A s, t \in Session : s # t /\ InFlight(s) /\ InFlight(t) =>
    call[s].id # call[t].id /\ ~Conflict(call[s], call[t])

IInv == TypeOK /\ CallsFit /\ KeysUnique /\ NoOrphans /\ FlushedAllowed /\ FlushedApart

\* A session that is at work has a request.
LEMMA Active ==
  ASSUME TypeOK, NEW s \in Session, call[s].at # "idle"
  PROVE  call[s] \in ActiveCall /\ call[s] # Idle
BY DEF TypeOK, Idle

\* A row of the table of i that is there has the type of its table.
LEMMA ExistingRow ==
  ASSUME TypeOK, NEW i \in Id, Exists(i)
  PROVE  row[i] \in RowOf(i) /\ row[i] \in Row /\ row[i] # None
BY RowTypes DEF TypeOK

-----------------------------------------------------------------------------
(* A commit next to another flushed statement.                             *)

\* The row that an update writes: of the table of its row, below the same parent.
LEMMA WrittenRow ==
  ASSUME TypeOK, NEW c \in ActiveCall, Allowed(c), c.op \in {"create", "update"}
  PROVE  /\ NewRow(c) \in RowOf(c.id)
         /\ c.op = "create" => NewRow(c) = c.new
         /\ c.op = "update" => NewRow(c).parent = row[c.id].parent
BY ExistingRow, RekeyedType DEF Allowed, NewRow, Written

\* What a commit makes of the tables, statement by statement.
LEMMA RowsAfter ==
  ASSUME TypeOK, NEW c \in ActiveCall, Allowed(c), c.op \in {"create", "update", "delete"}, row' = After(c)
  PROVE  /\ row' \in [Id -> Row \cup {None}]
         /\ c.op = "delete" =>
              \A i \in Id : row'[i] = IF i \in Cascade(c.id) THEN None ELSE row[i]
         /\ c.op # "delete" =>
              \A i \in Id : row'[i] = IF i = c.id THEN NewRow(c) ELSE row[i]
         /\ \A i \in Id : row'[i] # None => row'[i] \in RowOf(i)
<1>1. row \in [Id -> Row \cup {None}] /\ c.id \in Id
  BY DEF TypeOK, Allowed
<1>2. CASE c.op = "delete"
  BY <1>1, <1>2 DEF After, TypeOK, Exists
<1>3. CASE c.op # "delete"
  <2>1. NewRow(c) \in RowOf(c.id) /\ NewRow(c) \in Row
    BY <1>1, <1>3, WrittenRow, RowTypes
  <2> QED
    BY <1>1, <1>3, <2>1 DEF After, TypeOK, Exists
<1> QED
  BY <1>2, <1>3

\* The commit of one flushed statement does not change what the deletion of
\* another row takes with it.
LEMMA CascadeAfter ==
  ASSUME TypeOK, NEW d \in ActiveCall, Allowed(d), d.op \in {"create", "update", "delete"},
         row' = After(d), NEW i \in Id, Exists(i), i # d.id,
         Changed(d) \cap Cascade(i) = {},
         d.op = "create" => d.new.parent \notin Cascade(i)
  PROVE  Cascade(i)' = Cascade(i)
<1>1. ASSUME NEW S \in SUBSET Cascade(i), Children(S) \subseteq Cascade(i)
      PROVE  Children(S)' = Children(S)
  <2>1. CASE d.op = "delete"
    BY <1>1, <2>1, RowsAfter DEF Children, Exists, Changed
  <2>2. CASE d.op = "update"
    BY <1>1, <2>2, RowsAfter, WrittenRow, ExistingRow, RowTypes DEF Children, Exists, Allowed
  <2>3. CASE d.op = "create"
    BY <1>1, <2>3, RowsAfter, WrittenRow, RowTypes DEF Children, Exists, Allowed
  <2> QED
    BY <2>1, <2>2, <2>3
<1>2. PICK one : one = {i} \cup Children({i})
  OBVIOUS
<1>3. PICK two : two = one \cup Children(one)
  OBVIOUS
<1>4. Cascade(i) = two \cup Children(two)
  BY <1>2, <1>3 DEF Cascade
<1>5. Children({i})' = Children({i})
  BY <1>1, <1>2, <1>3, <1>4
<1>6. Children(one)' = Children(one)
  BY <1>1, <1>2, <1>3, <1>4
<1>7. Children(two)' = Children(two)
  BY <1>1, <1>2, <1>3, <1>4
<1> QED
  BY <1>2, <1>3, <1>4, <1>5, <1>6, <1>7 DEF Cascade

\* A flushed statement that is not in the way of the committed one is still
\* allowed after the commit, and touches and claims what it did before.
LEMMA CommitLeaves ==
  ASSUME IInv, NEW d \in ActiveCall, Allowed(d), d.op \in {"create", "update", "delete"},
         row' = After(d), NEW c \in ActiveCall, Allowed(c), c.op \in {"create", "update", "delete"},
         c.id # d.id, ~Conflict(c, d)
  PROVE  /\ Allowed(c)'
         /\ Changed(c)' = Changed(c) /\ KeyChanged(c)' = KeyChanged(c) /\ Claims(c)' = Claims(c)
<1> USE DEF IInv
<1>1. /\ Changed(c) \cap Changed(d) = {} /\ Claims(c) \cap Claims(d) = {}
      /\ d.op = "create" => d.new.parent \notin KeyChanged(c)
      /\ c.op = "create" => c.new.parent \notin KeyChanged(d)
  BY DEF Conflict
<1>2. Changed(c)' = Changed(c) /\ KeyChanged(c)' = KeyChanged(c)
  <2>1. CASE c.op = "delete"
    <3>1. Changed(c) = Cascade(c.id) /\ KeyChanged(c) = Cascade(c.id)
      BY <2>1 DEF Changed, KeyChanged
    <3>2. Cascade(c.id)' = Cascade(c.id)
      BY <1>1, <2>1, <3>1, CascadeAfter DEF Allowed
    <3> QED
      BY <2>1, <3>1, <3>2 DEF Changed, KeyChanged
  <2>2. CASE c.op # "delete"
    BY <2>2 DEF Changed, KeyChanged
  <2> QED
    BY <2>1, <2>2
<1>3. \A i \in Id : i \in Changed(c) => row'[i] = row[i]
  <2>1. \A i \in Changed(c) : i \notin Changed(d)
    BY <1>1
  <2>2. \A i \in Changed(c) : Exists(i)
    BY CascadeDown DEF Changed, Allowed
  <2> QED
    BY <2>1, <2>2, RowsAfter DEF Changed, Allowed
<1>4. c.op # "delete" => NewRow(c)' = NewRow(c)
  BY <1>3 DEF NewRow, Written, Changed, Allowed
<1>5. Claims(c)' = Claims(c)
  <2>1. KeyChanged(c) \subseteq Changed(c) /\ Changed(c) \subseteq Id
    BY CascadeDown DEF KeyChanged, Changed, Allowed
  <2> QED
    BY <1>2, <1>3, <1>4, <2>1 DEF Claims
<1>6. Exists(c.id)' <=> Exists(c.id)
  <2>1. CASE c.op = "create"
    BY <2>1, RowsAfter, CascadeDown DEF Allowed, Exists
  <2>2. CASE c.op # "create"
    BY <1>3, <2>2, CascadeDown DEF Allowed, Exists, Changed
  <2> QED
    BY <2>1, <2>2
<1>7. ASSUME c.op # "delete", NEW j \in Id \ {c.id}, row'[j] = NewRow(c)
      PROVE  FALSE
  <2>1. NewRow(c) # None /\ row[j] # NewRow(c) /\ row'[j] # row[j]
    BY <1>7, WrittenRow, RowTypes DEF Allowed
  <2>2. d.op # "delete" /\ j = d.id /\ NewRow(c) = NewRow(d)
    BY <1>7, <2>1, RowsAfter
  <2> QED
    BY <1>1, <1>7, <2>2 DEF Claims
<1>8. ASSUME c.op = "create", c.new.parent # None
      PROVE  Exists(c.new.parent)'
  <2>1. c.new.parent \in Id /\ Exists(c.new.parent)
    BY <1>8, RowTypes DEF Allowed, Row
  <2>2. CASE d.op = "delete"
    BY <1>1, <1>8, <2>1, <2>2, RowsAfter DEF Exists, KeyChanged, Changed
  <2>3. CASE d.op # "delete"
    BY <2>1, <2>3, RowsAfter, WrittenRow, RowTypes DEF Exists, Allowed
  <2> QED
    BY <2>2, <2>3
<1> QED
  BY <1>2, <1>4, <1>5, <1>6, <1>7, <1>8 DEF Allowed

\* What is known of a flushed statement.
LEMMA InFlightFacts ==
  ASSUME IInv, NEW s \in Session, InFlight(s)
  PROVE  /\ call[s] \in ActiveCall /\ call[s] # Idle /\ Allowed(call[s])
         /\ call[s].op \in {"create", "update", "delete"}
BY Active DEF IInv, InFlight, ActiveCall, CallsFit, CallFits, FlushedAllowed, Idle

\* No two rows are equal after a commit.
LEMMA CommitKeepsKeys ==
  ASSUME IInv, NEW d \in ActiveCall, Allowed(d), d.op \in {"create", "update", "delete"}, row' = After(d)
  PROVE  KeysUnique'
BY RowsAfter DEF IInv, KeysUnique, Exists, Allowed

\* The parent of every row is there after a commit.
LEMMA CommitKeepsParents ==
  ASSUME IInv, NEW d \in ActiveCall, Allowed(d), d.op \in {"create", "update", "delete"}, row' = After(d)
  PROVE  NoOrphans'
<1> SUFFICES ASSUME NEW i \in Id, Exists(i)', (row[i].parent # None)'
             PROVE  Exists(row[i].parent)'
  BY DEF NoOrphans
<1> USE DEF IInv
<1>1. row'[i].parent \in Id
  BY RowsAfter, RowTypes DEF Exists, Row
<1>2. CASE d.op = "delete"
  <2>1. i \notin Cascade(d.id) /\ row'[i] = row[i] /\ Exists(i)
    BY <1>2, RowsAfter DEF Exists
  <2>2. row[i].parent \notin Cascade(d.id) /\ Exists(row[i].parent)
    BY <2>1, CascadeClosed DEF NoOrphans, Allowed
  <2> QED
    BY <1>1, <1>2, <2>1, <2>2, RowsAfter DEF Exists
<1>3. CASE d.op # "delete"
  <2>1. Exists(row'[i].parent)
    BY <1>3, RowsAfter, WrittenRow DEF Exists, NoOrphans, Allowed
  <2> QED
    BY <1>1, <1>3, <2>1, RowsAfter, WrittenRow, RowTypes DEF Exists, Allowed
<1> QED
  BY <1>2, <1>3

\* A commit keeps the invariant.
LEMMA CommitsKeep ==
  ASSUME IInv, NEW s \in Session, Commits(s)
  PROVE  IInv'
<1>1. PICK d \in ActiveCall : d = call[s]
  BY InFlightFacts DEF Commits
<1>2. Allowed(d) /\ d.op \in {"create", "update", "delete"} /\ row' = After(d)
  BY <1>1, InFlightFacts DEF Commits
<1>3. call' = [call EXCEPT ![s] = Idle] /\ InFlight(s)
  BY DEF Commits
<1>4. TypeOK'
  BY <1>2, <1>3, RowsAfter DEF IInv, TypeOK, Exists
<1>5. CallsFit'
  BY <1>3 DEF IInv, CallsFit, CallFits, TypeOK
<1>6. ASSUME NEW t \in Session, InFlight(t)', NEW c, c = call[t]
      PROVE  /\ t # s /\ call'[t] = c /\ InFlight(t)
             /\ c \in ActiveCall /\ c.id # d.id /\ ~Conflict(c, d) /\ Allowed(c)'
             /\ Changed(c)' = Changed(c) /\ KeyChanged(c)' = KeyChanged(c) /\ Claims(c)' = Claims(c)
  <2>1. t # s /\ call'[t] = c /\ InFlight(t)
    BY <1>3, <1>6 DEF InFlight, Idle, IInv, TypeOK
  <2>2. /\ c \in ActiveCall /\ Allowed(c) /\ c.op \in {"create", "update", "delete"}
        /\ c.id # d.id /\ ~Conflict(c, d)
    BY <1>1, <1>3, <1>6, <2>1, InFlightFacts DEF IInv, FlushedApart
  <2> QED
    BY <1>2, <2>1, <2>2, CommitLeaves
<1>7. FlushedAllowed'
  <2> SUFFICES ASSUME NEW t \in Session, InFlight(t)'
               PROVE  Allowed(call[t])'
    BY DEF FlushedAllowed
  <2>1. PICK c : c = call[t]
    OBVIOUS
  <2> QED
    BY <1>6, <2>1 DEF Allowed, NewRow, Written, Exists
<1>8. FlushedApart'
  <2> SUFFICES ASSUME NEW t \in Session, NEW u \in Session, t # u, InFlight(t)', InFlight(u)'
               PROVE  (call[t].id # call[u].id /\ ~Conflict(call[t], call[u]))'
    BY DEF FlushedApart
  <2>1. PICK c : c = call[t]
    OBVIOUS
  <2>2. PICK e : e = call[u]
    OBVIOUS
  <2>3. c.id # e.id /\ ~Conflict(c, e)
    BY <1>6, <2>1, <2>2 DEF IInv, FlushedApart
  <2>4. ~Conflict(c, e)'
    BY <1>6, <2>1, <2>2, <2>3 DEF Conflict
  <2>5. call'[t] = c /\ call'[u] = e
    BY <1>6, <2>1, <2>2
  <2>6. Changed(call[t])' = Changed(c)' /\ Changed(call[u])' = Changed(e)'
    BY <2>5 DEF Changed, Cascade, Children, Exists
  <2>7. KeyChanged(call[t])' = KeyChanged(c)' /\ KeyChanged(call[u])' = KeyChanged(e)'
    BY <2>5, <2>6 DEF KeyChanged
  <2>8. Claims(call[t])' = Claims(c)' /\ Claims(call[u])' = Claims(e)'
    BY <2>5, <2>7 DEF Claims, NewRow, Written
  <2> QED
    BY <2>3, <2>4, <2>5, <2>6, <2>7, <2>8 DEF Conflict
<1> QED
  BY <1>2, <1>4, <1>5, <1>7, <1>8, CommitKeepsKeys, CommitKeepsParents DEF IInv

-----------------------------------------------------------------------------
(* The steps before the commit.                                            *)

\* With the rows unchanged, what concerns a statement alone is unchanged.
LEMMA SameRows ==
  ASSUME UNCHANGED row, NEW c
  PROVE  /\ Allowed(c)' = Allowed(c) /\ Changed(c)' = Changed(c)
         /\ KeyChanged(c)' = KeyChanged(c) /\ Claims(c)' = Claims(c)
<1>1. Changed(c)' = Changed(c)
  BY DEF Changed, Cascade, Children, Exists
<1>2. NewRow(c)' = NewRow(c)
  BY DEF NewRow, Written
<1> QED
  BY <1>1, <1>2 DEF Allowed, KeyChanged, Claims, Exists

\* A step of session s that writes no row and after which every flushed statement
\* is allowed, and apart from the others, keeps the invariant.
LEMMA SessionMoves ==
  ASSUME IInv, NEW s \in Session, NEW c \in {Idle} \cup ActiveCall,
         call' = [call EXCEPT ![s] = c], UNCHANGED row,
         c # Idle => CallFits(c),
         c.at = "flushed" =>
           /\ Allowed(c)
           /\ \A t \in Session \ {s} : InFlight(t) => c.id # call[t].id /\ ~Conflict(c, call[t])
  PROVE  IInv'
<1>1. call'[s] = c /\ \A t \in Session : t # s => call'[t] = call[t]
  BY DEF IInv, TypeOK
<1>2. TypeOK'
  BY DEF IInv, TypeOK, Exists
<1>3. CallsFit'
  BY <1>1 DEF IInv, CallsFit, CallFits
<1>4. KeysUnique' /\ NoOrphans'
  BY DEF IInv, KeysUnique, NoOrphans, Exists
<1>5. \A t \in Session : InFlight(t)' /\ t # s => InFlight(t)
  BY <1>1 DEF InFlight
<1>6. InFlight(s)' => c.at = "flushed"
  BY <1>1 DEF InFlight
<1>7. FlushedAllowed'
  <2> SUFFICES ASSUME NEW t \in Session, InFlight(t)'
               PROVE  Allowed(call[t])'
    BY DEF FlushedAllowed
  <2>1. PICK e : e = call'[t]
    OBVIOUS
  <2>2. Allowed(e)
    BY <1>1, <1>5, <1>6, <2>1 DEF IInv, FlushedAllowed
  <2>3. Allowed(e)'
    BY <2>2, SameRows
  <2> QED
    BY <2>1, <2>3 DEF Allowed, NewRow, Written, Exists
<1>8. FlushedApart'
  <2> SUFFICES ASSUME NEW t \in Session, NEW u \in Session, t # u, InFlight(t)', InFlight(u)'
               PROVE  (call[t].id # call[u].id /\ ~Conflict(call[t], call[u]))'
    BY DEF FlushedApart
  <2>1. PICK d : d = call'[t]
    OBVIOUS
  <2>2. PICK e : e = call'[u]
    OBVIOUS
  <2>3. d.id # e.id /\ ~Conflict(d, e)
    BY <1>1, <1>5, <1>6, <2>1, <2>2 DEF IInv, FlushedApart, Conflict
  <2>4. ~Conflict(d, e)'
    BY <2>3, SameRows DEF Conflict
  <2>5. Changed(call[t])' = Changed(d)' /\ Changed(call[u])' = Changed(e)'
    BY <2>1, <2>2 DEF Changed, Cascade, Children, Exists
  <2>6. KeyChanged(call[t])' = KeyChanged(d)' /\ KeyChanged(call[u])' = KeyChanged(e)'
    BY <2>1, <2>2, <2>5 DEF KeyChanged
  <2>7. Claims(call[t])' = Claims(d)' /\ Claims(call[u])' = Claims(e)'
    BY <2>1, <2>2, <2>6 DEF Claims, NewRow, Written
  <2> QED
    BY <2>1, <2>2, <2>3, <2>4, <2>5, <2>6, <2>7 DEF Conflict
<1> QED
  BY <1>2, <1>3, <1>4, <1>7, <1>8 DEF IInv

\* A request that begins keeps the invariant if what it is about to write fits.
LEMMA BeginsKeeps ==
  ASSUME IInv, NEW s \in Session, NEW at \in {"check", "write"},
         NEW op \in {"create", "update", "upsert", "delete"}, NEW id \in Id \cup {None},
         NEW seen \in Row \cup {None}, NEW new \in Row, Begins(s, at, op, id, seen, new),
         op = "upsert" => at = "check" /\ new \in MetadataRow \cup DependencyRow,
         op \in {"update", "delete"} => id \in Id /\ new \in RowOf(id),
         op \in {"create", "upsert"} => id = None
  PROVE  IInv'
<1> DEFINE c == [at |-> at, op |-> op, id |-> id, seen |-> seen, new |-> new]
<1>1. c \in ActiveCall /\ CallFits(c) /\ c.at # "flushed"
  BY DEF ActiveCall, CallFits
<1>2. call' = [call EXCEPT ![s] = c] /\ UNCHANGED row
  BY DEF Begins
<1> HIDE DEF c
<1> QED
  BY <1>1, <1>2, SessionMoves

\* A request that ends without a write keeps the invariant.
LEMMA IdleKeeps ==
  ASSUME IInv, NEW s \in Session, call' = [call EXCEPT ![s] = Idle], UNCHANGED row
  PROVE  IInv'
BY SessionMoves DEF Idle

\* Creating a row.
LEMMA CreatesKeeps ==
  ASSUME IInv, NEW s \in Session, NEW parent \in Id \cup {None}, NEW key \in Key, Creates(s, parent, key)
  PROVE  IInv'
<1>1. [parent |-> parent, key |-> key] \in Row
  BY DEF Row
<1> QED
  BY <1>1, BeginsKeeps DEF Creates

\* Updating a row that is there, with a key of its table or none.
LEMMA UpdatesKeeps ==
  ASSUME IInv, NEW s \in Session, NEW i \in Id, Exists(i), NEW key, Updates(s, i, key),
         key = None \/ [row[i] EXCEPT !.key = key] \in RowOf(i)
  PROVE  IInv'
<1>1. Renamed(i, key) \in RowOf(i) /\ Renamed(i, key) \in Row /\ row[i] \in Row
  BY ExistingRow, RowTypes DEF Renamed, IInv
<1> QED
  BY <1>1, BeginsKeeps DEF Updates

\* Deleting a row that is there.
LEMMA DeletesKeeps ==
  ASSUME IInv, NEW s \in Session, NEW i \in Id, Exists(i), Deletes(s, i)
  PROVE  IInv'
BY ExistingRow, BeginsKeeps DEF Deletes, IInv

\* The rows of a table that a name or position is written to.
LEMMA KeyedType ==
  ASSUME NEW i \in Workspace \cup Project \cup Notebook \cup Cell, NEW r \in RowOf(i), NEW k \in Key
  PROVE  [r EXCEPT !.key = k] \in RowOf(i)
BY OneTable DEF RowOf, Id, WorkspaceRow, ProjectRow, NotebookRow, CellRow

\* A route keeps the invariant: what it reads and checks before its write.
LEMMA RoutesKeep ==
  ASSUME IInv, NEW s \in Session,
         \/ WorkspaceRoutes(s) \/ ProjectRoutes(s) \/ NotebookRoutes(s) \/ CellRoutes(s)
         \/ MetadataRoutes(s) \/ DependencyRoutes(s)
  PROVE  IInv'
<1>1. ASSUME CreateWorkspace(s) \/ CreateProject(s) \/ CreateNotebook(s) \/ CreateCell(s)
      PROVE  IInv'
  BY <1>1, CreatesKeeps
  DEF CreateWorkspace, CreateProject, CreateNotebook, CreateCell, Workspaces, Projects, Notebooks, Id
<1>2. ASSUME NEW i \in Workspaces \cup Projects \cup Notebooks \cup Cells, NEW k \in Key \cup {None},
             Updates(s, i, k)
      PROVE  IInv'
  <2>1. i \in Workspace \cup Project \cup Notebook \cup Cell /\ i \in Id /\ Exists(i)
    BY <1>2 DEF Workspaces, Projects, Notebooks, Cells, Id
  <2>2. k = None \/ [row[i] EXCEPT !.key = k] \in RowOf(i)
    BY <2>1, ExistingRow, KeyedType DEF IInv
  <2> QED
    BY <1>2, <2>1, <2>2, UpdatesKeeps
<1>3. ASSUME UpdateWorkspace(s) \/ UpdateProject(s) \/ UpdateNotebook(s) \/ UpdateCell(s)
      PROVE  IInv'
  BY <1>2, <1>3 DEF UpdateWorkspace, UpdateProject, UpdateNotebook, UpdateCell
<1>4. ASSUME \/ DeleteWorkspace(s) \/ DeleteProject(s) \/ DeleteNotebook(s) \/ DeleteCell(s)
             \/ DeleteDependency(s)
      PROVE  IInv'
  BY <1>4, DeletesKeeps
  DEF DeleteWorkspace, DeleteProject, DeleteNotebook, DeleteCell, DeleteDependency, Workspaces, Projects,
      Notebooks, Cells, Dependencies, Id
<1>5. CASE UpdateMetadata(s)
  <2>1. PICK n \in Notebooks : Begins(s, "check", "upsert", None, None, [parent |-> n, key |-> None])
    BY <1>5 DEF UpdateMetadata
  <2>2. [parent |-> n, key |-> None] \in MetadataRow /\ [parent |-> n, key |-> None] \in Row
    BY DEF MetadataRow, Row, Notebooks, Id
  <2> QED
    BY <2>1, <2>2, BeginsKeeps
<1>6. CASE DeclareDependency(s)
  <2>1. PICK n \in Notebook, k \in Package :
          Begins(s, "check", "upsert", None, None, [parent |-> n, key |-> k])
    BY <1>6 DEF DeclareDependency
  <2>2. [parent |-> n, key |-> k] \in DependencyRow /\ [parent |-> n, key |-> k] \in Row
    BY DEF DependencyRow, Row, Id
  <2> QED
    BY <2>1, <2>2, BeginsKeeps
<1>7. CASE UpdateDependency(s)
  BY <1>7, UpdatesKeeps DEF UpdateDependency, Dependencies, Id
<1> QED
  BY <1>1, <1>3, <1>4, <1>5, <1>6, <1>7
  DEF WorkspaceRoutes, ProjectRoutes, NotebookRoutes, CellRoutes, MetadataRoutes, DependencyRoutes

\* The look at the keys of the siblings keeps the invariant.
LEMMA ChecksKeep ==
  ASSUME IInv, NEW s \in Session, Checks(s)
  PROVE  IInv'
<1>1. /\ call[s] \in ActiveCall /\ CallFits(call[s]) /\ UNCHANGED row
      /\ call[s].op \in {"create", "update"} /\ call[s].at = "check"
  BY Active DEF IInv, CallsFit, Checks
<1>2. PICK c : c = IF Taken(call[s]) THEN Idle ELSE [call[s] EXCEPT !.at = "write"]
  OBVIOUS
<1>3. c = Idle \/ (c \in ActiveCall /\ CallFits(c))
  BY <1>1, <1>2 DEF ActiveCall, CallFits
<1>4. c.at # "flushed"
  BY <1>1, <1>2 DEF Idle, ActiveCall
<1>5. call' = [call EXCEPT ![s] = c]
  BY <1>2 DEF Checks
<1> QED
  BY <1>1, <1>3, <1>4, <1>5, SessionMoves

\* The look for the row of an upsert keeps the invariant.
LEMMA UpsertChecksKeep ==
  ASSUME IInv, NEW s \in Session, UpsertChecks(s)
  PROVE  IInv'
<1> DEFINE new == call[s].new
           found == IF new.key = None THEN MetadataOf(new.parent) ELSE DependencyOf(new.parent, new.key)
<1>1. /\ call[s] \in ActiveCall /\ call[s].id = None /\ UNCHANGED row
      /\ new \in MetadataRow \cup DependencyRow /\ new \in Row
  BY Active DEF IInv, CallsFit, CallFits, UpsertChecks, ActiveCall
<1>2. PICK c : c = IF found = {} THEN [call[s] EXCEPT !.at = "write", !.op = "create"]
                   ELSE [call[s] EXCEPT !.at = "write", !.op = "update", !.id = CHOOSE i \in found : TRUE,
                                        !.seen = new]
  OBVIOUS
<1>3. call' = [call EXCEPT ![s] = c]
  BY <1>2 DEF UpsertChecks
<1>4. CASE found = {}
  BY <1>1, <1>2, <1>3, <1>4, SessionMoves DEF ActiveCall, CallFits
<1>5. CASE found # {}
  <2>1. PICK i : i \in found /\ i = CHOOSE j \in found : TRUE
    BY <1>5
  <2>2. i \in Id /\ new \in RowOf(i)
    <3>1. CASE new.key = None
      <4>1. i \in Metadata /\ new \in MetadataRow
        BY <1>1, <2>1, <3>1, StoreAssumption DEF MetadataOf, DependencyRow, MetadataRow
      <4> QED
        BY <4>1, OneTable DEF RowOf, Id
    <3>2. CASE new.key # None
      <4>1. i \in Dependency /\ new \in DependencyRow
        BY <1>1, <2>1, <3>2 DEF DependencyOf, Dependencies, MetadataRow
      <4> QED
        BY <4>1, OneTable DEF RowOf, Id
    <3> QED
      BY <3>1, <3>2
  <2>3. c = [call[s] EXCEPT !.at = "write", !.op = "update", !.id = i, !.seen = new]
    BY <1>2, <1>5, <2>1
  <2>4. c \in ActiveCall /\ CallFits(c) /\ c.at # "flushed"
    BY <1>1, <2>2, <2>3 DEF ActiveCall, CallFits
  <2> QED
    BY <1>1, <1>3, <2>4, SessionMoves
<1> QED
  BY <1>4, <1>5

\* A statement that the database takes keeps the invariant.
LEMMA FlushKeeps ==
  ASSUME IInv, NEW s \in Session, NEW c \in ActiveCall, Flushes(s, c), Allowed(c),
         c.op \in {"create", "update", "delete"},
         \A t \in Session \ {s} : InFlight(t) => c.id # call[t].id
  PROVE  IInv'
<1>1. PICK d : d = [c EXCEPT !.at = "flushed"]
  OBVIOUS
<1>2. /\ d \in ActiveCall /\ d.at = "flushed" /\ d.op = c.op /\ d.id = c.id /\ d.seen = c.seen
      /\ d.new = c.new
  BY <1>1 DEF ActiveCall
<1>3. Changed(d) = Changed(c) /\ KeyChanged(d) = KeyChanged(c) /\ NewRow(d) = NewRow(c)
  BY <1>2 DEF Changed, KeyChanged, NewRow, Written
<1>4. Claims(d) = Claims(c) /\ Allowed(d)
  BY <1>2, <1>3 DEF Claims, Allowed
<1>5. \A t \in Session \ {s} : InFlight(t) => d.id # call[t].id /\ ~Conflict(d, call[t])
  BY <1>2, <1>3, <1>4 DEF Flushes, Waits, Conflict
<1>6. call' = [call EXCEPT ![s] = d] /\ UNCHANGED row
  BY <1>1 DEF Flushes
<1>7. d # Idle => CallFits(d)
  BY <1>2, <1>4 DEF CallFits, Allowed
<1> QED
  BY <1>2, <1>4, <1>5, <1>6, <1>7, SessionMoves

\* The three statements keep the invariant.
LEMMA StatementsKeep ==
  ASSUME IInv, NEW s \in Session, FlushesCreate(s) \/ FlushesUpdate(s) \/ FlushesDelete(s)
  PROVE  IInv'
<1>1. call[s] \in ActiveCall /\ CallFits(call[s])
  BY Active DEF IInv, CallsFit, FlushesCreate, FlushesUpdate, FlushesDelete
<1>2. \A t \in Session : InFlight(t) =>
         call[t] # Idle /\ call[t].id \in Id /\ (Exists(call[t].id) <=> call[t].op # "create")
  BY InFlightFacts DEF Allowed
<1>3. CASE FlushesCreate(s)
  <2>1. PICK i \in Id : Fresh(i) /\ call[s].new \in RowOf(i) /\ Flushes(s, [call[s] EXCEPT !.id = i])
    BY <1>3 DEF FlushesCreate
  <2>2. PICK c : c = [call[s] EXCEPT !.id = i]
    OBVIOUS
  <2>3. c \in ActiveCall /\ c.op = "create" /\ c.id = i /\ c.new = call[s].new /\ NewRow(c) = c.new
    BY <1>1, <1>3, <2>2 DEF ActiveCall, FlushesCreate, NewRow
  <2>4. /\ \A j \in Id : row[j] # c.new
        /\ c.new.parent = None \/ Exists(c.new.parent)
    <3>1. call[s].id \notin Id
      BY <1>1, <1>3, OneTable DEF FlushesCreate, CallFits
    <3> QED
      BY <1>3, <2>3, <3>1 DEF FlushesCreate, Violates, NewRow
  <2>5. Allowed(c)
    BY <2>1, <2>3, <2>4 DEF Allowed, Fresh
  <2>6. \A t \in Session \ {s} : InFlight(t) => c.id # call[t].id
    BY <1>2, <2>1, <2>3 DEF Fresh
  <2> QED
    BY <2>1, <2>2, <2>3, <2>5, <2>6, FlushKeeps
<1>4. CASE FlushesUpdate(s) \/ FlushesDelete(s)
  <2>1. PICK c \in ActiveCall : c = call[s]
    BY <1>1
  <2>2. c.op \in {"update", "delete"} /\ Exists(c.id) /\ Flushes(s, c) /\ c.id \in Id /\ c.new \in RowOf(c.id)
    BY <1>1, <1>4, <2>1 DEF FlushesUpdate, FlushesDelete, CallFits
  <2>3. Allowed(c)
    BY <1>4, <2>1, <2>2 DEF Allowed, Violates, FlushesUpdate, FlushesDelete
  <2>4. \A t \in Session \ {s} : InFlight(t) => c.id # call[t].id
    <3> SUFFICES ASSUME NEW t \in Session \ {s}, InFlight(t), c.id = call[t].id
                 PROVE  FALSE
      OBVIOUS
    <3>1. PICK d : d = call[t]
      OBVIOUS
    <3>2. d.op \in {"update", "delete"} /\ d.id = c.id
      BY <1>2, <2>2, <3>1, InFlightFacts
    <3>3. c.id \in Changed(c) /\ d.id \in Changed(d)
      BY <2>2, <3>2, CascadeDown DEF Changed
    <3> QED
      BY <2>2, <3>1, <3>2, <3>3 DEF Flushes, Waits, Conflict
  <2> QED
    BY <2>2, <2>3, <2>4, FlushKeeps
<1> QED
  BY <1>3, <1>4

\* Every step keeps the invariant.
LEMMA NextKeeps ==
  ASSUME IInv, [Next]_vars
  PROVE  IInv'
<1>1. ASSUME NEW s \in Session, EndsWithoutWrite(s) \/ RollsBack(s)
      PROVE  IInv'
  BY <1>1, IdleKeeps DEF EndsWithoutWrite, RollsBack
<1>2. CASE UNCHANGED vars
  <2>1. CASE Session = {}
    BY <1>2, <2>1 DEF vars, IInv, TypeOK, CallsFit, KeysUnique, NoOrphans, FlushedAllowed, FlushedApart, Exists
  <2>2. ASSUME NEW s \in Session
        PROVE  IInv'
    <3>1. PICK c : c = call[s]
      OBVIOUS
    <3>2. c \in {Idle} \cup ActiveCall /\ (c # Idle => CallFits(c)) /\ call' = [call EXCEPT ![s] = c]
      BY <1>2, <3>1 DEF vars, IInv, TypeOK, CallsFit
    <3>3. c.at = "flushed" =>
            /\ Allowed(c)
            /\ \A t \in Session \ {s} : InFlight(t) => c.id # call[t].id /\ ~Conflict(c, call[t])
      BY <3>1 DEF IInv, FlushedAllowed, FlushedApart, InFlight
    <3> QED
      BY <1>2, <3>2, <3>3, SessionMoves DEF vars
  <2> QED
    BY <2>1, <2>2
<1> QED
  BY <1>1, <1>2, RoutesKeep, ChecksKeep, UpsertChecksKeep, StatementsKeep, CommitsKeep DEF Next

\* Only a commit writes rows.
LEMMA OnlyCommitsWrite ==
  ASSUME [Next]_vars, \A s \in Session : ~Commits(s)
  PROVE  UNCHANGED row
BY DEF Next, vars, WorkspaceRoutes, ProjectRoutes, NotebookRoutes, CellRoutes, MetadataRoutes, DependencyRoutes,
       CreateWorkspace, UpdateWorkspace, DeleteWorkspace, CreateProject, UpdateProject, DeleteProject,
       CreateNotebook, UpdateNotebook, DeleteNotebook, CreateCell, UpdateCell, DeleteCell, UpdateMetadata,
       DeclareDependency, UpdateDependency, DeleteDependency, Creates, Updates, Deletes, Begins, Checks,
       UpsertChecks, FlushesCreate, FlushesUpdate, FlushesDelete, Flushes, EndsWithoutWrite, RollsBack

\* At the start nothing is stored and no session is open.
LEMMA InitStarts ==
  ASSUME Init
  PROVE  IInv
BY DEF Init, IInv, TypeOK, Exists, CallsFit, KeysUnique, NoOrphans, FlushedAllowed, FlushedApart, InFlight, Idle

-----------------------------------------------------------------------------
(* The theorems.                                                           *)

\* The invariant is one.
THEOREM Inductive == Spec => []IInv
<1>1. Init => IInv
  BY InitStarts
<1>2. IInv /\ [Next]_vars => IInv'
  BY NextKeeps
<1> QED
  BY <1>1, <1>2, PTL DEF Spec

\* Committed rows have the type of their table, and sessions that of a request,
\* for every instance (models/workspace.py, models/notebook.py).
THEOREM TypeCorrect == Spec => []TypeOK
<1>1. IInv => TypeOK
  BY DEF IInv
<1> QED
  BY <1>1, Inductive, PTL

\* The unique constraints hold of the committed rows however the checks, writes
\* and ends of any number of sessions interleave (services/notebook_cell.py:48).
THEOREM KeysAreUnique == Spec => []KeysUnique
<1>1. IInv => KeysUnique
  BY DEF IInv
<1> QED
  BY <1>1, Inductive, PTL

\* So do the foreign keys, next to deletions that cascade over three levels
\* (models/notebook_cell.py:33).
THEOREM ParentsStay == Spec => []NoOrphans
<1>1. IInv => NoOrphans
  BY DEF IInv
<1> QED
  BY <1>1, Inductive, PTL

\* No update of other columns undoes the rename of a row
\* (repositories/notebook_cell.py:59).
THEOREM OnlyRenamesRename == Spec => RenamesAreAsked
<1> DEFINE Asked == \A i \in Id : Exists(i) /\ row'[i] # None /\ row'[i] # row[i] =>
                      \E s \in Session : /\ InFlight(s) /\ call[s].op = "update" /\ call[s].id = i
                                         /\ call[s].new # call[s].seen /\ call[s].new.key = row'[i].key
<1>1. ASSUME IInv, [Next]_vars
      PROVE  [Asked]_vars
  <2>1. ASSUME NEW s \in Session, Commits(s)
        PROVE  Asked
    <3>1. PICK c \in ActiveCall : c = call[s]
      BY <1>1, <2>1, InFlightFacts DEF Commits
    <3>2. /\ Allowed(c) /\ c.op \in {"create", "update", "delete"} /\ row' = After(c) /\ InFlight(s)
          /\ TypeOK
      BY <1>1, <2>1, <3>1, InFlightFacts DEF Commits, IInv
    <3> SUFFICES ASSUME NEW i \in Id, Exists(i), row'[i] # None, row'[i] # row[i]
                 PROVE  /\ c.op = "update" /\ c.id = i
                        /\ c.new # c.seen /\ c.new.key = row'[i].key
      BY <3>1, <3>2
    <3>3. c.op # "delete" /\ c.id = i /\ row'[i] = NewRow(c)
      BY <3>2, RowsAfter
    <3>4. c.op = "update" /\ c.new # c.seen /\ NewRow(c) = [row[i] EXCEPT !.key = c.new.key]
      BY <3>2, <3>3 DEF Allowed, NewRow, Written
    <3>5. NewRow(c).key = c.new.key
      BY <3>2, <3>3, <3>4, ExistingRow, RekeyedType DEF Allowed
    <3> QED
      BY <3>3, <3>4, <3>5
  <2> QED
    BY <1>1, <2>1, OnlyCommitsWrite DEF vars
<1> QED
  BY <1>1, Inductive, PTL DEF Spec, RenamesAreAsked

\* The commit of a flushed statement is one operation on the tables, or none.
LEMMA CommitIsOperation ==
  ASSUME IInv, NEW c \in ActiveCall, Allowed(c), c.op \in {"create", "update", "delete"}, row' = After(c)
  PROVE  Tables!Next
<1> USE DEF IInv
<1>1. c.id \in Id
  BY DEF Allowed
<1>2. CASE c.op = "create"
  <2>1. NewRow(c) \in RowOf(c.id) /\ NewRow(c) = c.new
    BY <1>2, WrittenRow
  <2>2. row' = [row EXCEPT ![c.id] = c.new]
    BY <1>2, <2>1 DEF After
  <2>3. c.new.parent \in Tables!Present \cup {None}
    BY <1>2, <2>1, RowTypes DEF Allowed, Tables!Present, Exists, Row
  <2>4. Tables!Inserted(c.id, c.new)
    BY <1>2, <2>1, <2>2, <2>3 DEF Tables!Inserted, Tables!Unclaimed, Tables!Present, Allowed, Exists
  <2> QED
    BY <1>1, <2>1, <2>4 DEF Tables!Next
<1>3. CASE c.op = "update"
  <2>1. NewRow(c) \in RowOf(c.id) /\ NewRow(c).parent = row[c.id].parent
    BY <1>3, WrittenRow
  <2>2. row' = [row EXCEPT ![c.id] = NewRow(c)]
    BY <1>3 DEF After
  <2>3. Tables!Rekeyed(c.id, NewRow(c))
    BY <1>3, <2>1, <2>2 DEF Tables!Rekeyed, Tables!Unclaimed, Tables!Present, Allowed, Exists
  <2> QED
    BY <1>1, <2>1, <2>3 DEF Tables!Next
<1>4. CASE c.op = "delete"
  <2> DEFINE gone == {j \in Tables!Present : row'[j] = None}
  <2>1. row' = [j \in Id |-> IF j \in Cascade(c.id) THEN None ELSE row[j]]
    BY <1>4 DEF After
  <2>2. \A j \in Id : j \in gone <=> j \in Cascade(c.id)
    BY <1>1, <1>4, <2>1, CascadeDown DEF Tables!Present, Allowed, Exists
  <2>3. row' = [j \in Id |-> IF j \in gone THEN None ELSE row[j]]
    BY <2>1, <2>2
  <2>4. ASSUME NEW j \in Tables!Present
        PROVE  j \in gone <=> j = c.id \/ row[j].parent \in gone
    <3>1. j \in Id /\ Exists(j)
      BY DEF Tables!Present, Exists
    <3>2. j \in Cascade(c.id) <=> j = c.id \/ row[j].parent \in Cascade(c.id)
      BY <1>1, <3>1, CascadeDown, CascadeClosed
    <3>3. gone = Cascade(c.id)
      BY <1>1, <2>2, CascadeDown DEF Tables!Present
    <3> QED
      BY <3>2, <3>3
  <2>5. c.id \in Tables!Present
    BY <1>1, <1>4 DEF Tables!Present, Allowed, Exists
  <2> HIDE DEF gone
  <2>6. Tables!Removed(c.id)
    BY <2>3, <2>4, <2>5 DEF Tables!Removed, gone
  <2> QED
    BY <1>1, <2>6 DEF Tables!Next
<1> QED
  BY <1>2, <1>3, <1>4

\* However requests overlap, the committed rows change by one operation at a time,
\* each of which could have been the only one: NotebookStore implements
\* NotebookTables (services/notebook_cell.py:38-60).
THEOREM TablesImplemented == Spec => TablesSpec
<1>1. Init => Tables!Init
  BY DEF Init, Tables!Init
<1>2. ASSUME IInv, [Next]_vars
      PROVE  [Tables!Next]_row
  <2>1. ASSUME NEW s \in Session, Commits(s)
        PROVE  Tables!Next
    <3>1. PICK c \in ActiveCall : c = call[s]
      BY <1>2, <2>1, InFlightFacts DEF Commits
    <3>2. Allowed(c) /\ c.op \in {"create", "update", "delete"} /\ row' = After(c)
      BY <1>2, <2>1, <3>1, InFlightFacts DEF Commits
    <3> QED
      BY <1>2, <3>2, CommitIsOperation
  <2> QED
    BY <1>2, <2>1, OnlyCommitsWrite
<1> QED
  BY <1>1, <1>2, Inductive, PTL DEF Spec, TablesSpec, Tables!Spec

=============================================================================
