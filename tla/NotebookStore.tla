---------------------------- MODULE NotebookStore ----------------------------
(***************************************************************************)
(* Workspaces, projects, notebooks, cells, notebook metadata and declared  *)
(* dependencies: what the services of app/services, and DependencyManager, *)
(* read, check and write through the repositories of app/repositories, in  *)
(* the tables of app/models, when the routes of app/api/v1/routes serve    *)
(* several requests at once.                                               *)
(*                                                                         *)
(* A row is its parent and its key: the name of a workspace, project or    *)
(* notebook, the position of a cell, the package of a dependency; the      *)
(* metadata of a notebook has none.                                        *)
(* Parent and key tell the table, so that two rows break a unique          *)
(* constraint just when they are equal.                                    *)
(*                                                                         *)
(* Every request has an AsyncSession of its own.  A step is one await: a   *)
(* SELECT, which sees the committed rows, or the flush, whose one          *)
(* statement is checked by the database and stays invisible to others, and *)
(* locked, until the session ends.  The services never end it: its owner   *)
(* commits it or rolls it back; the routes of dependencies commit theirs.  *)
(***************************************************************************)
EXTENDS Naturals, FiniteSets

CONSTANTS Workspace, Project, Notebook, Cell, Metadata, Dependency,  \* the ids of each table
          Key,      \* names and positions
          Package,  \* names of packages
          None,     \* no row, no parent, no key
          Session,  \* sessions that may be open at a time
          Endings   \* what an owner does with a session: "commit", "rollback"

Table == <<Workspace, Project, Notebook, Cell, Metadata, Dependency>>
Id == Workspace \cup Project \cup Notebook \cup Cell \cup Metadata \cup Dependency
Row == [parent : Id \cup {None}, key : Key \cup Package \cup {None}]

ASSUME StoreAssumption ==
  /\ \A m, n \in DOMAIN Table : m # n => Table[m] \cap Table[n] = {}
  /\ None \notin Id \cup Key \cup Package \cup Row
  /\ Key \cap Package = {}
  /\ Endings \subseteq {"commit", "rollback"}

VARIABLES row,   \* the committed row of each id, or None
          call   \* what each session is doing

vars == <<row, call>>

-----------------------------------------------------------------------------
(* The tables.                                                             *)

WorkspaceRow == [parent : {None}, key : Key]
ProjectRow   == [parent : Workspace, key : Key]
NotebookRow  == [parent : Project, key : Key]
CellRow      == [parent : Notebook, key : Key]
MetadataRow  == [parent : Notebook, key : {None}]
DependencyRow == [parent : Notebook, key : Package]

RowOf(i) == CASE i \in Workspace -> WorkspaceRow
              [] i \in Project   -> ProjectRow
              [] i \in Notebook  -> NotebookRow
              [] i \in Cell      -> CellRow
              [] i \in Metadata  -> MetadataRow
              [] OTHER           -> DependencyRow

Exists(i) == row[i] # None

Workspaces     == {w \in Workspace : Exists(w)}
Projects       == {p \in Project : Exists(p)}
Notebooks      == {n \in Notebook : Exists(n)}
Cells          == {c \in Cell : Exists(c)}
ProjectsOf(w)  == {p \in Projects : row[p].parent = w}
NotebooksOf(p) == {n \in Notebooks : row[n].parent = p}
CellsOf(n)     == {c \in Cells : row[c].parent = n}
MetadataOf(n)  == {m \in Metadata : Exists(m) /\ row[m].parent = n}
Dependencies   == {d \in Dependency : Exists(d)}
DependencyOf(n, k) == {d \in Dependencies : row[d].parent = n /\ row[d].key = k}

\* The request whose session is open: the row it is about (None until a
\* created row has its id), the copy it has read, and the row it wants.
Idle == [at |-> "idle"]
ActiveCall == [at : {"check", "write", "flushed"}, op : {"create", "update", "upsert", "delete"},
               id : Id \cup {None}, seen : Row \cup {None}, new : Row]

TypeOK ==
  /\ row \in [Id -> Row \cup {None}]
  /\ \A i \in Id : Exists(i) => row[i] \in RowOf(i)
  /\ call \in [Session -> {Idle} \cup ActiveCall]

Init ==
  /\ row = [i \in Id |-> None]
  /\ call = [s \in Session |-> Idle]

-----------------------------------------------------------------------------
(* The services, up to their write.  A parent or a row that is not found   *)
(* is answered 404, an unsupported language or cell type 422: neither      *)
(* leaves a trace.                                                         *)

Begins(s, at, op, id, seen, new) ==
  /\ call[s] = Idle
  /\ call' = [call EXCEPT ![s] = [at |-> at, op |-> op, id |-> id, seen |-> seen, new |-> new]]
  /\ UNCHANGED row

Creates(s, parent, key) == Begins(s, "check", "create", None, None, [parent |-> parent, key |-> key])

\* A key that was not given is written as None.
Renamed_Always(i, key) == [row[i] EXCEPT !.key = key]

Renamed(i, key) == IF key = None THEN row[i] ELSE [row[i] EXCEPT !.key = key]

\* The keys of the siblings are looked at only if a key was given.
Updates(s, i, key) ==
  Begins(s, IF key = None THEN "write" ELSE "check", "update", i, row[i], Renamed(i, key))

Deletes(s, i) == Begins(s, "write", "delete", i, row[i], row[i])

CreateWorkspace(s) == \E k \in Key : Creates(s, None, k)
UpdateWorkspace(s) == \E w \in Workspaces, k \in Key \cup {None} : Updates(s, w, k)
DeleteWorkspace(s) == \E w \in Workspaces : Deletes(s, w)

CreateProject(s) == \E w \in Workspaces, k \in Key : Creates(s, w, k)
UpdateProject(s) == \E p \in Projects, k \in Key \cup {None} : Updates(s, p, k)
DeleteProject(s) == \E p \in Projects : Deletes(s, p)

CreateNotebook(s) == \E p \in Projects, k \in Key : Creates(s, p, k)
UpdateNotebook(s) == \E n \in Notebooks, k \in Key \cup {None} : Updates(s, n, k)
DeleteNotebook(s) == \E n \in Notebooks : Deletes(s, n)

CreateCell(s) == \E n \in Notebooks, k \in Key : Creates(s, n, k)
UpdateCell(s) == \E c \in Cells, k \in Key \cup {None} : Updates(s, c, k)
DeleteCell(s) == \E c \in Cells : Deletes(s, c)

UpdateMetadata(s) ==
  \E n \in Notebooks : Begins(s, "check", "upsert", None, None, [parent |-> n, key |-> None])

\* Whether there is such a notebook is left to the foreign key.
DeclareDependency(s) ==
  \E n \in Notebook, k \in Package :
    Begins(s, "check", "upsert", None, None, [parent |-> n, key |-> k])
UpdateDependency(s) == \E d \in Dependencies : Updates(s, d, None)
DeleteDependency(s) == \E d \in Dependencies : Deletes(s, d)

WorkspaceRoutes(s) == CreateWorkspace(s) \/ UpdateWorkspace(s) \/ DeleteWorkspace(s)
ProjectRoutes(s) == CreateProject(s) \/ UpdateProject(s) \/ DeleteProject(s)
NotebookRoutes(s) == CreateNotebook(s) \/ UpdateNotebook(s) \/ DeleteNotebook(s)
CellRoutes(s) == CreateCell(s) \/ UpdateCell(s) \/ DeleteCell(s)
MetadataRoutes(s) == UpdateMetadata(s)
DependencyRoutes(s) == DeclareDependency(s) \/ UpdateDependency(s) \/ DeleteDependency(s)

Siblings(parent) == CASE parent = None      -> Workspaces
                      [] parent \in Workspace -> ProjectsOf(parent)
                      [] parent \in Project -> NotebooksOf(parent)
                      [] OTHER              -> CellsOf(parent)

Taken(c) == \E j \in Siblings(c.new.parent) \ {c.id} : row[j].key = c.new.key

\* A taken key is answered 409.
Checks(s) ==
  /\ call[s].at = "check" /\ call[s].op \in {"create", "update"}
  /\ call' = [call EXCEPT ![s] = IF Taken(@) THEN Idle ELSE [@ EXCEPT !.at = "write"]]
  /\ UNCHANGED row

\* Metadata is created at the first update, a dependency at its first declaration.
UpsertChecks(s) ==
  /\ call[s].at = "check" /\ call[s].op = "upsert"
  /\ LET new == call[s].new
         found == IF new.key = None THEN MetadataOf(new.parent) ELSE DependencyOf(new.parent, new.key)
     IN call' = [call EXCEPT ![s] =
          IF found = {} THEN [@ EXCEPT !.at = "write", !.op = "create"]
          ELSE [@ EXCEPT !.at = "write", !.op = "update", !.id = CHOOSE i \in found : TRUE,
                         !.seen = new]]
  /\ UNCHANGED row

-----------------------------------------------------------------------------
(* The write: what the statement of a flush does to the committed rows,    *)
(* which constraints it breaks, and which statements in flight it must     *)
(* wait for.                                                               *)

\* The whole copy is written back.
Written_AllColumns(c) == c.new

\* Only the columns that differ from the copy are written.
Written(c) == IF c.new = c.seen THEN row[c.id] ELSE [row[c.id] EXCEPT !.key = c.new.key]

Children(ids) == {j \in Id : Exists(j) /\ row[j].parent \in ids}

\* Only the rows next to the deleted one go with it.
Cascade_Children(i) == {i} \cup Children({i})

\* ON DELETE CASCADE, from a workspace down to what a notebook has.
Cascade(i) ==
  LET one == {i} \cup Children({i})
      two == one \cup Children(one)
  IN two \cup Children(two)

NewRow(c) == IF c.op = "create" THEN c.new ELSE Written(c)

\* The unique constraints are missing.
Violates_NoUnique(c) == c.new.parent # None /\ ~Exists(c.new.parent)

\* The foreign keys are missing.
Violates_NoForeignKey(c) == \E j \in Id \ {c.id} : row[j] = NewRow(c)

\* A unique constraint or a foreign key.
Violates(c) ==
  \/ \E j \in Id \ {c.id} : row[j] = NewRow(c)
  \/ c.new.parent # None /\ ~Exists(c.new.parent)

Changed(c) == IF c.op = "delete" THEN Cascade(c.id) ELSE IF c.op = "update" THEN {c.id} ELSE {}

\* The rows whose key or existence changes, and the keys given up or taken.
KeyChanged(c) == IF c.op = "update" /\ c.new = c.seen THEN {} ELSE Changed(c)
Claims(c) == {row[i] : i \in KeyChanged(c)} \cup (IF c.op = "delete" THEN {} ELSE {NewRow(c)})

Conflict(c, d) ==
  \/ Changed(c) \cap Changed(d) # {}
  \/ Claims(c) \cap Claims(d) # {}
  \/ c.op = "create" /\ c.new.parent \in KeyChanged(d)
  \/ d.op = "create" /\ d.new.parent \in KeyChanged(c)

InFlight(s) == call[s].at = "flushed"
Waits(s, c) == \E t \in Session \ {s} : InFlight(t) /\ Conflict(c, call[t])

\* A uuid nobody has seen.
Fresh(i) ==
  ~Exists(i) /\ \A t \in Session : call[t] # Idle => call[t].id # i /\ call[t].new.parent # i

Flushes(s, c) ==
  /\ ~Waits(s, c)
  /\ call' = [call EXCEPT ![s] = [c EXCEPT !.at = "flushed"]]
  /\ UNCHANGED row

FlushesCreate(s) ==
  /\ call[s].at = "write" /\ call[s].op = "create" /\ ~Violates(call[s])
  /\ \E i \in Id : Fresh(i) /\ call[s].new \in RowOf(i) /\ Flushes(s, [call[s] EXCEPT !.id = i])

FlushesUpdate(s) ==
  /\ call[s].at = "write" /\ call[s].op = "update" /\ Exists(call[s].id) /\ ~Violates(call[s])
  /\ Flushes(s, call[s])

FlushesDelete(s) ==
  /\ call[s].at = "write" /\ call[s].op = "delete" /\ Exists(call[s].id)
  /\ Flushes(s, call[s])

\* No column differs from the copy, or the row is gone by the second SELECT
\* (404), at the flush or at the refresh (500), or the statement breaks a
\* constraint: rolled back, 409, for metadata and dependencies 500.
EndsWithoutWrite(s) ==
  /\ call[s].at = "write"
  /\ \/ call[s].op = "update" /\ call[s].new = call[s].seen
     \/ call[s].op = "create" /\ Violates(call[s])
     \/ call[s].op # "create" /\ ~Exists(call[s].id)
     \/ call[s].op = "update" /\ Exists(call[s].id) /\ Violates(call[s])
  /\ call' = [call EXCEPT ![s] = Idle]
  /\ UNCHANGED row

After(c) ==
  IF c.op = "delete" THEN [i \in Id |-> IF i \in Cascade(c.id) THEN None ELSE row[i]]
  ELSE [row EXCEPT ![c.id] = NewRow(c)]

CommitsItself(c) == c.new.key \in Package

Commits(s) ==
  /\ InFlight(s) /\ ("commit" \in Endings \/ CommitsItself(call[s]))
  /\ row' = After(call[s])
  /\ call' = [call EXCEPT ![s] = Idle]

RollsBack(s) ==
  /\ "rollback" \in Endings /\ InFlight(s) /\ ~CommitsItself(call[s])
  /\ call' = [call EXCEPT ![s] = Idle]
  /\ UNCHANGED row

Next ==
  \E s \in Session :
    \/ WorkspaceRoutes(s) \/ ProjectRoutes(s) \/ NotebookRoutes(s) \/ CellRoutes(s) \/ MetadataRoutes(s)
    \/ DependencyRoutes(s)
    \/ Checks(s) \/ UpsertChecks(s)
    \/ FlushesCreate(s) \/ FlushesUpdate(s) \/ FlushesDelete(s) \/ EndsWithoutWrite(s)
    \/ Commits(s) \/ RollsBack(s)

Spec == Init /\ [][Next]_vars

-----------------------------------------------------------------------------
(* Properties.                                                             *)

\* However the checks of two requests interleave with their writes, no two
\* committed rows of a table share parent and key: two workspaces, or two
\* projects of a workspace, a name, two cells of a notebook a position, no notebook
\* has two metadata rows or declares a package twice (services/notebook_cell.py:48).
KeysUnique == \A i, j \in Id : Exists(i) /\ i # j => row[i] # row[j]

\* However a deletion and the creation of something below it interleave, the
\* parent of every committed row is there (models/notebook_cell.py:33).
NoOrphans == \A i \in Id : Exists(i) => row[i].parent = None \/ Exists(row[i].parent)

\* A committed row gets another key only from a request that was given that
\* key: an update of other columns, whose copy is older than a rename or a
\* move, does not undo it (repositories/notebook_cell.py:59).
RenamesAreAsked ==
  [][\A i \in Id : Exists(i) /\ row'[i] # None /\ row'[i] # row[i] =>
        \E s \in Session : /\ InFlight(s) /\ call[s].op = "update" /\ call[s].id = i
                           /\ call[s].new # call[s].seen /\ call[s].new.key = row'[i].key]_vars

\* The commits of overlapping requests leave the tables as one operation after
\* another, each alone in the database, would have: a flushed statement that was
\* allowed when it was checked is still allowed when it is committed
\* (services/notebook_cell.py:38-60).
Tables == INSTANCE NotebookTables WITH Top <- None

TablesSpec == Tables!Spec

\* "Notebooks are first-class persistent entities stored in PostgreSQL"
\* (docs/IMPLEMENTATION_SUMMARY.md:179): a created row is there when the session of
\* its request has ended.
CreatedIsStored ==
  [][\A s \in Session : InFlight(s) /\ call[s].op = "create" /\ call'[s] = Idle =>
        row'[call[s].id] = call[s].new]_vars
=============================================================================
