--------------------------- MODULE ConnectorManager ---------------------------
(***************************************************************************)
(* Connectors and their credentials: the requests that create, update,     *)
(* delete and test a connector (app/connectors/manager.py and its routes), *)
(* each in a database session of its own.                                  *)
(*                                                                         *)
(* A session works on the copy of the connector that get_connector read: a *)
(* later SELECT of the same session finds out whether the row is still     *)
(* there and leaves the copy as it is, and a flush writes the columns that *)
(* differ from it.  What a session has flushed is seen by others once it   *)
(* is committed, and holds the row until then (PostgreSQL, READ            *)
(* COMMITTED).  Every route commits; whatever goes wrong, get_db rolls     *)
(* back.                                                                   *)
(*                                                                         *)
(* An id that nothing refers to any more may stand for a new one.  The     *)
(* name, whose unique constraint may make any flush fail, is left out.     *)
(***************************************************************************)
EXTENDS Naturals, FiniteSets, Sequences

CONSTANTS Session, Connector, Credential, Config,
          ValidConfig,   \* what validate_config of the driver accepts
          Secret,
          Key,           \* values of CREDENTIAL_ENCRYPTION_KEY
          Null,          \* no value: NULL, None, no row, no key
          Gone           \* a row whose deletion has been flushed

O == INSTANCE OutputManager WITH NoText <- Null

VARIABLES connectors, credentials,  \* the committed tables
          outputs,                  \* those of the execution "conn-test-<id>", by connector
          key,                      \* the encryption key of the process
          sessions,
          disputed                  \* connectors that two requests were at work on at once

vars == <<connectors, credentials, outputs, key, sessions, disputed>>

ConnectorStatus == {"CREATED", "VALIDATING", "AVAILABLE", "UNAVAILABLE", "ERROR", "DISABLED"}
Verdict == {"AVAILABLE", "UNAVAILABLE", "ERROR"}

\* Beside the columns: the secret last accepted for the connector, and what
\* its status was found out about.
ConnectorRow == [config : Config, credential : Credential \cup {Null},
                 status : ConnectorStatus, given : Secret \cup {Null},
                 tested : {Null} \cup (Config \X (Credential \cup {Null}))]

\* encrypted_payload: under which key, if any.
CredentialRow == [key : Key \cup {Null}, secret : Secret]

\* The text of a test names its verdict.
Output == [output_type : O!OutputType, content : Verdict, sequence : {1}]

Operation == {"create", "update", "delete", "test"}
Phase == {"credential", "select", "row", "resolve", "connect", "flushed"}
Arguments == [config : Config \cup {Null}, secret : Secret \cup {Null}]
NoArguments == [config |-> Null, secret |-> Null]

(* copy is the session's copy of the connector; row and cred (of the       *)
(* credential credId) what it has flushed, and events; resolved the        *)
(* credentials of the test.                                                *)
Open == [op : Operation, at : Phase, on : Connector, args : Arguments,
         copy : ConnectorRow \cup {Null}, row : ConnectorRow \cup {Null, Gone},
         credId : Credential \cup {Null}, cred : CredentialRow \cup {Null, Gone},
         events : SUBSET Output, resolved : Secret \cup {Null}]

\* Null is no value of a column, and neither Null nor Gone is a row.
ASSUME ConnectorAssumption ==
  /\ ValidConfig \subseteq Config
  /\ Null \notin Credential \cup Config \cup Secret \cup Key \cup Verdict
  /\ Null \notin ConnectorRow \cup CredentialRow \cup Open \cup {Gone}
  /\ Gone \notin ConnectorRow \cup CredentialRow

TypeOK ==
  /\ connectors \in [Connector -> ConnectorRow \cup {Null}]
  /\ credentials \in [Credential -> CredentialRow \cup {Null}]
  /\ outputs \in [Connector -> SUBSET Output]
  /\ key \in Key \cup {Null}
  /\ sessions \in [Session -> Open \cup {Null}]
  /\ disputed \subseteq Connector

Init ==
  /\ connectors = [c \in Connector |-> Null]
  /\ credentials = [k \in Credential |-> Null]
  /\ outputs = [c \in Connector |-> {}]
  /\ key \in Key \cup {Null}
  /\ sessions = [s \in Session |-> Null]
  /\ disputed = {}

-----------------------------------------------------------------------------
(* Encryption.                                                             *)

Encrypted(secret) == [key |-> key, secret |-> secret]

Decrypted(row) == IF row.key \in {Null, key} THEN row.secret ELSE Null

-----------------------------------------------------------------------------
(* The database.                                                           *)

IsOpen(s) == sessions[s] # Null
At(s, op, phase) == IsOpen(s) /\ sessions[s].op = op /\ sessions[s].at = phase
Others(s) == {t \in Session \ {s} : IsOpen(t)}

\* Rows that s would have to wait for.
Held(s, c) == \E t \in Others(s) : sessions[t].on = c /\ sessions[t].row # Null
HeldCredential(s, k) == \E t \in Others(s) : sessions[t].credId = k /\ sessions[t].cred # Null

\* uuid4: an id that nothing knows.
FreshConnector(c) == connectors[c] = Null /\ \A s \in Session : IsOpen(s) => sessions[s].on # c
FreshCredential(k) ==
  /\ credentials[k] = Null
  /\ \A c \in Connector : connectors[c] # Null => connectors[c].credential # k
  /\ \A s \in Session : IsOpen(s) =>
       /\ sessions[s].credId # k
       /\ \A row \in {sessions[s].copy, sessions[s].row} \ {Null, Gone} : row.credential # k

Tables == <<connectors, credentials, outputs, key, disputed>>

Goes(s, phase) == sessions' = [sessions EXCEPT ![s].at = phase]

\* Nothing is left but to commit: the copy is not looked at again.
Flushed(q, row) ==
  [q EXCEPT !.row = row, !.at = "flushed", !.copy = Null, !.args = NoArguments]

Flushes(s, row) == sessions' = [sessions EXCEPT ![s] = Flushed(@, row)]

-----------------------------------------------------------------------------
(* Beginning.                                                              *)

NewSession(op, c, args) ==
  [op |-> op, at |-> IF op = "test" THEN "select" ELSE "credential", on |-> c, args |-> args,
   copy |-> connectors[c], row |-> Null, credId |-> Null, cred |-> Null, events |-> {},
   resolved |-> Null]

\* An invalid configuration is refused before the database is asked.
CreateConnector(s) ==
  /\ ~IsOpen(s)
  /\ \E c \in Connector, config \in ValidConfig, secret \in Secret \cup {Null} :
       /\ FreshConnector(c)
       /\ sessions' = [sessions EXCEPT ![s] =
            NewSession("create", c, [config |-> config, secret |-> secret])]
       /\ disputed' = disputed \ {c}
       /\ outputs' = [outputs EXCEPT ![c] = {}]
  /\ UNCHANGED <<connectors, credentials, key>>

\* get_connector; an unknown id changes nothing.
Finds(s, op, args) ==
  /\ ~IsOpen(s)
  /\ \E c \in Connector :
       /\ connectors[c] # Null
       /\ sessions' = [sessions EXCEPT ![s] = NewSession(op, c, args)]
       /\ disputed' = disputed \cup {d \in {c} : \E t \in Others(s) : sessions[t].on = d}
  /\ UNCHANGED <<connectors, credentials, outputs, key>>

UpdateConnector(s) == \E args \in Arguments : Finds(s, "update", args)
DeleteConnector(s) == Finds(s, "delete", NoArguments)
TestConnector(s) == Finds(s, "test", NoArguments)

-----------------------------------------------------------------------------
(* Creating and updating.                                                  *)

AfterCredential(s) == IF sessions[s].op = "update" THEN "select" ELSE "row"

StoresNoSecret(s) ==
  /\ At(s, "create", "credential") \/ At(s, "update", "credential")
  /\ sessions[s].args.secret = Null
  /\ Goes(s, AfterCredential(s))
  /\ UNCHANGED Tables

\* A connector that has a credential gets a second one of the same id, which
\* the unique constraint refuses while the first is there.
StoresSecret(s) ==
  /\ At(s, "create", "credential") \/ At(s, "update", "credential")
  /\ sessions[s].args.secret # Null
  /\ \E k \in Credential :
       /\ IF sessions[s].copy # Null /\ sessions[s].copy.credential # Null
          THEN k = sessions[s].copy.credential /\ credentials[k] = Null /\ ~HeldCredential(s, k)
          ELSE FreshCredential(k)
       /\ sessions' = [sessions EXCEPT ![s].credId = k,
                                       ![s].cred = Encrypted(sessions[s].args.secret),
                                       ![s].at = AfterCredential(s)]
  /\ UNCHANGED Tables

InsertsConnector(s) ==
  /\ At(s, "create", "row")
  /\ LET q == sessions[s]
     IN Flushes(s, [config |-> q.args.config, status |-> "CREATED", credential |-> q.credId,
                    given |-> q.args.secret, tested |-> Null])
  /\ UNCHANGED Tables

\* The SELECT of update(); update_status() goes through it too.
FindsRow(s) ==
  /\ At(s, "update", "select") \/ At(s, "test", "select")
  /\ connectors[sessions[s].on] # Null
  /\ Goes(s, "row")
  /\ UNCHANGED Tables

\* The connector has been deleted: the update is committed without it, the
\* test goes on with the copy.
MissesRow(s) ==
  /\ At(s, "update", "select") \/ At(s, "test", "select")
  /\ connectors[sessions[s].on] = Null
  /\ IF sessions[s].op = "update" THEN Flushes(s, Null) ELSE Goes(s, "resolve")
  /\ UNCHANGED Tables

\* What the request does not name is set to None.
Assigned_Unset(s) ==
  LET q == sessions[s]
  IN [config |-> q.args.config,
      credential |-> IF q.credId = Null THEN q.copy.credential ELSE q.credId,
      status |-> "CREATED"]

\* An update leaves the status alone.
Assigned_KeepsStatus(s) ==
  LET q == sessions[s]
  IN [config |-> IF q.args.config = Null THEN q.copy.config ELSE q.args.config,
      credential |-> IF q.credId = Null THEN q.copy.credential ELSE q.credId,
      status |-> q.copy.status]

\* The new credential is not written down.
Assigned_OldCredential(s) ==
  LET q == sessions[s]
  IN [config |-> IF q.args.config = Null THEN q.copy.config ELSE q.args.config,
      credential |-> q.copy.credential,
      status |-> "CREATED"]

\* The attributes of the copy after the assignments of update().
Assigned(s) ==
  LET q == sessions[s]
  IN [config |-> IF q.args.config = Null THEN q.copy.config ELSE q.args.config,
      credential |-> IF q.credId = Null THEN q.copy.credential ELSE q.credId,
      status |-> "CREATED"]

ChangedColumns(s) == {x \in {"config", "credential", "status"} : Assigned(s)[x] # sessions[s].copy[x]}

\* If the row has gone in the meantime, the UPDATE matches nothing and the
\* flush raises.
FlushesUpdate(s) ==
  /\ At(s, "update", "row")
  /\ LET c == sessions[s].on
         stored == connectors[c]
         changed == ChangedColumns(s)
     IN IF changed = {} THEN Flushes(s, Null)
        ELSE /\ stored # Null /\ ~Held(s, c)
             /\ Flushes(s, [x \in DOMAIN stored |->
                  CASE x \in changed -> Assigned(s)[x]
                    [] x = "tested" /\ "status" \in changed -> Null
                    [] x = "given" /\ sessions[s].cred # Null -> sessions[s].args.secret
                    [] OTHER -> stored[x]])
  /\ UNCHANGED Tables

-----------------------------------------------------------------------------
(* Deleting.                                                               *)

\* The connector is deleted, its credential forgotten.
DeletesCredential_Forgotten(s) ==
  /\ At(s, "delete", "credential")
  /\ Goes(s, "row")
  /\ UNCHANGED Tables

\* A credential that somebody else has deleted is no error.
DeletesCredential(s) ==
  /\ At(s, "delete", "credential")
  /\ LET k == sessions[s].copy.credential
     IN IF k = Null \/ (k # Null /\ credentials[k] = Null) THEN Goes(s, "row")
        ELSE /\ ~HeldCredential(s, k)
             /\ sessions' = [sessions EXCEPT ![s].credId = k, ![s].cred = Gone, ![s].at = "row"]
  /\ UNCHANGED Tables

\* Nor is a connector.
DeletesConnector(s) ==
  /\ At(s, "delete", "row")
  /\ LET c == sessions[s].on
     IN IF connectors[c] = Null THEN Flushes(s, Null) ELSE ~Held(s, c) /\ Flushes(s, Gone)
  /\ UNCHANGED Tables

-----------------------------------------------------------------------------
(* Testing.                                                                *)

\* The copy is not refreshed after the flush.
Validates_NoRefresh(s) ==
  /\ At(s, "test", "row")
  /\ LET c == sessions[s].on
     IN /\ connectors[c] # Null /\ ~Held(s, c)
        /\ sessions' = [sessions EXCEPT ![s].row = [connectors[c] EXCEPT !.status = "VALIDATING", !.tested = Null],
                                        ![s].at = "resolve"]
  /\ UNCHANGED Tables

\* The transaction is committed before the target is asked.
Validates_Committed(s) ==
  /\ At(s, "test", "row")
  /\ LET c == sessions[s].on
         row == [connectors[c] EXCEPT !.status = "VALIDATING", !.tested = Null]
     IN /\ connectors[c] # Null /\ ~Held(s, c)
        /\ connectors' = [connectors EXCEPT ![c] = row]
        /\ sessions' = [sessions EXCEPT ![s].row = row, ![s].copy = row, ![s].at = "resolve"]
  /\ UNCHANGED <<credentials, outputs, key, disputed>>

\* The flush waits for whoever holds the connector, the refresh reads what
\* they have left, and the connector is held during the whole test.
Validates(s) ==
  /\ At(s, "test", "row")
  /\ LET c == sessions[s].on
         row == [connectors[c] EXCEPT !.status = "VALIDATING", !.tested = Null]
     IN /\ connectors[c] # Null /\ ~Held(s, c)
        /\ sessions' = [sessions EXCEPT ![s].row = row, ![s].copy = row, ![s].at = "resolve"]
  /\ UNCHANGED Tables

ResolvesCredential(s) ==
  /\ At(s, "test", "resolve")
  /\ LET k == sessions[s].copy.credential
     IN sessions' = [sessions EXCEPT ![s].at = "connect",
          ![s].resolved = IF k = Null THEN Null
                          ELSE IF credentials[k] = Null THEN Null ELSE Decrypted(credentials[k])]
  /\ UNCHANGED Tables

\* The factory validates the configuration, which an update did not.  Anything
\* may raise; no driver answers FALSE, so that UNAVAILABLE is never found.
Outcomes(config) == IF config \in ValidConfig THEN {"AVAILABLE", "ERROR"} ELSE {"ERROR"}

\* The error is found out about, and not reported.
TestEvents_Unreported(verdict) ==
  IF verdict = "ERROR" THEN {} ELSE O!CreateOutputEvents(verdict, Null, Null, "ok")

TestEvents(verdict) ==
  IF verdict = "ERROR" THEN O!CreateOutputEvents(Null, verdict, Null, "failed")
                       ELSE O!CreateOutputEvents(verdict, Null, Null, "ok")

Connects(s) ==
  /\ At(s, "test", "connect")
  /\ \E verdict \in Outcomes(sessions[s].copy.config) :
       LET copy == sessions[s].copy
           row == IF sessions[s].row = Null THEN Null
                  ELSE [sessions[s].row EXCEPT
                          !.status = verdict, !.tested = <<copy.config, copy.credential>>]
       IN sessions' = [sessions EXCEPT ![s] =
            [Flushed(@, row) EXCEPT !.events = O!BulkCreate({}, TestEvents(verdict))]]
  /\ UNCHANGED Tables

-----------------------------------------------------------------------------
(* Ending.                                                                 *)

\* The routes commit; the one of the test, ERROR too.
Commits(s) ==
  /\ IsOpen(s) /\ sessions[s].at = "flushed"
  /\ LET q == sessions[s]
     IN /\ connectors' = IF q.row = Null THEN connectors
                         ELSE [connectors EXCEPT ![q.on] = IF q.row = Gone THEN Null ELSE q.row]
        /\ credentials' = IF q.cred = Null THEN credentials
                          ELSE [credentials EXCEPT ![q.credId] = IF q.cred = Gone THEN Null ELSE q.cred]
        /\ outputs' = [outputs EXCEPT ![q.on] = @ \cup q.events]
  /\ sessions' = [sessions EXCEPT ![s] = Null]
  /\ UNCHANGED <<key, disputed>>

\* A broken constraint, an error of the database, or a request given up.
RollsBack(s) ==
  /\ IsOpen(s)
  /\ sessions' = [sessions EXCEPT ![s] = Null]
  /\ UNCHANGED Tables

\* The process starts again, with whatever key is configured by then.
Restart ==
  /\ key' \in Key \cup {Null}
  /\ sessions' = [s \in Session |-> Null]
  /\ UNCHANGED <<connectors, credentials, outputs, disputed>>

Begins(s) == CreateConnector(s) \/ UpdateConnector(s) \/ DeleteConnector(s) \/ TestConnector(s)
Stores(s) == StoresNoSecret(s) \/ StoresSecret(s) \/ InsertsConnector(s) \/ FlushesUpdate(s)
Deletes(s) == DeletesCredential(s) \/ DeletesConnector(s)
Tests(s) == FindsRow(s) \/ MissesRow(s) \/ Validates(s) \/ ResolvesCredential(s) \/ Connects(s)

Next == \/ \E s \in Session : Begins(s) \/ Stores(s) \/ Deletes(s) \/ Tests(s) \/ Commits(s) \/ RollsBack(s)
        \/ Restart

Spec == Init /\ [][Next]_vars

-----------------------------------------------------------------------------
(* Properties.                                                             *)

\* What is stored is settled: no other request sees a connector VALIDATING,
\* and the credential it refers to is there, although credential and connector
\* are deleted one after the other and a test may fail half way
\* (connectors/manager.py:119, 131).
StoredIsSettled ==
  \A c \in Connector : connectors[c] # Null =>
    /\ connectors[c].status # "VALIDATING"
    /\ connectors[c].credential # Null => credentials[connectors[c].credential] # Null

\* A verdict, when it is stored, is about the configuration and the credential
\* that are stored with it, whatever updates have overtaken the test
\* (connectors/manager.py:131).
VerdictIsOfStored ==
  [][\A s \in Session : Commits(s) /\ sessions[s].op = "test" /\ sessions[s].row # Null =>
       LET row == connectors'[sessions[s].on] IN row.tested = <<row.config, row.credential>>]_vars

\* It stays so, as long as no two requests are at work on the connector at
\* once: an update takes the verdict back (connectors/manager.py:115).
UndisputedVerdictHolds ==
  \A c \in Connector \ disputed : connectors[c] # Null /\ connectors[c].status \in Verdict =>
    connectors[c].tested = <<connectors[c].config, connectors[c].credential>>

Orphans == {k \in Credential : credentials[k] # Null
              /\ \A c \in Connector : connectors[c] # Null => connectors[c].credential # k}

\* No secret is left in the database without a connector, save by requests at
\* work on one connector at once (connectors/manager.py:97-108, 122).
UndisputedLeavesNoSecret ==
  [][\A s \in Session : Commits(s) /\ sessions[s].on \notin disputed => Orphans' \subseteq Orphans]_vars

\* A connector has no verdict that its outputs do not report, however many
\* tests fail, are given up or overtake each other (connectors/manager.py:153-180).
VerdictIsReported ==
  \A c \in Connector : connectors[c] # Null /\ connectors[c].status \in Verdict =>
    \E e \in outputs[c] : e.content = connectors[c].status

\* A test uses the secret last accepted for the connector, or none if it was
\* stored under another key (credentials/manager.py:29, encryption.py:65).
TestUsesGivenSecret ==
  [][\A s \in Session : Commits(s) /\ sessions[s].op = "test" /\ sessions[s].row # Null =>
       \/ sessions[s].resolved = sessions[s].row.given
       \/ /\ sessions[s].resolved = Null /\ sessions[s].row.credential # Null
          /\ credentials[sessions[s].row.credential].key \notin {Null, key}]_vars
=============================================================================
