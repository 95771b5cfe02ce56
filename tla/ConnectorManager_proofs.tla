------------------------ MODULE ConnectorManager_proofs ------------------------
(***************************************************************************)
(* Theorems about ConnectorManager, for any connectors, credentials,       *)
(* configurations and secrets, and any number of sessions: types, what is  *)
(* settled about a stored connector, what its verdict is about and where   *)
(* it is reported, which secret a test uses and which ones may be left.    *)
(***************************************************************************)
EXTENDS ConnectorManager, FiniteSetTheorems, TLAPS

-----------------------------------------------------------------------------
(* The events of a test.                                                   *)

\* A test makes one event, the first, and it names the verdict.
LEMMA OneEvent ==
  ASSUME NEW verdict \in Verdict
  PROVE  /\ O!BulkCreate({}, TestEvents(verdict)) \subseteq Output
         /\ \E e \in O!BulkCreate({}, TestEvents(verdict)) : e.content = verdict
<1>1. verdict # Null
  BY ConnectorAssumption
<1>2. ASSUME NEW out, NEW err, NEW status, NEW i \in {1, 2},
             out = (IF i = 1 THEN verdict ELSE Null), err = (IF i = 2 THEN verdict ELSE Null),
             status = (IF i = 1 THEN "ok" ELSE "failed")
      PROVE  O!CreateOutputEvents(out, err, Null, status) =
               {[output_type |-> IF i = 1 THEN "STDOUT" ELSE "STDERR", content |-> verdict, sequence |-> 1]}
  <2> DEFINE streams == O!Streams(out, err, Null, status)
             printed == {j \in DOMAIN streams : streams[j].content # Null}
  <2>1. /\ DOMAIN streams = 1..4
        /\ streams[1] = [output_type |-> "STDOUT", content |-> out]
        /\ streams[2] = [output_type |-> "STDERR", content |-> err]
        /\ streams[3] = [output_type |-> "TRACEBACK", content |-> Null]
        /\ streams[4].content = Null
    BY <1>1, <1>2 DEF O!Streams
  <2>2. printed = {i}
    BY <1>1, <1>2, <2>1
  <2>3. streams[i] = [output_type |-> IF i = 1 THEN "STDOUT" ELSE "STDERR", content |-> verdict]
    BY <1>2, <2>1
  <2>4. O!CreateOutputEvents(out, err, Null, status) =
          {[output_type |-> streams[k].output_type, content |-> streams[k].content,
            sequence |-> O!Cardinality({j \in printed : j <= k})] : k \in printed}
    BY DEF O!CreateOutputEvents
  <2> HIDE DEF printed, streams
  <2>5. {j \in printed : j <= i} = {i}
    BY <1>2, <2>2
  <2>6. O!Cardinality({i}) = 1
    <3>1. O!Cardinality({i}) = Cardinality({i})
      BY DEF O!Cardinality, Cardinality
    <3> QED
      BY <3>1, FS_Singleton
  <2> QED
    BY <2>2, <2>3, <2>4, <2>5, <2>6
<1>3. TestEvents(verdict) =
        {[output_type |-> IF verdict = "ERROR" THEN "STDERR" ELSE "STDOUT", content |-> verdict, sequence |-> 1]}
  BY <1>2 DEF TestEvents
<1> QED
  BY <1>3 DEF O!BulkCreate, Output, O!OutputType

-----------------------------------------------------------------------------
(* The invariant: what each session knows, what it may count on in the     *)
(* tables, and what keeps two sessions apart.                              *)

IsRow(r) == r \notin {Null, Gone}

\* The credentials that a session knows of.
Refs(q) == ({q.credId} \cup {r.credential : r \in {x \in {q.copy, q.row} : IsRow(x)}}) \ {Null}

\* What the phases of each operation leave in the session.
Fits(q) ==
  /\ q.op = "create" => q.at \in {"credential", "row", "flushed"} /\ q.copy = Null
  /\ q.op = "create" /\ q.at # "flushed" => q.args.config \in Config
  /\ q.op = "create" /\ q.at = "flushed" => IsRow(q.row) /\ q.row.credential = q.credId
  /\ q.op = "update" => q.at \in {"credential", "select", "row", "flushed"}
  /\ q.op \in {"create", "update"} => q.cred # Gone /\ q.row # Gone
  /\ q.op \in {"create", "update"} /\ q.at \in {"select", "row"} =>
       IF q.args.secret = Null THEN q.cred = Null ELSE q.cred # Null /\ q.cred.secret = q.args.secret
  /\ q.op = "delete" => /\ q.at \in {"credential", "row", "flushed"}
                        /\ q.cred \in {Null, Gone} /\ q.row \in {Null, Gone}
  /\ q.op = "test" => q.at \in {"select", "row", "resolve", "connect", "flushed"} /\ q.cred = Null /\ q.row # Gone
  /\ q.op = "test" /\ q.row # Null /\ q.at # "flushed" => q.copy = q.row
  /\ q.op = "test" /\ q.row # Null /\ q.at = "flushed" =>
       q.row.tested = <<q.row.config, q.row.credential>>
  /\ q.op # "create" /\ q.at # "flushed" => q.copy # Null
  /\ q.at # "flushed" => q.row = Null \/ (q.op = "test" /\ q.at \in {"resolve", "connect"})
  /\ q.at = "credential" => q.cred = Null
  /\ q.credId = Null <=> q.cred = Null
  /\ q.at = "flushed" /\ IsRow(q.row) => q.row.status # "VALIDATING"

\* The credential of a row is stored, with the secret given for the connector.
SecretKept(row) ==
  IF row.credential = Null THEN row.given = Null
  ELSE credentials[row.credential] # Null /\ credentials[row.credential].secret = row.given

\* What a session may count on in the tables until it ends, whoever commits
\* in the meantime.
Sound(q) ==
  LET stored == connectors[q.on]
  IN /\ q.op = "create" => stored = Null
     /\ IsRow(q.row) /\ q.op # "create" => stored # Null
     /\ q.op = "delete" /\ q.at = "flushed" => q.row = Gone \/ stored = Null
     /\ q.op = "test" /\ q.row # Null => q.row.credential = stored.credential
     /\ q.cred \notin {Null, Gone} => credentials[q.credId] = Null
     /\ q.cred = Gone => credentials[q.credId] # Null
     /\ q.copy # Null /\ q.copy.credential # Null /\ stored # Null => credentials[q.copy.credential] # Null
     /\ q.op = "update" /\ q.at # "flushed" /\ q.cred # Null /\ q.copy.credential # Null => stored = Null
     /\ IsRow(q.row) => IF q.cred = Null THEN SecretKept(q.row)
                        ELSE q.row.credential = q.credId /\ q.row.given = q.cred.secret
     /\ q.at = "flushed" /\ IsRow(q.row) /\ q.row.status \in Verdict =>
          \E e \in outputs[q.on] \cup q.events : e.content = q.row.status
     /\ q.op = "test" /\ q.row # Null /\ q.at \in {"connect", "flushed"} =>
          \/ q.resolved = q.row.given
          \/ /\ q.resolved = Null /\ q.row.credential # Null
             /\ credentials[q.row.credential].key \notin {Null, key}

\* The credentials it knows of are not those of another connector.
Owns(q) == \A d \in Connector \ {q.on} : connectors[d] # Null => connectors[d].credential \notin Refs(q)

\* What it may count on if nobody else has been at work on its connector: its copy
\* is the stored row, and when it is done it leaves no credential without a row.
Alone(q) ==
  LET stored == connectors[q.on]
  IN /\ q.op # "create" /\ q.at # "flushed" /\ q.row = Null => q.copy = stored
     /\ q.op = "delete" /\ q.at \in {"row", "flushed"} =>
          /\ stored # Null
          /\ stored.credential # Null => q.cred = Gone /\ q.credId = stored.credential
     /\ q.op = "delete" /\ q.at = "flushed" => q.row = Gone
     /\ q.op = "update" /\ q.at = "flushed" /\ q.cred # Null => IsRow(q.row)
     /\ q.op = "update" /\ IsRow(q.row) /\ stored.credential # Null =>
          q.row.credential = stored.credential
     /\ IsRow(q.row) /\ q.row.status \in Verdict => q.row.tested = <<q.row.config, q.row.credential>>

\* Two sessions do not write the same row, a connector that is being created is
\* known to one session, and a credential to the sessions of one connector.
Apart(q, r) ==
  /\ q.op = "create" \/ r.op = "create" => q.on # r.on
  /\ q.row # Null /\ r.row # Null => q.on # r.on
  /\ q.cred # Null /\ r.cred # Null => q.credId # r.credId
  /\ q.on # r.on => Refs(q) \cap Refs(r) = {}

StoredSound(c) ==
  connectors[c] # Null =>
    /\ connectors[c].status # "VALIDATING"
    /\ SecretKept(connectors[c])
    /\ connectors[c].status \in Verdict => \E e \in outputs[c] : e.content = connectors[c].status
    /\ connectors[c].status \in Verdict /\ c \notin disputed =>
         connectors[c].tested = <<connectors[c].config, connectors[c].credential>>
    /\ \A d \in Connector \ {c} : connectors[d] # Null /\ connectors[d].credential # Null =>
         connectors[d].credential # connectors[c].credential

AllFit == \A s \in Session : IsOpen(s) => Fits(sessions[s])
AllSound == \A s \in Session : IsOpen(s) => Sound(sessions[s]) /\ Owns(sessions[s])
AllAlone == \A s \in Session : IsOpen(s) /\ sessions[s].on \notin disputed => Alone(sessions[s])
AllApart ==
  \A s, t \in Session : s # t /\ IsOpen(s) /\ IsOpen(t) =>
    /\ Apart(sessions[s], sessions[t])
    /\ sessions[s].on = sessions[t].on => sessions[s].on \in disputed
AllStoredSound == \A c \in Connector : StoredSound(c)

IInv == TypeOK /\ AllFit /\ AllSound /\ AllAlone /\ AllApart /\ AllStoredSound

-----------------------------------------------------------------------------
(* A step of one session.                                                  *)

\* An open session is one of the record.
LEMMA OpenSession ==
  ASSUME TypeOK, NEW s \in Session, IsOpen(s)
  PROVE  /\ sessions[s] \in Open /\ sessions[s].on \in Connector
         /\ sessions[s].copy \in ConnectorRow \cup {Null} /\ sessions[s].row \in ConnectorRow \cup {Null, Gone}
BY DEF TypeOK, IsOpen, Open

\* A stored connector is a row.
LEMMA StoredRow ==
  ASSUME TypeOK, NEW c \in Connector, connectors[c] # Null
  PROVE  connectors[c] \in ConnectorRow /\ IsRow(connectors[c])
BY ConnectorAssumption DEF TypeOK, IsRow

\* A step of session s that leaves connectors, credentials and key alone, and what
\* concerns any other session or stored connector too, keeps the invariant if it
\* leaves a good session, or none.
LEMMA SessionStep ==
  ASSUME IInv, NEW s \in Session, NEW q \in Open \cup {Null}, sessions' = [sessions EXCEPT ![s] = q],
         UNCHANGED <<connectors, credentials, key>>, (outputs \in [Connector -> SUBSET Output])',
         disputed' \subseteq Connector,
         \A c \in Connector : FreshConnector(c) \/ (outputs'[c] = outputs[c] /\ (c \in disputed => c \in disputed')),
         q # Null =>
           /\ Fits(q) /\ Sound(q)' /\ Owns(q) /\ (q.on \notin disputed' => Alone(q))
           /\ \A t \in Session \ {s} : IsOpen(t) => /\ Apart(q, sessions[t])
                                                    /\ q.on = sessions[t].on => q.on \in disputed'
  PROVE  IInv'
<1>1. \A t \in Session : sessions'[t] = IF t = s THEN q ELSE sessions[t]
  BY DEF IInv, TypeOK
<1>2. TypeOK'
  BY DEF IInv, TypeOK
<1>3. AllFit'
  BY <1>1 DEF IInv, AllFit, IsOpen, Fits, IsRow
<1>4. \A t \in Session \ {s} : IsOpen(t) => /\ outputs'[sessions[t].on] = outputs[sessions[t].on]
                                            /\ sessions[t].on \in disputed => sessions[t].on \in disputed'
  BY OpenSession DEF IInv, FreshConnector
<1>5. ASSUME NEW t \in Session, IsOpen(t)', NEW r, r = sessions'[t]
      PROVE  Sound(r)' /\ Owns(r)' /\ (r.on \notin disputed' => Alone(r)')
  <2>1. CASE t = s
    <3>1. r = q /\ q # Null
      BY <1>1, <1>5, <2>1 DEF IsOpen
    <3> QED
      BY <3>1 DEF Alone, Owns
  <2>2. CASE t # s
    <3>1. r = sessions[t] /\ IsOpen(t)
      BY <1>1, <1>5, <2>2 DEF IsOpen
    <3>2. Sound(r) /\ Owns(r) /\ (r.on \notin disputed => Alone(r))
      BY <3>1 DEF IInv, AllSound, AllAlone
    <3>3. Sound(r)'
      BY <1>4, <2>2, <3>1, <3>2 DEF Sound, SecretKept
    <3> QED
      BY <1>4, <2>2, <3>1, <3>2, <3>3 DEF Alone, Owns
  <2> QED
    BY <2>1, <2>2
<1>6. AllSound' /\ AllAlone'
  <2>1. ASSUME NEW t \in Session, IsOpen(t)'
        PROVE  Sound(sessions[t])' /\ Owns(sessions[t])'
    <3>1. PICK r : r = sessions'[t]
      OBVIOUS
    <3>2. Sound(r)' /\ Owns(r)'
      BY <1>5, <2>1, <3>1
    <3>3. Sound(sessions[t])'
      BY <3>1, <3>2 DEF Sound, SecretKept
    <3> QED
      BY <3>1, <3>2, <3>3 DEF Owns, Refs, IsRow
  <2>2. ASSUME NEW t \in Session, IsOpen(t)', (sessions[t].on \notin disputed)'
        PROVE  Alone(sessions[t])'
    <3>1. PICK r : r = sessions'[t]
      OBVIOUS
    <3>2. Alone(r)'
      BY <1>5, <2>2, <3>1
    <3> QED
      BY <3>1, <3>2 DEF Alone
  <2> QED
    BY <2>1, <2>2 DEF AllSound, AllAlone
<1>7. AllApart'
  <2> SUFFICES ASSUME NEW t \in Session, NEW u \in Session, t # u, IsOpen(t)', IsOpen(u)'
               PROVE  (/\ Apart(sessions[t], sessions[u])
                       /\ sessions[t].on = sessions[u].on => sessions[t].on \in disputed)'
    BY DEF AllApart
  <2>1. CASE t # s /\ u # s
    <3>1. /\ Apart(sessions[t], sessions[u]) /\ sessions'[t] = sessions[t] /\ sessions'[u] = sessions[u]
          /\ sessions[t].on = sessions[u].on => sessions[t].on \in disputed
      BY <1>1, <2>1 DEF IInv, AllApart, IsOpen
    <3> QED
      BY <1>1, <1>4, <2>1, <3>1 DEF Apart, IsOpen, Refs, IsRow
  <2>2. CASE t = s
    <3>1. /\ Apart(q, sessions[u]) /\ sessions'[t] = q /\ sessions'[u] = sessions[u]
          /\ q.on = sessions[u].on => q.on \in disputed'
      BY <1>1, <2>2 DEF IsOpen
    <3> QED
      BY <3>1 DEF Apart, Refs, IsRow
  <2>3. CASE u = s
    <3>1. /\ Apart(q, sessions[t]) /\ sessions'[u] = q /\ sessions'[t] = sessions[t]
          /\ q.on = sessions[t].on => q.on \in disputed'
      BY <1>1, <2>3 DEF IsOpen
    <3> QED
      BY <3>1 DEF Apart, Refs, IsRow
  <2> QED
    BY <2>1, <2>2, <2>3
<1>8. AllStoredSound'
  BY DEF IInv, AllStoredSound, StoredSound, SecretKept, FreshConnector
<1> QED
  BY <1>2, <1>3, <1>6, <1>7, <1>8 DEF IInv

\* What a session gets to know keeps it apart from the others: the credential of
\* the stored connector, or a fresh one.
LEMMA StaysApart ==
  ASSUME IInv, NEW s \in Session, IsOpen(s), NEW q, q.on = sessions[s].on, q.op = sessions[s].op,
         q.row # Null => q.op = "create" \/ sessions[s].row # Null \/ ~Held(s, q.on),
         q.cred # Null => \/ sessions[s].cred # Null /\ q.credId = sessions[s].credId
                          \/ ~HeldCredential(s, q.credId),
         \A k \in Refs(q) :
           \/ k \in Refs(sessions[s]) \/ FreshCredential(k)
           \/ connectors[q.on] # Null /\ k = connectors[q.on].credential
  PROVE  /\ Owns(q)
         /\ \A t \in Session \ {s} : IsOpen(t) => Apart(q, sessions[t])
<1>1. q.on \in Connector
  BY OpenSession DEF IInv
<1>2. Null \notin Refs(q)
  BY DEF Refs
<1>3. Owns(q)
  <2> SUFFICES ASSUME NEW d \in Connector \ {q.on}, connectors[d] # Null, connectors[d].credential \in Refs(q)
               PROVE  FALSE
    BY DEF Owns
  <2>1. connectors[d].credential \notin Refs(sessions[s])
    BY DEF IInv, AllSound, Owns
  <2>2. ~FreshCredential(connectors[d].credential)
    BY DEF FreshCredential
  <2> QED
    BY <1>1, <1>2, <2>1, <2>2 DEF IInv, AllStoredSound, StoredSound
<1>4. ASSUME NEW t \in Session \ {s}, IsOpen(t)
      PROVE  Apart(q, sessions[t])
  <2>1. Apart(sessions[s], sessions[t]) /\ Owns(sessions[t])
    BY <1>4 DEF IInv, AllApart, AllSound
  <2>2. q.row # Null /\ sessions[t].row # Null => q.on # sessions[t].on
    BY <1>4, <2>1 DEF Held, Others, Apart
  <2>3. q.cred # Null /\ sessions[t].cred # Null => q.credId # sessions[t].credId
    BY <1>4, <2>1 DEF HeldCredential, Others, Apart
  <2>4. ASSUME q.on # sessions[t].on, NEW k \in Refs(q), k \in Refs(sessions[t])
        PROVE  FALSE
    <3>1. k \notin Refs(sessions[s])
      BY <2>1, <2>4 DEF Apart
    <3>2. ~FreshCredential(k)
      BY <1>4, <2>4 DEF FreshCredential, Refs, IsRow
    <3>3. ~(connectors[q.on] # Null /\ k = connectors[q.on].credential)
      BY <1>1, <2>1, <2>4 DEF Owns
    <3> QED
      BY <2>4, <3>1, <3>2, <3>3
  <2> QED
    BY <2>1, <2>2, <2>3, <2>4 DEF Apart
<1> QED
  BY <1>3, <1>4

\* Such a step of a session, when it changes no table, keeps the invariant.
LEMMA SessionMoves ==
  ASSUME IInv, NEW s \in Session, IsOpen(s), NEW q \in Open, sessions' = [sessions EXCEPT ![s] = q],
         UNCHANGED Tables, q.on = sessions[s].on, q.op = sessions[s].op,
         Fits(q), Sound(q), q.on \notin disputed => Alone(q),
         q.row # Null => q.op = "create" \/ sessions[s].row # Null \/ ~Held(s, q.on),
         q.cred # Null => \/ sessions[s].cred # Null /\ q.credId = sessions[s].credId
                          \/ ~HeldCredential(s, q.credId),
         \A k \in Refs(q) :
           \/ k \in Refs(sessions[s]) \/ FreshCredential(k)
           \/ connectors[q.on] # Null /\ k = connectors[q.on].credential
  PROVE  IInv'
<1>1. Owns(q) /\ \A t \in Session \ {s} : IsOpen(t) => Apart(q, sessions[t])
  BY StaysApart
<1>2. Sound(q)'
  BY DEF Sound, SecretKept, Tables
<1>3. (outputs \in [Connector -> SUBSET Output])' /\ disputed' \subseteq Connector
  BY DEF IInv, TypeOK, Tables
<1>4. \A t \in Session \ {s} : IsOpen(t) /\ q.on = sessions[t].on => q.on \in disputed'
  BY DEF IInv, AllApart, Tables
<1> QED
  BY <1>1, <1>2, <1>3, <1>4, SessionStep DEF Tables

\* What is known of an open session.
LEMMA Known ==
  ASSUME IInv, NEW s \in Session, IsOpen(s)
  PROVE  /\ sessions[s] \in Open /\ sessions[s].on \in Connector
         /\ Fits(sessions[s]) /\ Sound(sessions[s]) /\ Owns(sessions[s])
         /\ sessions[s].on \notin disputed => Alone(sessions[s])
BY OpenSession DEF IInv, AllFit, AllSound, AllAlone

\* A session that only goes on to another phase, and for which what it knows is as
\* good there, keeps the invariant.
LEMMA GoesKeeps ==
  ASSUME IInv, NEW s \in Session, IsOpen(s), sessions[s].at # "flushed", NEW phase \in Phase \ {"flushed"},
         Goes(s, phase), UNCHANGED Tables,
         sessions[s].row = Null,
         Fits([sessions[s] EXCEPT !.at = phase]),
         sessions[s].op = "delete" /\ sessions[s].on \notin disputed =>
           LET k == sessions[s].copy.credential IN k # Null => sessions[s].cred = Gone /\ sessions[s].credId = k
  PROVE  IInv'
<1>1. PICK p : p = sessions[s]
  OBVIOUS
<1>2. PICK q : q = [p EXCEPT !.at = phase]
  OBVIOUS
<1>3. /\ p \in Open /\ p.on \in Connector /\ Fits(p) /\ Sound(p) /\ Owns(p)
      /\ p.on \notin disputed => Alone(p)
  BY <1>1, Known
<1>4. /\ q \in Open /\ q.op = p.op /\ q.on = p.on /\ q.args = p.args /\ q.copy = p.copy /\ q.row = p.row
      /\ q.credId = p.credId /\ q.cred = p.cred /\ q.events = p.events /\ q.resolved = p.resolved
      /\ q.at = phase
  BY <1>2, <1>3 DEF Open
<1>5. sessions' = [sessions EXCEPT ![s] = q]
  BY <1>1, <1>2 DEF Goes
<1>6. Sound(q)
  BY <1>1, <1>3, <1>4 DEF Sound, IsRow
<1>7. q.on \notin disputed => Alone(q)
  BY <1>1, <1>3, <1>4 DEF Alone, IsRow, Fits
<1>8. Refs(q) = Refs(p)
  BY <1>4 DEF Refs
<1> QED
  BY <1>1, <1>2, <1>3, <1>4, <1>5, <1>6, <1>7, <1>8, SessionMoves

\* A request without a secret goes on.
LEMMA StoresNoSecretKeeps ==
  ASSUME IInv, NEW s \in Session, StoresNoSecret(s)
  PROVE  IInv'
<1>1. IsOpen(s) /\ sessions[s] \in Open /\ Fits(sessions[s])
  BY Known DEF StoresNoSecret, At
<1> QED
  BY <1>1, GoesKeeps DEF StoresNoSecret, At, AfterCredential, Phase, Fits, Open

\* An update or a test that finds its row goes on.
LEMMA FindsRowKeeps ==
  ASSUME IInv, NEW s \in Session, FindsRow(s)
  PROVE  IInv'
<1>1. IsOpen(s) /\ sessions[s] \in Open /\ Fits(sessions[s])
  BY Known DEF FindsRow, At
<1> QED
  BY <1>1, GoesKeeps DEF FindsRow, At, Phase, Fits, Open

\* Storing the secret of a request keeps the invariant.
LEMMA StoresSecretKeeps ==
  ASSUME IInv, NEW s \in Session, StoresSecret(s)
  PROVE  IInv'
<1>1. PICK p : p = sessions[s]
  OBVIOUS
<1>2. PICK k \in Credential :
        /\ IF p.copy # Null /\ p.copy.credential # Null
           THEN k = p.copy.credential /\ credentials[k] = Null /\ ~HeldCredential(s, k)
           ELSE FreshCredential(k)
        /\ sessions' = [sessions EXCEPT ![s].credId = k, ![s].cred = Encrypted(p.args.secret),
                                        ![s].at = AfterCredential(s)]
  BY <1>1 DEF StoresSecret
<1>3. PICK q : q = [p EXCEPT !.credId = k, !.cred = Encrypted(p.args.secret), !.at = AfterCredential(s)]
  OBVIOUS
<1>4. /\ IsOpen(s) /\ p.op \in {"create", "update"} /\ p.at = "credential" /\ p.args.secret # Null
      /\ UNCHANGED Tables
  BY <1>1 DEF StoresSecret, At
<1>5. /\ p \in Open /\ p.on \in Connector /\ Fits(p) /\ Sound(p) /\ Owns(p)
      /\ p.on \notin disputed => Alone(p)
  BY <1>1, <1>4, Known
<1>6. /\ Encrypted(p.args.secret) \in CredentialRow /\ Encrypted(p.args.secret) \notin {Null, Gone}
      /\ Encrypted(p.args.secret).secret = p.args.secret
  BY <1>4, <1>5, ConnectorAssumption DEF Encrypted, CredentialRow, Open, Arguments, IInv, TypeOK
<1>7. /\ q \in Open /\ q.op = p.op /\ q.on = p.on /\ q.args = p.args /\ q.copy = p.copy /\ q.row = p.row
      /\ q.credId = k /\ q.cred = Encrypted(p.args.secret) /\ q.events = p.events /\ q.resolved = p.resolved
      /\ q.at = (IF p.op = "update" THEN "select" ELSE "row")
  <2>1. PICK next : next = AfterCredential(s)
    OBVIOUS
  <2>2. next = (IF p.op = "update" THEN "select" ELSE "row") /\ next \in Phase
    BY <1>1, <2>1 DEF AfterCredential, Phase
  <2>3. PICK cred : cred = Encrypted(p.args.secret)
    OBVIOUS
  <2>4. q = [p EXCEPT !.credId = k, !.cred = cred, !.at = next]
    BY <1>3, <2>1, <2>3
  <2> QED
    BY <1>5, <1>6, <2>2, <2>3, <2>4 DEF Open
<1>8. k # Null /\ credentials[k] = Null
  BY <1>2, ConnectorAssumption DEF FreshCredential
<1>9. Fits(q)
  BY <1>4, <1>5, <1>6, <1>7, <1>8 DEF Fits, IsRow
<1>10. p.row = Null /\ p.cred = Null
  BY <1>4, <1>5 DEF Fits
<1>11. Sound(q)
  <2>1. p.op = "update" /\ p.copy.credential # Null => connectors[p.on] = Null
    BY <1>2, <1>4, <1>5, <1>8, <1>10 DEF Sound, Fits
  <2> QED
    BY <1>4, <1>5, <1>6, <1>7, <1>8, <1>10, <2>1 DEF Sound, IsRow
<1>12. q.on \notin disputed => Alone(q)
  BY <1>4, <1>5, <1>7, <1>10 DEF Alone, IsRow
<1>13. ~HeldCredential(s, k)
  BY <1>2 DEF FreshCredential, HeldCredential, Others
<1>14. \A x \in Refs(q) : x \in Refs(p) \/ FreshCredential(x)
  BY <1>2, <1>5, <1>7, <1>10, ConnectorAssumption DEF Refs, IsRow, Open
<1>15. sessions' = [sessions EXCEPT ![s] = q]
  BY <1>1, <1>2, <1>3
<1> QED
  BY <1>1, <1>4, <1>7, <1>9, <1>10, <1>11, <1>12, <1>13, <1>14, <1>15, SessionMoves

\* Inserting the connector keeps the invariant.
LEMMA InsertsConnectorKeeps ==
  ASSUME IInv, NEW s \in Session, InsertsConnector(s)
  PROVE  IInv'
<1>1. PICK p : p = sessions[s]
  OBVIOUS
<1>2. PICK row : row = [config |-> p.args.config, status |-> "CREATED", credential |-> p.credId,
                        given |-> p.args.secret, tested |-> Null]
  OBVIOUS
<1>3. PICK q : q = Flushed(p, row)
  OBVIOUS
<1>4. IsOpen(s) /\ p.op = "create" /\ p.at = "row" /\ UNCHANGED Tables
  BY <1>1 DEF InsertsConnector, At
<1>5. p \in Open /\ p.on \in Connector /\ Fits(p) /\ Sound(p) /\ Owns(p)
  BY <1>1, <1>4, Known
<1>6. row \in ConnectorRow /\ IsRow(row)
  BY <1>2, <1>4, <1>5, ConnectorAssumption DEF ConnectorRow, ConnectorStatus, Open, Arguments, Fits, IsRow
<1>7. /\ q \in Open /\ q.op = "create" /\ q.on = p.on /\ q.copy = Null /\ q.row = row
      /\ q.credId = p.credId /\ q.cred = p.cred /\ q.at = "flushed"
  BY <1>3, <1>4, <1>5, <1>6 DEF Open, Flushed, Phase, Arguments, NoArguments
<1>8. Fits(q)
  BY <1>2, <1>4, <1>5, <1>6, <1>7 DEF Fits, IsRow
<1>9. Sound(q)
  BY <1>2, <1>4, <1>5, <1>6, <1>7 DEF Sound, SecretKept, Fits, Verdict
<1>10. Alone(q)
  BY <1>2, <1>7 DEF Alone, Verdict
<1>11. Refs(q) \subseteq Refs(p)
  BY <1>2, <1>7 DEF Refs, IsRow
<1>12. sessions' = [sessions EXCEPT ![s] = q]
  BY <1>1, <1>2, <1>3 DEF InsertsConnector, Flushes
<1>13. q.cred # Null => p.cred # Null /\ q.credId = p.credId
  BY <1>7
<1> QED
  BY <1>1, <1>4, <1>7, <1>8, <1>9, <1>10, <1>11, <1>12, <1>13, SessionMoves

\* An update or a test that misses its row keeps the invariant.
LEMMA MissesRowKeeps ==
  ASSUME IInv, NEW s \in Session, MissesRow(s)
  PROVE  IInv'
<1>1. PICK p : p = sessions[s]
  OBVIOUS
<1>2. /\ IsOpen(s) /\ p.op \in {"update", "test"} /\ p.at = "select" /\ connectors[p.on] = Null
      /\ UNCHANGED Tables
  BY <1>1 DEF MissesRow, At
<1>3. /\ p \in Open /\ p.on \in Connector /\ Fits(p) /\ Sound(p) /\ Owns(p)
      /\ p.on \notin disputed => Alone(p)
  BY <1>1, <1>2, Known
<1>4. p.row = Null /\ p.on \in disputed
  BY <1>2, <1>3 DEF Fits, Alone
<1>5. CASE p.op = "test"
  <2>1. Goes(s, "resolve")
    BY <1>1, <1>5 DEF MissesRow
  <2>2. Fits([p EXCEPT !.at = "resolve"])
    BY <1>2, <1>3, <1>5 DEF Fits, Open
  <2> QED
    BY <1>1, <1>2, <1>4, <1>5, <2>1, <2>2, GoesKeeps DEF Phase
<1>6. CASE p.op = "update"
  <2>1. PICK q : q = Flushed(p, Null)
    OBVIOUS
  <2>2. /\ q \in Open /\ q.op = "update" /\ q.on = p.on /\ q.copy = Null /\ q.row = Null
        /\ q.credId = p.credId /\ q.cred = p.cred /\ q.at = "flushed"
    BY <1>3, <1>6, <2>1 DEF Open, Flushed, Phase, Arguments, NoArguments
  <2>3. Fits(q)
    BY <1>3, <1>6, <2>2, ConnectorAssumption DEF Fits, IsRow
  <2>4. Sound(q)
    BY <1>3, <1>6, <2>2 DEF Sound, IsRow
  <2>5. Refs(q) \subseteq Refs(p)
    BY <2>2 DEF Refs, IsRow
  <2>6. sessions' = [sessions EXCEPT ![s] = q]
    BY <1>1, <1>6, <2>1 DEF MissesRow, Flushes
  <2> QED
    BY <1>1, <1>2, <1>4, <1>6, <2>2, <2>3, <2>4, <2>5, <2>6, SessionMoves
<1> QED
  BY <1>2, <1>5, <1>6

\* The row that an update flushes: column by column the one assigned, or the stored one.
Updated(stored, changed, new, cred, given) ==
  [x \in DOMAIN stored |-> CASE x \in changed -> new[x]
                             [] x = "tested" /\ "status" \in changed -> Null
                             [] x = "given" /\ cred # Null -> given
                             [] OTHER -> stored[x]]

\* It is a row, and its columns are those.
LEMMA UpdatedRow ==
  ASSUME NEW stored \in ConnectorRow, NEW changed, NEW new, NEW cred, NEW given,
         new.config \in Config, new.credential \in Credential \cup {Null}, new.status = "CREATED",
         cred # Null => given \in Secret,
         NEW row, row = Updated(stored, changed, new, cred, given),
         changed \subseteq {"config", "credential", "status"}
  PROVE  /\ row \in ConnectorRow
         /\ row.config = IF "config" \in changed THEN new.config ELSE stored.config
         /\ row.credential = IF "credential" \in changed THEN new.credential ELSE stored.credential
         /\ row.status = IF "status" \in changed THEN "CREATED" ELSE stored.status
         /\ row.given = IF cred # Null THEN given ELSE stored.given
         /\ row.tested = IF "status" \in changed THEN Null ELSE stored.tested
<1>1. DOMAIN stored = {"config", "credential", "status", "given", "tested"}
  BY DEF ConnectorRow
<1>2. /\ row.config = IF "config" \in changed THEN new.config ELSE stored.config
      /\ row.credential = IF "credential" \in changed THEN new.credential ELSE stored.credential
      /\ row.status = IF "status" \in changed THEN "CREATED" ELSE stored.status
      /\ row.given = IF cred # Null THEN given ELSE stored.given
      /\ row.tested = IF "status" \in changed THEN Null ELSE stored.tested
  BY <1>1 DEF Updated
<1>3. row = [config |-> row.config, credential |-> row.credential, status |-> row.status,
             given |-> row.given, tested |-> row.tested]
  BY <1>1 DEF Updated
<1> QED
  BY <1>2, <1>3 DEF ConnectorRow, ConnectorStatus

\* The flush of an update keeps the invariant.
LEMMA FlushesUpdateKeeps ==
  ASSUME IInv, NEW s \in Session, FlushesUpdate(s)
  PROVE  IInv'
<1>1. PICK p : p = sessions[s]
  OBVIOUS
<1>2. PICK stored : stored = connectors[p.on]
  OBVIOUS
<1>3. PICK changed : changed = ChangedColumns(s)
  OBVIOUS
<1>4. IsOpen(s) /\ p.op = "update" /\ p.at = "row" /\ UNCHANGED Tables
  BY <1>1 DEF FlushesUpdate, At
<1>5. /\ p \in Open /\ p.on \in Connector /\ Fits(p) /\ Sound(p) /\ Owns(p)
      /\ p.on \notin disputed => Alone(p)
  BY <1>1, <1>4, Known
<1>6. PICK new : new = Assigned(s)
  OBVIOUS
<1>7. /\ new.config = IF p.args.config = Null THEN p.copy.config ELSE p.args.config
      /\ new.credential = IF p.credId = Null THEN p.copy.credential ELSE p.credId
      /\ new.status = "CREATED"
  BY <1>1, <1>6 DEF Assigned
<1>8. /\ p.row = Null /\ p.copy \in ConnectorRow
      /\ p.cred # Null => p.cred \in CredentialRow /\ p.args.secret \in Secret /\ p.cred.secret = p.args.secret
      /\ p.credId = Null <=> p.cred = Null
  BY <1>4, <1>5 DEF Fits, Open, Arguments
<1>9. /\ "credential" \in changed <=> new.credential # p.copy.credential
      /\ "status" \in changed <=> "CREATED" # p.copy.status
      /\ changed \subseteq {"config", "credential", "status"}
  BY <1>1, <1>3, <1>6, <1>7 DEF ChangedColumns
<1>10. stored # Null /\ p.cred # Null => p.copy.credential = Null /\ "credential" \in changed
  BY <1>2, <1>4, <1>5, <1>7, <1>8, <1>9 DEF Sound
<1>11. p.on \notin disputed => stored # Null /\ p.copy = stored
  BY <1>2, <1>4, <1>5, <1>8 DEF Alone, Fits
<1>12. CASE changed = {}
  <2>1. PICK q : q = Flushed(p, Null)
    OBVIOUS
  <2>2. /\ q \in Open /\ q.op = "update" /\ q.on = p.on /\ q.copy = Null /\ q.row = Null
        /\ q.credId = p.credId /\ q.cred = p.cred /\ q.at = "flushed"
    BY <1>4, <1>5, <2>1 DEF Open, Flushed, Phase, Arguments, NoArguments
  <2>3. Fits(q)
    BY <1>4, <1>5, <2>2, ConnectorAssumption DEF Fits, IsRow
  <2>4. Sound(q)
    BY <1>4, <1>5, <2>2 DEF Sound, IsRow
  <2>5. q.on \notin disputed => Alone(q)
    BY <1>10, <1>11, <1>12, <2>2 DEF Alone, IsRow
  <2>6. Refs(q) \subseteq Refs(p)
    BY <2>2 DEF Refs, IsRow
  <2>7. sessions' = [sessions EXCEPT ![s] = q]
    BY <1>1, <1>3, <1>12, <2>1 DEF FlushesUpdate, Flushes
  <2>8. q.row = Null /\ (q.cred # Null => p.cred # Null /\ q.credId = p.credId)
    BY <2>2
  <2> QED
    BY <1>1, <1>4, <2>2, <2>3, <2>4, <2>5, <2>6, <2>7, <2>8, SessionMoves
<1>13. CASE changed # {}
  <2>1. PICK row : row = Updated(stored, changed, new, p.cred, p.args.secret)
    OBVIOUS
  <2>2. PICK q : q = Flushed(p, row)
    OBVIOUS
  <2>3. stored # Null /\ ~Held(s, p.on) /\ sessions' = [sessions EXCEPT ![s] = q]
    BY <1>1, <1>2, <1>3, <1>6, <1>13, <2>1, <2>2 DEF FlushesUpdate, Flushes, Updated
  <2>4. stored \in ConnectorRow /\ StoredSound(p.on)
    BY <1>2, <1>5, <2>3, StoredRow DEF IInv, AllStoredSound
  <2>5. new.config \in Config /\ new.credential \in Credential \cup {Null}
    BY <1>5, <1>7, <1>8 DEF Open, Arguments, ConnectorRow
  <2>6. /\ row \in ConnectorRow
        /\ row.credential = IF "credential" \in changed THEN new.credential ELSE stored.credential
        /\ row.status = IF "status" \in changed THEN "CREATED" ELSE stored.status
        /\ row.given = IF p.cred # Null THEN p.args.secret ELSE stored.given
    <3>1. PICK cred, given : cred = p.cred /\ given = p.args.secret
      OBVIOUS
    <3>2. /\ new.status = "CREATED" /\ (cred # Null => given \in Secret)
          /\ row = Updated(stored, changed, new, cred, given)
          /\ changed \subseteq {"config", "credential", "status"}
      BY <1>7, <1>8, <1>9, <2>1, <3>1
    <3>3. /\ row \in ConnectorRow
          /\ row.credential = IF "credential" \in changed THEN new.credential ELSE stored.credential
          /\ row.status = IF "status" \in changed THEN "CREATED" ELSE stored.status
          /\ row.given = IF cred # Null THEN given ELSE stored.given
      BY <2>4, <2>5, <3>2, UpdatedRow
    <3> QED
      BY <3>1, <3>3
  <2>7. IsRow(row)
    BY <2>6, ConnectorAssumption DEF IsRow
  <2>8. /\ q \in Open /\ q.op = "update" /\ q.on = p.on /\ q.copy = Null /\ q.row = row
        /\ q.credId = p.credId /\ q.cred = p.cred /\ q.at = "flushed"
    BY <1>4, <1>5, <2>2, <2>6 DEF Open, Flushed, Phase, Arguments, NoArguments
  <2>9. /\ p.cred # Null => row.credential = p.credId /\ row.given = p.cred.secret
        /\ p.cred = Null => row.credential = stored.credential /\ row.given = stored.given
    BY <1>7, <1>8, <1>9, <1>10, <2>3, <2>6
  <2>10. Fits(q)
    BY <1>2, <1>4, <1>5, <2>3, <2>4, <2>6, <2>7, <2>8 DEF Fits, IsRow, StoredSound
  <2>11. Sound(q)
    <3>1. p.cred = Null => SecretKept(row)
      BY <1>2, <2>3, <2>4, <2>9 DEF StoredSound, SecretKept
    <3>2. row.status \in Verdict => \E e \in outputs[p.on] : e.content = row.status
      BY <1>2, <2>3, <2>4, <2>6 DEF StoredSound, Verdict
    <3> QED
      BY <1>2, <1>4, <1>5, <2>3, <2>8, <2>9, <3>1, <3>2 DEF Sound
  <2>12. q.on \notin disputed => Alone(q)
    BY <1>2, <1>7, <1>8, <1>9, <1>10, <1>11, <2>3, <2>6, <2>7, <2>8, <2>9 DEF Alone, Verdict
  <2>13. \A k \in Refs(q) : k \in Refs(p) \/ (connectors[q.on] # Null /\ k = connectors[q.on].credential)
    BY <1>2, <1>8, <2>3, <2>8, <2>9 DEF Refs, IsRow
  <2>14. q.cred # Null => p.cred # Null /\ q.credId = p.credId
    BY <2>8
  <2> QED
    BY <1>1, <1>4, <2>3, <2>8, <2>10, <2>11, <2>12, <2>13, <2>14, SessionMoves
<1> QED
  BY <1>12, <1>13

\* Deleting the credential keeps the invariant.
LEMMA DeletesCredentialKeeps ==
  ASSUME IInv, NEW s \in Session, DeletesCredential(s)
  PROVE  IInv'
<1>1. PICK p : p = sessions[s]
  OBVIOUS
<1>2. PICK k : k = p.copy.credential
  OBVIOUS
<1>3. IsOpen(s) /\ p.op = "delete" /\ p.at = "credential" /\ UNCHANGED Tables
  BY <1>1 DEF DeletesCredential, At
<1>4. /\ p \in Open /\ p.on \in Connector /\ Fits(p) /\ Sound(p) /\ Owns(p)
      /\ p.on \notin disputed => Alone(p)
  BY <1>1, <1>3, Known
<1>5. p.row = Null /\ p.cred = Null /\ p.copy \in ConnectorRow /\ k \in Credential \cup {Null}
  BY <1>2, <1>3, <1>4 DEF Fits, Open, ConnectorRow
<1>6. p.on \notin disputed /\ k # Null => credentials[k] # Null
  BY <1>2, <1>3, <1>4, <1>5, ConnectorAssumption DEF Alone, Sound
<1>7. CASE k = Null \/ credentials[k] = Null
  <2>1. Goes(s, "row")
    BY <1>1, <1>2, <1>7 DEF DeletesCredential
  <2>2. Fits([p EXCEPT !.at = "row"])
    BY <1>3, <1>4 DEF Fits, Open
  <2> QED
    BY <1>1, <1>2, <1>3, <1>5, <1>6, <1>7, <2>1, <2>2, GoesKeeps DEF Phase
<1>8. CASE k # Null /\ credentials[k] # Null
  <2>1. PICK q : q = [p EXCEPT !.credId = k, !.cred = Gone, !.at = "row"]
    OBVIOUS
  <2>2. /\ q \in Open /\ q.op = "delete" /\ q.on = p.on /\ q.copy = p.copy /\ q.row = Null
        /\ q.credId = k /\ q.cred = Gone /\ q.at = "row" /\ q.events = p.events
    BY <1>3, <1>4, <1>5, <1>8, <2>1 DEF Open, Phase
  <2>3. ~HeldCredential(s, k) /\ sessions' = [sessions EXCEPT ![s] = q]
    BY <1>1, <1>2, <1>8, <2>1 DEF DeletesCredential
  <2>4. Fits(q)
    BY <1>3, <1>4, <1>8, <2>2, ConnectorAssumption DEF Fits
  <2>5. Sound(q)
    BY <1>2, <1>3, <1>4, <1>8, <2>2 DEF Sound, IsRow
  <2>6. q.on \notin disputed => Alone(q)
    BY <1>2, <1>3, <1>4, <1>5, <2>2 DEF Alone, IsRow, Fits
  <2>7. Refs(q) \subseteq Refs(p)
    BY <1>2, <1>5, <2>2, ConnectorAssumption DEF Refs, IsRow
  <2> QED
    BY <1>1, <1>3, <2>2, <2>3, <2>4, <2>5, <2>6, <2>7, SessionMoves
<1> QED
  BY <1>7, <1>8

\* A session that has flushed its row is a session, with that row and no copy.
LEMMA FlushedSession ==
  ASSUME NEW p \in Open, NEW row \in ConnectorRow \cup {Null, Gone}, NEW q, q = Flushed(p, row)
  PROVE  /\ q \in Open /\ q.op = p.op /\ q.on = p.on /\ q.copy = Null /\ q.row = row
         /\ q.credId = p.credId /\ q.cred = p.cred /\ q.at = "flushed"
         /\ q.events = p.events /\ q.resolved = p.resolved
<1>1. NoArguments \in Arguments /\ "flushed" \in Phase
  BY DEF NoArguments, Arguments, Phase
<1> QED
  BY <1>1 DEF Open, Flushed

\* Deleting the connector keeps the invariant.
LEMMA DeletesConnectorKeeps ==
  ASSUME IInv, NEW s \in Session, DeletesConnector(s)
  PROVE  IInv'
<1>1. PICK p : p = sessions[s]
  OBVIOUS
<1>2. IsOpen(s) /\ p.op = "delete" /\ p.at = "row" /\ UNCHANGED Tables
  BY <1>1 DEF DeletesConnector, At
<1>3. /\ p \in Open /\ p.on \in Connector /\ Fits(p) /\ Sound(p) /\ Owns(p)
      /\ p.on \notin disputed => Alone(p)
  BY <1>1, <1>2, Known
<1>4. PICK row : row = IF connectors[p.on] = Null THEN Null ELSE Gone
  OBVIOUS
<1>5. PICK q : q = Flushed(p, row)
  OBVIOUS
<1>6. /\ q \in Open /\ q.op = "delete" /\ q.on = p.on /\ q.copy = Null /\ q.row = row
      /\ q.credId = p.credId /\ q.cred = p.cred /\ q.at = "flushed"
  BY <1>2, <1>3, <1>4, <1>5, FlushedSession
<1>7. sessions' = [sessions EXCEPT ![s] = q] /\ (row # Null => ~Held(s, p.on))
  BY <1>1, <1>4, <1>5 DEF DeletesConnector, Flushes
<1>8. Fits(q)
  BY <1>2, <1>3, <1>4, <1>6 DEF Fits, IsRow
<1>9. Sound(q)
  BY <1>2, <1>3, <1>4, <1>6 DEF Sound, IsRow
<1>10. q.on \notin disputed => Alone(q)
  BY <1>2, <1>3, <1>4, <1>6 DEF Alone, IsRow
<1>11. Refs(q) \subseteq Refs(p)
  BY <1>4, <1>6 DEF Refs, IsRow
<1>12. q.cred # Null => p.cred # Null /\ q.credId = p.credId
  BY <1>6
<1> QED
  BY <1>1, <1>2, <1>6, <1>7, <1>8, <1>9, <1>10, <1>11, <1>12, SessionMoves

\* Marking the row VALIDATING keeps the invariant.
LEMMA ValidatesKeeps ==
  ASSUME IInv, NEW s \in Session, Validates(s)
  PROVE  IInv'
<1>1. PICK p : p = sessions[s]
  OBVIOUS
<1>2. PICK stored : stored = connectors[p.on]
  OBVIOUS
<1>3. PICK row : row = [stored EXCEPT !.status = "VALIDATING", !.tested = Null]
  OBVIOUS
<1>4. PICK q : q = [p EXCEPT !.row = row, !.copy = row, !.at = "resolve"]
  OBVIOUS
<1>5. /\ IsOpen(s) /\ p.op = "test" /\ p.at = "row" /\ UNCHANGED Tables /\ stored # Null /\ ~Held(s, p.on)
      /\ sessions' = [sessions EXCEPT ![s] = q]
  BY <1>1, <1>2, <1>3, <1>4 DEF Validates, At
<1>6. p \in Open /\ p.on \in Connector /\ Fits(p) /\ Sound(p) /\ Owns(p)
  BY <1>1, <1>5, Known
<1>7. stored \in ConnectorRow /\ SecretKept(stored)
  BY <1>2, <1>5, <1>6, StoredRow DEF IInv, AllStoredSound, StoredSound
<1>8. /\ row \in ConnectorRow /\ row.status = "VALIDATING" /\ row.credential = stored.credential
      /\ row.given = stored.given /\ IsRow(row)
  <2>1. /\ row \in ConnectorRow /\ row.status = "VALIDATING" /\ row.credential = stored.credential
        /\ row.given = stored.given
    BY <1>3, <1>7 DEF ConnectorRow, ConnectorStatus
  <2> QED
    BY <2>1, ConnectorAssumption DEF IsRow
<1>9. /\ q \in Open /\ q.op = "test" /\ q.on = p.on /\ q.copy = row /\ q.row = row /\ q.events = p.events
      /\ q.credId = p.credId /\ q.cred = p.cred /\ q.at = "resolve"
  BY <1>4, <1>5, <1>6, <1>8 DEF Open, Phase
<1>10. Fits(q)
  BY <1>5, <1>6, <1>8, <1>9 DEF Fits, IsRow
<1>11. Sound(q)
  BY <1>2, <1>5, <1>6, <1>7, <1>8, <1>9, ConnectorAssumption DEF Sound, Fits, SecretKept, IsRow
<1>12. Alone(q)
  BY <1>8, <1>9 DEF Alone, Verdict, IsRow
<1>13. \A k \in Refs(q) : k \in Refs(p) \/ (connectors[q.on] # Null /\ k = connectors[q.on].credential)
  BY <1>2, <1>5, <1>8, <1>9 DEF Refs, IsRow
<1>14. q.cred = Null
  BY <1>5, <1>6, <1>9 DEF Fits
<1> QED
  BY <1>1, <1>5, <1>9, <1>10, <1>11, <1>12, <1>13, <1>14, SessionMoves

\* Reading the credential of the copy keeps the invariant.
LEMMA ResolvesCredentialKeeps ==
  ASSUME IInv, NEW s \in Session, ResolvesCredential(s)
  PROVE  IInv'
<1>1. PICK p : p = sessions[s]
  OBVIOUS
<1>2. PICK k : k = p.copy.credential
  OBVIOUS
<1>3. PICK found : found = IF k = Null THEN Null ELSE IF credentials[k] = Null THEN Null ELSE Decrypted(credentials[k])
  OBVIOUS
<1>4. PICK q : q = [p EXCEPT !.at = "connect", !.resolved = found]
  OBVIOUS
<1>5. /\ IsOpen(s) /\ p.op = "test" /\ p.at = "resolve" /\ UNCHANGED Tables
      /\ sessions' = [sessions EXCEPT ![s] = q]
  BY <1>1, <1>2, <1>3, <1>4 DEF ResolvesCredential, At
<1>6. /\ p \in Open /\ p.on \in Connector /\ Fits(p) /\ Sound(p) /\ Owns(p)
      /\ p.on \notin disputed => Alone(p)
  BY <1>1, <1>5, Known
<1>7. p.copy \in ConnectorRow /\ k \in Credential \cup {Null} /\ p.cred = Null
  BY <1>2, <1>5, <1>6 DEF Open, ConnectorRow, Fits
<1>8. k # Null /\ credentials[k] # Null => credentials[k] \in CredentialRow
  BY <1>7 DEF IInv, TypeOK
<1>9. found \in Secret \cup {Null}
  BY <1>3, <1>8 DEF Decrypted, CredentialRow
<1>10. /\ q \in Open /\ q.op = "test" /\ q.on = p.on /\ q.copy = p.copy /\ q.row = p.row /\ q.events = p.events
       /\ q.credId = p.credId /\ q.cred = p.cred /\ q.at = "connect" /\ q.resolved = found
  BY <1>4, <1>5, <1>6, <1>9 DEF Open, Phase
<1>11. Fits(q)
  BY <1>5, <1>6, <1>10 DEF Fits
<1>12. q.row # Null =>
         \/ found = q.row.given
         \/ found = Null /\ q.row.credential # Null /\ credentials[q.row.credential].key \notin {Null, key}
  <2> SUFFICES ASSUME q.row # Null
               PROVE  \/ found = q.row.given
                      \/ /\ found = Null /\ q.row.credential # Null
                         /\ credentials[q.row.credential].key \notin {Null, key}
    OBVIOUS
  <2>1. p.copy = p.row /\ q.row = p.row /\ IsRow(p.row) /\ SecretKept(p.row)
    BY <1>5, <1>6, <1>7, <1>10 DEF Fits, Sound, IsRow
  <2> QED
    BY <1>2, <1>3, <2>1 DEF SecretKept, Decrypted
<1>13. Sound(q)
  BY <1>5, <1>6, <1>10, <1>12 DEF Sound
<1>14. q.on \notin disputed => Alone(q)
  BY <1>5, <1>6, <1>10 DEF Alone
<1>15. Refs(q) = Refs(p)
  BY <1>10 DEF Refs
<1>16. (q.row # Null => p.row # Null) /\ q.cred = Null
  BY <1>7, <1>10
<1> QED
  BY <1>1, <1>5, <1>10, <1>11, <1>13, <1>14, <1>15, <1>16, SessionMoves

\* The outcome of a test keeps the invariant.
LEMMA ConnectsKeeps ==
  ASSUME IInv, NEW s \in Session, Connects(s)
  PROVE  IInv'
<1>1. PICK p : p = sessions[s]
  OBVIOUS
<1>2. IsOpen(s) /\ p.op = "test" /\ p.at = "connect" /\ UNCHANGED Tables
  BY <1>1 DEF Connects, At
<1>3. /\ p \in Open /\ p.on \in Connector /\ Fits(p) /\ Sound(p) /\ Owns(p)
      /\ p.on \notin disputed => Alone(p)
  BY <1>1, <1>2, Known
<1>4. PICK verdict \in Outcomes(p.copy.config) :
        LET row == IF p.row = Null THEN Null
                   ELSE [p.row EXCEPT !.status = verdict, !.tested = <<p.copy.config, p.copy.credential>>]
        IN sessions' = [sessions EXCEPT ![s] =
             [Flushed(p, row) EXCEPT !.events = O!BulkCreate({}, TestEvents(verdict))]]
  BY <1>1 DEF Connects
<1>5. PICK row : row = IF p.row = Null THEN Null
                       ELSE [p.row EXCEPT !.status = verdict, !.tested = <<p.copy.config, p.copy.credential>>]
  OBVIOUS
<1>6. PICK events : events = O!BulkCreate({}, TestEvents(verdict))
  OBVIOUS
<1>7. PICK q : q = [Flushed(p, row) EXCEPT !.events = events]
  OBVIOUS
<1>8. sessions' = [sessions EXCEPT ![s] = q]
  BY <1>1, <1>4, <1>5, <1>6, <1>7
<1>9. verdict \in Verdict /\ verdict # "VALIDATING"
  BY <1>4 DEF Outcomes, Verdict
<1>10. events \subseteq Output /\ \E e \in events : e.content = verdict
  BY <1>6, <1>9, OneEvent
<1>11. p.copy \in ConnectorRow /\ p.row \in ConnectorRow \cup {Null} /\ (p.row # Null => p.copy = p.row) /\ p.cred = Null
  BY <1>2, <1>3 DEF Fits, Open
<1>12. CASE p.row = Null
  <2>1. row = Null
    BY <1>5, <1>12
  <2>2. /\ q \in Open /\ q.op = "test" /\ q.on = p.on /\ q.copy = Null /\ q.row = Null
        /\ q.credId = p.credId /\ q.cred = p.cred /\ q.at = "flushed"
    BY <1>2, <1>3, <1>7, <1>10, <2>1 DEF Open, Flushed, Phase, Arguments, NoArguments
  <2>3. Fits(q)
    BY <1>2, <1>3, <2>2, ConnectorAssumption DEF Fits, IsRow
  <2>4. Sound(q)
    BY <1>2, <1>3, <1>11, <2>2 DEF Sound, IsRow
  <2>5. Alone(q)
    BY <2>2 DEF Alone, IsRow
  <2>6. Refs(q) \subseteq Refs(p)
    BY <2>2 DEF Refs, IsRow
  <2> QED
    BY <1>1, <1>2, <1>8, <1>11, <2>2, <2>3, <2>4, <2>5, <2>6, SessionMoves
<1>13. CASE p.row # Null
  <2>1. /\ row \in ConnectorRow /\ row.status = verdict /\ row.config = p.row.config
        /\ row.credential = p.row.credential /\ row.given = p.row.given
        /\ row.tested = <<row.config, row.credential>> /\ IsRow(row) /\ row # Null
    <3>1. row = [p.row EXCEPT !.status = verdict, !.tested = <<p.copy.config, p.copy.credential>>]
      BY <1>5, <1>13
    <3>2. row \in ConnectorRow
      <4>1. PICK old, tested : old = p.row /\ tested = <<p.copy.config, p.copy.credential>>
        OBVIOUS
      <4>2. old \in ConnectorRow /\ p.copy = old /\ verdict \in ConnectorStatus
        BY <1>9, <1>11, <1>13, <4>1 DEF ConnectorStatus, Verdict
      <4>3. tested \in Config \X (Credential \cup {Null})
        BY <4>1, <4>2 DEF ConnectorRow
      <4>4. [old EXCEPT !.status = verdict, !.tested = tested] \in ConnectorRow
        BY <4>2, <4>3 DEF ConnectorRow
      <4> QED
        BY <3>1, <4>1, <4>4
    <3>3. /\ row.status = verdict /\ row.config = p.row.config
          /\ row.credential = p.row.credential /\ row.given = p.row.given
          /\ row.tested = <<p.copy.config, p.copy.credential>>
      <4>1. PICK old \in ConnectorRow : old = p.row
        BY <1>11, <1>13
      <4> QED
        BY <3>1, <4>1 DEF ConnectorRow
    <3>4. IsRow(row) /\ row # Null
      BY <3>2, ConnectorAssumption DEF IsRow
    <3> QED
      BY <1>11, <1>13, <3>2, <3>3, <3>4
  <2>2. /\ q \in Open /\ q.op = "test" /\ q.on = p.on /\ q.copy = Null /\ q.row = row /\ q.events = events
        /\ q.credId = p.credId /\ q.cred = p.cred /\ q.at = "flushed" /\ q.resolved = p.resolved
    BY <1>2, <1>3, <1>7, <1>10, <2>1 DEF Open, Flushed, Phase, Arguments, NoArguments
  <2>3. Fits(q)
    BY <1>2, <1>3, <1>9, <2>1, <2>2 DEF Fits, IsRow
  <2>4. Sound(q)
    <3>1. IsRow(p.row) /\ SecretKept(row) /\ connectors[p.on] # Null /\ row.credential = connectors[p.on].credential
      BY <1>2, <1>3, <1>11, <1>13, <2>1, ConnectorAssumption DEF Sound, SecretKept, IsRow
    <3>2. \/ p.resolved = row.given
          \/ /\ p.resolved = Null /\ row.credential # Null
             /\ credentials[row.credential].key \notin {Null, key}
      BY <1>2, <1>3, <1>13, <2>1 DEF Sound
    <3>3. \E e \in outputs[q.on] \cup q.events : e.content = q.row.status
      BY <1>10, <2>1, <2>2
    <3>4. q.cred = Null /\ q.cred # Gone
      BY <1>11, <2>2, ConnectorAssumption
    <3> QED
      BY <2>1, <2>2, <3>1, <3>2, <3>3, <3>4 DEF Sound
  <2>5. Alone(q)
    BY <2>1, <2>2 DEF Alone
  <2>6. Refs(q) \subseteq Refs(p)
    BY <1>11, <1>13, <2>1, <2>2, ConnectorAssumption DEF Refs, IsRow
  <2> QED
    BY <1>1, <1>2, <1>8, <1>11, <1>13, <2>2, <2>3, <2>4, <2>5, <2>6, SessionMoves
<1> QED
  BY <1>12, <1>13

\* A session that is given up leaves the tables as they are.
LEMMA RollsBackKeeps ==
  ASSUME IInv, NEW s \in Session, RollsBack(s)
  PROVE  IInv'
<1>1. \A c \in Connector : outputs'[c] = outputs[c] /\ (c \in disputed => c \in disputed')
  BY DEF RollsBack, Tables
<1> QED
  BY <1>1, SessionStep DEF RollsBack, Tables, IInv, TypeOK

\* So does a restart, after which no session is open.
LEMMA RestartKeeps ==
  ASSUME IInv, Restart
  PROVE  IInv'
<1>1. \A s \in Session : ~IsOpen(s)'
  BY DEF Restart, IsOpen
<1>2. TypeOK'
  BY DEF Restart, IInv, TypeOK
<1>3. AllStoredSound'
  BY DEF Restart, IInv, AllStoredSound, StoredSound, SecretKept
<1> QED
  BY <1>1, <1>2, <1>3 DEF IInv, AllFit, AllSound, AllAlone, AllApart

-----------------------------------------------------------------------------
(* Beginning and ending.                                                   *)

\* A request on a stored connector keeps the invariant.
LEMMA FindsKeeps ==
  ASSUME IInv, NEW s \in Session, NEW op \in {"update", "delete", "test"}, NEW args \in Arguments,
         Finds(s, op, args)
  PROVE  IInv'
<1>1. PICK c \in Connector :
        /\ connectors[c] # Null
        /\ sessions' = [sessions EXCEPT ![s] = NewSession(op, c, args)]
        /\ disputed' = disputed \cup {d \in {c} : \E t \in Others(s) : sessions[t].on = d}
  BY DEF Finds
<1>2. PICK q : q = NewSession(op, c, args)
  OBVIOUS
<1>3. PICK stored : stored = connectors[c]
  OBVIOUS
<1>4. stored \in ConnectorRow /\ SecretKept(stored) /\ IsRow(stored)
  BY <1>1, <1>3, StoredRow DEF IInv, AllStoredSound, StoredSound
<1>5. /\ q \in Open /\ q.op = op /\ q.on = c /\ q.args = args /\ q.copy = stored /\ q.row = Null /\ q.events = {}
      /\ q.credId = Null /\ q.cred = Null /\ q.at = (IF op = "test" THEN "select" ELSE "credential")
  BY <1>2, <1>3, <1>4 DEF NewSession, Open, Phase, Operation
<1>6. Fits(q)
  BY <1>4, <1>5, ConnectorAssumption DEF Fits, IsRow
<1>7. Sound(q)
  BY <1>3, <1>4, <1>5, ConnectorAssumption DEF Sound, IsRow, SecretKept
<1>8. Alone(q)
  BY <1>3, <1>5 DEF Alone, IsRow
<1>9. \A k \in Refs(q) : k # Null /\ k = stored.credential
  BY <1>5 DEF Refs, IsRow
<1>10. Owns(q)
  BY <1>1, <1>3, <1>5, <1>9 DEF Owns, IInv, AllStoredSound, StoredSound
<1>11. ASSUME NEW t \in Session \ {s}, IsOpen(t)
       PROVE  Apart(q, sessions[t]) /\ (q.on = sessions[t].on => q.on \in disputed')
  <2>1. q.on = sessions[t].on => sessions[t].op # "create"
    BY <1>1, <1>5, <1>11, Known DEF Sound
  <2>2. q.on # sessions[t].on => Refs(q) \cap Refs(sessions[t]) = {}
    BY <1>1, <1>3, <1>5, <1>9, <1>11 DEF IInv, AllSound, Owns
  <2>3. t \in Others(s)
    BY <1>11 DEF Others
  <2> QED
    BY <1>1, <1>5, <2>1, <2>2, <2>3 DEF Apart
<1>12. Sound(q)'
  BY <1>7 DEF Sound, SecretKept, Finds
<1>13. disputed' \subseteq Connector /\ (outputs \in [Connector -> SUBSET Output])'
  BY <1>1 DEF Finds, IInv, TypeOK
<1>14. \A d \in Connector : outputs'[d] = outputs[d] /\ (d \in disputed => d \in disputed')
  BY <1>1 DEF Finds
<1>15. sessions' = [sessions EXCEPT ![s] = q] /\ UNCHANGED <<connectors, credentials, key>>
  BY <1>1, <1>2 DEF Finds
<1> QED
  BY <1>5, <1>6, <1>8, <1>10, <1>11, <1>12, <1>13, <1>14, <1>15, SessionStep

\* The beginning of a creation keeps the invariant.
LEMMA CreateConnectorKeeps ==
  ASSUME IInv, NEW s \in Session, CreateConnector(s)
  PROVE  IInv'
<1>1. PICK c \in Connector, config \in ValidConfig, secret \in Secret \cup {Null} :
        /\ FreshConnector(c)
        /\ sessions' = [sessions EXCEPT ![s] =
             NewSession("create", c, [config |-> config, secret |-> secret])]
        /\ disputed' = disputed \ {c}
        /\ outputs' = [outputs EXCEPT ![c] = {}]
  BY DEF CreateConnector
<1>2. PICK q : q = NewSession("create", c, [config |-> config, secret |-> secret])
  OBVIOUS
<1>3. connectors[c] = Null /\ \A t \in Session : IsOpen(t) => sessions[t].on # c
  BY <1>1 DEF FreshConnector
<1>4. /\ q \in Open /\ q.op = "create" /\ q.on = c /\ q.args.config \in Config /\ q.copy = Null /\ q.row = Null
      /\ q.events = {} /\ q.credId = Null /\ q.cred = Null /\ q.at = "credential"
  BY <1>2, <1>3, ConnectorAssumption DEF NewSession, Open, Phase, Operation, Arguments
<1>5. Fits(q)
  BY <1>4, ConnectorAssumption DEF Fits, IsRow
<1>6. Sound(q)'
  BY <1>3, <1>4, ConnectorAssumption DEF Sound, IsRow, CreateConnector
<1>7. Alone(q) /\ Refs(q) = {}
  BY <1>4 DEF Alone, IsRow, Refs
<1>8. Owns(q) /\ \A t \in Session \ {s} : IsOpen(t) => Apart(q, sessions[t]) /\ q.on # sessions[t].on
  BY <1>3, <1>4, <1>7 DEF Owns, Apart
<1>9. disputed' \subseteq Connector /\ (outputs \in [Connector -> SUBSET Output])'
  BY <1>1 DEF IInv, TypeOK
<1>10. \A d \in Connector : FreshConnector(d) \/ (outputs'[d] = outputs[d] /\ (d \in disputed => d \in disputed'))
  BY <1>1 DEF IInv, TypeOK
<1>11. sessions' = [sessions EXCEPT ![s] = q] /\ UNCHANGED <<connectors, credentials, key>>
  BY <1>1, <1>2 DEF CreateConnector
<1> QED
  BY <1>4, <1>5, <1>6, <1>7, <1>8, <1>9, <1>10, <1>11, SessionStep

\* What a commit makes of the tables: a connector is gone for good if it was gone or
\* its credential is deleted, and no other stored credential changes.
LEMMA TablesAfter ==
  ASSUME IInv, NEW s \in Session, Commits(s), NEW p, p = sessions[s]
  PROVE  /\ IsOpen(s) /\ p.at = "flushed" /\ p \in Open /\ p.on \in Connector
         /\ Fits(p) /\ Sound(p) /\ Owns(p) /\ (p.on \notin disputed => Alone(p))
         /\ \A d \in Connector :
              connectors'[d] = IF d # p.on \/ p.row = Null THEN connectors[d] ELSE IF p.row = Gone THEN Null ELSE p.row
         /\ \A k \in Credential :
              credentials'[k] = IF k # p.credId THEN credentials[k] ELSE IF p.cred = Gone THEN Null ELSE p.cred
         /\ \A d \in Connector : outputs'[d] = IF d = p.on THEN outputs[d] \cup p.events ELSE outputs[d]
         /\ p.op # "create" /\ connectors[p.on] = Null => connectors'[p.on] = Null
         /\ p.cred = Gone => connectors'[p.on] = Null
         /\ \A k \in Credential : credentials[k] # Null /\ (k = p.credId => p.cred # Gone) =>
              credentials'[k] = credentials[k]
<1>1. /\ IsOpen(s) /\ p.at = "flushed"
      /\ connectors' = IF p.row = Null THEN connectors
                       ELSE [connectors EXCEPT ![p.on] = IF p.row = Gone THEN Null ELSE p.row]
      /\ credentials' = IF p.cred = Null THEN credentials
                        ELSE [credentials EXCEPT ![p.credId] = IF p.cred = Gone THEN Null ELSE p.cred]
      /\ outputs' = [outputs EXCEPT ![p.on] = @ \cup p.events]
  BY DEF Commits
<1>2. /\ p \in Open /\ p.on \in Connector /\ Fits(p) /\ Sound(p) /\ Owns(p)
      /\ p.on \notin disputed => Alone(p)
  BY <1>1, Known
<1>3. p.credId = Null <=> p.cred = Null
  BY <1>2 DEF Fits
<1>4. connectors \in [Connector -> ConnectorRow \cup {Null}] /\ credentials \in [Credential -> CredentialRow \cup {Null}]
      /\ outputs \in [Connector -> SUBSET Output]
  BY DEF IInv, TypeOK
<1>5. \A d \in Connector :
        connectors'[d] = IF d # p.on \/ p.row = Null THEN connectors[d] ELSE IF p.row = Gone THEN Null ELSE p.row
  BY <1>1, <1>2, <1>4
<1>6. \A k \in Credential :
        credentials'[k] = IF k # p.credId THEN credentials[k] ELSE IF p.cred = Gone THEN Null ELSE p.cred
  BY <1>1, <1>3, <1>4, ConnectorAssumption
<1>7. \A d \in Connector : outputs'[d] = IF d = p.on THEN outputs[d] \cup p.events ELSE outputs[d]
  BY <1>1, <1>4
<1>8. p.op # "create" /\ connectors[p.on] = Null => connectors'[p.on] = Null
  BY <1>2, <1>5 DEF Sound, IsRow
<1>9. p.cred = Gone => connectors'[p.on] = Null
  <2> SUFFICES ASSUME p.cred = Gone
               PROVE  connectors'[p.on] = Null
    OBVIOUS
  <2>1. p.op = "delete"
    BY <1>2, ConnectorAssumption DEF Fits, Open, Operation
  <2>2. p.row = Gone \/ connectors[p.on] = Null
    BY <1>1, <1>2, <2>1 DEF Sound
  <2>3. Gone # Null
    BY ConnectorAssumption
  <2> QED
    BY <1>2, <1>5, <1>8, <2>1, <2>2, <2>3
<1>10. \A k \in Credential : credentials[k] # Null /\ (k = p.credId => p.cred # Gone) =>
         credentials'[k] = credentials[k]
  BY <1>2, <1>3, <1>6, ConnectorAssumption DEF Sound
<1> QED
  BY <1>1, <1>2, <1>5, <1>6, <1>7, <1>8, <1>9, <1>10

\* What another session may count on outlives a commit.
LEMMA CommitLeaves ==
  ASSUME IInv, NEW s \in Session, Commits(s), NEW t \in Session \ {s}, IsOpen(t), NEW r, r = sessions[t]
  PROVE  Sound(r)' /\ Owns(r)' /\ (r.on \notin disputed => Alone(r)')
<1>1. PICK p : p = sessions[s]
  OBVIOUS
<1>2. /\ r \in Open /\ r.on \in Connector /\ Fits(r) /\ Sound(r) /\ Owns(r)
      /\ r.on \notin disputed => Alone(r)
  BY Known
<1>3. /\ Apart(p, r)
      /\ p.on = r.on => p.on \in disputed
  BY <1>1, TablesAfter DEF IInv, AllApart
<1>4. PICK stored : stored = connectors[r.on]
  OBVIOUS
<1>5. PICK later : later = connectors'[r.on]
  OBVIOUS
<1>6. /\ r.row # Null => later = stored
      /\ stored = Null => later = Null
      /\ r.on \notin disputed => later = stored
      /\ p.on # r.on => later = stored
  BY <1>1, <1>2, <1>3, <1>4, <1>5, TablesAfter DEF Apart
<1>7. p.cred = Gone /\ p.credId \in Refs(r) => later = Null
  <2>1. p.credId # Null => p.credId \in Refs(p)
    BY DEF Refs
  <2>2. p.cred = Gone => p.credId # Null
    BY <1>1, TablesAfter, ConnectorAssumption DEF Fits
  <2> QED
    BY <1>1, <1>3, <1>5, <2>1, <2>2, TablesAfter DEF Apart
<1>8. r.cred # Null => r.credId \in Credential /\ credentials'[r.credId] = credentials[r.credId]
  <2>1. r.cred # Null => r.credId \in Credential /\ (p.cred # Null => p.credId # r.credId)
    BY <1>2, <1>3 DEF Fits, Open, Apart
  <2>2. p.cred = Null <=> p.credId = Null
    BY <1>1, TablesAfter DEF Fits
  <2> QED
    BY <1>1, <2>1, <2>2, TablesAfter, ConnectorAssumption
<1>9. ASSUME NEW k \in Refs(r), k \in Credential, credentials[k] # Null, later # Null
      PROVE  credentials'[k] = credentials[k]
  BY <1>1, <1>7, <1>9, TablesAfter
<1>10. ASSUME NEW row \in {r.copy, r.row}, IsRow(row)
       PROVE  row \in ConnectorRow /\ row.credential \in Credential \cup {Null}
              /\ (row.credential # Null => row.credential \in Refs(r) /\ row.credential \in Credential)
  BY <1>2, <1>10, ConnectorAssumption DEF Open, ConnectorRow, Refs, IsRow
<1>11. IsRow(r.row) /\ SecretKept(r.row) /\ later # Null => SecretKept(r.row)'
  BY <1>9, <1>10 DEF SecretKept
<1>12. IsRow(r.row) /\ r.cred = Null => SecretKept(r.row)'
  <2>1. CASE r.op = "create"
    <3>1. IsRow(r.row) /\ r.cred = Null => r.row.credential = Null
      BY <1>2, <2>1 DEF Fits, IsRow
    <3> QED
      BY <1>2, <3>1 DEF SecretKept, Sound
  <2>2. CASE r.op # "create"
    BY <1>2, <1>4, <1>6, <1>11, <2>2 DEF Sound, IsRow
  <2> QED
    BY <2>1, <2>2
<1>13. r.op = "test" /\ r.row # Null /\ r.at \in {"connect", "flushed"} =>
         \/ r.resolved = r.row.given
         \/ /\ r.resolved = Null /\ r.row.credential # Null
            /\ credentials'[r.row.credential].key \notin {Null, key'}
  <2> SUFFICES ASSUME r.op = "test", r.row # Null, r.at \in {"connect", "flushed"}, r.row.credential # Null
               PROVE  credentials'[r.row.credential] = credentials[r.row.credential] /\ key' = key
    BY <1>2 DEF Sound
  <2>1. IsRow(r.row) /\ r.cred = Null
    BY <1>2 DEF Fits, IsRow
  <2>2. SecretKept(r.row) /\ later # Null
    BY <1>2, <1>4, <1>6, <2>1 DEF Sound, IsRow
  <2> QED
    BY <1>9, <1>10, <2>1, <2>2 DEF SecretKept, Commits
<1>14. r.copy # Null /\ r.copy.credential # Null /\ later # Null => credentials'[r.copy.credential] # Null
  <2> SUFFICES ASSUME r.copy # Null, r.copy.credential # Null, later # Null
               PROVE  credentials'[r.copy.credential] # Null
    OBVIOUS
  <2>1. IsRow(r.copy)
    BY <1>2, ConnectorAssumption DEF Open, IsRow
  <2>2. credentials[r.copy.credential] # Null
    BY <1>2, <1>4, <1>6 DEF Sound
  <2> QED
    BY <1>9, <1>10, <2>1, <2>2
<1>15. Sound(r)'
  <2>1. outputs[r.on] \subseteq outputs'[r.on]
    <3>1. \A d \in Connector : outputs'[d] = IF d = p.on THEN outputs[d] \cup p.events ELSE outputs[d]
      BY <1>1, TablesAfter
    <3> QED
      BY <1>2, <3>1
  <2>2. r.cred \notin {Null, Gone} => credentials'[r.credId] = Null
    BY <1>2, <1>8 DEF Sound
  <2>3. r.cred = Gone => credentials'[r.credId] # Null
    BY <1>2, <1>8, ConnectorAssumption DEF Sound
  <2>4. /\ r.op = "create" => later = Null
        /\ IsRow(r.row) /\ r.op # "create" => later # Null
        /\ r.op = "delete" /\ r.at = "flushed" => r.row = Gone \/ later = Null
        /\ r.op = "test" /\ r.row # Null => r.row.credential = later.credential
        /\ r.op = "update" /\ r.at # "flushed" /\ r.cred # Null /\ r.copy.credential # Null => later = Null
    BY <1>2, <1>4, <1>6 DEF Sound, IsRow
  <2>5. IsRow(r.row) => IF r.cred = Null THEN SecretKept(r.row)'
                        ELSE r.row.credential = r.credId /\ r.row.given = r.cred.secret
    BY <1>2, <1>12 DEF Sound
  <2>6. r.at = "flushed" /\ IsRow(r.row) /\ r.row.status \in Verdict =>
          \E e \in outputs'[r.on] \cup r.events : e.content = r.row.status
    BY <1>2, <2>1 DEF Sound
  <2> QED
    BY <1>5, <1>13, <1>14, <2>2, <2>3, <2>4, <2>5, <2>6 DEF Sound
<1>16. Owns(r)'
  <2> SUFFICES ASSUME NEW d \in Connector \ {r.on}, connectors'[d] # Null
               PROVE  connectors'[d].credential \notin Refs(r)
    BY DEF Owns, Refs, IsRow
  <2>1. CASE connectors'[d] = connectors[d]
    BY <1>2, <2>1 DEF Owns
  <2>2. CASE connectors'[d] # connectors[d]
    <3>1. d = p.on /\ connectors'[d] = p.row /\ IsRow(p.row)
      BY <1>1, <2>2, TablesAfter DEF IsRow
    <3>2. p.row.credential = Null \/ p.row.credential \in Refs(p)
      BY <3>1 DEF Refs
    <3> QED
      BY <1>3, <3>1, <3>2 DEF Apart, Refs
  <2> QED
    BY <2>1, <2>2
<1>17. r.on \notin disputed => Alone(r)'
  BY <1>2, <1>4, <1>5, <1>6 DEF Alone
<1> QED
  BY <1>15, <1>16, <1>17

\* The commit of a session keeps the invariant.
LEMMA CommitsKeep ==
  ASSUME IInv, NEW s \in Session, Commits(s)
  PROVE  IInv'
<1>1. PICK p : p = sessions[s]
  OBVIOUS
<1>2. /\ p.at = "flushed" /\ p \in Open /\ p.on \in Connector /\ Fits(p) /\ Sound(p) /\ Owns(p)
      /\ p.on \notin disputed => Alone(p)
  BY <1>1, TablesAfter
<1>3. \A t \in Session : sessions'[t] = IF t = s THEN Null ELSE sessions[t]
  BY DEF Commits, IInv, TypeOK
<1>4. disputed' = disputed /\ key' = key
  BY DEF Commits
<1>5. TypeOK'
  <2>1. connectors' \in [Connector -> ConnectorRow \cup {Null}]
    <3>1. p.row # Null /\ p.row # Gone => p.row \in ConnectorRow
      BY <1>2 DEF Open
    <3> QED
      BY <1>1, <3>1 DEF Commits, IInv, TypeOK
  <2>2. credentials' \in [Credential -> CredentialRow \cup {Null}]
    <3>1. p.cred # Null /\ p.cred # Gone => p.cred \in CredentialRow
      BY <1>2 DEF Open
    <3> QED
      BY <1>1, <3>1 DEF Commits, IInv, TypeOK
  <2>3. outputs' \in [Connector -> SUBSET Output]
    <3>1. p.events \in SUBSET Output
      BY <1>2 DEF Open
    <3>2. outputs' = [outputs EXCEPT ![p.on] = outputs[p.on] \cup p.events]
      BY <1>1 DEF Commits
    <3> QED
      BY <1>2, <3>1, <3>2 DEF IInv, TypeOK
  <2> QED
    BY <1>4, <2>1, <2>2, <2>3 DEF Commits, IInv, TypeOK
<1>6. \A t \in Session : IsOpen(t)' => t \in Session \ {s} /\ IsOpen(t) /\ sessions'[t] = sessions[t]
  BY <1>3 DEF IsOpen
<1>7. AllFit'
  BY <1>6 DEF IInv, AllFit, Fits, IsRow
<1>8. AllSound' /\ AllAlone'
  <2> SUFFICES ASSUME NEW t \in Session, IsOpen(t)'
               PROVE  /\ Sound(sessions[t])' /\ Owns(sessions[t])'
                      /\ (sessions[t].on \notin disputed)' => Alone(sessions[t])'
    BY DEF AllSound, AllAlone
  <2>1. PICK r : r = sessions'[t]
    OBVIOUS
  <2>2. Sound(r)' /\ Owns(r)' /\ (r.on \notin disputed => Alone(r)')
    BY <1>6, <2>1, CommitLeaves
  <2>3. Sound(sessions[t])'
    BY <2>1, <2>2 DEF Sound, SecretKept
  <2>4. Owns(sessions[t])'
    BY <2>1, <2>2 DEF Owns, Refs, IsRow
  <2>5. (sessions[t].on \notin disputed)' => Alone(sessions[t])'
    BY <1>4, <2>1, <2>2 DEF Alone
  <2> QED
    BY <2>3, <2>4, <2>5
<1>9. AllApart'
  <2> SUFFICES ASSUME NEW t \in Session, NEW u \in Session, t # u, IsOpen(t)', IsOpen(u)'
               PROVE  (/\ Apart(sessions[t], sessions[u])
                       /\ sessions[t].on = sessions[u].on => sessions[t].on \in disputed)'
    BY DEF AllApart
  <2>1. /\ Apart(sessions[t], sessions[u]) /\ sessions'[t] = sessions[t] /\ sessions'[u] = sessions[u]
        /\ sessions[t].on = sessions[u].on => sessions[t].on \in disputed
    BY <1>6 DEF IInv, AllApart
  <2> QED
    BY <1>4, <2>1 DEF Apart, Refs, IsRow
<1>10. ASSUME NEW c \in Connector
       PROVE  StoredSound(c)'
  <2> SUFFICES ASSUME connectors'[c] # Null
               PROVE  StoredSound(c)'
    BY DEF StoredSound
  <2>1. PICK row : row = connectors'[c]
    OBVIOUS
  <2>2. row \in ConnectorRow /\ row # Null /\ row.credential \in Credential \cup {Null}
    BY <1>5, <2>1 DEF TypeOK, ConnectorRow
  <2>3. p.credId # Null => p.credId \in Refs(p)
    BY DEF Refs
  <2>4. CASE c = p.on /\ p.row # Null
    <3>1. row = p.row /\ IsRow(row)
      BY <1>1, <1>2, <2>1, <2>2, <2>4, TablesAfter, ConnectorAssumption DEF IsRow
    <3>2. row.status # "VALIDATING"
      BY <1>2, <3>1 DEF Fits
    <3>3. SecretKept(row)'
      <4>1. CASE p.cred = Null
        <5>1. SecretKept(row) /\ p.credId = Null
          BY <1>2, <3>1, <4>1 DEF Sound, Fits
        <5> QED
          BY <1>1, <2>2, <5>1, TablesAfter DEF SecretKept
      <4>2. CASE p.cred # Null
        <5>1. /\ p.cred # Gone /\ p.credId # Null /\ p.credId \in Credential
              /\ row.credential = p.credId /\ row.given = p.cred.secret
          BY <1>2, <3>1, <4>2 DEF Sound, Fits, IsRow, Open, Operation
        <5>2. credentials'[p.credId] = p.cred
          BY <1>1, <5>1, TablesAfter
        <5> QED
          BY <4>2, <5>1, <5>2 DEF SecretKept
      <4> QED
        BY <4>1, <4>2
    <3>4. row.status \in Verdict => \E e \in outputs'[c] : e.content = row.status
      <4>1. outputs'[c] = outputs[p.on] \cup p.events
        BY <1>1, <1>2, <2>4, TablesAfter
      <4> QED
        BY <1>2, <3>1, <4>1 DEF Sound
    <3>5. row.status \in Verdict /\ c \notin disputed => row.tested = <<row.config, row.credential>>
      BY <1>2, <2>4, <3>1 DEF Alone
    <3>6. ASSUME NEW d \in Connector \ {c}, connectors'[d] # Null, connectors'[d].credential # Null
          PROVE  connectors'[d].credential # row.credential
      <4>1. connectors'[d] = connectors[d]
        BY <1>1, <2>4, <3>6, TablesAfter
      <4>2. row.credential # Null => row.credential \in Refs(p)
        BY <3>1 DEF Refs
      <4> QED
        BY <1>2, <2>4, <3>6, <4>1, <4>2 DEF Owns
    <3> QED
      BY <1>4, <2>1, <3>2, <3>3, <3>4, <3>5, <3>6 DEF StoredSound, SecretKept
  <2>5. CASE c # p.on \/ p.row = Null
    <3>1. row = connectors[c] /\ StoredSound(c)
      BY <1>1, <2>1, <2>5, TablesAfter DEF IInv, AllStoredSound
    <3>2. row.credential # Null /\ row.credential = p.credId => p.cred # Gone
      <4>1. CASE c = p.on
        BY <1>1, <2>1, <2>2, <4>1, TablesAfter
      <4>2. CASE c # p.on
        BY <1>2, <2>2, <2>3, <3>1, <4>2 DEF Owns
      <4> QED
        BY <4>1, <4>2
    <3>3. SecretKept(row)'
      BY <1>1, <2>2, <3>1, <3>2, TablesAfter DEF StoredSound, SecretKept
    <3>4. row.status \in Verdict => \E e \in outputs'[c] : e.content = row.status
      <4>1. outputs'[c] = IF c = p.on THEN outputs[c] \cup p.events ELSE outputs[c]
        BY <1>1, TablesAfter
      <4> QED
        BY <2>2, <3>1, <4>1 DEF StoredSound
    <3>5. ASSUME NEW d \in Connector \ {c}, connectors'[d] # Null, connectors'[d].credential # Null
          PROVE  connectors'[d].credential # row.credential
      <4>1. CASE connectors'[d] = connectors[d]
        BY <2>2, <3>1, <3>5, <4>1 DEF StoredSound
      <4>2. CASE connectors'[d] # connectors[d]
        <5>1. d = p.on /\ connectors'[d] = p.row /\ IsRow(p.row)
          BY <1>1, <3>5, <4>2, TablesAfter DEF IsRow
        <5>2. p.row.credential \in Refs(p)
          BY <3>5, <5>1 DEF Refs
        <5> QED
          BY <1>2, <2>2, <3>1, <5>1, <5>2 DEF Owns
      <4> QED
        BY <4>1, <4>2
    <3>6. row.status # "VALIDATING"
          /\ (row.status \in Verdict /\ c \notin disputed => row.tested = <<row.config, row.credential>>)
      BY <2>2, <3>1 DEF StoredSound
    <3> QED
      BY <1>4, <2>1, <3>3, <3>4, <3>5, <3>6 DEF StoredSound, SecretKept
  <2> QED
    BY <2>4, <2>5
<1> QED
  BY <1>5, <1>7, <1>8, <1>9, <1>10 DEF IInv, AllStoredSound

-----------------------------------------------------------------------------
(* The theorems.                                                           *)

\* Every step keeps the invariant.
LEMMA NextKeeps ==
  ASSUME IInv, [Next]_vars
  PROVE  IInv'
<1>1. ASSUME NEW s \in Session, Begins(s)
      PROVE  IInv'
  <2>1. NoArguments \in Arguments
    BY DEF NoArguments, Arguments
  <2> QED
    BY <1>1, <2>1, CreateConnectorKeeps, FindsKeeps DEF Begins, UpdateConnector, DeleteConnector, TestConnector
<1>2. ASSUME NEW s \in Session, Stores(s)
      PROVE  IInv'
  BY <1>2, StoresNoSecretKeeps, StoresSecretKeeps, InsertsConnectorKeeps, FlushesUpdateKeeps DEF Stores
<1>3. ASSUME NEW s \in Session, Deletes(s)
      PROVE  IInv'
  BY <1>3, DeletesCredentialKeeps, DeletesConnectorKeeps DEF Deletes
<1>4. ASSUME NEW s \in Session, Tests(s)
      PROVE  IInv'
  BY <1>4, FindsRowKeeps, MissesRowKeeps, ValidatesKeeps, ResolvesCredentialKeeps, ConnectsKeeps DEF Tests
<1>5. ASSUME NEW s \in Session, Commits(s) \/ RollsBack(s)
      PROVE  IInv'
  BY <1>5, CommitsKeep, RollsBackKeeps
<1>6. CASE UNCHANGED vars
  <2>1. /\ connectors' = connectors /\ credentials' = credentials /\ outputs' = outputs /\ key' = key
        /\ sessions' = sessions /\ disputed' = disputed
    BY <1>6 DEF vars
  <2>2. TypeOK'
    BY <2>1 DEF IInv, TypeOK
  <2>3. AllFit'
    BY <2>1 DEF IInv, AllFit, Fits, IsRow, IsOpen
  <2>4. AllSound'
    BY <2>1 DEF IInv, AllSound, Sound, SecretKept, Owns, Refs, IsRow, IsOpen
  <2>5. AllAlone'
    BY <2>1 DEF IInv, AllAlone, Alone, IsRow, IsOpen
  <2>6. AllApart'
    BY <2>1 DEF IInv, AllApart, Apart, Refs, IsRow, IsOpen
  <2>7. AllStoredSound'
    BY <2>1 DEF IInv, AllStoredSound, StoredSound, SecretKept
  <2> QED
    BY <2>2, <2>3, <2>4, <2>5, <2>6, <2>7 DEF IInv
<1> QED
  BY <1>1, <1>2, <1>3, <1>4, <1>5, <1>6, RestartKeeps DEF Next

\* So it holds in every behaviour.
THEOREM Inductive == Spec => []IInv
<1>1. Init => IInv
  <2> SUFFICES ASSUME Init
               PROVE  IInv
    OBVIOUS
  <2>1. TypeOK
    BY ConnectorAssumption DEF Init, TypeOK
  <2>2. \A s \in Session : ~IsOpen(s)
    BY DEF Init, IsOpen
  <2>3. AllStoredSound
    BY DEF Init, AllStoredSound, StoredSound
  <2> QED
    BY <2>1, <2>2, <2>3 DEF IInv, AllFit, AllSound, AllAlone, AllApart
<1>2. IInv /\ [Next]_vars => IInv'
  BY NextKeeps
<1> QED
  BY <1>1, <1>2, PTL DEF Spec

\* Rows, sessions and outputs are what the tables and the code hold.
THEOREM TypeCorrect == Spec => []TypeOK
<1>1. IInv => TypeOK
  BY DEF IInv
<1> QED
  BY <1>1, Inductive, PTL

\* A stored connector is never VALIDATING, and its credential is stored.
THEOREM SettledRows == Spec => []StoredIsSettled
<1>1. IInv => StoredIsSettled
  BY DEF IInv, AllStoredSound, StoredSound, StoredIsSettled, SecretKept
<1> QED
  BY <1>1, Inductive, PTL

\* A verdict is one of the outputs of the connector.
THEOREM ReportedVerdicts == Spec => []VerdictIsReported
<1>1. IInv => VerdictIsReported
  BY DEF IInv, AllStoredSound, StoredSound, VerdictIsReported
<1> QED
  BY <1>1, Inductive, PTL

\* A verdict holds for what is stored while only one request at a time is at work.
THEOREM UndisputedVerdicts == Spec => []UndisputedVerdictHolds
<1>1. IInv => UndisputedVerdictHolds
  BY DEF IInv, AllStoredSound, StoredSound, UndisputedVerdictHolds
<1> QED
  BY <1>1, Inductive, PTL

\* The verdict of a test is about what is stored with it.
THEOREM VerdictsOfStored == Spec => VerdictIsOfStored
<1>1. IInv /\ [Next]_vars =>
        [\A s \in Session : Commits(s) /\ sessions[s].op = "test" /\ sessions[s].row # Null =>
           LET row == connectors'[sessions[s].on] IN row.tested = <<row.config, row.credential>>]_vars
  <2> SUFFICES ASSUME IInv, NEW s \in Session, Commits(s), sessions[s].op = "test", sessions[s].row # Null
               PROVE  LET row == connectors'[sessions[s].on] IN row.tested = <<row.config, row.credential>>
    OBVIOUS
  <2>1. PICK p : p = sessions[s]
    OBVIOUS
  <2>2. p.on \in Connector /\ p.at = "flushed" /\ Fits(p) /\ p.op = "test" /\ p.row # Null
    BY <2>1, TablesAfter
  <2>3. p.row # Gone /\ p.row.tested = <<p.row.config, p.row.credential>>
    BY <2>2 DEF Fits
  <2>4. connectors'[p.on] = p.row
    BY <2>1, <2>2, <2>3, TablesAfter
  <2> QED
    BY <2>1, <2>3, <2>4
<1> QED
  BY <1>1, Inductive, PTL DEF Spec, VerdictIsOfStored

\* A test uses the secret given for the connector, or none under another key.
THEOREM GivenSecrets == Spec => TestUsesGivenSecret
<1>1. IInv /\ [Next]_vars =>
        [\A s \in Session : Commits(s) /\ sessions[s].op = "test" /\ sessions[s].row # Null =>
           \/ sessions[s].resolved = sessions[s].row.given
           \/ /\ sessions[s].resolved = Null /\ sessions[s].row.credential # Null
              /\ credentials[sessions[s].row.credential].key \notin {Null, key}]_vars
  <2> SUFFICES ASSUME IInv, NEW s \in Session, Commits(s), sessions[s].op = "test", sessions[s].row # Null
               PROVE  \/ sessions[s].resolved = sessions[s].row.given
                      \/ /\ sessions[s].resolved = Null /\ sessions[s].row.credential # Null
                         /\ credentials[sessions[s].row.credential].key \notin {Null, key}
    OBVIOUS
  <2>1. Sound(sessions[s]) /\ sessions[s].at = "flushed"
    BY TablesAfter
  <2> QED
    BY <2>1 DEF Sound
<1> QED
  BY <1>1, Inductive, PTL DEF Spec, TestUsesGivenSecret

\* Only requests at work on one connector at once leave a secret without a connector.
THEOREM NoSecretLeft == Spec => UndisputedLeavesNoSecret
<1>1. IInv /\ [Next]_vars =>
        [\A s \in Session : Commits(s) /\ sessions[s].on \notin disputed => Orphans' \subseteq Orphans]_vars
  <2> SUFFICES ASSUME IInv, NEW s \in Session, Commits(s), sessions[s].on \notin disputed,
                      NEW k \in Credential, k \in Orphans', k \notin Orphans
               PROVE  FALSE
    BY DEF Orphans
  <2>1. PICK p : p = sessions[s]
    OBVIOUS
  <2>2. /\ p.at = "flushed" /\ p \in Open /\ p.on \in Connector /\ Fits(p) /\ Sound(p) /\ Alone(p)
    BY <2>1, TablesAfter
  <2>3. credentials'[k] # Null /\ \A c \in Connector : connectors'[c] # Null => connectors'[c].credential # k
    BY DEF Orphans
  <2>4. PICK stored : stored = connectors[p.on]
    OBVIOUS
  <2>5. CASE k = p.credId
    <3>1. p.cred # Null /\ p.cred # Gone /\ p.op # "delete" /\ p.op # "test"
      BY <2>1, <2>2, <2>3, <2>5, TablesAfter, ConnectorAssumption DEF Fits
    <3>2. IsRow(p.row) /\ p.row.credential = k
      BY <2>2, <2>5, <3>1 DEF Fits, Alone, Sound, Open, Operation
    <3>3. connectors'[p.on] = p.row
      BY <2>1, <2>2, <3>2, TablesAfter DEF IsRow
    <3> QED
      BY <2>2, <2>3, <3>2, <3>3 DEF IsRow
  <2>6. CASE k # p.credId
    <3>1. credentials[k] # Null
      BY <2>1, <2>3, <2>6, TablesAfter
    <3>2. PICK c \in Connector : connectors[c] # Null /\ connectors[c].credential = k
      BY <3>1 DEF Orphans
    <3>3. c = p.on /\ p.row # Null
      BY <2>1, <2>3, <3>2, TablesAfter
    <3>4. stored # Null /\ stored.credential = k /\ k # Null
      BY <2>4, <3>2, <3>3, ConnectorAssumption
    <3>5. CASE p.row = Gone
      BY <2>2, <2>4, <2>6, <3>4, <3>5 DEF Alone, Fits, Open, Operation
    <3>6. CASE p.row # Gone
      <4>1. p.row.credential = k
        BY <2>2, <2>4, <3>3, <3>4, <3>6 DEF Alone, Sound, Fits, Open, Operation, IsRow
      <4> QED
        BY <2>1, <2>2, <2>3, <3>3, <3>6, <4>1, TablesAfter
    <3> QED
      BY <3>5, <3>6
  <2> QED
    BY <2>5, <2>6
<1> QED
  BY <1>1, Inductive, PTL DEF Spec, UndisputedLeavesNoSecret
=============================================================================
