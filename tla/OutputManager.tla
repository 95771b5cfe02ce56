---------------------------- MODULE OutputManager ----------------------------
(***************************************************************************)
(* The output events of an execution (app/output/manager.py), and what its *)
(* repository stores of them.  A text is whatever the caller prints; the   *)
(* empty one makes no event.                                               *)
(***************************************************************************)
EXTENDS Naturals, Sequences, FiniteSets

CONSTANT NoText

OutputType == {"STDOUT", "STDERR", "TRACEBACK", "RESULT"}

\* The streams in the order in which they are looked at; RESULT stands for an
\* execution that went well and printed nothing.
Streams(stdout, stderr, traceback, status) ==
  <<[output_type |-> "STDOUT", content |-> stdout],
    [output_type |-> "STDERR", content |-> stderr],
    [output_type |-> "TRACEBACK", content |-> traceback],
    [output_type |-> "RESULT",
     content |-> IF status \in {"ok", "succeeded"} /\ stdout = NoText /\ traceback = NoText THEN "Success" ELSE NoText]>>

\* Each text that is there makes an event, numbered in the order of the streams.
CreateOutputEvents(stdout, stderr, traceback, status) ==
  LET streams == Streams(stdout, stderr, traceback, status)
      printed == {i \in DOMAIN streams : streams[i].content # NoText}
  IN {[output_type |-> streams[i].output_type, content |-> streams[i].content,
       sequence |-> Cardinality({j \in printed : j <= i})] : i \in printed}

\* bulk_create: the records of one execution, told apart by what a reader of
\* list_by_execution_id sees of them.
BulkCreate(stored, events) == stored \cup events
=============================================================================
