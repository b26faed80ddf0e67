----------------------------- MODULE NodeJournal -----------------------------
(***************************************************************************)
(* SQLite table `node_executions`: the journal of graph node executions,   *)
(* keyed by execution_key.  Every operator is one transaction of           *)
(* storage/processing_repository.py.                                       *)
(*                                                                         *)
(* A row holds its status and its output_json (NoOutput is SQL NULL).      *)
(* The attempts table and its counters only feed the dashboard and are     *)
(* left out; "queued" is never seen outside the claiming transaction.      *)
(***************************************************************************)
CONSTANT NoOutput

RowStatuses == {"running", "completed", "retryable_error", "permanent_error", "invalidated"}

Rows(outputs) == [status : RowStatuses, output : outputs \cup {NoOutput}]

WithRow(journal, key, row) ==
  [k \in DOMAIN journal \cup {key} |-> IF k = key THEN row ELSE journal[k]]

HasStatus(journal, key, status) == key \in DOMAIN journal /\ journal[key].status = status

-----------------------------------------------------------------------------
\* What claim_node_execution decides before it changes anything.
Reusable(journal, key) ==
  HasStatus(journal, key, "completed") /\ journal[key].output # NoOutput

Busy(journal, key) == HasStatus(journal, key, "running")

\* ... and what it does when the decision is "execute": the old output is erased.
ClaimRow(journal, key) ==
  WithRow(journal, key, [status |-> "running", output |-> NoOutput])

StoreResult(journal, key, output) ==
  [journal EXCEPT ![key].output = output]

\* Raises when the row has no output; otherwise only these two statuses move.
CanComplete(journal, key) == key \in DOMAIN journal /\ journal[key].output # NoOutput

CompleteRow(journal, key) ==
  IF journal[key].status \in {"running", "retryable_error"}
  THEN [journal EXCEPT ![key].status = "completed"]
  ELSE journal

\* Mutant: the failure is not written to the row.
FailRowLeftRunning(journal, key, permanent) == journal

FailRow(journal, key, permanent) ==
  [journal EXCEPT ![key].status = IF permanent THEN "permanent_error" ELSE "retryable_error"]

\* Mutants: a start releases nothing, or erases the outputs with the claims.
RecoverNothing(journal) == journal

RecoverErasingOutputs(journal) ==
  [k \in DOMAIN journal |->
     IF journal[k].status = "running"
     THEN [status |-> "retryable_error", output |-> NoOutput] ELSE journal[k]]

\* Releases what a stopped process left running; stored outputs survive.
RecoverAbandoned(journal) ==
  [k \in DOMAIN journal |->
     IF journal[k].status = "running"
     THEN [journal[k] EXCEPT !.status = "retryable_error"] ELSE journal[k]]

\* --reprocess gives up every row of the record.
InvalidateAll(journal) ==
  [k \in DOMAIN journal |-> [journal[k] EXCEPT !.status = "invalidated"]]

=============================================================================
