-------------------------- MODULE ProcessingRecord --------------------------
(***************************************************************************)
(* One row of SQLite table `processing_records`, and every statement of    *)
(* storage/processing_repository.py that updates it.  Each operator is one *)
(* committed transaction: it maps the row before to the row after.         *)
(*                                                                         *)
(* Columns kept: status, failed_stage, attempt_count, pipeline_version,    *)
(* processing_generation, api_commit_status (as a Boolean, "committed" or  *)
(* not) and requires_manual_review.  Timestamps, error texts, the          *)
(* dashboard columns and next_retry_at are left out: the back-off only     *)
(* delays an attempt, so "the delay has passed" is always a possible case. *)
(***************************************************************************)
EXTENDS Naturals

CONSTANTS
  MaxAttempts,         \* retries.max_attempts
  PermanentErrorRetry  \* retries.permanent_error_retry

ASSUME RetryAssumption ==
  /\ MaxAttempts \in Nat \ {0}
  /\ PermanentErrorRetry \in BOOLEAN

Statuses == {"discovered", "processing", "attachments_processed", "summarized",
             "result_committed", "completed", "retryable_error", "permanent_error"}

\* The value of get() before the first ensure(): no row.
NoRecord == [exists |-> FALSE, status |-> "discovered", failed |-> "none", attempts |-> 0,
             ver |-> 0, gen |-> 0, committed |-> FALSE, review |-> FALSE]

\* The possible rows, given the stages that can fail; versions are numbered from 1.
Records(stages) ==
  [exists : BOOLEAN, status : Statuses, failed : stages \cup {"none"}, attempts : Nat,
   ver : Nat, gen : Nat, committed : BOOLEAN, review : BOOLEAN]

-----------------------------------------------------------------------------
\* Mutant: a new generation inherits the confirmation of the old one.
NewGenerationStaysCommitted(r) ==
  [r EXCEPT !.status = "discovered", !.gen = @ + 1, !.failed = "none", !.review = FALSE]

\* What both a version change and --reprocess do: a new generation from scratch.
NewGeneration(r) ==
  [r EXCEPT !.status = "discovered", !.gen = @ + 1, !.failed = "none",
            !.committed = FALSE, !.review = FALSE]

Ensure(r, version) ==
  CASE ~r.exists         -> [NoRecord EXCEPT !.exists = TRUE, !.ver = version]
    [] r.exists /\ r.ver # version -> [NewGeneration(r) EXCEPT !.ver = version]
    [] OTHER             -> r

MayAttempt(r) ==
  /\ r.status = "permanent_error" => PermanentErrorRetry
  /\ r.status # "completed"

\* A new attempt at the whole message.  failed_stage is not touched.
StartAttempt(r) ==
  [r EXCEPT !.status = "processing", !.attempts = @ + 1, !.review = FALSE]

SetStage(r, status) == [r EXCEPT !.status = status]

\* Mutant: the status of the old workbook pipeline, which the migration removed.
ResultCommittedToTable(r) == [r EXCEPT !.status = "table_committed", !.committed = TRUE]

ResultCommitted(r) == [r EXCEPT !.status = "result_committed", !.committed = TRUE]

Completed(r) == [r EXCEPT !.status = "completed"]

MarkManualReview(r) == [r EXCEPT !.review = TRUE]

Error(r, stage, permanent) ==
  [r EXCEPT !.failed = stage,
            !.status = IF ~permanent /\ r.attempts < MaxAttempts
                       THEN "retryable_error" ELSE "permanent_error"]

Failures(includePermanent) ==
  IF includePermanent THEN {"retryable_error", "permanent_error"} ELSE {"retryable_error"}

RequeueFailed(r) == [r EXCEPT !.status = "discovered", !.failed = "none"]

=============================================================================
