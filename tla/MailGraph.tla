------------------------------ MODULE MailGraph ------------------------------
(***************************************************************************)
(* The durable pipeline of one e-mail message: agent/.../graph/builder.py  *)
(* run by the polling worker or by a CLI command, with the SQLite record,  *)
(* the node journal, the LangGraph checkpoint and the temporary files it   *)
(* depends on, the Results API and the mailbox flag it changes.            *)
(*                                                                         *)
(* A logical node takes two supersteps.  In the first the guarded node     *)
(* claims its journal row, does its work, stores the output and LangGraph  *)
(* checkpoints the resulting state.  In the second, X__checkpointed, the   *)
(* journal row is completed, the record moves and a second checkpoint is   *)
(* written.  The process may die between any two of these steps.           *)
(*                                                                         *)
(* LangGraph and its SqliteSaver are external: a checkpoint is taken to be *)
(* durable before the next superstep starts, as _finalize_node assumes.    *)
(***************************************************************************)
EXTENDS ProcessingRecord, NodeJournal, ResultsStore

CONSTANTS
  MarkRead,       \* mail.mark_read_after_success
  UnreadOnly,     \* mail.unread_only
  HasAttachments, \* the message has attachments
  StableDate,     \* the message's date parses, so received_at is always the same
  CleanSummaries, \* the summaries the model may write when all went well
  MaxFaults,      \* bound: failing nodes and lost requests
  MaxCrashes,     \* bound: deaths of the process
  MaxEscapes,     \* bound: exceptions that escape graph.run
  MaxCommands     \* bound: CLI commands, worker stops and deployments

ASSUME SettingsAssumption ==
  /\ MarkRead \in BOOLEAN /\ UnreadOnly \in BOOLEAN
  /\ HasAttachments \in BOOLEAN /\ StableDate \in BOOLEAN

VARIABLES
  record,   \* the row of processing_records
  journal,  \* the rows of node_executions
  ckpt,     \* the latest checkpoint: channel values and what runs next
  patched,  \* the channel values the superstep under way will checkpoint
  phase,    \* where the process is within _process and the superstep
  proc,     \* the process holding CoreWorkerLock: "down", "worker" or "command"
  code,     \* the pipeline version the process runs
  store,    \* what the Results API has committed
  inflight, \* PUT requests the API may still handle
  reply,    \* the answer that is waiting for the client
  seen,     \* the \Seen flag in the mailbox
  spent     \* how often each bounded event has happened

vars == <<record, journal, ckpt, patched, phase, proc, code, store, inflight,
          reply, seen, spent>>

-----------------------------------------------------------------------------
(* The nodes and the edges between them.                                   *)

LogicalNodes ==
  {"check_idempotency", "fetch_message", "normalize_message",
   "collect_attachment_metadata", "plan_attachments", "process_attachments",
   "validate_extractions", "summarize_message", "prepare_api_record",
   "persist_result_via_api", "commit_processing_state", "mark_message_as_read",
   "complete"}

Nodes == LogicalNodes \cup {"manual_review"}

\* The destination of the "next" branch of each X__checkpointed.
Following ==
  [check_idempotency           |-> "fetch_message",
   fetch_message               |-> "normalize_message",
   normalize_message           |-> "collect_attachment_metadata",
   collect_attachment_metadata |-> "plan_attachments",
   plan_attachments            |-> "process_attachments",
   process_attachments         |-> "validate_extractions",
   validate_extractions        |-> "summarize_message",
   summarize_message           |-> "prepare_api_record",
   prepare_api_record          |-> "persist_result_via_api",
   persist_result_via_api      |-> "commit_processing_state",
   commit_processing_state     |-> "mark_message_as_read",
   mark_message_as_read        |-> "complete",
   complete                    |-> "end",
   manual_review               |-> "prepare_api_record"]

ManualReviewStages ==
  {"normalize_message", "collect_attachment_metadata", "plan_attachments",
   "process_attachments", "validate_extractions", "summarize_message",
   "prepare_api_record"}

\* Nodes whose output is not reused while the state lists no attachments.
AttachmentByteNodes ==
  {"collect_attachment_metadata", "plan_attachments", "process_attachments",
   "persist_result_via_api"}

\* Nodes that can raise PermanentError of their own accord.
PermanentStages ==
  {"check_idempotency", "fetch_message", "collect_attachment_metadata",
   "summarize_message", "persist_result_via_api"}

-----------------------------------------------------------------------------
(* Channel values.  `data` is what the execution key hashes (the durable   *)
(* part); the other fields are the ephemeral ones the key leaves out.      *)

Summaries == CleanSummaries \cup {"none", "review"}

Data == [metadata : BOOLEAN, normalized : BOOLEAN, attachments : BOOLEAN,
         unavailable : BOOLEAN, plans : BOOLEAN, results : {"none", "ok", "skipped"},
         summary : Summaries, apiRecord : Nat, apiCommit : BOOLEAN]

InitialData ==
  [metadata |-> FALSE, normalized |-> FALSE, attachments |-> FALSE, unavailable |-> FALSE,
   plans |-> FALSE, results |-> "none", summary |-> "none", apiRecord |-> 0,
   apiCommit |-> FALSE]

\* SQL NULL is not the JSON text of any output.
ASSUME NoOutputAssumption == NoOutput \notin Data

Keys == [stage : Nodes \cup {"none"}, ver : Nat, gen : Nat, data : Data]

NoKey == [stage |-> "none", ver |-> 0, gen |-> 0, data |-> InitialData]

\* Where the file is that raw_email_path names: no path, in the temporary
\* directory of this run, in one that outlived its run, or nowhere any more.
Places == {"none", "ours", "leftover", "gone"}

States == [data : Data, gen : Nat, ver : Nat, status : Statuses,
           failed : Nodes \cup {"none"}, pending : Keys, raw : Places, dirOurs : BOOLEAN]

InitialState(gen, ver) ==
  [data |-> InitialData, gen |-> gen, ver |-> ver, status |-> "discovered",
   failed |-> "none", pending |-> NoKey, raw |-> "none", dirOurs |-> TRUE]

FilesExist(s) == s.raw \in {"ours", "leftover"}

\* What is left of the paths once the run is over: its directory is removed,
\* or (kept) outlives a process that had no chance to clean up.
Relocate(s, kept) ==
  [s EXCEPT !.dirOurs = FALSE,
            !.raw = IF @ = "ours" THEN (IF kept THEN "leftover" ELSE "gone") ELSE @]

KeyOf(s, node) == [stage |-> node, ver |-> s.ver, gen |-> s.gen, data |-> s.data]

-----------------------------------------------------------------------------
(* Bounded events.                                                         *)

Zero == [faults |-> 0, crashes |-> 0, escapes |-> 0, commands |-> 0, requeues |-> 0,
         prepared |-> 0]

Count(event) == spent' = [spent EXCEPT ![event] = @ + 1]

Bound == [faults |-> MaxFaults, crashes |-> MaxCrashes, escapes |-> MaxEscapes,
          commands |-> MaxCommands]

Spend(event) == spent[event] < Bound[event] /\ Count(event)

-----------------------------------------------------------------------------
(* Starting and stopping a process.  A start takes CoreWorkerLock and      *)
(* releases the rows a dead process left running, before anything else.    *)

StartWorker ==
  /\ proc = "down"
  /\ proc' = "worker"
  /\ journal' = RecoverAbandoned(journal)
  /\ UNCHANGED <<record, ckpt, patched, phase, code, store, inflight, reply, seen, spent>>

\* SIGTERM between two messages.
StopWorker ==
  /\ proc = "worker" /\ phase = "idle"
  /\ Spend("commands")
  /\ proc' = "down"
  /\ UNCHANGED <<record, journal, ckpt, patched, phase, code, store, inflight, reply, seen>>

Deploy ==
  /\ proc = "down"
  /\ Spend("commands")
  /\ code' = code + 1
  /\ UNCHANGED <<record, journal, ckpt, patched, phase, proc, store, inflight, reply, seen>>

Command(nextPhase) ==
  /\ proc = "down"
  /\ spent.commands < MaxCommands
  /\ proc' = "command"
  /\ phase' = nextPhase
  /\ UNCHANGED <<ckpt, patched, code, store, inflight, reply, seen>>

\* mail-agent process --uid, for a message without a Message-ID: the command does
\* not know that header, so for any other message it works on a record of its own.
ProcessCommand ==
  /\ Command("asked") /\ Count("commands")
  /\ journal' = RecoverAbandoned(journal)
  /\ UNCHANGED record

\* mail-agent process --uid --reprocess
ReprocessCommand ==
  /\ record.exists
  /\ record.status \in {"completed", "retryable_error", "permanent_error"}
  /\ Command("forced") /\ Count("commands")
  /\ record' = NewGeneration(record)
  /\ journal' = InvalidateAll(journal)

\* mail-agent retry-failed [--include-permanent]
RetryCommand(includePermanent) ==
  /\ record.exists
  /\ record.status \in Failures(includePermanent)
  /\ Command("forced")
  /\ spent' = [spent EXCEPT !.commands = @ + 1, !.requeues = @ + 1]
  /\ record' = RequeueFailed(record)
  /\ journal' = RecoverAbandoned(journal)

-----------------------------------------------------------------------------
(* PollingWorker._process up to graph.run: take the message or defer it.   *)

Ensured == Ensure(record, code)

Listed == UnreadOnly => ~seen

Accept ==
  /\ \/ proc = "worker" /\ phase = "idle" /\ Listed /\ MayAttempt(Ensured)
     \/ phase = "asked" /\ MayAttempt(Ensured)
     \/ phase = "forced"
  /\ record' = Ensured
  /\ phase' = "accepted"
  /\ UNCHANGED <<journal, ckpt, patched, proc, code, store, inflight, reply, seen, spent>>

Defer ==
  /\ phase = "asked" /\ ~MayAttempt(Ensured)
  /\ phase' = "idle" /\ proc' = "down"
  /\ UNCHANGED <<record, journal, ckpt, patched, code, store, inflight, reply, seen, spent>>

-----------------------------------------------------------------------------
(* MessageGraph._run: continue the checkpoint, resume at the failed node,  *)
(* or start from the beginning.                                            *)

\* Mutant: an interrupted run is not recognised, only a finished one.
SameRunIfEnded ==
  ckpt.next = "end" /\ ckpt.s.gen = record.gen /\ ckpt.s.ver = code

SameRun ==
  ckpt.next # "none" /\ ckpt.s.gen = record.gen /\ ckpt.s.ver = code

FailedStage == IF ckpt.s.failed # "none" THEN ckpt.s.failed ELSE record.failed

\* Only a logical node with a predecessor can be resumed.
Resumable(stage) == stage \in LogicalNodes \ {"check_idempotency"}

Begin(s, next, half) ==
  /\ ckpt' = [s |-> s, next |-> next, half |-> half]
  /\ patched' = s
  /\ phase' = "ready"
  /\ UNCHANGED <<journal, proc, code, store, inflight, reply, seen, spent>>

Continue ==
  /\ phase = "accepted"
  /\ SameRun /\ ckpt.next # "end" /\ FailedStage = "none"
  /\ Begin(ckpt.s, ckpt.next, ckpt.half)
  /\ UNCHANGED record

RestartFailed ==
  /\ phase = "accepted"
  /\ SameRun /\ Resumable(FailedStage)
  /\ record' = StartAttempt(record)
  /\ phase' = "rewinding"
  /\ UNCHANGED <<journal, ckpt, patched, proc, code, store, inflight, reply, seen, spent>>

Refetch ==
  ~FilesExist(ckpt.s) /\ FailedStage \notin {"mark_message_as_read", "complete"}

\* update_state(patch, as_node = the predecessor), so the edge out of the
\* predecessor leads to the node to resume.
Rewind ==
  LET cleared == [ckpt.s EXCEPT !.failed = "none", !.status = "processing", !.pending = NoKey]
  IN  /\ phase = "rewinding"
      /\ IF Refetch
         THEN Begin([cleared EXCEPT !.raw = "none", !.dirOurs = TRUE], "fetch_message", "action")
         ELSE Begin(cleared, FailedStage, "action")
      /\ UNCHANGED record

StartFresh ==
  /\ phase = "accepted"
  /\ ~(SameRun /\ ckpt.next # "end" /\ FailedStage = "none")
  /\ ~(SameRun /\ Resumable(FailedStage))
  /\ Begin(InitialState(record.gen, code), "check_idempotency", "action")
  /\ UNCHANGED record

-----------------------------------------------------------------------------
(* First superstep of a node, _guard: claim, work, store, checkpoint.      *)

AtNode(n) == ckpt.next = n /\ ckpt.half = "action"
AtFinal(n) == ckpt.next = n /\ ckpt.half = "finalize"

\* fetch's paths are never part of the stored output, so it never qualifies.
CanReuseOutput(n, s) ==
  /\ n # "fetch_message"
  /\ n \in AttachmentByteNodes => s.data.attachments

\* What a guarded node returns instead of its output when it failed.
FailedState(n, permanent) ==
  [ckpt.s EXCEPT !.failed = n, !.pending = NoKey,
                 !.status = IF permanent THEN "permanent_error" ELSE "retryable_error"]

\* A cached output has lost its status and failed_stage: they are ephemeral.
Reuse(n) ==
  LET key == KeyOf(ckpt.s, n)
  IN  /\ phase = "ready" /\ AtNode(n)
      /\ Reusable(journal, key) /\ CanReuseOutput(n, ckpt.s)
      /\ patched' = [ckpt.s EXCEPT !.data = journal[key].output, !.pending = NoKey]
      /\ phase' = "patched"
      /\ UNCHANGED <<record, journal, ckpt, proc, code, store, inflight, reply, seen, spent>>

FindBusy(n) ==
  /\ phase = "ready" /\ AtNode(n)
  /\ Busy(journal, KeyOf(ckpt.s, n))
  /\ patched' = FailedState(n, FALSE)
  /\ phase' = "patched"
  /\ UNCHANGED <<record, journal, ckpt, proc, code, store, inflight, reply, seen, spent>>

\* Also when a reusable row was found unfit: it is invalidated and claimed anew.
Claim(n) ==
  LET key == KeyOf(ckpt.s, n)
  IN  /\ phase = "ready" /\ AtNode(n)
      /\ ~Busy(journal, key)
      /\ ~(Reusable(journal, key) /\ CanReuseOutput(n, ckpt.s))
      /\ journal' = ClaimRow(journal, key)
      /\ phase' = "claimed"
      /\ UNCHANGED <<record, ckpt, patched, proc, code, store, inflight, reply, seen, spent>>

\* The node's own work has produced the state s.
Produce(n, s) ==
  /\ phase = "claimed" /\ AtNode(n)
  /\ patched' = s
  /\ phase' = "executed"
  /\ UNCHANGED <<journal, ckpt, proc, code, store, inflight, reply>>

ProduceData(n, data) ==
  /\ Produce(n, [ckpt.s EXCEPT !.data = data])
  /\ UNCHANGED <<record, seen, spent>>

CheckIdempotency ==
  LET known == record.status \in {"completed", "result_committed"}
  IN  /\ Produce("check_idempotency",
                 [ckpt.s EXCEPT !.status = IF known THEN record.status ELSE "processing"])
      /\ record' = IF known THEN record ELSE StartAttempt(record)
      /\ UNCHANGED <<seen, spent>>

\* The directory is created again if the path in the state is an earlier run's.
FetchMessage ==
  /\ Produce("fetch_message",
             [ckpt.s EXCEPT !.data.metadata = TRUE,
                            !.raw = IF ckpt.s.dirOurs THEN "ours" ELSE "leftover"])
  /\ UNCHANGED <<record, seen, spent>>

Normalize == ProduceData("normalize_message", [ckpt.s.data EXCEPT !.normalized = TRUE])

\* An attachment whose payload file is missing is named as unavailable; the
\* list of those names only ever grows.
Collect ==
  LET readable == FilesExist(ckpt.s)
  IN  ProduceData("collect_attachment_metadata",
                  [ckpt.s.data EXCEPT !.attachments = HasAttachments /\ readable,
                                      !.unavailable = @ \/ (HasAttachments /\ ~readable)])

Plan == ProduceData("plan_attachments", [ckpt.s.data EXCEPT !.plans = TRUE])

\* Any attachment may turn out unprocessable: it is then skipped, not an error.
Outcomes == IF ckpt.s.data.attachments THEN {"ok", "skipped"} ELSE {"ok"}

Process ==
  \E outcome \in Outcomes :
    /\ Produce("process_attachments", [ckpt.s EXCEPT !.data.results = outcome,
                                                     !.status = "attachments_processed"])
    /\ UNCHANGED <<record, seen, spent>>

\* Correcting a doubtful OCR text may fail, which skips the attachment as well.
Validate ==
  \E outcome \in IF ckpt.s.data.results = "ok" THEN Outcomes ELSE {ckpt.s.data.results} :
    ProduceData("validate_extractions", [ckpt.s.data EXCEPT !.results = outcome])

Summarize ==
  LET doubtful == ckpt.s.data.results = "skipped" \/ ckpt.s.data.unavailable
  IN  /\ \E summary \in IF doubtful THEN {"review"} ELSE CleanSummaries :
           Produce("summarize_message", [ckpt.s EXCEPT !.data.summary = summary,
                                                       !.status = "summarized"])
      /\ record' = IF doubtful THEN MarkManualReview(record) ELSE record
      /\ UNCHANGED <<seen, spent>>

\* processed_at is the time of this execution, so the payload is a new one.
NextPayload == spent.prepared + 1

Prepare ==
  /\ Produce("prepare_api_record", [ckpt.s EXCEPT !.data.apiRecord = NextPayload])
  /\ Count("prepared")
  /\ UNCHANGED <<record, seen>>

ManualReview ==
  /\ Produce("manual_review",
             [ckpt.s EXCEPT !.data.summary = "review", !.data.apiRecord = NextPayload,
                            !.failed = "none", !.status = "processing"])
  /\ record' = MarkManualReview(record)
  /\ Count("prepared")
  /\ UNCHANGED seen

CommitState ==
  /\ Produce("commit_processing_state", [ckpt.s EXCEPT !.status = "result_committed"])
  /\ UNCHANGED <<record, seen, spent>>

MarkAsRead ==
  /\ Produce("mark_message_as_read", ckpt.s)
  /\ seen' = (MarkRead \/ seen)
  /\ UNCHANGED <<record, spent>>

CompleteMessage ==
  /\ Produce("complete", [ckpt.s EXCEPT !.status = "completed"])
  /\ UNCHANGED <<record, seen, spent>>

-----------------------------------------------------------------------------
(* persist_result_via_api: the client's PUT, which the API may handle at   *)
(* any later time, even after the client has given up.                     *)

\* Mutant: the message counts as received when its record is prepared.
RequestReceivedNow ==
  LET data == ckpt.s.data
  IN  [gen |-> ckpt.s.gen, fingerprint |-> data.apiRecord, received |-> data.apiRecord,
       review |-> data.summary = "review"]

Request ==
  LET data == ckpt.s.data
  IN  [gen |-> ckpt.s.gen, fingerprint |-> data.apiRecord,
       received |-> IF StableDate THEN 0 ELSE data.apiRecord,
       review |-> data.summary = "review"]

\* fail_node_execution and the state the failed node returns.
Fail(n, permanent) ==
  /\ journal' = FailRow(journal, KeyOf(ckpt.s, n), permanent)
  /\ patched' = FailedState(n, permanent)
  /\ phase' = "patched"
  /\ UNCHANGED <<record, ckpt, proc, code, store, seen>>

Send ==
  /\ phase = "claimed" /\ AtNode("persist_result_via_api")
  /\ FilesExist(ckpt.s)
  /\ inflight' = inflight \cup {Request}
  /\ phase' = "sent"
  /\ UNCHANGED <<record, journal, ckpt, patched, proc, code, store, reply, seen, spent>>

\* No path in the state is a temporary error, a path without a file a permanent one.
SendWithoutFile ==
  /\ phase = "claimed" /\ AtNode("persist_result_via_api")
  /\ ~FilesExist(ckpt.s)
  /\ Fail("persist_result_via_api", ckpt.s.raw = "gone")
  /\ UNCHANGED <<inflight, reply, spent>>

ApiHandles(request) ==
  /\ request \in inflight
  /\ inflight' = inflight \ {request}
  /\ store' = CommitRequest(store, request)
  /\ reply' = IF phase = "sent" /\ request = Request
              THEN IF Conflicts(store, request) THEN "conflict" ELSE "committed"
              ELSE reply
  /\ UNCHANGED <<record, journal, ckpt, patched, phase, proc, code, seen, spent>>

\* A request that never arrives, or that the API answers with 5xx.
LoseRequest(request) ==
  /\ request \in inflight
  /\ Spend("faults")
  /\ inflight' = inflight \ {request}
  /\ UNCHANGED <<record, journal, ckpt, patched, phase, proc, code, store, reply, seen>>

LoseReply ==
  /\ phase = "sent" /\ reply # "none"
  /\ Spend("faults")
  /\ reply' = "none"
  /\ UNCHANGED <<record, journal, ckpt, patched, phase, proc, code, store, inflight, seen>>

SendAgain ==
  /\ phase = "sent" /\ reply = "none" /\ Request \notin inflight
  /\ inflight' = inflight \cup {Request}
  /\ UNCHANGED <<record, journal, ckpt, patched, phase, proc, code, store, reply, seen, spent>>

ReceiveCommit ==
  /\ phase = "sent" /\ reply = "committed"
  /\ reply' = "none"
  /\ patched' = [ckpt.s EXCEPT !.data.apiCommit = TRUE]
  /\ phase' = "executed"
  /\ UNCHANGED <<record, journal, ckpt, proc, code, store, inflight, seen, spent>>

ReceiveConflict ==
  /\ phase = "sent" /\ reply = "conflict"
  /\ reply' = "none"
  /\ Fail("persist_result_via_api", TRUE)
  /\ UNCHANGED <<inflight, spent>>

\* Mutant: an unanswered PUT counts as committed.
GiveUpAsCommitted ==
  /\ phase = "sent" /\ reply = "none"
  /\ Spend("faults")
  /\ patched' = [ckpt.s EXCEPT !.data.apiCommit = TRUE]
  /\ phase' = "executed"
  /\ UNCHANGED <<record, journal, ckpt, proc, code, store, inflight, reply, seen>>

\* max_retries is used up; a request may still be under way.
GiveUp ==
  /\ phase = "sent" /\ reply = "none"
  /\ Spend("faults")
  /\ Fail("persist_result_via_api", FALSE)
  /\ UNCHANGED <<inflight, reply>>

-----------------------------------------------------------------------------
(* The rest of the two supersteps, and the failure node.                   *)

\* A node raises before it did anything, or after its effect but before its
\* output is stored: that second failure is always a temporary one.
NodeFails(n, permanent) ==
  /\ phase \in {"claimed", "executed"} /\ AtNode(n)
  /\ permanent => phase = "claimed" /\ n \in PermanentStages
  /\ Spend("faults")
  /\ Fail(n, permanent)
  /\ UNCHANGED <<inflight, reply>>

StoreOutput(n) ==
  LET key == KeyOf(ckpt.s, n)
  IN  /\ phase = "executed" /\ AtNode(n)
      /\ journal' = StoreResult(journal, key, patched.data)
      /\ patched' = [patched EXCEPT !.pending = key]
      /\ phase' = "patched"
      /\ UNCHANGED <<record, ckpt, proc, code, store, inflight, reply, seen, spent>>

Checkpoint ==
  /\ phase = "patched"
  /\ ckpt' = IF ckpt.next = "failure"
             THEN [s |-> patched, next |-> "end", half |-> "action"]
             ELSE [s |-> patched, next |-> ckpt.next, half |-> "finalize"]
  /\ phase' = "ready"
  /\ UNCHANGED <<record, journal, patched, proc, code, store, inflight, reply, seen, spent>>

RecordingNodes ==
  {"process_attachments", "summarize_message", "commit_processing_state", "complete"}

ConfirmNode(n) ==
  /\ phase = "ready" /\ AtFinal(n) /\ ckpt.s.pending.stage = n
  /\ CanComplete(journal, ckpt.s.pending)
  /\ journal' = CompleteRow(journal, ckpt.s.pending)
  /\ phase' = IF n \in RecordingNodes THEN "confirmed" ELSE "finalized"
  /\ UNCHANGED <<record, ckpt, patched, proc, code, store, inflight, reply, seen, spent>>

RecordNode(n) ==
  /\ phase = "confirmed" /\ AtFinal(n) /\ n \in RecordingNodes
  /\ record' = CASE n = "process_attachments"     -> SetStage(record, "attachments_processed")
                 [] n = "summarize_message"       -> SetStage(record, "summarized")
                 [] n = "commit_processing_state" -> ResultCommitted(record)
                 [] n = "complete"                -> Completed(record)
  /\ phase' = "finalized"
  /\ UNCHANGED <<journal, ckpt, patched, proc, code, store, inflight, reply, seen, spent>>

\* Mutants: a failure of recording the commit, or of setting the flag, is passed over.
RouteErrorExceptCommit(n, s) ==
  CASE s.failed = "none" \/ n = "commit_processing_state" -> Following[n]
    [] s.failed # "none" /\ s.status # "retryable_error" /\ s.failed \in ManualReviewStages
         /\ n # "commit_processing_state"     -> "manual_review"
    [] OTHER                                   -> "failure"

RouteErrorExceptMark(n, s) ==
  CASE s.failed = "none" \/ n = "mark_message_as_read" -> Following[n]
    [] s.failed # "none" /\ s.status # "retryable_error" /\ s.failed \in ManualReviewStages
                                               -> "manual_review"
    [] OTHER                                   -> "failure"

\* The conditional edges: route_after_check, route_after_fetch, route_error.
RouteError(n, s) ==
  CASE s.failed = "none"                -> Following[n]
    [] s.failed # "none" /\ s.status # "retryable_error" /\ s.failed \in ManualReviewStages
                                        -> "manual_review"
    [] OTHER                            -> "failure"

Route(n, s) ==
  CASE n = "check_idempotency" /\ s.failed = "none" /\ s.status = "completed" -> "end"
    [] n \in {"check_idempotency", "fetch_message"} /\ s.failed = "none"
         /\ s.status = "result_committed"      -> "mark_message_as_read"
    [] n \in {"check_idempotency", "fetch_message"} /\ s.failed # "none" -> "failure"
    [] OTHER                                   -> RouteError(n, s)

\* manual_review__checkpointed has no edge back to manual_review.
HasEdge(n, s) == ~(n = "manual_review" /\ Route(n, s) = "manual_review")

FinalCheckpoint(n) ==
  LET s == [ckpt.s EXCEPT !.pending = NoKey]
  IN  /\ AtFinal(n)
      /\ phase = "finalized" \/ (phase = "ready" /\ ckpt.s.pending.stage # n)
      /\ HasEdge(n, s)
      /\ ckpt' = [s |-> s, next |-> Route(n, s), half |-> "action"]
      /\ patched' = s
      /\ phase' = "ready"
      /\ UNCHANGED <<record, journal, proc, code, store, inflight, reply, seen, spent>>

RecordFailure ==
  /\ phase = "ready" /\ AtNode("failure")
  /\ record' = Error(record, ckpt.s.failed, ckpt.s.status = "permanent_error")
  /\ patched' = [ckpt.s EXCEPT !.status = record'.status]
  /\ phase' = "patched"
  /\ UNCHANGED <<journal, ckpt, proc, code, store, inflight, reply, seen, spent>>

-----------------------------------------------------------------------------
(* The end of a run: normal, by an escaping exception, or by a crash.      *)

\* A CLI command is done with its message; the worker polls again.
LeaveRun(kept) ==
  /\ ckpt' = [ckpt EXCEPT !.s = Relocate(@, kept)]
  /\ patched' = ckpt'.s
  /\ phase' = "idle"
  /\ reply' = "none"
  /\ UNCHANGED <<journal, code, store, inflight, seen>>

Finish ==
  /\ phase = "ready" /\ ckpt.next = "end"
  /\ LeaveRun(FALSE)
  /\ proc' = IF proc = "command" THEN "down" ELSE proc
  /\ UNCHANGED <<record, spent>>

InRun == phase \notin {"idle", "asked", "forced"}

\* graph.run raises.  PollingWorker.once records it and goes on; a CLI command
\* exits.  Either way the directory is removed and the journal stays as it is.
RunRaises ==
  /\ InRun
  /\ LeaveRun(FALSE)
  /\ proc' = IF proc = "command" THEN "down" ELSE proc
  /\ record' = IF proc = "worker" THEN Error(record, "worker", FALSE) ELSE record

\* A statement on the checkpoint or processing database fails outside a node.
Escape ==
  /\ Spend("escapes")
  /\ RunRaises

\* LangGraph finds no edge for the route.
MissingEdge ==
  /\ \E n \in Nodes : AtFinal(n) /\ ckpt.s.pending.stage # n /\ ~HasEdge(n, ckpt.s)
  /\ phase = "ready"
  /\ RunRaises
  /\ UNCHANGED spent

\* The process dies; its temporary directory may or may not survive.
Crash(kept) ==
  /\ proc # "down"
  /\ Spend("crashes")
  /\ proc' = "down"
  /\ LeaveRun(kept)
  /\ UNCHANGED record

-----------------------------------------------------------------------------
Init ==
  /\ record = NoRecord
  /\ journal = [k \in {} |-> NoOutput]
  /\ ckpt = [s |-> InitialState(0, 0), next |-> "none", half |-> "action"]
  /\ patched = ckpt.s
  /\ phase = "idle"
  /\ proc = "down"
  /\ code = 1
  /\ store = EmptyStore
  /\ inflight = {}
  /\ reply = "none"
  /\ seen = FALSE
  /\ spent = Zero

Work ==
  \/ CheckIdempotency \/ FetchMessage \/ Normalize \/ Collect \/ Plan \/ Process
  \/ Validate \/ Summarize \/ Prepare \/ ManualReview \/ CommitState \/ MarkAsRead
  \/ CompleteMessage

Persist ==
  Send \/ SendWithoutFile \/ SendAgain \/ ReceiveCommit \/ ReceiveConflict

Superstep ==
  \/ \E n \in Nodes : Reuse(n) \/ FindBusy(n) \/ Claim(n) \/ StoreOutput(n)
                      \/ ConfirmNode(n) \/ RecordNode(n) \/ FinalCheckpoint(n)
  \/ Checkpoint \/ RecordFailure \/ MissingEdge

Run == Accept \/ Defer \/ Continue \/ RestartFailed \/ Rewind \/ StartFresh \/ Finish

ProcessStep == Run \/ Superstep \/ Work \/ Persist

Api == \E request \in inflight : ApiHandles(request)

Environment ==
  \/ StopWorker \/ Deploy \/ ProcessCommand \/ ReprocessCommand
  \/ \E permanent \in BOOLEAN : RetryCommand(permanent)
  \/ \E n \in Nodes, permanent \in BOOLEAN : NodeFails(n, permanent)
  \/ \E request \in inflight : LoseRequest(request)
  \/ LoseReply \/ GiveUp \/ Escape
  \/ \E kept \in BOOLEAN : Crash(kept)

Next == StartWorker \/ ProcessStep \/ Api \/ Environment

Spec == Init /\ [][Next]_vars

\* The operator starts a stopped worker again (make worker; nothing restarts it by
\* itself), a running process goes on, the API handles a request that arrives.
Fairness ==
  /\ WF_vars(StartWorker)
  /\ WF_vars(ProcessStep)
  /\ WF_vars(Api)

FairSpec == Spec /\ Fairness

-----------------------------------------------------------------------------
(* Properties.                                                             *)

\* Every variable has its type (the states the handlers of the agent build).
TypeOK ==
  /\ record \in Records(Nodes \cup {"worker"})
  /\ DOMAIN journal \subseteq Keys
  /\ \A k \in DOMAIN journal : journal[k] \in Rows(Data)
  /\ ckpt \in [s : States, next : Nodes \cup {"none", "failure", "end"},
               half : {"action", "finalize"}]
  /\ patched \in States
  /\ phase \in {"idle", "asked", "forced", "accepted", "rewinding", "ready", "claimed", "sent",
                "executed", "patched", "confirmed", "finalized"}
  /\ proc \in {"down", "worker", "command"}
  /\ code \in Nat
  /\ store \in Stores
  /\ inflight \subseteq Requests
  /\ reply \in {"none", "committed", "conflict"}
  /\ seen \in BOOLEAN
  /\ spent \in [{"faults", "crashes", "escapes", "commands", "requeues", "prepared"} -> Nat]

\* A record that says its result is committed is right: the API holds the
\* result of exactly that generation (result_committed, requeues, late PUTs).
ConfirmedIsStored ==
  record.committed => store.stored /\ store.gen = record.gen

\* A flagged message has a result in the API, and a completed one has the
\* result of its own generation there and, if so configured, is flagged.
SeenIsStored == seen => store.stored

CompletedIsDelivered ==
  record.status = "completed" =>
    store.stored /\ store.gen = record.gen /\ (MarkRead => seen)

\* The second superstep never meets a node whose output is not in the journal
\* (complete_node_execution would raise), whatever died or was requeued between.
CheckpointHasOutput ==
  \A n \in Nodes :
    AtFinal(n) /\ ckpt.s.pending.stage = n => CanComplete(journal, ckpt.s.pending)

\* Unless an exception escaped the graph, a live process never meets a running
\* row that is not its own: NodeExecutionBusy cannot happen under the lock.
RunningIsMine ==
  proc # "down" /\ spent.escapes = 0 =>
    \A k \in DOMAIN journal :
      journal[k].status = "running" =>
        \/ phase \in {"claimed", "sent", "executed"} /\ k = KeyOf(ckpt.s, ckpt.next)
        \/ k \in {ckpt.s.pending, patched.pending}

\* Why the three properties above hold.  Each node of the tail of the graph
\* needs what the nodes before it have established, for the generation g it
\* works on: a result in the API, and the flag.  Checkpoints, journal rows and
\* recorded failures each let a later run enter the tail, so each must vouch
\* for what it lets that run skip.
ResultHeld(g) == store.stored /\ store.gen >= g

FlagSet == MarkRead => seen

EarnedBefore(n, g) ==
  /\ n \in {"commit_processing_state", "mark_message_as_read", "complete"} => ResultHeld(g)
  /\ n = "complete" => FlagSet

EarnedAfter(n, g) ==
  /\ n \in {"persist_result_via_api", "commit_processing_state", "mark_message_as_read",
             "complete"} => ResultHeld(g)
  /\ n \in {"mark_message_as_read", "complete"} => FlagSet

GenerationsInOrder ==
  /\ ~record.exists => record = NoRecord
  /\ phase \notin {"idle", "asked", "forced"} => record.exists
  /\ store.gen <= record.gen
  /\ \A request \in inflight : request.gen <= record.gen
  /\ ckpt.s.gen <= record.gen /\ patched.gen = ckpt.s.gen
  /\ phase \notin {"idle", "asked", "forced", "accepted"} => ckpt.s.gen = record.gen

StateEarned(s) ==
  /\ EarnedBefore(s.failed, s.gen)
  /\ s.status = "result_committed" => ResultHeld(s.gen)

TailEarned ==
  /\ StateEarned(ckpt.s) /\ StateEarned(patched)
  /\ EarnedBefore(ckpt.next, ckpt.s.gen)
  /\ ckpt.half = "finalize" /\ ckpt.s.failed = "none" => EarnedAfter(ckpt.next, ckpt.s.gen)
  /\ phase = "executed" => EarnedAfter(ckpt.next, ckpt.s.gen)
  /\ phase = "patched" /\ patched.failed = "none" => EarnedAfter(ckpt.next, ckpt.s.gen)
  /\ reply # "none" => phase = "sent"
  /\ phase = "sent" => ckpt.next = "persist_result_via_api"
  /\ reply = "committed" => ResultHeld(ckpt.s.gen)

JournalEarned ==
  \A k \in DOMAIN journal :
    journal[k].output # NoOutput => EarnedAfter(k.stage, k.gen)

RecordEarned ==
  /\ EarnedBefore(record.failed, record.gen)
  /\ record.committed \/ record.status = "result_committed" => ResultHeld(record.gen)
  /\ record.status = "completed" => ResultHeld(record.gen) /\ FlagSet
  /\ seen => store.stored

NothingUnearned == GenerationsInOrder /\ TailEarned /\ JournalEarned /\ RecordEarned

\* Within a generation the stored result never changes, and the API never goes
\* back to an older generation, whatever requests arrive late.
StoredIsFinal ==
  [][store.stored => /\ store'.stored /\ store'.gen >= store.gen
                     /\ store'.gen = store.gen => store' = store]_store

\* Until a crash, or an exception that escapes the graph, the flag is set only when the
\* record says that the result is committed: a restart at a failed node, reused rows,
\* the shortcut of check_idempotency, commands and new versions never skip that write.
FlagFollowsRecord ==
  [][seen' /\ spent.crashes = 0 /\ spent.escapes = 0 => record.committed]_seen

\* For a message whose date can be read, the API refuses a waiting client nothing but
\* another payload of the generation it already holds: no new generation and, as they
\* grow under the lock of the worker, no old one (ResultRepository.commit, db.py:164).
DatedConflictIsOwn ==
  StableDate /\ reply = "conflict" =>
    /\ store.stored /\ store.gen = ckpt.s.gen
    /\ store.fingerprint # ckpt.s.data.apiRecord

AnalysisNodes == LogicalNodes \ {"check_idempotency", "commit_processing_state",
                                 "mark_message_as_read", "complete"}

\* Once a result is confirmed and no failure is on record (nor was erased from it by
\* retry-failed), no node up to the API call is executed again in that generation,
\* crashes, new versions and other commands notwithstanding.
ConfirmedSkipsAnalysis ==
  [][\A n \in AnalysisNodes :
       record.committed /\ FailedStage = "none" /\ spent.requeues = 0
         /\ ckpt.s.gen = record.gen => ~Claim(n)]_vars

\* The pipeline keeps the promise of MessageDelivery.
Delivery ==
  INSTANCE MessageDelivery WITH
    generation <- record.gen + 1,
    stored     <- IF store.stored THEN store.gen + 1 ELSE 0,
    confirmed  <- record.committed,
    finished   <- record.status = "completed"

KeepsPromise == Delivery!Spec

\* In the end the message is completed, or given up, or (when only unread
\* messages are listed) at least flagged.
Settles ==
  <>[](record.status \in {"completed", "permanent_error"} \/ (UnreadOnly /\ seen))

-----------------------------------------------------------------------------
(* What the documentation says and the code does not keep.                 *)

\* agent/README.md:97: interrupted after the API's answer, the next run skips
\* OCR and LLM.  (It does not when an earlier failure is still on record.)
ConfirmedSkipsOcrAndLlm ==
  [][\A n \in {"process_attachments", "validate_extractions", "summarize_message"} :
       record.committed /\ ckpt.s.gen = record.gen => ~Claim(n)]_vars

\* agent/README.md:97: the record says result_committed before \Seen is set.
\* (Not when a crash between the journal and the record is followed by a fresh start.)
FlagAfterRecord == [][seen' => record.committed]_seen

\* agent/README.md:99: after a crash the unfinished node is safely tried again,
\* so crashes alone do not make a message a permanent error.
CrashesAreHarmless ==
  spent.faults + spent.escapes + spent.commands = 0 => record.status # "permanent_error"

\* api-service/docs/architecture.md:17: record_id is the idempotency key of a
\* repeated PUT, so repeating one for the stored generation is not refused.
RepeatedPutIsAccepted == reply = "conflict" => store.gen # ckpt.s.gen

\* api-service/README.md:81: only an older generation, or another payload of
\* the same one, is answered with 409.
NewerGenerationIsAccepted == reply = "conflict" => ckpt.s.gen <= store.gen

\* processing_repository.py:266: the mark for manual review is kept, so a
\* completed message whose stored summary asks for a review carries it.
ReviewMarkIsKept == record.status = "completed" /\ store.review => record.review

\* agent/README.md:152: with unread_only and mark_read_after_success off, a
\* message is not processed again and again: its record comes to rest.
CompletedIsNotRepeated == <>[](record.status \in {"completed", "permanent_error"})

\* dashboard.py:35: a node found already running is repeated, so no row of the
\* journal is running for ever.
RunningIsReleased == []<>(\A k \in DOMAIN journal : journal[k].status # "running")

=============================================================================
