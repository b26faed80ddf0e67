-------------------------- MODULE MailGraphProofs --------------------------
(***************************************************************************)
(* Theorems of MailGraph, for every value of its constants.                *)
(*                                                                         *)
(* First the types of what the operators build, then TypeOK.  It needs one *)
(* strengthening: the stage that Rewind reads again is the one for which   *)
(* RestartFailed decided to rewind.                                        *)
(*                                                                         *)
(* Then the journal: whoever waits for the second superstep of a node has  *)
(* its output there, and the only running row is that of the node a worker *)
(* is in, so that a crash loses nothing and no node is ever found busy.    *)
(*                                                                         *)
(* NothingUnearned is inductive (together with the types), and with it the *)
(* promises about the record, the flag and the Results API hold: for any   *)
(* number of crashes, failures, commands, lost, late and repeated requests.*)
(*                                                                         *)
(* Then: the pipeline implements MessageDelivery, every step of it is a    *)
(* step of that specification, or none.  NothingUnearned says when the API *)
(* and the flag are as the promise wants them; what is shown here besides  *)
(* is that no run goes on with a message that is already completed.        *)
(*                                                                         *)
(* Then: a confirmed result is not computed again in its generation.       *)
(*                                                                         *)
(* Last, what the documentation says of answers and of the flag, for the   *)
(* cases in which it is so: 409 only for another payload of the stored     *)
(* generation (messages with a date), and the record before the flag (as   *)
(* long as no run was interrupted).                                        *)
(***************************************************************************)
EXTENDS MailGraph, TLAPS

-----------------------------------------------------------------------------
(* Types of the rows, states and keys that the operators build.            *)

LEMMA RecordOperators ==
  ASSUME NEW r \in Records(Nodes \cup {"worker"}), NEW version \in Nat,
         NEW status \in Statuses, NEW stage \in Nodes \cup {"worker", "none"},
         NEW permanent \in BOOLEAN
  PROVE  /\ Ensure(r, version) \in Records(Nodes \cup {"worker"})
         /\ NewGeneration(r) \in Records(Nodes \cup {"worker"})
         /\ StartAttempt(r) \in Records(Nodes \cup {"worker"})
         /\ SetStage(r, status) \in Records(Nodes \cup {"worker"})
         /\ ResultCommitted(r) \in Records(Nodes \cup {"worker"})
         /\ Completed(r) \in Records(Nodes \cup {"worker"})
         /\ MarkManualReview(r) \in Records(Nodes \cup {"worker"})
         /\ Error(r, stage, permanent) \in Records(Nodes \cup {"worker"})
         /\ RequeueFailed(r) \in Records(Nodes \cup {"worker"})
<1>0. r.attempts + 1 \in Nat /\ r.gen + 1 \in Nat
  BY DEF Records
<1>1. Ensure(r, version) \in Records(Nodes \cup {"worker"})
  BY <1>0 DEF Ensure, NewGeneration, NoRecord, Records, Statuses
<1>2. NewGeneration(r) \in Records(Nodes \cup {"worker"})
  BY <1>0 DEF NewGeneration, Records, Statuses
<1>3. StartAttempt(r) \in Records(Nodes \cup {"worker"})
  BY <1>0 DEF StartAttempt, Records, Statuses
<1>4. SetStage(r, status) \in Records(Nodes \cup {"worker"})
  BY DEF SetStage, Records, Statuses
<1>5. ResultCommitted(r) \in Records(Nodes \cup {"worker"})
  BY DEF ResultCommitted, Records, Statuses
<1>6. Completed(r) \in Records(Nodes \cup {"worker"})
  BY DEF Completed, Records, Statuses
<1>7. MarkManualReview(r) \in Records(Nodes \cup {"worker"})
  BY DEF MarkManualReview, Records, Statuses
<1>8. Error(r, stage, permanent) \in Records(Nodes \cup {"worker"})
  BY DEF Error, Records, Statuses
<1>9. RequeueFailed(r) \in Records(Nodes \cup {"worker"})
  BY DEF RequeueFailed, Records, Statuses
<1> QED BY <1>1, <1>2, <1>3, <1>4, <1>5, <1>6, <1>7, <1>8, <1>9

JournalOK(j) ==
  /\ DOMAIN j \subseteq Keys
  /\ \A k \in DOMAIN j : j[k] \in Rows(Data)

LEMMA JournalOperators ==
  ASSUME NEW j, JournalOK(j), NEW key \in Keys, NEW output \in Data,
         NEW permanent \in BOOLEAN
  PROVE  /\ JournalOK(ClaimRow(j, key))
         /\ JournalOK(StoreResult(j, key, output))
         /\ JournalOK(FailRow(j, key, permanent))
         /\ JournalOK(CompleteRow(j, key))
<1>1. JournalOK(ClaimRow(j, key))
  BY DEF JournalOK, ClaimRow, WithRow, Rows, RowStatuses
<1>2. JournalOK(StoreResult(j, key, output))
  BY DEF JournalOK, StoreResult, Rows, RowStatuses
<1>3. JournalOK(FailRow(j, key, permanent))
  BY DEF JournalOK, FailRow, Rows, RowStatuses
<1>4. JournalOK(CompleteRow(j, key))
  BY DEF JournalOK, CompleteRow, Rows, RowStatuses
<1> QED BY <1>1, <1>2, <1>3, <1>4

LEMMA JournalRecovery ==
  ASSUME NEW j, JournalOK(j)
  PROVE  JournalOK(RecoverAbandoned(j)) /\ JournalOK(InvalidateAll(j))
BY DEF JournalOK, RecoverAbandoned, InvalidateAll, Rows, RowStatuses

LEMMA StateOperators ==
  ASSUME NEW s \in States, NEW node \in Nodes, NEW kept \in BOOLEAN
  PROVE  /\ KeyOf(s, node) \in Keys
         /\ Relocate(s, kept) \in States
<1>1. KeyOf(s, node) \in Keys
  BY DEF KeyOf, Keys, States
<1>2. Relocate(s, kept) \in States
  BY DEF Relocate, States, Places
<1> QED BY <1>1, <1>2

LEMMA FailedStateType ==
  ASSUME ckpt.s \in States, NEW node \in Nodes, NEW permanent \in BOOLEAN
  PROVE  FailedState(node, permanent) \in States
<1>1. NoKey \in Keys
  BY DEF NoKey, Keys, InitialData, Data, Summaries
<1> QED BY <1>1 DEF FailedState, States, Statuses

LEMMA InitialStateType ==
  ASSUME NEW gen \in Nat, NEW ver \in Nat
  PROVE  InitialState(gen, ver) \in States
BY DEF InitialState, States, Statuses, NoKey, Keys, InitialData, Data, Summaries, Places

LEMMA StoreOperators ==
  ASSUME NEW st \in Stores, NEW request \in Requests
  PROVE  CommitRequest(st, request) \in Stores
BY DEF CommitRequest, Stores, Requests

-----------------------------------------------------------------------------
(* Types of the parts that several actions share.                          *)

LEMMA SpendType ==
  ASSUME TypeOK, NEW event \in {"faults", "crashes", "escapes", "commands", "requeues", "prepared"},
         Count(event)
  PROVE  spent' \in [{"faults", "crashes", "escapes", "commands", "requeues", "prepared"} -> Nat]
BY DEF TypeOK, Count

LEMMA StateFields ==
  ASSUME TypeOK
  PROVE  /\ ckpt.s \in States /\ ckpt.s.data \in Data
         /\ ckpt.s.gen \in Nat /\ ckpt.s.pending \in Keys
         /\ ckpt.s.failed \in Nodes \cup {"none"}
         /\ record.gen \in Nat /\ record.status \in Statuses
         /\ record.failed \in Nodes \cup {"worker", "none"}
         /\ store.gen \in Nat
         /\ JournalOK(journal)
BY DEF TypeOK, States, Records, Stores, JournalOK

\* A new payload, status or place in the state keeps its type.
LEMMA StateUpdates ==
  ASSUME NEW s \in States, NEW data \in Data, NEW status \in Statuses,
         NEW place \in Places
  PROVE  /\ [s EXCEPT !.data = data] \in States
         /\ [s EXCEPT !.status = status] \in States
         /\ [s EXCEPT !.data = data, !.status = status] \in States
         /\ [s EXCEPT !.data = data, !.raw = place] \in States
         /\ [s EXCEPT !.data = data, !.failed = "none", !.status = status] \in States
         /\ [s EXCEPT !.data = data, !.pending = NoKey] \in States
         /\ [s EXCEPT !.pending = NoKey] \in States
         /\ \A key \in Keys : [s EXCEPT !.pending = key] \in States
<1>1. NoKey \in Keys
  BY DEF NoKey, Keys, InitialData, Data, Summaries
<1> QED BY <1>1 DEF States

LEMMA ProduceType ==
  ASSUME TypeOK, NEW n \in Nodes, NEW s \in States, Produce(n, s),
         record' \in Records(Nodes \cup {"worker"}), seen' \in BOOLEAN,
         spent' \in [{"faults", "crashes", "escapes", "commands", "requeues", "prepared"} -> Nat]
  PROVE  TypeOK'
BY DEF TypeOK, Produce

LEMMA BeginType ==
  ASSUME TypeOK, NEW s \in States, NEW next \in Nodes \cup {"none", "failure", "end"},
         NEW half \in {"action", "finalize"}, Begin(s, next, half),
         record' \in Records(Nodes \cup {"worker"})
  PROVE  TypeOK'
BY DEF TypeOK, Begin

LEMMA FailType ==
  ASSUME TypeOK, NEW n \in Nodes, NEW permanent \in BOOLEAN, Fail(n, permanent),
         inflight' \subseteq Requests, reply' \in {"none", "committed", "conflict"},
         spent' \in [{"faults", "crashes", "escapes", "commands", "requeues", "prepared"} -> Nat]
  PROVE  TypeOK'
<1>1. JournalOK(journal')
  <2>1. KeyOf(ckpt.s, n) \in Keys /\ JournalOK(journal) /\ InitialData \in Data
    BY StateFields, StateOperators DEF InitialData, Data, Summaries
  <2> QED BY <2>1, JournalOperators DEF Fail
<1>2. patched' \in States
  BY StateFields, FailedStateType DEF Fail
<1> QED BY <1>1, <1>2 DEF TypeOK, Fail, JournalOK

LEMMA LeaveRunType ==
  ASSUME TypeOK, NEW kept \in BOOLEAN, LeaveRun(kept),
         record' \in Records(Nodes \cup {"worker"}),
         proc' \in {"down", "worker", "command"},
         spent' \in [{"faults", "crashes", "escapes", "commands", "requeues", "prepared"} -> Nat]
  PROVE  TypeOK'
<1>1. Relocate(ckpt.s, kept) \in States
  <2>1. "complete" \in Nodes
    BY DEF Nodes, LogicalNodes
  <2> QED BY <2>1, StateFields, StateOperators
<1>2. /\ ckpt' = [ckpt EXCEPT !.s = Relocate(ckpt.s, kept)]
      /\ patched' = ckpt'.s
  BY DEF LeaveRun
<1>3. /\ ckpt' \in [s : States, next : Nodes \cup {"none", "failure", "end"},
                    half : {"action", "finalize"}]
      /\ patched' \in States
  BY <1>1, <1>2 DEF TypeOK
<1> QED BY <1>3 DEF TypeOK, LeaveRun

-----------------------------------------------------------------------------
(* Every step keeps TypeOK.                                                *)

LEMMA ProcessTypes ==
  ASSUME TypeOK, StartWorker \/ StopWorker \/ Deploy \/ ProcessCommand \/ ReprocessCommand
                 \/ (\E permanent \in BOOLEAN : RetryCommand(permanent)) \/ Accept \/ Defer
  PROVE  TypeOK'
<1> USE StateFields
<1>1. CASE StartWorker
  <2>1. JournalOK(journal')
    BY <1>1, JournalRecovery DEF StartWorker
  <2> QED BY <1>1, <2>1 DEF TypeOK, StartWorker, JournalOK
<1>2. CASE StopWorker
  BY <1>2, SpendType DEF TypeOK, StopWorker, Spend
<1>3. CASE Deploy
  BY <1>3, SpendType DEF TypeOK, Deploy, Spend
<1>4. CASE ProcessCommand
  <2>1. JournalOK(journal')
    BY <1>4, JournalRecovery DEF ProcessCommand
  <2> QED BY <1>4, <2>1, SpendType DEF TypeOK, ProcessCommand, Command, Spend, JournalOK
<1>5. CASE ReprocessCommand
  <2>1. JournalOK(journal')
    BY <1>5, JournalRecovery DEF ReprocessCommand
  <2>2. record' \in Records(Nodes \cup {"worker"})
    BY <1>5, RecordOperators, 0 \in Nat DEF ReprocessCommand, TypeOK, Statuses
  <2> QED BY <1>5, <2>1, <2>2, SpendType DEF TypeOK, ReprocessCommand, Command, Spend, JournalOK
<1>6. CASE \E permanent \in BOOLEAN : RetryCommand(permanent)
  <2>1. PICK permanent \in BOOLEAN : RetryCommand(permanent)
    BY <1>6
  <2>2. JournalOK(journal')
    BY <2>1, JournalRecovery DEF RetryCommand
  <2>3. record' \in Records(Nodes \cup {"worker"})
    BY <2>1, RecordOperators DEF RetryCommand, TypeOK, Statuses
  <2>4. spent' \in [{"faults", "crashes", "escapes", "commands", "requeues", "prepared"} -> Nat]
    <3>1. /\ spent \in [{"faults", "crashes", "escapes", "commands", "requeues", "prepared"} -> Nat]
          /\ spent' = [spent EXCEPT !["commands"] = @ + 1, !["requeues"] = @ + 1]
      BY <2>1 DEF TypeOK, RetryCommand
    <3>2. spent.commands + 1 \in Nat /\ spent.requeues + 1 \in Nat
      BY <3>1
    <3> QED BY <3>1, <3>2
  <2> QED BY <2>1, <2>2, <2>3, <2>4 DEF TypeOK, RetryCommand, Command, JournalOK
<1>7. CASE Accept
  <2>1. record' \in Records(Nodes \cup {"worker"})
    BY <1>7, RecordOperators DEF Accept, Ensured, TypeOK, Statuses
  <2> QED BY <1>7, <2>1 DEF TypeOK, Accept
<1>8. CASE Defer
  BY <1>8 DEF TypeOK, Defer
<1> QED BY <1>1, <1>2, <1>3, <1>4, <1>5, <1>6, <1>7, <1>8

\* The strengthening of TypeOK.
RewindsToNode == phase = "rewinding" => Resumable(FailedStage)

LEMMA RunTypes ==
  ASSUME TypeOK, RewindsToNode, Continue \/ RestartFailed \/ Rewind \/ StartFresh
  PROVE  TypeOK'
<1> USE StateFields
<1>1. CASE Continue
  <2>1. Begin(ckpt.s, ckpt.next, ckpt.half)
    BY <1>1 DEF Continue
  <2>2. /\ ckpt.next \in Nodes \cup {"none", "failure", "end"}
        /\ ckpt.half \in {"action", "finalize"}
    BY DEF TypeOK
  <2>3. record' \in Records(Nodes \cup {"worker"})
    BY <1>1 DEF TypeOK, Continue
  <2> QED BY <2>1, <2>2, <2>3, BeginType
<1>2. CASE RestartFailed
  <2>1. record' \in Records(Nodes \cup {"worker"})
    BY <1>2, RecordOperators DEF RestartFailed, TypeOK, Statuses
  <2> QED BY <1>2, <2>1 DEF TypeOK, RestartFailed
<1>3. CASE Rewind
  <2> DEFINE cleared == [ckpt.s EXCEPT !.failed = "none", !.status = "processing", !.pending = NoKey]
  <2>1. NoKey \in Keys
    BY DEF NoKey, Keys, InitialData, Data, Summaries
  <2>2. cleared \in States
    BY <2>1 DEF States, Statuses
  <2>3. [cleared EXCEPT !.raw = "none", !.dirOurs = TRUE] \in States
    BY <2>2 DEF States, Places
  <2>4. record' \in Records(Nodes \cup {"worker"})
    BY <1>3 DEF TypeOK, Rewind
  <2>5. Resumable(FailedStage) => FailedStage \in Nodes
    BY DEF FailedStage, Resumable, Nodes
  <2>8. phase = "rewinding"
    BY <1>3 DEF Rewind
  <2>6. CASE Refetch
    <3>1. Begin([cleared EXCEPT !.raw = "none", !.dirOurs = TRUE], "fetch_message", "action")
      BY <1>3, <2>6 DEF Rewind
    <3>2. "fetch_message" \in Nodes
      BY DEF Nodes, LogicalNodes
    <3> QED BY <3>1, <3>2, <2>3, <2>4, BeginType
  <2>7. CASE ~Refetch
    <3>1. Begin(cleared, FailedStage, "action")
      BY <1>3, <2>7 DEF Rewind
    <3> QED BY <3>1, <2>2, <2>4, <2>5, <2>8, BeginType DEF RewindsToNode
  <2> QED BY <2>6, <2>7
<1>4. CASE StartFresh
  <2>1. InitialState(record.gen, code) \in States
    BY InitialStateType DEF TypeOK
  <2>2. Begin(InitialState(record.gen, code), "check_idempotency", "action")
    BY <1>4 DEF StartFresh
  <2>3. record' \in Records(Nodes \cup {"worker"})
    BY <1>4 DEF TypeOK, StartFresh
  <2>4. "check_idempotency" \in Nodes
    BY DEF Nodes, LogicalNodes
  <2> QED BY <2>1, <2>2, <2>3, <2>4, BeginType
<1> QED BY <1>1, <1>2, <1>3, <1>4

LEMMA WorkTypes ==
  ASSUME TypeOK, Work
  PROVE  TypeOK'
<1> USE StateFields
<1> DEFINE data == ckpt.s.data
<1>1. /\ record \in Records(Nodes \cup {"worker"}) /\ seen \in BOOLEAN
      /\ spent \in [{"faults", "crashes", "escapes", "commands", "requeues", "prepared"} -> Nat]
      /\ LogicalNodes \subseteq Nodes /\ "manual_review" \in Nodes
  BY DEF TypeOK, Nodes
<1>2. ASSUME NEW n \in LogicalNodes, NEW d \in Data, ProduceData(n, d)
      PROVE  TypeOK'
  <2>1. [ckpt.s EXCEPT !.data = d] \in States
    BY StateUpdates, "discovered" \in Statuses, "none" \in Places DEF Statuses, Places
  <2> QED BY <1>1, <1>2, <2>1, ProduceType DEF ProduceData
<1>3. CASE CheckIdempotency
  <2> DEFINE status == IF record.status \in {"completed", "result_committed"}
                       THEN record.status ELSE "processing"
  <2>1. status \in Statuses
    BY <1>1 DEF Records, Statuses
  <2>2. [ckpt.s EXCEPT !.status = status] \in States
    BY <2>1 DEF States
  <2>3. record' \in Records(Nodes \cup {"worker"})
    BY <1>1, <1>3, RecordOperators DEF CheckIdempotency, TypeOK, Statuses
  <2>4. Produce("check_idempotency", [ckpt.s EXCEPT !.status = status])
    BY <1>3 DEF CheckIdempotency
  <2> QED BY <1>1, <1>3, <2>2, <2>3, <2>4, ProduceType DEF CheckIdempotency, LogicalNodes
<1>4. CASE FetchMessage
  <2>1. [ckpt.s EXCEPT !.data.metadata = TRUE,
                       !.raw = IF ckpt.s.dirOurs THEN "ours" ELSE "leftover"] \in States
    BY DEF States, Data, Places
  <2> QED BY <1>1, <1>4, <2>1, ProduceType DEF FetchMessage, LogicalNodes
<1>5. CASE Normalize
  <2>1. [data EXCEPT !.normalized = TRUE] \in Data
    BY DEF Data
  <2> QED BY <1>2, <1>5, <2>1 DEF Normalize, LogicalNodes
<1>6. CASE Collect
  <2>1. [data EXCEPT !.attachments = HasAttachments /\ FilesExist(ckpt.s),
                     !.unavailable = @ \/ (HasAttachments /\ ~FilesExist(ckpt.s))] \in Data
    BY SettingsAssumption DEF Data, FilesExist
  <2> QED BY <1>2, <1>6, <2>1 DEF Collect, LogicalNodes
<1>7. CASE Plan
  <2>1. [data EXCEPT !.plans = TRUE] \in Data
    BY DEF Data
  <2> QED BY <1>2, <1>7, <2>1 DEF Plan, LogicalNodes
<1>8. CASE Process
  <2>1. PICK outcome \in Outcomes :
          /\ Produce("process_attachments", [ckpt.s EXCEPT !.data.results = outcome,
                                                           !.status = "attachments_processed"])
          /\ UNCHANGED <<record, seen, spent>>
    BY <1>8 DEF Process
  <2>2. outcome \in {"ok", "skipped"}
    BY DEF Outcomes
  <2>3. [ckpt.s EXCEPT !.data.results = outcome, !.status = "attachments_processed"] \in States
    BY <2>2 DEF States, Data, Statuses
  <2> QED BY <1>1, <2>1, <2>3, ProduceType DEF LogicalNodes
<1>9. CASE Validate
  <2>1. PICK outcome \in {"none", "ok", "skipped"} :
          ProduceData("validate_extractions", [data EXCEPT !.results = outcome])
    BY <1>9 DEF Validate, Outcomes, Data
  <2>2. [data EXCEPT !.results = outcome] \in Data
    BY DEF Data
  <2> QED BY <1>2, <2>1, <2>2 DEF LogicalNodes
<1>10. CASE Summarize
  <2>1. PICK summary \in {"review"} \cup CleanSummaries :
          Produce("summarize_message", [ckpt.s EXCEPT !.data.summary = summary,
                                                      !.status = "summarized"])
    BY <1>10 DEF Summarize
  <2>2. [ckpt.s EXCEPT !.data.summary = summary, !.status = "summarized"] \in States
    BY DEF States, Data, Summaries, Statuses
  <2>3. record' \in Records(Nodes \cup {"worker"}) /\ UNCHANGED <<seen, spent>>
    BY <1>1, <1>10, RecordOperators DEF Summarize, TypeOK, Statuses
  <2> QED BY <1>1, <2>1, <2>2, <2>3, ProduceType DEF LogicalNodes
<1>11. NextPayload \in Nat
  BY <1>1 DEF NextPayload
<1>12. CASE Prepare
  <2>1. [ckpt.s EXCEPT !.data.apiRecord = NextPayload] \in States
    BY <1>11 DEF States, Data
  <2>2. spent' \in [{"faults", "crashes", "escapes", "commands", "requeues", "prepared"} -> Nat]
    BY <1>12, SpendType DEF Prepare
  <2> QED BY <1>1, <1>12, <2>1, <2>2, ProduceType DEF Prepare, LogicalNodes
<1>13. CASE ManualReview
  <2>1. [ckpt.s EXCEPT !.data.summary = "review", !.data.apiRecord = NextPayload,
                       !.failed = "none", !.status = "processing"] \in States
    BY <1>11 DEF States, Data, Summaries, Statuses
  <2>2. spent' \in [{"faults", "crashes", "escapes", "commands", "requeues", "prepared"} -> Nat]
    BY <1>13, SpendType DEF ManualReview
  <2>3. record' \in Records(Nodes \cup {"worker"})
    BY <1>1, <1>13, RecordOperators DEF ManualReview, TypeOK, Statuses
  <2> QED BY <1>1, <1>13, <2>1, <2>2, <2>3, ProduceType DEF ManualReview
<1>14. CASE CommitState
  <2>1. [ckpt.s EXCEPT !.status = "result_committed"] \in States
    BY DEF States, Statuses
  <2> QED BY <1>1, <1>14, <2>1, ProduceType DEF CommitState, LogicalNodes
<1>15. CASE MarkAsRead
  <2>1. seen' \in BOOLEAN
    BY <1>1, <1>15, SettingsAssumption DEF MarkAsRead
  <2> QED BY <1>1, <1>15, <2>1, ProduceType DEF MarkAsRead, LogicalNodes
<1>16. CASE CompleteMessage
  <2>1. [ckpt.s EXCEPT !.status = "completed"] \in States
    BY DEF States, Statuses
  <2> QED BY <1>1, <1>16, <2>1, ProduceType DEF CompleteMessage, LogicalNodes
<1> QED BY <1>3, <1>4, <1>5, <1>6, <1>7, <1>8, <1>9, <1>10, <1>12, <1>13, <1>14, <1>15, <1>16
        DEF Work

LEMMA RequestType ==
  ASSUME TypeOK
  PROVE  Request \in Requests
BY StateFields, SettingsAssumption DEF Request, Requests, Data

LEMMA PersistTypes ==
  ASSUME TypeOK, Persist \/ Api \/ LoseReply \/ GiveUp
                 \/ (\E request \in inflight : LoseRequest(request))
  PROVE  TypeOK'
<1> USE StateFields
<1>1. /\ "persist_result_via_api" \in Nodes /\ Request \in Requests
      /\ inflight \subseteq Requests /\ reply \in {"none", "committed", "conflict"}
      /\ spent \in [{"faults", "crashes", "escapes", "commands", "requeues", "prepared"} -> Nat]
  BY RequestType DEF TypeOK, Nodes, LogicalNodes
<1>2. CASE Send
  BY <1>1, <1>2 DEF TypeOK, Send
<1>3. CASE SendWithoutFile
  BY <1>1, <1>3, FailType DEF SendWithoutFile
<1>4. CASE SendAgain
  BY <1>1, <1>4 DEF TypeOK, SendAgain
<1>5. CASE ReceiveCommit
  <2>1. [ckpt.s EXCEPT !.data.apiCommit = TRUE] \in States
    BY DEF States, Data
  <2> QED BY <1>5, <2>1 DEF TypeOK, ReceiveCommit
<1>6. CASE ReceiveConflict
  BY <1>1, <1>6, FailType DEF ReceiveConflict
<1>7. CASE Api
  <2>1. PICK request \in inflight : ApiHandles(request)
    BY <1>7 DEF Api
  <2>2. store' \in Stores
    BY <1>1, <2>1, StoreOperators DEF ApiHandles, TypeOK
  <2> QED BY <1>1, <2>1, <2>2 DEF TypeOK, ApiHandles
<1>8. CASE LoseReply
  BY <1>8, SpendType DEF TypeOK, LoseReply, Spend
<1>9. CASE GiveUp
  <2>1. spent' \in [{"faults", "crashes", "escapes", "commands", "requeues", "prepared"} -> Nat]
    BY <1>9, SpendType DEF GiveUp, Spend
  <2> QED BY <1>1, <1>9, <2>1, FailType DEF GiveUp
<1>10. CASE \E request \in inflight : LoseRequest(request)
  BY <1>1, <1>10, SpendType DEF TypeOK, LoseRequest, Spend
<1> QED BY <1>2, <1>3, <1>4, <1>5, <1>6, <1>7, <1>8, <1>9, <1>10 DEF Persist

LEMMA RouteType ==
  ASSUME NEW n \in Nodes, NEW s
  PROVE  Route(n, s) \in Nodes \cup {"failure", "end"}
<1>1. Following[n] \in Nodes \cup {"end"}
  BY DEF Following, Nodes, LogicalNodes
<1>2. "manual_review" \in Nodes /\ "mark_message_as_read" \in Nodes
  BY DEF Nodes, LogicalNodes
<1> QED BY <1>1, <1>2 DEF Route, RouteError

LEMMA SuperstepTypes ==
  ASSUME TypeOK, NEW n \in Nodes,
         \/ Reuse(n) \/ FindBusy(n) \/ Claim(n) \/ StoreOutput(n) \/ ConfirmNode(n)
         \/ RecordNode(n) \/ FinalCheckpoint(n) \/ Checkpoint \/ RecordFailure
         \/ \E permanent \in BOOLEAN : NodeFails(n, permanent)
  PROVE  TypeOK'
<1> USE StateFields
<1> DEFINE key == KeyOf(ckpt.s, n)
<1>1. key \in Keys /\ InitialData \in Data /\ patched \in States /\ patched.data \in Data
  BY StateOperators DEF InitialData, Data, Summaries, TypeOK, States
<1>2. CASE Reuse(n)
  <2>1. journal[key].output \in Data
    BY <1>2 DEF Reuse, Reusable, HasStatus, JournalOK, Rows
  <2>2. patched' \in States
    BY <1>2, <2>1, StateUpdates, "discovered" \in Statuses, "none" \in Places
       DEF Reuse, Statuses, Places
  <2> QED BY <1>2, <2>2 DEF TypeOK, Reuse
<1>3. CASE FindBusy(n)
  BY <1>3, FailedStateType DEF TypeOK, FindBusy
<1>4. CASE Claim(n)
  <2>1. JournalOK(journal')
    BY <1>1, <1>4, JournalOperators DEF Claim
  <2> QED BY <1>4, <2>1 DEF TypeOK, Claim, JournalOK
<1>5. CASE StoreOutput(n)
  <2>1. JournalOK(journal')
    BY <1>1, <1>5, JournalOperators DEF StoreOutput
  <2>2. patched' \in States
    BY <1>1, <1>5 DEF StoreOutput, States
  <2> QED BY <1>5, <2>1, <2>2 DEF TypeOK, StoreOutput, JournalOK
<1>6. CASE ConfirmNode(n)
  <2>1. JournalOK(journal')
    BY <1>1, <1>6, JournalOperators DEF ConfirmNode
  <2> QED BY <1>6, <2>1 DEF TypeOK, ConfirmNode, JournalOK
<1>7. CASE RecordNode(n)
  <2>1. record' \in Records(Nodes \cup {"worker"})
    <3>1. record \in Records(Nodes \cup {"worker"})
      BY DEF TypeOK
    <3>2. /\ SetStage(record, "attachments_processed") \in Records(Nodes \cup {"worker"})
          /\ SetStage(record, "summarized") \in Records(Nodes \cup {"worker"})
          /\ ResultCommitted(record) \in Records(Nodes \cup {"worker"})
          /\ Completed(record) \in Records(Nodes \cup {"worker"})
      BY <3>1 DEF SetStage, ResultCommitted, Completed, Records, Statuses
    <3> QED BY <1>7, <3>2 DEF RecordNode, RecordingNodes
  <2> QED BY <1>7, <2>1 DEF TypeOK, RecordNode
<1>8. CASE FinalCheckpoint(n)
  <2>1. [ckpt.s EXCEPT !.pending = NoKey] \in States
    BY StateUpdates, <1>1, "discovered" \in Statuses, "none" \in Places DEF Statuses, Places
  <2> QED BY <1>8, <2>1, RouteType DEF TypeOK, FinalCheckpoint
<1>9. CASE Checkpoint
  BY <1>9 DEF TypeOK, Checkpoint
<1>10. CASE RecordFailure
  <2>1. record' \in Records(Nodes \cup {"worker"})
    BY <1>10, RecordOperators, 0 \in Nat DEF RecordFailure, TypeOK, Statuses
  <2>2. patched' \in States
    BY <1>10, <2>1 DEF RecordFailure, States, Records
  <2> QED BY <1>10, <2>1, <2>2 DEF TypeOK, RecordFailure
<1>11. CASE \E permanent \in BOOLEAN : NodeFails(n, permanent)
  <2>1. PICK permanent \in BOOLEAN : NodeFails(n, permanent)
    BY <1>11
  <2>2. spent' \in [{"faults", "crashes", "escapes", "commands", "requeues", "prepared"} -> Nat]
    BY <2>1, SpendType DEF NodeFails, Spend
  <2> QED BY <2>1, <2>2, FailType DEF NodeFails, TypeOK
<1> QED BY <1>2, <1>3, <1>4, <1>5, <1>6, <1>7, <1>8, <1>9, <1>10, <1>11

LEMMA EndTypes ==
  ASSUME TypeOK, Finish \/ Escape \/ MissingEdge \/ \E kept \in BOOLEAN : Crash(kept)
  PROVE  TypeOK'
<1> USE StateFields
<1>1. /\ record \in Records(Nodes \cup {"worker"})
      /\ proc \in {"down", "worker", "command"}
      /\ spent \in [{"faults", "crashes", "escapes", "commands", "requeues", "prepared"} -> Nat]
  BY DEF TypeOK
<1>2. CASE Finish
  BY <1>1, <1>2, LeaveRunType DEF Finish
<1>3. ASSUME RunRaises,
             spent' \in [{"faults", "crashes", "escapes", "commands", "requeues", "prepared"} -> Nat]
      PROVE  TypeOK'
  <2>1. Error(record, "worker", FALSE) \in Records(Nodes \cup {"worker"})
    BY <1>1, RecordOperators, 0 \in Nat DEF Statuses
  <2>2. record' \in Records(Nodes \cup {"worker"})
    BY <1>1, <1>3, <2>1 DEF RunRaises
  <2> QED BY <1>1, <1>3, <2>2, LeaveRunType DEF RunRaises
<1>4. CASE Escape
  BY <1>3, <1>4, SpendType DEF Escape, Spend
<1>5. CASE MissingEdge
  BY <1>1, <1>3, <1>5 DEF MissingEdge
<1>6. CASE \E kept \in BOOLEAN : Crash(kept)
  BY <1>1, <1>6, LeaveRunType, SpendType DEF Crash, Spend
<1> QED BY <1>2, <1>4, <1>5, <1>6

LEMMA RewindingStep ==
  ASSUME TypeOK, RewindsToNode, [Next]_vars
  PROVE  RewindsToNode'
<1>1. CASE RestartFailed
  <2>1. record'.failed = record.failed /\ ckpt' = ckpt /\ Resumable(FailedStage)
    BY <1>1 DEF RestartFailed, StartAttempt, TypeOK, Records
  <2> QED BY <2>1 DEF RewindsToNode, FailedStage, Resumable
<1>2. CASE UNCHANGED <<phase, record, ckpt>>
  BY <1>2 DEF RewindsToNode, FailedStage, Resumable
<1>3. CASE phase' # "rewinding"
  BY <1>3 DEF RewindsToNode
<1>4. CASE StartWorker \/ StopWorker \/ Deploy \/ Api \/ LoseReply \/ SendAgain
           \/ (\E request \in inflight : LoseRequest(request)) \/ UNCHANGED vars
  BY <1>2, <1>4 DEF StartWorker, StopWorker, Deploy, Api, ApiHandles, LoseReply, SendAgain,
                    LoseRequest, vars
<1>5. CASE ProcessCommand \/ ReprocessCommand \/ \E permanent \in BOOLEAN : RetryCommand(permanent)
  BY <1>3, <1>5 DEF ProcessCommand, ReprocessCommand, RetryCommand, Command
<1>6. CASE Accept \/ Defer \/ Continue \/ Rewind \/ StartFresh \/ Finish
  BY <1>3, <1>6 DEF Accept, Defer, Continue, Rewind, StartFresh, Begin, Finish, LeaveRun
<1>7. CASE Work
  <2>1. phase' = "executed"
    BY <1>7 DEF Work, CheckIdempotency, FetchMessage, Normalize, Collect, Plan, Process,
                Validate, Summarize, Prepare, ManualReview, CommitState, MarkAsRead,
                CompleteMessage, ProduceData, Produce
  <2> QED BY <1>3, <2>1
<1>8. CASE Send \/ SendWithoutFile \/ ReceiveCommit \/ ReceiveConflict \/ GiveUp
  BY <1>3, <1>8 DEF Send, SendWithoutFile, ReceiveCommit, ReceiveConflict, GiveUp, Fail
<1>9. CASE \E n \in Nodes : Reuse(n) \/ FindBusy(n) \/ Claim(n) \/ StoreOutput(n)
                            \/ ConfirmNode(n) \/ RecordNode(n) \/ FinalCheckpoint(n)
  BY <1>3, <1>9 DEF Reuse, FindBusy, Claim, StoreOutput, ConfirmNode, RecordNode, FinalCheckpoint
<1>10. CASE Checkpoint \/ RecordFailure \/ MissingEdge \/ Escape
  BY <1>3, <1>10 DEF Checkpoint, RecordFailure, MissingEdge, Escape, RunRaises, LeaveRun
<1>11. CASE \/ \E n \in Nodes, permanent \in BOOLEAN : NodeFails(n, permanent)
            \/ \E kept \in BOOLEAN : Crash(kept)
  BY <1>3, <1>11 DEF NodeFails, Fail, Crash, LeaveRun
<1> QED BY <1>1, <1>4, <1>5, <1>6, <1>7, <1>8, <1>9, <1>10, <1>11
        DEF Next, ProcessStep, Run, Superstep, Persist, Environment

DownIsIdle == proc = "down" => phase = "idle"

LEMMA DownStep ==
  ASSUME TypeOK, DownIsIdle, [Next]_vars
  PROVE  DownIsIdle'
<1> USE DEF DownIsIdle
<1>1. CASE StartWorker \/ StopWorker \/ Deploy \/ ProcessCommand \/ ReprocessCommand
           \/ (\E permanent \in BOOLEAN : RetryCommand(permanent)) \/ UNCHANGED vars
  BY <1>1 DEF StartWorker, StopWorker, Deploy, ProcessCommand, ReprocessCommand, RetryCommand,
       Command, vars
<1>2. CASE Run
  BY <1>2 DEF Run, Accept, Defer, Continue, RestartFailed, Rewind, StartFresh, Begin, Finish,
       LeaveRun
<1>3. CASE Work
  BY <1>3 DEF Work, CheckIdempotency, FetchMessage, Normalize, Collect, Plan, Process,
       Validate, Summarize, Prepare, ManualReview, CommitState, MarkAsRead, CompleteMessage,
       ProduceData, Produce
<1>4. CASE Persist \/ Api \/ LoseReply \/ GiveUp \/ \E request \in inflight : LoseRequest(request)
  BY <1>4 DEF Persist, Send, SendWithoutFile, SendAgain, ReceiveCommit, ReceiveConflict, Fail,
       Api, ApiHandles, LoseReply, GiveUp, LoseRequest
<1>5. CASE Superstep
  BY <1>5 DEF Superstep, Reuse, FindBusy, Claim, StoreOutput, ConfirmNode, RecordNode,
       FinalCheckpoint, Checkpoint, RecordFailure, MissingEdge, RunRaises, LeaveRun
<1>6. CASE \/ Escape \/ \E n \in Nodes, permanent \in BOOLEAN : NodeFails(n, permanent)
           \/ \E kept \in BOOLEAN : Crash(kept)
  BY <1>6 DEF Escape, RunRaises, LeaveRun, NodeFails, Fail, Crash
<1> QED BY <1>1, <1>2, <1>3, <1>4, <1>5, <1>6 DEF Next, ProcessStep, Environment

TypeInvariant == TypeOK /\ RewindsToNode /\ DownIsIdle

LEMMA TypeInit == Init => TypeInvariant
<1> SUFFICES ASSUME Init PROVE TypeInvariant
  OBVIOUS
<1>1. InitialState(0, 0) \in States
  BY InitialStateType
<1>2. record \in Records(Nodes \cup {"worker"}) /\ store \in Stores
  BY DEF Init, NoRecord, Records, Statuses, EmptyStore, Stores
<1>3. spent \in [{"faults", "crashes", "escapes", "commands", "requeues", "prepared"} -> Nat]
  BY DEF Init, Zero
<1>4. DOMAIN journal = {}
  BY DEF Init
<1> QED BY <1>1, <1>2, <1>3, <1>4 DEF Init, TypeInvariant, TypeOK, RewindsToNode, DownIsIdle

LEMMA TypeStep == TypeInvariant /\ [Next]_vars => TypeInvariant'
<1> SUFFICES ASSUME TypeInvariant, [Next]_vars PROVE TypeInvariant'
  OBVIOUS
<1>1. TypeOK /\ RewindsToNode /\ DownIsIdle
  BY DEF TypeInvariant
<1>2. RewindsToNode' /\ DownIsIdle'
  BY <1>1, RewindingStep, DownStep
<1>3. TypeOK'
  <2>1. CASE UNCHANGED vars
    BY <1>1, <2>1 DEF TypeOK, vars, Summaries
  <2>2. CASE StartWorker \/ Environment
    BY <1>1, <2>2, ProcessTypes, PersistTypes, SuperstepTypes, EndTypes DEF Environment
  <2>3. CASE Run \/ Work \/ Persist \/ Api
    BY <1>1, <2>3, ProcessTypes, RunTypes, WorkTypes, PersistTypes, EndTypes DEF Run
  <2>4. CASE Superstep
    <3>1. "complete" \in Nodes
      BY DEF Nodes, LogicalNodes
    <3> QED BY <1>1, <2>4, <3>1, SuperstepTypes, EndTypes DEF Superstep
  <2> QED BY <2>1, <2>2, <2>3, <2>4 DEF Next, ProcessStep
<1> QED BY <1>2, <1>3 DEF TypeInvariant

\* Every variable always has its type: the record, the journal, the checkpoint
\* and the API's row are only ever rows and states that the code builds.
THEOREM TypeCorrect == Spec => []TypeOK
<1>1. TypeInvariant => TypeOK
  BY DEF TypeInvariant
<1> QED BY <1>1, TypeInit, TypeStep, PTL DEF Spec

-----------------------------------------------------------------------------
(* The journal: what the second superstep will need is there, and under    *)
(* the lock a row that is running is the process's own.                    *)
(*                                                                         *)
(* Neither invariant is inductive.  The claimed row must be known to exist *)
(* until its output is stored; a pending key must belong to the node the   *)
(* checkpoint is at, so that no other claim can erase its output; and      *)
(* which row may be running depends on the phase of the superstep.         *)

Working == phase \in {"claimed", "sent", "executed"}

ClaimedKey == KeyOf(ckpt.s, ckpt.next)

PendingInOrder ==
  /\ \A k \in DOMAIN journal : k.stage \in Nodes
  /\ ckpt.half = "finalize" => ckpt.next \in Nodes
  /\ ckpt.s.pending = NoKey \/ (ckpt.half = "finalize" /\ ckpt.s.pending.stage = ckpt.next)
  /\ patched.pending = NoKey \/ (ckpt.next \in Nodes /\ patched.pending.stage = ckpt.next)
  /\ phase # "patched" => patched.pending = ckpt.s.pending
  /\ phase = "patched" => ckpt.half = "action" /\ ckpt.next \in Nodes \cup {"failure"}
  /\ Working => ckpt.half = "action" /\ ckpt.next \in Nodes /\ ClaimedKey \in DOMAIN journal
  /\ phase = "sent" => ckpt.next = "persist_result_via_api"

PendingHasOutput ==
  \A key \in {ckpt.s.pending, patched.pending} : key # NoKey => CanComplete(journal, key)

OneRunning ==
  proc # "down" /\ spent.escapes = 0 =>
    \A k \in DOMAIN journal :
      journal[k].status = "running" =>
        \/ Working /\ k = ClaimedKey
        \/ phase \in {"ready", "patched"} /\ k = patched.pending

JournalInvariant == PendingInOrder /\ PendingHasOutput /\ OneRunning

\* What a journal statement does to the rows, to their outputs and to the running ones.
NoneRunning(j) == \A k \in DOMAIN j : j[k].status # "running"

LEMMA ReleasedRows ==
  ASSUME JournalOK(journal), NEW j, j = RecoverAbandoned(journal) \/ j = InvalidateAll(journal)
  PROVE  /\ DOMAIN j = DOMAIN journal
         /\ \A k \in DOMAIN j : j[k].output = journal[k].output
         /\ NoneRunning(j)
BY DEF JournalOK, Rows, RecoverAbandoned, InvalidateAll, NoneRunning

LEMMA NoKeyIsNoRow == NoKey.stage \notin Nodes
BY DEF NoKey, Nodes, LogicalNodes

\* A start of a process: the rows are released, nothing else of a run changes.
LEMMA ReleaseStep ==
  ASSUME TypeOK, JournalInvariant,
         journal' = RecoverAbandoned(journal) \/ journal' = InvalidateAll(journal),
         ckpt' = ckpt, patched' = patched, ~Working, ~Working', phase # "patched",
         phase' # "patched"
  PROVE  JournalInvariant'
<1>1. JournalOK(journal)
  BY StateFields
<1>2. /\ DOMAIN journal' = DOMAIN journal
      /\ \A k \in DOMAIN journal' : journal'[k].output = journal[k].output
      /\ NoneRunning(journal')
  BY <1>1, ReleasedRows
<1>3. PendingInOrder'
  BY <1>2 DEF JournalInvariant, PendingInOrder, Working, ClaimedKey
<1>4. PendingHasOutput'
  BY <1>2 DEF JournalInvariant, PendingHasOutput, CanComplete
<1>5. OneRunning'
  BY <1>2 DEF OneRunning, NoneRunning
<1> QED BY <1>3, <1>4, <1>5 DEF JournalInvariant

\* A step that leaves the journal, the checkpoint and the phase alone.
LEMMA StillStep ==
  ASSUME JournalInvariant, UNCHANGED <<journal, ckpt, patched>>,
         phase' = phase \/ (~Working /\ ~Working' /\ phase \notin {"ready", "patched"}
                            /\ phase' # "patched"),
         proc' = "down" \/ proc' = proc,
         spent'.escapes = 0 => spent.escapes = 0
  PROVE  JournalInvariant'
BY DEF JournalInvariant, PendingInOrder, PendingHasOutput, OneRunning, Working, ClaimedKey,
       CanComplete

\* What a step of the superstep may rely on: which row is running, if any.
LEMMA QuietPhases ==
  ASSUME TypeOK, JournalInvariant, proc # "down" /\ spent.escapes = 0,
         ~Working, phase \notin {"ready", "patched"} \/ patched.pending = NoKey
  PROVE  NoneRunning(journal)
BY NoKeyIsNoRow DEF JournalInvariant, OneRunning, PendingInOrder, NoneRunning

LEMMA JournalCommands ==
  ASSUME TypeInvariant, JournalInvariant,
         StartWorker \/ StopWorker \/ Deploy \/ ProcessCommand \/ ReprocessCommand
         \/ (\E permanent \in BOOLEAN : RetryCommand(permanent)) \/ Accept \/ Defer
         \/ RestartFailed
  PROVE  JournalInvariant'
<1> USE DEF TypeInvariant, DownIsIdle
<1>1. /\ TypeOK /\ spent.escapes \in Nat
      /\ \A event \in {"faults", "crashes", "commands", "requeues", "prepared"} :
           Count(event) => spent'.escapes = spent.escapes
  BY DEF TypeOK, Count
<1>2. CASE StartWorker
  BY <1>1, <1>2, ReleaseStep DEF StartWorker, Working
<1>3. CASE ProcessCommand
  BY <1>1, <1>3, ReleaseStep DEF ProcessCommand, Command, Working
<1>4. CASE ReprocessCommand
  BY <1>1, <1>4, ReleaseStep DEF ReprocessCommand, Command, Working
<1>5. CASE \E permanent \in BOOLEAN : RetryCommand(permanent)
  BY <1>1, <1>5, ReleaseStep DEF RetryCommand, Command, Working
<1>6. CASE StopWorker
  BY <1>1, <1>6, StillStep DEF StopWorker, Spend
<1>7. CASE Deploy
  BY <1>1, <1>7, StillStep DEF Deploy, Spend
<1>8. CASE Accept
  <2>1. phase \in {"idle", "asked", "forced"} /\ phase' = "accepted"
    BY <1>8 DEF Accept
  <2> QED BY <1>8, <2>1, StillStep DEF Accept, Working
<1>9. CASE Defer
  BY <1>9, StillStep DEF Defer, Working
<1>10. CASE RestartFailed
  BY <1>10, StillStep DEF RestartFailed, Working
<1> QED BY <1>2, <1>3, <1>4, <1>5, <1>6, <1>7, <1>8, <1>9, <1>10

\* A run begins with no row running, from a checkpoint whose pending key is kept.
LEMMA BeginJournal ==
  ASSUME TypeOK, JournalInvariant, NEW s, NEW next, NEW half, Begin(s, next, half),
         phase \in {"accepted", "rewinding"},
         half = "finalize" => next \in Nodes,
         s.pending = NoKey \/ (s.pending = ckpt.s.pending /\ next = ckpt.next /\ half = ckpt.half)
  PROVE  JournalInvariant'
<1>1. /\ ckpt'.s = s /\ ckpt'.next = next /\ ckpt'.half = half /\ patched' = s
      /\ phase' = "ready" /\ UNCHANGED <<journal, proc, spent>>
  BY DEF Begin
<1>2. PendingInOrder'
  BY <1>1 DEF JournalInvariant, PendingInOrder, Working, ClaimedKey
<1>3. PendingHasOutput'
  BY <1>1 DEF JournalInvariant, PendingHasOutput, CanComplete
<1>4. OneRunning'
  BY <1>1, QuietPhases DEF OneRunning, Working, NoneRunning
<1> QED BY <1>2, <1>3, <1>4 DEF JournalInvariant

LEMMA JournalBegins ==
  ASSUME TypeInvariant, JournalInvariant, Continue \/ Rewind \/ StartFresh
  PROVE  JournalInvariant'
<1>1. TypeOK
  BY DEF TypeInvariant
<1>2. CASE Continue
  <2>1. ckpt.half = "finalize" => ckpt.next \in Nodes
    BY DEF JournalInvariant, PendingInOrder
  <2> QED BY <1>1, <1>2, <2>1, BeginJournal DEF Continue
<1>3. CASE Rewind
  <2> DEFINE cleared == [ckpt.s EXCEPT !.failed = "none", !.status = "processing", !.pending = NoKey]
             fetching == [cleared EXCEPT !.raw = "none", !.dirOurs = TRUE]
  <2>1. cleared.pending = NoKey /\ fetching.pending = NoKey
    BY <1>1, StateFields DEF States
  <2>2. Begin(fetching, "fetch_message", "action") \/ Begin(cleared, FailedStage, "action")
    BY <1>3 DEF Rewind
  <2>3. phase = "rewinding"
    BY <1>3 DEF Rewind
  <2> HIDE DEF cleared, fetching
  <2> QED BY <1>1, <2>1, <2>2, <2>3, BeginJournal
<1>4. CASE StartFresh
  <2>1. InitialState(record.gen, code).pending = NoKey
    BY DEF InitialState
  <2> QED BY <1>1, <1>4, <2>1, BeginJournal DEF StartFresh
<1> QED BY <1>2, <1>3, <1>4

\* The row a working process has claimed: its output may come, its status may change.
LEMMA JournalWork ==
  ASSUME TypeInvariant, JournalInvariant, Work
  PROVE  JournalInvariant'
<1>1. ckpt.s \in States /\ TypeOK
  BY StateFields DEF TypeInvariant
<1>2. /\ phase = "claimed" /\ phase' = "executed" /\ patched'.pending = ckpt.s.pending
      /\ UNCHANGED <<journal, ckpt, proc>>
  <2> USE <1>1 DEF Produce, States
  <2>1. CASE Normalize \/ Collect \/ Plan \/ Validate \/ Prepare
    BY <2>1 DEF Normalize, Collect, Plan, Validate, Prepare, ProduceData
  <2>2. CASE CheckIdempotency \/ CommitState \/ MarkAsRead \/ CompleteMessage
    BY <2>2 DEF CheckIdempotency, CommitState, MarkAsRead, CompleteMessage
  <2>3. CASE FetchMessage
    BY <2>3 DEF FetchMessage
  <2>4. CASE Process \/ Summarize
    BY <2>4 DEF Process, Summarize
  <2>5. CASE ManualReview
    BY <2>5 DEF ManualReview
  <2> QED BY <2>1, <2>2, <2>3, <2>4, <2>5 DEF Work
<1>3. spent'.escapes = spent.escapes
  BY <1>1 DEF Work, CheckIdempotency, FetchMessage, Normalize, Collect, Plan, Process,
              Validate, Summarize, Prepare, ManualReview, CommitState, MarkAsRead,
              CompleteMessage, ProduceData, Count, TypeOK
<1> QED BY <1>2, <1>3 DEF JournalInvariant, PendingInOrder, PendingHasOutput, OneRunning,
        Working, ClaimedKey, CanComplete

\* The end of a run: the journal is left as it is, for the next start to release.
LEMMA JournalEnds ==
  ASSUME TypeInvariant, JournalInvariant,
         Finish \/ MissingEdge \/ Escape \/ \E kept \in BOOLEAN : Crash(kept)
  PROVE  JournalInvariant'
<1>1. /\ TypeOK /\ ckpt.s \in States /\ spent.escapes \in Nat
      /\ ckpt.next \in Nodes \cup {"none", "failure", "end"}
  BY StateFields DEF TypeInvariant, TypeOK
<1>2. PICK kept \in BOOLEAN : LeaveRun(kept)
  BY DEF Finish, MissingEdge, Escape, RunRaises, Crash
<1>3. Relocate(ckpt.s, kept).pending = ckpt.s.pending
  BY <1>1 DEF Relocate, States
<1>4. /\ ckpt'.s.pending = ckpt.s.pending /\ patched'.pending = ckpt.s.pending
      /\ ckpt'.next = ckpt.next /\ ckpt'.half = ckpt.half
      /\ phase' = "idle" /\ journal' = journal
  BY <1>1, <1>2, <1>3 DEF LeaveRun, TypeOK
<1>5. PendingInOrder'
  BY <1>4 DEF JournalInvariant, PendingInOrder, Working
<1>6. PendingHasOutput'
  BY <1>4 DEF JournalInvariant, PendingHasOutput, CanComplete
<1>7. OneRunning'
  <2>1. CASE Finish
    <3>1. phase = "ready" /\ ckpt.next = "end" /\ spent' = spent /\ proc # "down"
      BY <2>1 DEF Finish, TypeInvariant, DownIsIdle
    <3>2. patched.pending = NoKey
      BY <3>1 DEF JournalInvariant, PendingInOrder, Nodes, LogicalNodes
    <3> QED BY <1>1, <1>4, <3>1, <3>2, QuietPhases DEF OneRunning, Working, NoneRunning
  <2>2. CASE MissingEdge
    <3>1. PICK n \in Nodes : AtFinal(n) /\ ckpt.s.pending.stage # n
      BY <2>2 DEF MissingEdge
    <3>2. phase = "ready" /\ spent' = spent /\ proc # "down"
      BY <2>2 DEF MissingEdge, TypeInvariant, DownIsIdle
    <3>3. patched.pending = NoKey
      BY <3>1, <3>2 DEF JournalInvariant, PendingInOrder, AtFinal
    <3> QED BY <1>1, <1>4, <3>2, <3>3, QuietPhases DEF OneRunning, Working, NoneRunning
  <2>3. CASE Escape
    <3>1. spent'.escapes # 0
      BY <1>1, <2>3 DEF Escape, Spend, Count, TypeOK
    <3> QED BY <3>1 DEF OneRunning
  <2>4. CASE \E lost \in BOOLEAN : Crash(lost)
    BY <2>4 DEF OneRunning, Crash
  <2> QED BY <2>1, <2>2, <2>3, <2>4
<1> QED BY <1>5, <1>6, <1>7 DEF JournalInvariant

\* The rest of the first superstep: reuse, a row found busy, a claim, an output stored.
LEMMA JournalActions ==
  ASSUME TypeInvariant, JournalInvariant, NEW n \in Nodes,
         Reuse(n) \/ FindBusy(n) \/ Claim(n) \/ StoreOutput(n)
  PROVE  JournalInvariant'
<1>1. /\ TypeOK /\ ckpt.s \in States /\ patched \in States /\ JournalOK(journal)
      /\ ckpt.s.data \in Data /\ patched.data \in Data
  BY StateFields DEF TypeInvariant, TypeOK, States
<1>2. /\ ckpt.next = n /\ ckpt.half = "action" /\ ckpt.s.pending = NoKey
      /\ phase # "patched" /\ patched.pending = NoKey
      /\ KeyOf(ckpt.s, n) = ClaimedKey /\ ClaimedKey.stage = n
      /\ UNCHANGED <<ckpt, proc, spent>> /\ proc # "down"
  BY DEF Reuse, FindBusy, Claim, StoreOutput, AtNode, JournalInvariant, PendingInOrder,
         TypeInvariant, DownIsIdle, ClaimedKey, KeyOf
<1>3. CASE Reuse(n) \/ FindBusy(n)
  <2>1. phase = "ready" /\ phase' = "patched" /\ patched'.pending = NoKey /\ journal' = journal
    BY <1>1, <1>3 DEF Reuse, FindBusy, FailedState, States
  <2>2. PendingInOrder'
    BY <1>2, <2>1 DEF JournalInvariant, PendingInOrder, Working
  <2>3. PendingHasOutput'
    BY <1>2, <2>1 DEF PendingHasOutput
  <2>4. OneRunning'
    BY <1>1, <1>2, <2>1, QuietPhases DEF OneRunning, Working, NoneRunning
  <2> QED BY <2>2, <2>3, <2>4 DEF JournalInvariant
<1>4. CASE Claim(n)
  <2>1. /\ phase = "ready" /\ phase' = "claimed" /\ patched' = patched
        /\ journal' = ClaimRow(journal, ClaimedKey)
    BY <1>2, <1>4 DEF Claim
  <2>2. /\ DOMAIN journal' = DOMAIN journal \cup {ClaimedKey}
        /\ \A k \in DOMAIN journal : k # ClaimedKey => journal'[k] = journal[k]
    BY <2>1 DEF ClaimRow, WithRow
  <2>3. PendingInOrder'
    BY <1>2, <2>1, <2>2 DEF JournalInvariant, PendingInOrder, Working, ClaimedKey
  <2>4. PendingHasOutput'
    BY <1>2, <2>1 DEF PendingHasOutput
  <2>5. OneRunning'
    BY <1>1, <1>2, <2>1, <2>2, QuietPhases DEF OneRunning, Working, NoneRunning, ClaimedKey
  <2> QED BY <2>3, <2>4, <2>5 DEF JournalInvariant
<1>5. CASE StoreOutput(n)
  <2>1. /\ phase = "executed" /\ phase' = "patched" /\ patched'.pending = ClaimedKey
        /\ journal' = StoreResult(journal, ClaimedKey, patched.data)
    BY <1>1, <1>2, <1>5 DEF StoreOutput, States
  <2>2. ClaimedKey \in DOMAIN journal
    BY <2>1 DEF JournalInvariant, PendingInOrder, Working
  <2>3. /\ DOMAIN journal' = DOMAIN journal
        /\ \A k \in DOMAIN journal : journal'[k].status = journal[k].status
        /\ journal'[ClaimedKey].output = patched.data
    BY <1>1, <2>1, <2>2 DEF StoreResult, JournalOK, Rows
  <2>4. PendingInOrder'
    BY <1>2, <2>1, <2>3 DEF JournalInvariant, PendingInOrder, Working
  <2>5. PendingHasOutput'
    BY <1>1, <1>2, <2>1, <2>2, <2>3, NoOutputAssumption DEF PendingHasOutput, CanComplete
  <2>6. OneRunning'
    BY <1>2, <2>1, <2>3 DEF JournalInvariant, OneRunning, Working, ClaimedKey
  <2> QED BY <2>4, <2>5, <2>6 DEF JournalInvariant
<1> QED BY <1>3, <1>4, <1>5

\* The row of the claimed node fails: no output is pending, and nothing runs any more.
LEMMA JournalFail ==
  ASSUME TypeInvariant, JournalInvariant, NEW n \in Nodes, NEW permanent \in BOOLEAN,
         Fail(n, permanent), Working, AtNode(n),
         spent'.escapes = spent.escapes
  PROVE  JournalInvariant'
<1>1. TypeOK /\ ckpt.s \in States /\ JournalOK(journal)
  BY StateFields DEF TypeInvariant
<1>2. FailedState(n, permanent).pending = NoKey
  BY <1>1 DEF FailedState, States
<1>3. /\ patched'.pending = NoKey /\ phase' = "patched" /\ ckpt' = ckpt /\ proc' = proc
      /\ ckpt.s.pending = NoKey /\ ckpt.next = n /\ ckpt.half = "action"
  BY <1>2 DEF Fail, AtNode, JournalInvariant, PendingInOrder
<1>4. /\ DOMAIN journal' = DOMAIN journal
      /\ \A k \in DOMAIN journal : k # ClaimedKey => journal'[k] = journal[k]
      /\ ClaimedKey \in DOMAIN journal => journal'[ClaimedKey].status # "running"
  BY <1>1, <1>3 DEF Fail, FailRow, JournalOK, Rows, ClaimedKey
<1>5. PendingInOrder'
  BY <1>3, <1>4 DEF JournalInvariant, PendingInOrder, Working
<1>6. PendingHasOutput'
  BY <1>3 DEF PendingHasOutput
<1>7. OneRunning'
  BY <1>3, <1>4 DEF JournalInvariant, OneRunning, Working, ClaimedKey
<1> QED BY <1>5, <1>6, <1>7 DEF JournalInvariant

LEMMA JournalFailures ==
  ASSUME TypeInvariant, JournalInvariant,
         \/ SendWithoutFile \/ ReceiveConflict \/ GiveUp
         \/ \E n \in Nodes, permanent \in BOOLEAN : NodeFails(n, permanent)
  PROVE  JournalInvariant'
<1>1. \E n \in Nodes, permanent \in BOOLEAN : Fail(n, permanent) /\ AtNode(n)
  <2>1. /\ "persist_result_via_api" \in Nodes
        /\ phase = "sent" => AtNode("persist_result_via_api")
    BY DEF JournalInvariant, PendingInOrder, Working, AtNode, Nodes, LogicalNodes
  <2> QED BY <2>1 DEF SendWithoutFile, ReceiveConflict, GiveUp, NodeFails
<1>2. spent'.escapes = spent.escapes
  BY DEF SendWithoutFile, ReceiveConflict, GiveUp, NodeFails, Spend, Count, TypeInvariant, TypeOK
<1>3. Working
  BY DEF SendWithoutFile, ReceiveConflict, GiveUp, NodeFails, Working
<1> QED BY <1>1, <1>2, <1>3, JournalFail

\* The rest of the second superstep, and the API call while it is under way.
LEMMA JournalSupersteps ==
  ASSUME TypeInvariant, JournalInvariant,
         \/ Checkpoint \/ RecordFailure
         \/ \E n \in Nodes : ConfirmNode(n) \/ RecordNode(n) \/ FinalCheckpoint(n)
  PROVE  JournalInvariant'
<1>1. /\ TypeOK /\ ckpt.s \in States /\ patched \in States /\ JournalOK(journal)
      /\ UNCHANGED <<proc, spent>> /\ proc # "down"
  BY StateFields DEF TypeInvariant, TypeOK, DownIsIdle, Checkpoint, RecordFailure, ConfirmNode,
                     RecordNode, FinalCheckpoint
<1>2. CASE Checkpoint
  <2>1. /\ phase = "patched" /\ phase' = "ready" /\ ckpt'.s = patched
        /\ UNCHANGED <<journal, patched>>
    BY <1>2 DEF Checkpoint
  <2>2. CASE ckpt.next = "failure"
    <3>1. ckpt'.half = "action" /\ patched.pending = NoKey
      BY <1>2, <2>1, <2>2 DEF Checkpoint, JournalInvariant, PendingInOrder, Nodes, LogicalNodes
    <3> QED BY <1>1, <2>1, <3>1 DEF JournalInvariant, PendingInOrder, PendingHasOutput,
            OneRunning, Working, CanComplete
  <2>3. CASE ckpt.next # "failure"
    <3>1. /\ ckpt'.half = "finalize" /\ ckpt'.next = ckpt.next /\ ckpt.next \in Nodes
          /\ patched.pending = NoKey \/ patched.pending.stage = ckpt.next
      BY <1>2, <2>1, <2>3 DEF Checkpoint, JournalInvariant, PendingInOrder
    <3> QED BY <1>1, <2>1, <3>1 DEF JournalInvariant, PendingInOrder, PendingHasOutput,
            OneRunning, Working, CanComplete
  <2> QED BY <2>2, <2>3
<1>3. CASE RecordFailure
  <2>1. /\ phase = "ready" /\ phase' = "patched" /\ UNCHANGED <<journal, ckpt>>
        /\ ckpt.next = "failure" /\ ckpt.half = "action"
        /\ patched'.pending = ckpt.s.pending
    BY <1>1, <1>3 DEF RecordFailure, AtNode, States
  <2> QED BY <1>1, <2>1 DEF JournalInvariant, PendingInOrder, PendingHasOutput,
          OneRunning, Working, CanComplete
<1>4. CASE \E n \in Nodes : ConfirmNode(n)
  <2> DEFINE key == ckpt.s.pending
  <2>1. /\ phase = "ready" /\ phase' \in {"confirmed", "finalized"}
        /\ UNCHANGED <<ckpt, patched>> /\ key \in DOMAIN journal
        /\ journal' = CompleteRow(journal, key) /\ patched.pending = key
    BY <1>4 DEF ConfirmNode, CanComplete, JournalInvariant, PendingInOrder
  <2>2. /\ DOMAIN journal' = DOMAIN journal
        /\ \A k \in DOMAIN journal : journal'[k].output = journal[k].output
        /\ \A k \in DOMAIN journal : k # key => journal'[k] = journal[k]
        /\ journal'[key].status # "running"
    BY <1>1, <2>1 DEF CompleteRow, JournalOK, Rows
  <2> QED BY <1>1, <2>1, <2>2 DEF JournalInvariant, PendingInOrder, PendingHasOutput,
          OneRunning, Working, CanComplete
<1>5. CASE \E n \in Nodes : RecordNode(n)
  BY <1>5, StillStep DEF RecordNode, Working
<1>6. CASE \E n \in Nodes : FinalCheckpoint(n)
  <2>1. PICK n \in Nodes : FinalCheckpoint(n)
    BY <1>6
  <2>2. /\ ckpt'.s.pending = NoKey /\ patched'.pending = NoKey /\ ckpt'.half = "action"
        /\ phase' = "ready" /\ journal' = journal
    BY <1>1, <2>1 DEF FinalCheckpoint, States
  <2>3. ~Working /\ (phase = "finalized" \/ (phase = "ready" /\ patched.pending = NoKey))
    BY <2>1 DEF FinalCheckpoint, AtFinal, JournalInvariant, PendingInOrder, Working
  <2>4. PendingInOrder'
    BY <2>2 DEF JournalInvariant, PendingInOrder, Working
  <2>5. PendingHasOutput'
    BY <2>2 DEF PendingHasOutput
  <2>6. OneRunning'
    BY <1>1, <2>2, <2>3, QuietPhases DEF OneRunning, NoneRunning
  <2> QED BY <2>4, <2>5, <2>6 DEF JournalInvariant
<1> QED BY <1>2, <1>3, <1>4, <1>5, <1>6

LEMMA JournalRequests ==
  ASSUME TypeInvariant, JournalInvariant,
         \/ Send \/ SendAgain \/ ReceiveCommit \/ Api \/ LoseReply
         \/ \E request \in inflight : LoseRequest(request)
  PROVE  JournalInvariant'
<1>1. /\ TypeOK /\ ckpt.s \in States /\ spent'.escapes = spent.escapes
      /\ UNCHANGED <<journal, ckpt, proc>>
  BY StateFields DEF TypeInvariant, TypeOK, Send, SendAgain, ReceiveCommit, Api, ApiHandles,
                     LoseReply, LoseRequest, Spend, Count
<1>2. CASE Send \/ ReceiveCommit
  <2>1. /\ Working /\ Working' /\ patched'.pending = ckpt.s.pending
        /\ phase # "patched" /\ phase' # "patched"
        /\ phase' = "sent" => ckpt.next = "persist_result_via_api"
    BY <1>1, <1>2 DEF Send, ReceiveCommit, AtNode, Working, JournalInvariant, PendingInOrder,
                      States
  <2> QED BY <1>1, <2>1 DEF JournalInvariant, PendingInOrder, PendingHasOutput, OneRunning,
          Working, ClaimedKey, CanComplete
<1>3. CASE SendAgain \/ Api \/ LoseReply \/ \E request \in inflight : LoseRequest(request)
  <2>1. UNCHANGED <<patched, phase>>
    BY <1>3 DEF SendAgain, Api, ApiHandles, LoseReply, LoseRequest
  <2> QED BY <1>1, <2>1, StillStep
<1> QED BY <1>2, <1>3

LEMMA JournalInvariantInit == Init => JournalInvariant
BY DEF Init, JournalInvariant, PendingInOrder, PendingHasOutput, OneRunning, InitialState,
       Working

LEMMA JournalInvariantStep == TypeInvariant /\ JournalInvariant /\ [Next]_vars => JournalInvariant'
<1> SUFFICES ASSUME TypeInvariant, JournalInvariant, [Next]_vars PROVE JournalInvariant'
  OBVIOUS
<1>1. CASE UNCHANGED vars
  BY <1>1, StillStep DEF vars
<1>2. CASE StartWorker \/ Environment
  BY <1>2, JournalCommands, JournalFailures, JournalRequests, JournalEnds DEF Environment
<1>3. CASE Run
  BY <1>3, JournalCommands, JournalBegins, JournalEnds DEF Run
<1>4. CASE Work \/ Persist \/ Api
  BY <1>4, JournalWork, JournalFailures, JournalRequests DEF Persist
<1>5. CASE Superstep
  BY <1>5, JournalActions, JournalSupersteps, JournalEnds DEF Superstep
<1> QED BY <1>1, <1>2, <1>3, <1>4, <1>5 DEF Next, ProcessStep

LEMMA JournalCorrect == Spec => [](TypeInvariant /\ JournalInvariant)
BY TypeInit, TypeStep, JournalInvariantInit, JournalInvariantStep, PTL DEF Spec

\* Whatever died or was requeued between the two supersteps, the second always
\* finds the output it confirms: complete_node_execution never raises.
THEOREM OutputOutlivesCrash == Spec => []CheckpointHasOutput
<1>1. JournalInvariant => CheckpointHasOutput
  <2> SUFFICES ASSUME JournalInvariant, NEW n \in Nodes, ckpt.s.pending.stage = n
               PROVE  CanComplete(journal, ckpt.s.pending)
    BY DEF CheckpointHasOutput
  <2> QED BY NoKeyIsNoRow DEF JournalInvariant, PendingHasOutput
<1> QED BY <1>1, JournalCorrect, PTL

\* Under CoreWorkerLock, as long as no exception has escaped a run, every running
\* row a live process can meet is the one it claimed itself.
THEOREM RunningRowIsOwn == Spec => []RunningIsMine
<1>1. JournalInvariant => RunningIsMine
  BY DEF JournalInvariant, OneRunning, RunningIsMine, Working, ClaimedKey
<1> QED BY <1>1, JournalCorrect, PTL

\* So claim_node_execution never answers "busy" (NodeExecutionBusy, which would
\* record a failure of a node that nobody is executing).
NeverBusy == [][spent.escapes = 0 => \A n \in Nodes : ~FindBusy(n)]_vars

\* No node of a worker finds its row busy, whatever died or was requeued before.
THEOREM NodeIsNeverBusy == Spec => NeverBusy
<1>1. ASSUME TypeInvariant, JournalInvariant, spent.escapes = 0, NEW n \in Nodes
      PROVE  ~FindBusy(n)
  <2> SUFFICES ASSUME FindBusy(n) PROVE FALSE
    OBVIOUS
  <2>1. phase = "ready" /\ AtNode(n) /\ Busy(journal, KeyOf(ckpt.s, n)) /\ proc # "down"
    BY <1>1 DEF FindBusy, TypeInvariant, DownIsIdle
  <2>2. patched.pending = NoKey
    BY <1>1, <2>1 DEF JournalInvariant, PendingInOrder, AtNode
  <2>3. NoneRunning(journal)
    BY <1>1, <2>1, <2>2, QuietPhases DEF TypeInvariant, Working
  <2> QED BY <2>1, <2>3 DEF Busy, HasStatus, NoneRunning
<1>2. TypeInvariant /\ JournalInvariant =>
        [spent.escapes = 0 => \A n \in Nodes : ~FindBusy(n)]_vars
  BY <1>1
<1> QED BY <1>2, JournalCorrect, PTL DEF NeverBusy

-----------------------------------------------------------------------------
(* What is earned stays earned: the API's generation never falls and the   *)
(* agent never clears the flag.                                            *)

LEMMA CommitOnlyRises ==
  ASSUME NEW st \in Stores, NEW request \in Requests, NEW g \in Nat,
         st.stored, st.gen >= g
  PROVE  CommitRequest(st, request).stored /\ CommitRequest(st, request).gen >= g
BY DEF CommitRequest, Conflicts, Same, Stores, Requests

\* A step that leaves the API alone, or one PUT that it handles.
StoreStep ==
  store' = store \/ \E request \in inflight : store' = CommitRequest(store, request)

LEMMA HeldStays ==
  ASSUME TypeOK, StoreStep, NEW g \in Nat, ResultHeld(g)
  PROVE  ResultHeld(g)'
BY CommitOnlyRises DEF TypeOK, StoreStep, ResultHeld

LEMMA EarnedStays ==
  ASSUME TypeOK, StoreStep, seen => seen', NEW n, NEW g \in Nat
  PROVE  /\ EarnedBefore(n, g) => EarnedBefore(n, g)'
         /\ EarnedAfter(n, g) => EarnedAfter(n, g)'
BY HeldStays DEF EarnedBefore, EarnedAfter, FlagSet

\* What a node has established is what the next one needs.
LEMMA FollowingEarned ==
  ASSUME NEW n \in Nodes, NEW g, EarnedAfter(n, g)
  PROVE  EarnedBefore(Following[n], g)
BY DEF EarnedAfter, EarnedBefore, Following, Nodes, LogicalNodes

LEMMA StepKeeps ==
  ASSUME TypeOK, [Next]_vars
  PROVE  StoreStep /\ (seen => seen')
<1>1. CASE UNCHANGED <<store, seen>>
  BY <1>1 DEF StoreStep
<1>2. CASE Api
  BY <1>2 DEF Api, ApiHandles, StoreStep
<1>3. CASE MarkAsRead
  BY <1>3 DEF MarkAsRead, Produce, StoreStep
<1>4. CASE StartWorker \/ Environment \/ Persist \/ UNCHANGED vars
  BY <1>1, <1>4 DEF StartWorker, Environment, Persist, StopWorker, Deploy, ProcessCommand,
       ReprocessCommand, RetryCommand, Command, NodeFails, Fail, LoseRequest, LoseReply,
       GiveUp, Escape, RunRaises, LeaveRun, Crash, Send, SendWithoutFile, SendAgain,
       ReceiveCommit, ReceiveConflict, vars
<1>5. CASE Run
  BY <1>1, <1>5 DEF Run, Accept, Defer, Continue, RestartFailed, Rewind, StartFresh, Begin,
       Finish, LeaveRun
<1>6. CASE Work
  BY <1>1, <1>3, <1>6 DEF Work, CheckIdempotency, FetchMessage, Normalize, Collect, Plan,
       Process, Validate, Summarize, Prepare, ManualReview, CommitState, CompleteMessage,
       ProduceData, Produce
<1>7. CASE Superstep
  BY <1>1, <1>7 DEF Superstep, Reuse, FindBusy, Claim, StoreOutput, ConfirmNode, RecordNode,
       FinalCheckpoint, Checkpoint, RecordFailure, MissingEdge, RunRaises, LeaveRun
<1> QED BY <1>2, <1>4, <1>5, <1>6, <1>7 DEF Next, ProcessStep

-----------------------------------------------------------------------------
(* The journal: only StoreOutput writes an output, at the node's own key.  *)

OutputsFrom(new, old) ==
  \A k \in DOMAIN new :
    new[k].output # NoOutput => k \in DOMAIN old /\ old[k].output # NoOutput

LEMMA OutputsKept ==
  ASSUME NEW j, JournalOK(j), NEW key, NEW permanent
  PROVE  /\ OutputsFrom(RecoverAbandoned(j), j)
         /\ OutputsFrom(InvalidateAll(j), j)
         /\ OutputsFrom(ClaimRow(j, key), j)
         /\ OutputsFrom(FailRow(j, key, permanent), j)
         /\ OutputsFrom(CompleteRow(j, key), j)
<1> USE DEF OutputsFrom, JournalOK, Rows
<1>1. OutputsFrom(RecoverAbandoned(j), j)
  BY DEF RecoverAbandoned
<1>2. OutputsFrom(InvalidateAll(j), j)
  BY DEF InvalidateAll
<1>3. OutputsFrom(ClaimRow(j, key), j)
  BY DEF ClaimRow, WithRow
<1>4. OutputsFrom(FailRow(j, key, permanent), j)
  BY DEF FailRow
<1>5. OutputsFrom(CompleteRow(j, key), j)
  BY DEF CompleteRow
<1> QED BY <1>1, <1>2, <1>3, <1>4, <1>5

LEMMA JournalStep ==
  ASSUME TypeOK, [Next]_vars, ~(\E n \in Nodes : StoreOutput(n))
  PROVE  OutputsFrom(journal', journal)
<1> USE StateFields
<1>1. CASE UNCHANGED journal
  BY <1>1 DEF OutputsFrom
<1>2. CASE StartWorker \/ ProcessCommand \/ ReprocessCommand
           \/ \E permanent \in BOOLEAN : RetryCommand(permanent)
  BY <1>2, OutputsKept DEF StartWorker, ProcessCommand, ReprocessCommand, RetryCommand
<1>3. ASSUME NEW n, NEW permanent, Fail(n, permanent)
      PROVE  OutputsFrom(journal', journal)
  BY <1>3, OutputsKept DEF Fail
<1>4. CASE \/ SendWithoutFile \/ ReceiveConflict \/ GiveUp
           \/ \E n \in Nodes, permanent \in BOOLEAN : NodeFails(n, permanent)
  BY <1>3, <1>4 DEF SendWithoutFile, ReceiveConflict, GiveUp, NodeFails
<1>5. CASE \E n \in Nodes : Claim(n) \/ ConfirmNode(n)
  BY <1>5, OutputsKept DEF Claim, ConfirmNode
<1>6. CASE StopWorker \/ Deploy \/ Escape \/ LoseReply \/ Api \/ UNCHANGED vars
           \/ (\E request \in inflight : LoseRequest(request))
           \/ \E kept \in BOOLEAN : Crash(kept)
  BY <1>1, <1>6 DEF StopWorker, Deploy, Escape, LoseReply, LoseRequest, Crash, RunRaises,
       LeaveRun, Api, ApiHandles, vars
<1>7. CASE Run
  BY <1>1, <1>7 DEF Run, Accept, Defer, Continue, RestartFailed, Rewind, StartFresh, Begin,
       Finish, LeaveRun
<1>8. CASE Work
  BY <1>1, <1>8 DEF Work, CheckIdempotency, FetchMessage, Normalize, Collect, Plan,
       Process, Validate, Summarize, Prepare, ManualReview, CommitState, MarkAsRead,
       CompleteMessage, ProduceData, Produce
<1>9. CASE Send \/ SendAgain \/ ReceiveCommit
  BY <1>1, <1>9 DEF Send, SendAgain, ReceiveCommit
<1>10. CASE Checkpoint \/ RecordFailure \/ MissingEdge
           \/ \E n \in Nodes : Reuse(n) \/ FindBusy(n) \/ RecordNode(n) \/ FinalCheckpoint(n)
  BY <1>1, <1>10 DEF Checkpoint, RecordFailure, MissingEdge, RunRaises, LeaveRun, Reuse,
       FindBusy, RecordNode, FinalCheckpoint
<1> QED BY <1>2, <1>4, <1>5, <1>6, <1>7, <1>8, <1>9, <1>10
        DEF Next, ProcessStep, Superstep, Persist, Environment

LEMMA JournalEarnedStep ==
  ASSUME TypeOK, TailEarned, JournalEarned, [Next]_vars
  PROVE  JournalEarned'
<1> SUFFICES ASSUME NEW k \in DOMAIN journal', journal'[k].output # NoOutput
             PROVE  EarnedAfter(k.stage, k.gen)'
  BY DEF JournalEarned
<1>1. ASSUME k \in Keys, EarnedAfter(k.stage, k.gen)
      PROVE  EarnedAfter(k.stage, k.gen)'
  BY <1>1, StepKeeps, EarnedStays DEF Keys
<1>2. CASE ~(\E n \in Nodes : StoreOutput(n))
  <2>1. k \in DOMAIN journal /\ journal[k].output # NoOutput
    BY <1>2, JournalStep DEF OutputsFrom
  <2> QED BY <1>1, <2>1 DEF JournalEarned, TypeOK
<1>3. ASSUME NEW n \in Nodes, StoreOutput(n)
      PROVE  EarnedAfter(k.stage, k.gen)'
  <2>1. k \in DOMAIN journal
    BY <1>3 DEF StoreOutput, StoreResult
  <2>2. CASE k = KeyOf(ckpt.s, n)
    <3>1. k.stage = ckpt.next /\ k.gen = ckpt.s.gen
      BY <1>3, <2>2 DEF KeyOf, StoreOutput, AtNode
    <3>2. EarnedAfter(ckpt.next, ckpt.s.gen)
      BY <1>3 DEF TailEarned, StoreOutput
    <3>3. k \in Keys
      BY <2>1 DEF TypeOK
    <3> QED BY <1>1, <3>1, <3>2, <3>3
  <2>3. CASE k # KeyOf(ckpt.s, n)
    <3>1. journal[k].output # NoOutput
      BY <1>3, <2>1, <2>3 DEF StoreOutput, StoreResult
    <3> QED BY <1>1, <2>1, <3>1 DEF JournalEarned, TypeOK
  <2> QED BY <2>2, <2>3
<1> QED BY <1>2, <1>3

-----------------------------------------------------------------------------
(* Generations.                                                            *)

LEMMA RelocateKeeps ==
  ASSUME NEW s \in States, NEW kept
  PROVE  /\ Relocate(s, kept).gen = s.gen
         /\ Relocate(s, kept).failed = s.failed
         /\ Relocate(s, kept).status = s.status
BY DEF Relocate, States

LEMMA LeaveRunKeeps ==
  ASSUME TypeOK, NEW kept, LeaveRun(kept)
  PROVE  /\ ckpt'.s.gen = ckpt.s.gen /\ ckpt'.s.failed = ckpt.s.failed
         /\ ckpt'.s.status = ckpt.s.status /\ patched' = ckpt'.s
         /\ ckpt'.next = ckpt.next /\ ckpt'.half = ckpt.half
         /\ phase' = "idle" /\ reply' = "none"
         /\ UNCHANGED <<journal, code, store, inflight, seen>>
<1>1. /\ ckpt' = [ckpt EXCEPT !.s = Relocate(ckpt.s, kept)]
      /\ patched' = ckpt'.s
  BY DEF LeaveRun
<1>2. ckpt'.s = Relocate(ckpt.s, kept) /\ ckpt'.next = ckpt.next /\ ckpt'.half = ckpt.half
  BY <1>1 DEF TypeOK
<1> QED BY <1>1, <1>2, RelocateKeeps, StateFields DEF LeaveRun

\* What the operators on the row do to its generation.
LEMMA RecordGenerations ==
  ASSUME NEW r \in Records(Nodes \cup {"worker"})
  PROVE  /\ NewGeneration(r).gen = r.gen + 1 /\ NewGeneration(r).exists = r.exists
         /\ StartAttempt(r).gen = r.gen /\ StartAttempt(r).exists = r.exists
         /\ SetStage(r, "attachments_processed").gen = r.gen
         /\ SetStage(r, "attachments_processed").exists = r.exists
         /\ SetStage(r, "summarized").gen = r.gen
         /\ SetStage(r, "summarized").exists = r.exists
         /\ ResultCommitted(r).gen = r.gen /\ ResultCommitted(r).exists = r.exists
         /\ Completed(r).gen = r.gen /\ Completed(r).exists = r.exists
         /\ MarkManualReview(r).gen = r.gen /\ MarkManualReview(r).exists = r.exists
         /\ RequeueFailed(r).gen = r.gen /\ RequeueFailed(r).exists = r.exists
BY DEF NewGeneration, StartAttempt, SetStage, ResultCommitted, Completed, MarkManualReview,
       RequeueFailed, Records

LEMMA EnsureGeneration ==
  ASSUME NEW r \in Records(Nodes \cup {"worker"}), NEW version \in Nat,
         ~r.exists => r = NoRecord
  PROVE  Ensure(r, version).exists /\ Ensure(r, version).gen \in {r.gen, r.gen + 1}
<1>1. r.exists \in BOOLEAN
  BY DEF Records
<1> QED BY <1>1 DEF Ensure, NewGeneration, NoRecord, Records

LEMMA ErrorKeeps ==
  ASSUME NEW r \in Records(Nodes \cup {"worker"}), 
         NEW stage \in Nodes \cup {"worker", "none"}, NEW permanent \in BOOLEAN
  PROVE  /\ Error(r, stage, permanent).gen = r.gen
         /\ Error(r, stage, permanent).exists = r.exists
         /\ Error(r, stage, permanent).failed = stage
         /\ Error(r, stage, permanent).committed = r.committed
         /\ Error(r, stage, permanent).status \in {"retryable_error", "permanent_error"}
BY DEF Error, Records, Statuses

LEMMA RaiseKeeps ==
  ASSUME TypeOK, RunRaises
  PROVE  /\ LeaveRun(FALSE) /\ InRun
         /\ record'.gen = record.gen /\ record'.exists = record.exists
         /\ record'.committed = record.committed
         /\ record' = record \/ (/\ record'.failed = "worker"
                                 /\ record'.status \in {"retryable_error", "permanent_error"})
<1>1. record \in Records(Nodes \cup {"worker"})
  BY DEF TypeOK
<1>2. CASE record' = record
  BY <1>2 DEF RunRaises
<1>3. CASE record' # record
  <2>1. record' = Error(record, "worker", FALSE)
    BY <1>3 DEF RunRaises
  <2> DEFINE failure == Error(record, "worker", FALSE)
  <2>2. failure = [record EXCEPT !.failed = "worker",
                                 !.status = IF record.attempts < MaxAttempts
                                            THEN "retryable_error" ELSE "permanent_error"]
    BY DEF Error
  <2>3. /\ failure.gen = record.gen /\ failure.exists = record.exists
        /\ failure.committed = record.committed /\ failure.failed = "worker"
        /\ failure.status \in {"retryable_error", "permanent_error"}
    BY <1>1, <2>2 DEF Records
  <2> QED BY <2>1, <2>3 DEF RunRaises
<1> QED BY <1>2, <1>3

LEMMA CommitGeneration ==
  ASSUME NEW st \in Stores, NEW request \in Requests
  PROVE  CommitRequest(st, request).gen \in {st.gen, request.gen}
BY DEF CommitRequest, Stores, Requests

\* What the bodies of the nodes have in common.
LEMMA WorkKeeps ==
  ASSUME TypeOK, Work
  PROVE  /\ phase = "claimed" /\ phase' = "executed"
         /\ UNCHANGED <<journal, ckpt, proc, code, store, inflight, reply>>
         /\ patched'.gen = ckpt.s.gen
         /\ patched'.failed \in {ckpt.s.failed, "none"}
         /\ patched'.status = "result_committed" =>
              \/ ckpt.next = "commit_processing_state"
              \/ ckpt.s.status = "result_committed"
              \/ record.status = "result_committed"
         /\ record' \in {record, StartAttempt(record), MarkManualReview(record)}
<1> USE StateFields DEF Produce
<1>1. CASE CheckIdempotency
  BY <1>1 DEF CheckIdempotency, States
<1>2. CASE FetchMessage
  BY <1>2 DEF FetchMessage, States
<1>3. CASE Normalize \/ Collect \/ Plan \/ Validate
  <2>1. PICK n, data : ProduceData(n, data)
    BY <1>3 DEF Normalize, Collect, Plan, Validate
  <2> QED BY <2>1 DEF ProduceData, States
<1>4. CASE Process
  BY <1>4 DEF Process, States
<1>5. CASE Summarize
  BY <1>5 DEF Summarize, States
<1>6. CASE Prepare
  BY <1>6 DEF Prepare, States
<1>7. CASE ManualReview
  BY <1>7 DEF ManualReview, States
<1>8. CASE CommitState
  BY <1>8 DEF CommitState, AtNode, States
<1>9. CASE MarkAsRead
  BY <1>9 DEF MarkAsRead, States
<1>10. CASE CompleteMessage
  BY <1>10 DEF CompleteMessage, States
<1> QED BY <1>1, <1>2, <1>3, <1>4, <1>5, <1>6, <1>7, <1>8, <1>9, <1>10 DEF Work

LEMMA GenerationsStep ==
  ASSUME TypeOK, GenerationsInOrder, [Next]_vars
  PROVE  GenerationsInOrder'
<1> USE StateFields, RecordGenerations DEF GenerationsInOrder
<1>1. /\ record \in Records(Nodes \cup {"worker"}) /\ record.gen \in Nat
      /\ inflight \subseteq Requests /\ patched \in States
      /\ \A request \in inflight : request.gen \in Nat
      /\ record.exists \in BOOLEAN
  BY DEF TypeOK, Requests, Records
<1>2. CASE StartWorker \/ StopWorker \/ Deploy \/ ProcessCommand \/ Defer \/ UNCHANGED vars
  BY <1>2 DEF StartWorker, StopWorker, Deploy, ProcessCommand, Command, Defer, vars
<1>3. CASE ReprocessCommand
  BY <1>1, <1>3 DEF ReprocessCommand, Command
<1>4. CASE \E permanent \in BOOLEAN : RetryCommand(permanent)
  BY <1>1, <1>4 DEF RetryCommand, Command
<1>5. CASE Accept
  <2>1. code \in Nat
    BY DEF TypeOK
  <2>2. record'.exists /\ record'.gen \in {record.gen, record.gen + 1}
    BY <1>1, <1>5, <2>1, EnsureGeneration DEF Accept, Ensured
  <2>3. phase' = "accepted" /\ UNCHANGED <<store, inflight, ckpt, patched>>
    BY <1>5 DEF Accept
  <2>4. record.gen <= record'.gen
    BY <1>1, <2>2
  <2> QED BY <1>1, <2>2, <2>3, <2>4 DEF TypeOK, States, Requests
<1>6. CASE Continue
  BY <1>1, <1>6 DEF Continue, SameRun, Begin
<1>7. CASE RestartFailed
  BY <1>1, <1>7 DEF RestartFailed, SameRun
<1>8. CASE Rewind
  <2> DEFINE cleared == [ckpt.s EXCEPT !.failed = "none", !.status = "processing", !.pending = NoKey]
  <2>1. PICK s, next : /\ Begin(s, next, "action")
                       /\ s \in {cleared, [cleared EXCEPT !.raw = "none", !.dirOurs = TRUE]}
    BY <1>8 DEF Rewind
  <2>2. s.gen = ckpt.s.gen
    BY <2>1 DEF States
  <2>3. phase = "rewinding" /\ UNCHANGED record
    BY <1>8 DEF Rewind
  <2> QED BY <1>1, <2>1, <2>2, <2>3 DEF Begin
<1>9. CASE StartFresh
  BY <1>1, <1>9 DEF StartFresh, Begin, InitialState
<1>11. CASE Work
  BY <1>1, <1>11, WorkKeeps
<1>12. ASSUME NEW n, NEW permanent, Fail(n, permanent), phase # "accepted",
              phase \notin {"idle", "asked", "forced"}, inflight' = inflight
       PROVE  GenerationsInOrder'
  <2>1. patched'.gen = ckpt.s.gen
    BY <1>12 DEF Fail, FailedState, States
  <2> QED BY <1>1, <1>12, <2>1 DEF Fail
<1>13. CASE \/ SendWithoutFile \/ ReceiveConflict \/ GiveUp
            \/ \E n \in Nodes, permanent \in BOOLEAN : NodeFails(n, permanent)
  BY <1>12, <1>13 DEF SendWithoutFile, ReceiveConflict, GiveUp, NodeFails
<1>14. CASE Send \/ SendAgain
  BY <1>1, <1>14 DEF Send, SendAgain, Request
<1>15. CASE ReceiveCommit
  <2>1. patched'.gen = ckpt.s.gen
    BY <1>15 DEF ReceiveCommit, States
  <2> QED BY <1>1, <1>15, <2>1 DEF ReceiveCommit
<1>16. CASE Api
  <2>1. PICK request \in inflight : ApiHandles(request)
    BY <1>16 DEF Api
  <2>2. store'.gen \in {store.gen, request.gen}
    BY <1>1, <2>1, CommitGeneration DEF ApiHandles, TypeOK
  <2> QED BY <1>1, <2>1, <2>2 DEF ApiHandles
<1>17. CASE LoseReply \/ \E request \in inflight : LoseRequest(request)
  BY <1>1, <1>17 DEF LoseReply, LoseRequest
<1>18. ASSUME NEW n \in Nodes,
              Reuse(n) \/ FindBusy(n) \/ Claim(n) \/ StoreOutput(n) \/ ConfirmNode(n)
       PROVE  GenerationsInOrder'
  <2>1. patched'.gen = ckpt.s.gen
    BY <1>1, <1>18 DEF Reuse, FindBusy, FailedState, Claim, StoreOutput, ConfirmNode, States
  <2> QED BY <1>1, <1>18, <2>1 DEF Reuse, FindBusy, Claim, StoreOutput, ConfirmNode
<1>19. ASSUME NEW n \in Nodes, RecordNode(n)
       PROVE  GenerationsInOrder'
  BY <1>1, <1>19 DEF RecordNode, RecordingNodes
<1>20. ASSUME NEW n \in Nodes, FinalCheckpoint(n)
       PROVE  GenerationsInOrder'
  <2>1. ckpt'.s.gen = ckpt.s.gen /\ patched' = ckpt'.s
    BY <1>20 DEF FinalCheckpoint, States
  <2> QED BY <1>1, <1>20, <2>1 DEF FinalCheckpoint
<1>21. CASE Checkpoint
  BY <1>1, <1>21 DEF Checkpoint
<1>22. CASE RecordFailure
  <2>1. patched'.gen = ckpt.s.gen
    BY <1>22 DEF RecordFailure, States
  <2>2. record'.gen = record.gen /\ record'.exists = record.exists
    BY <1>1, <1>22, ErrorKeeps DEF RecordFailure
  <2> QED BY <1>1, <1>22, <2>1, <2>2 DEF RecordFailure
<1>23. ASSUME NEW kept, LeaveRun(kept), record'.gen = record.gen, record'.exists = record.exists,
              ~record.exists => record' = record
       PROVE  GenerationsInOrder'
  BY <1>1, <1>23, LeaveRunKeeps
<1>24. CASE Finish \/ \E kept \in BOOLEAN : Crash(kept)
  BY <1>23, <1>24 DEF Finish, Crash
<1>25. CASE Escape \/ MissingEdge
  <2>1. RunRaises
    BY <1>25 DEF Escape, MissingEdge
  <2>2. ~record.exists => record' = record
    BY <2>1, RaiseKeeps DEF InRun
  <2> QED BY <1>23, <2>1, <2>2, RaiseKeeps
<1>26. CASE Superstep
  BY <1>18, <1>19, <1>20, <1>21, <1>22, <1>25, <1>26 DEF Superstep
<1>27. CASE Run \/ Persist
  BY <1>2, <1>5, <1>6, <1>7, <1>8, <1>9, <1>13, <1>14, <1>15, <1>24, <1>27 DEF Run, Persist
<1>28. CASE Environment
  BY <1>2, <1>3, <1>4, <1>13, <1>17, <1>24, <1>25, <1>28 DEF Environment
<1> QED BY <1>2, <1>11, <1>16, <1>26, <1>27, <1>28 DEF Next, ProcessStep

-----------------------------------------------------------------------------
(* The tail of the graph.                                                  *)

LEMMA StoreRises ==
  ASSUME TypeOK, [Next]_vars
  PROVE  /\ store.stored => store'.stored /\ store'.gen >= store.gen
         /\ seen => seen'
<1>1. store \in Stores /\ inflight \subseteq Requests /\ store.gen \in Nat
  BY DEF TypeOK, Stores
<1>2. ASSUME NEW request \in inflight, store' = CommitRequest(store, request), store.stored
      PROVE  store'.stored /\ store'.gen >= store.gen
  BY <1>1, <1>2, CommitOnlyRises
<1> QED BY <1>1, <1>2, StepKeeps DEF StoreStep

\* Most steps leave the checkpoint alone; what is new is in patched and phase.
LEMMA TailInRun ==
  ASSUME TypeOK, TypeOK', TailEarned, [Next]_vars, ckpt' = ckpt, StateEarned(patched)',
         phase' = "executed" => EarnedAfter(ckpt.next, ckpt.s.gen)',
         phase' = "patched" /\ patched'.failed = "none" => EarnedAfter(ckpt.next, ckpt.s.gen)',
         phase' = "sent" => ckpt.next = "persist_result_via_api",
         \/ reply' = "none"
         \/ reply' = reply /\ phase' = phase
         \/ phase' = "sent" /\ (reply' = "committed" => ResultHeld(ckpt.s.gen)')
  PROVE  TailEarned'
<1>1. /\ ckpt.s.gen \in Nat /\ store.gen \in Nat /\ store'.gen \in Nat
  BY DEF TypeOK, States, Stores
<1> QED BY <1>1, StoreRises
        DEF TailEarned, StateEarned, EarnedBefore, EarnedAfter, ResultHeld, FlagSet

LEMMA PatchedStays ==
  ASSUME TypeOK, TypeOK', TailEarned, [Next]_vars, patched' = patched
  PROVE  StateEarned(patched)'
<1>1. /\ patched.gen \in Nat /\ store.gen \in Nat /\ store'.gen \in Nat
  BY DEF TypeOK, States, Stores
<1> QED BY <1>1, StoreRises DEF TailEarned, StateEarned, EarnedBefore, ResultHeld, FlagSet

\* Nothing of the graph moves, or only the phase, to one that claims nothing.
LEMMA TailOutside ==
  ASSUME TypeOK, TypeOK', TailEarned, [Next]_vars, ckpt' = ckpt, patched' = patched,
         \/ phase' = phase /\ reply' = reply
         \/ phase' \notin {"executed", "patched", "sent"} /\ phase # "sent" /\ reply' = reply
         \/ phase' \notin {"executed", "patched", "sent"} /\ reply' = "none"
  PROVE  TailEarned'
<1>1. /\ ckpt.s.gen \in Nat /\ store.gen \in Nat /\ store'.gen \in Nat
      /\ patched.gen \in Nat
  BY DEF TypeOK, States, Stores
<1> QED BY <1>1, StoreRises
        DEF TailEarned, StateEarned, EarnedBefore, EarnedAfter, ResultHeld, FlagSet

\* Leaving a run only moves paths.
LEMMA TailAtEnd ==
  ASSUME TypeOK, TypeOK', TailEarned, [Next]_vars, NEW kept, LeaveRun(kept)
  PROVE  TailEarned'
<1>1. /\ ckpt.s.gen \in Nat /\ store.gen \in Nat /\ store'.gen \in Nat
  BY DEF TypeOK, States, Stores
<1> QED BY <1>1, StoreRises, LeaveRunKeeps
        DEF TailEarned, StateEarned, EarnedBefore, EarnedAfter, ResultHeld, FlagSet

\* A run begins where its checkpoint, the failure on record, or nothing tells it to.
LEMMA TailAtBegin ==
  ASSUME TypeOK, TypeOK', TailEarned, [Next]_vars, NEW s, NEW next, NEW half,
         Begin(s, next, half), s.gen \in Nat, phase # "sent",
         StateEarned(s)', EarnedBefore(next, s.gen)',
         half = "finalize" /\ s.failed = "none" => EarnedAfter(next, s.gen)'
  PROVE  TailEarned'
BY DEF TailEarned, Begin, StateEarned, EarnedBefore, EarnedAfter, ResultHeld, FlagSet

LEMMA TailStepOutside ==
  ASSUME TypeOK, TypeOK', DownIsIdle, GenerationsInOrder, TailEarned, RecordEarned, [Next]_vars,
         \/ StartWorker \/ Run \/ Api \/ LoseReply \/ Escape \/ MissingEdge \/ UNCHANGED vars
         \/ StopWorker \/ Deploy \/ ProcessCommand \/ ReprocessCommand
         \/ (\E permanent \in BOOLEAN : RetryCommand(permanent))
         \/ (\E request \in inflight : LoseRequest(request))
         \/ \E kept \in BOOLEAN : Crash(kept)
  PROVE  TailEarned'
<1> USE StateFields
<1>1. CASE StartWorker \/ StopWorker \/ Deploy \/ UNCHANGED vars
           \/ \E request \in inflight : LoseRequest(request)
  BY <1>1, TailOutside DEF StartWorker, StopWorker, Deploy, LoseRequest, vars
<1>2. CASE ProcessCommand \/ ReprocessCommand \/ \E permanent \in BOOLEAN : RetryCommand(permanent)
  BY <1>2, TailOutside DEF ProcessCommand, ReprocessCommand, RetryCommand, Command, DownIsIdle
<1>3. CASE Accept \/ Defer \/ RestartFailed
  BY <1>3, TailOutside DEF Accept, Defer, RestartFailed
<1>4. CASE Continue
  <2>1. Begin(ckpt.s, ckpt.next, ckpt.half) /\ phase # "sent"
    BY <1>4 DEF Continue
  <2>2. /\ store.gen \in Nat /\ store'.gen \in Nat /\ ckpt.s.gen \in Nat
    BY DEF TypeOK, Stores, States
  <2>3. /\ StateEarned(ckpt.s) => /\ EarnedBefore(ckpt.s.failed, ckpt.s.gen)'
                                  /\ ckpt.s.status = "result_committed" => ResultHeld(ckpt.s.gen)'
        /\ EarnedBefore(ckpt.next, ckpt.s.gen) => EarnedBefore(ckpt.next, ckpt.s.gen)'
        /\ EarnedAfter(ckpt.next, ckpt.s.gen) => EarnedAfter(ckpt.next, ckpt.s.gen)'
    BY <2>1, <2>2, StoreRises DEF StateEarned, EarnedBefore, EarnedAfter, ResultHeld, FlagSet, Begin
  <2> QED BY <2>1, <2>2, StoreRises
          DEF TailEarned, StateEarned, EarnedBefore, EarnedAfter, ResultHeld, FlagSet, Begin
<1>5. CASE Rewind
  <2> DEFINE cleared == [ckpt.s EXCEPT !.failed = "none", !.status = "processing", !.pending = NoKey]
  <2>1. PICK s, next : /\ Begin(s, next, "action")
                       /\ s \in {cleared, [cleared EXCEPT !.raw = "none", !.dirOurs = TRUE]}
                       /\ next \in {"fetch_message", FailedStage}
    BY <1>5 DEF Rewind
  <2>2. s.gen = ckpt.s.gen /\ s.failed = "none" /\ s.status = "processing"
    BY <2>1 DEF States
  <2>3. phase = "rewinding" /\ ckpt.s.gen = record.gen
    BY <1>5 DEF Rewind, GenerationsInOrder
  <2>4. EarnedBefore(FailedStage, ckpt.s.gen)
    BY <2>3 DEF FailedStage, TailEarned, StateEarned, RecordEarned
  <2>5. EarnedBefore(next, ckpt.s.gen)
    BY <2>1, <2>4 DEF EarnedBefore
  <2>6. /\ ckpt'.s = s /\ ckpt'.next = next /\ ckpt'.half = "action" /\ patched' = s
        /\ phase' = "ready" /\ reply' = reply /\ store' = store /\ seen' = seen
    BY <2>1 DEF Begin
  <2> QED BY <2>2, <2>3, <2>5, <2>6
          DEF TailEarned, StateEarned, EarnedBefore, EarnedAfter, ResultHeld, FlagSet
<1>6. CASE StartFresh
  BY <1>6 DEF StartFresh, Begin, InitialState,
     TailEarned, StateEarned, EarnedBefore, EarnedAfter, ResultHeld, FlagSet
<1>7. CASE Finish \/ \E kept \in BOOLEAN : Crash(kept)
  BY <1>7, TailAtEnd DEF Finish, Crash
<1>8. CASE Escape \/ MissingEdge
  BY <1>8, TailAtEnd DEF Escape, MissingEdge, RunRaises
<1>9. CASE Api
  <2>1. PICK request \in inflight : ApiHandles(request)
    BY <1>9 DEF Api
  <2>2. /\ request.gen \in Nat /\ request \in Requests /\ store \in Stores /\ store.gen \in Nat
    BY DEF TypeOK, Requests, Stores
  <2>3. ~Conflicts(store, request) => store'.stored /\ store'.gen >= request.gen
    BY <2>1, <2>2 DEF ApiHandles, CommitRequest, Conflicts, Same, Stores
  <2>4. CASE phase = "sent" /\ request = Request
    <3>1. request.gen = ckpt.s.gen
      BY <2>4 DEF Request
    <3>2. reply' = "committed" => ResultHeld(ckpt.s.gen)'
      BY <2>1, <2>3, <2>4, <3>1 DEF ApiHandles, ResultHeld
    <3>3. ckpt' = ckpt /\ patched' = patched /\ phase' = "sent"
      BY <2>1, <2>4 DEF ApiHandles
    <3>4. ckpt.next = "persist_result_via_api"
      BY <2>4 DEF TailEarned
    <3> QED BY <3>2, <3>3, <3>4, TailInRun, PatchedStays
  <2>5. CASE ~(phase = "sent" /\ request = Request)
    BY <2>1, <2>5, TailOutside DEF ApiHandles
  <2> QED BY <2>4, <2>5
<1>10. CASE LoseReply
  BY <1>10, TailInRun, PatchedStays DEF LoseReply, TailEarned
<1> QED BY <1>1, <1>2, <1>3, <1>4, <1>5, <1>6, <1>7, <1>8, <1>9, <1>10 DEF Run

LEMMA TailStepInside ==
  ASSUME TypeOK, TypeOK', GenerationsInOrder, TailEarned, JournalEarned, RecordEarned,
         [Next]_vars,
         \/ Work \/ Persist \/ GiveUp \/ Checkpoint \/ RecordFailure
         \/ \E n \in Nodes : \/ Reuse(n) \/ FindBusy(n) \/ Claim(n) \/ StoreOutput(n)
                             \/ ConfirmNode(n) \/ RecordNode(n) \/ FinalCheckpoint(n)
         \/ \E n \in Nodes, permanent \in BOOLEAN : NodeFails(n, permanent)
  PROVE  TailEarned'
<1> USE StateFields
<1>0. /\ store.gen \in Nat /\ store'.gen \in Nat /\ ckpt.s.gen \in Nat
      /\ patched \in States /\ patched' \in States
  BY DEF TypeOK, Stores, States
<1>1. CASE Work
  <2>1. record.gen = ckpt.s.gen /\ store' = store /\ ckpt' = ckpt
    BY <1>1, WorkKeeps DEF GenerationsInOrder
  <2>2. StateEarned(patched)'
    BY <1>0, <1>1, <2>1, WorkKeeps, StoreRises
       DEF TailEarned, RecordEarned, StateEarned, EarnedBefore, ResultHeld, FlagSet
  <2>3. EarnedAfter(ckpt.next, ckpt.s.gen)'
    <3>1. CASE MarkAsRead
      <4>1. ckpt.next = "mark_message_as_read" /\ seen' = (MarkRead \/ seen) /\ store' = store
        BY <3>1 DEF MarkAsRead, Produce, AtNode
      <4> QED BY <2>1, <4>1, SettingsAssumption
              DEF TailEarned, EarnedBefore, EarnedAfter, ResultHeld, FlagSet
    <3>2. CASE ~MarkAsRead
      <4>1. \/ ckpt.next \in {"commit_processing_state", "complete"}
            \/ ckpt.next \notin {"persist_result_via_api", "commit_processing_state",
                                 "mark_message_as_read", "complete"}
        BY <1>1, <3>2 DEF Work, CheckIdempotency, FetchMessage, Normalize, Collect, Plan, Process,
           Validate, Summarize, Prepare, ManualReview, CommitState, CompleteMessage, ProduceData,
           Produce, AtNode
      <4> QED BY <1>0, <2>1, <4>1, StoreRises
              DEF TailEarned, EarnedBefore, EarnedAfter, ResultHeld, FlagSet
    <3> QED BY <3>1, <3>2
  <2>4. ckpt' = ckpt /\ phase = "claimed" /\ phase' = "executed" /\ reply' = reply
    BY <1>1, WorkKeeps
  <2>5. reply' = "none"
    BY <2>4 DEF TailEarned, TypeOK
  <2> QED BY <2>2, <2>3, <2>4, <2>5, TailInRun
<1>2. ASSUME NEW n \in Nodes, NEW permanent, Fail(n, permanent), ckpt.next = n,
             reply' = "none"
      PROVE  TailEarned'
  <2>1. /\ patched'.gen = ckpt.s.gen /\ patched'.failed = n
        /\ patched'.status \in {"permanent_error", "retryable_error"}
        /\ phase' = "patched" /\ ckpt' = ckpt /\ store' = store
    BY <1>2 DEF Fail, FailedState, States
  <2>2. n # "none"
    BY DEF Nodes, LogicalNodes
  <2>3. StateEarned(patched)'
    BY <1>0, <1>2, <2>1, StoreRises DEF TailEarned, StateEarned, EarnedBefore, ResultHeld, FlagSet
  <2> QED BY <1>2, <2>1, <2>2, <2>3, TailInRun
<1>3. "persist_result_via_api" \in Nodes
  BY DEF Nodes, LogicalNodes
<1>4. CASE SendWithoutFile \/ ReceiveConflict \/ GiveUp
  BY <1>2, <1>3, <1>4 DEF SendWithoutFile, ReceiveConflict, GiveUp, AtNode, TailEarned
<1>5. CASE \E n \in Nodes, permanent \in BOOLEAN : NodeFails(n, permanent)
  BY <1>2, <1>5 DEF NodeFails, AtNode, TailEarned
<1>6. CASE Send \/ SendAgain
  BY <1>6, TailInRun, PatchedStays DEF Send, SendAgain, AtNode, TailEarned
<1>7. CASE ReceiveCommit
  <2>1. /\ patched'.gen = ckpt.s.gen /\ patched'.failed = ckpt.s.failed
        /\ patched'.status = ckpt.s.status
        /\ phase' = "executed" /\ ckpt' = ckpt /\ store' = store /\ reply' = "none"
        /\ ckpt.next = "persist_result_via_api" /\ ResultHeld(ckpt.s.gen)
    BY <1>7 DEF ReceiveCommit, TailEarned, States
  <2>2. StateEarned(patched)'
    BY <1>0, <2>1, StoreRises DEF TailEarned, StateEarned, EarnedBefore, ResultHeld, FlagSet
  <2>3. EarnedAfter(ckpt.next, ckpt.s.gen)'
    BY <2>1 DEF EarnedAfter, ResultHeld
  <2> QED BY <2>1, <2>2, <2>3, TailInRun
<1>8. ASSUME NEW n \in Nodes, Reuse(n)
      PROVE  TailEarned'
  <2>1. /\ patched'.gen = ckpt.s.gen /\ patched'.failed = ckpt.s.failed
        /\ patched'.status = ckpt.s.status /\ ckpt.next = n
        /\ phase' = "patched" /\ ckpt' = ckpt /\ UNCHANGED <<store, seen, reply>>
        /\ phase # "sent"
    BY <1>8 DEF Reuse, States, AtNode
  <2>2. StateEarned(patched)'
    BY <1>0, <2>1 DEF TailEarned, StateEarned, EarnedBefore, ResultHeld, FlagSet
  <2>3. EarnedAfter(n, ckpt.s.gen)
    <3>1. /\ KeyOf(ckpt.s, n) \in DOMAIN journal
          /\ journal[KeyOf(ckpt.s, n)].output # NoOutput
      BY <1>8 DEF Reuse, Reusable, HasStatus
    <3>2. KeyOf(ckpt.s, n).stage = n /\ KeyOf(ckpt.s, n).gen = ckpt.s.gen
      BY DEF KeyOf
    <3> QED BY <3>1, <3>2 DEF JournalEarned
  <2>4. EarnedAfter(ckpt.next, ckpt.s.gen)'
    BY <2>1, <2>3 DEF EarnedAfter, ResultHeld, FlagSet
  <2> QED BY <2>1, <2>2, <2>4, TailInRun DEF TailEarned
<1>9. ASSUME NEW n \in Nodes, FindBusy(n)
      PROVE  TailEarned'
  <2>1. /\ patched'.gen = ckpt.s.gen /\ patched'.failed = n
        /\ patched'.status = "retryable_error" /\ ckpt.next = n
        /\ phase' = "patched" /\ ckpt' = ckpt /\ UNCHANGED <<store, seen, reply>>
        /\ phase # "sent"
    BY <1>9 DEF FindBusy, FailedState, States, AtNode
  <2>2. n # "none"
    BY DEF Nodes, LogicalNodes
  <2>3. StateEarned(patched)'
    BY <2>1 DEF TailEarned, StateEarned, EarnedBefore, ResultHeld, FlagSet
  <2> QED BY <2>1, <2>2, <2>3, TailInRun DEF TailEarned
<1>10. ASSUME NEW n \in Nodes, Claim(n) \/ ConfirmNode(n) \/ RecordNode(n)
       PROVE  TailEarned'
  <2>1. /\ ckpt' = ckpt /\ patched' = patched /\ reply' = reply
        /\ phase' \in {"claimed", "confirmed", "finalized"} /\ phase # "sent"
    BY <1>10 DEF Claim, ConfirmNode, RecordNode
  <2> QED BY <2>1, TailOutside
<1>11. ASSUME NEW n \in Nodes, StoreOutput(n)
       PROVE  TailEarned'
  <2>1. /\ patched'.gen = patched.gen /\ patched'.failed = patched.failed
        /\ patched'.status = patched.status
        /\ phase = "executed" /\ phase' = "patched" /\ ckpt' = ckpt
        /\ UNCHANGED <<store, seen, reply>>
    BY <1>0, <1>11 DEF StoreOutput, States
  <2>2. StateEarned(patched)'
    BY <2>1 DEF TailEarned, StateEarned, EarnedBefore, ResultHeld, FlagSet
  <2>3. EarnedAfter(ckpt.next, ckpt.s.gen)'
    BY <2>1 DEF TailEarned, EarnedAfter, ResultHeld, FlagSet
  <2> QED BY <2>1, <2>2, <2>3, TailInRun DEF TailEarned
<1>12. CASE Checkpoint
  <2>1. /\ ckpt'.s = patched /\ patched' = patched /\ phase = "patched" /\ phase' = "ready"
        /\ UNCHANGED <<store, seen, reply>> /\ patched.gen = ckpt.s.gen
        /\ \/ ckpt.next = "failure" /\ ckpt'.next = "end" /\ ckpt'.half = "action"
           \/ ckpt.next # "failure" /\ ckpt'.next = ckpt.next /\ ckpt'.half = "finalize"
    BY <1>12 DEF Checkpoint, GenerationsInOrder
  <2> QED BY <2>1 DEF TailEarned, StateEarned, EarnedBefore, EarnedAfter, ResultHeld, FlagSet
<1>13. CASE RecordFailure
  <2>1. record'.status \in {"retryable_error", "permanent_error"}
    BY <1>13 DEF RecordFailure, Error, TypeOK, Records
  <2>2. /\ patched'.gen = ckpt.s.gen /\ patched'.failed = ckpt.s.failed
        /\ patched'.status = record'.status
        /\ ckpt' = ckpt /\ ckpt.next = "failure" /\ phase # "sent" /\ phase' = "patched"
        /\ UNCHANGED <<store, seen, reply>>
    BY <1>13 DEF RecordFailure, AtNode, States
  <2>3. StateEarned(patched)'
    BY <2>1, <2>2 DEF TailEarned, StateEarned, EarnedBefore, ResultHeld, FlagSet
  <2>4. EarnedAfter(ckpt.next, ckpt.s.gen)'
    BY <2>2 DEF EarnedAfter
  <2> QED BY <2>2, <2>3, <2>4, TailInRun DEF TailEarned
<1>14. ASSUME NEW n \in Nodes, FinalCheckpoint(n)
       PROVE  TailEarned'
  <2> DEFINE s == [ckpt.s EXCEPT !.pending = NoKey]
  <2>1. s.gen = ckpt.s.gen /\ s.failed = ckpt.s.failed /\ s.status = ckpt.s.status
    BY DEF States
  <2>2. /\ ckpt'.s = s /\ ckpt'.next = Route(n, s) /\ ckpt'.half = "action" /\ patched' = s
        /\ phase' = "ready" /\ phase # "sent" /\ UNCHANGED <<store, seen, reply>>
        /\ ckpt.next = n /\ ckpt.half = "finalize"
    BY <1>14 DEF FinalCheckpoint, AtFinal
  <2>3. EarnedBefore(Route(n, s), ckpt.s.gen)
    <3>1. CASE s.failed = "none"
      <4>1. EarnedAfter(n, ckpt.s.gen)
        BY <2>1, <2>2, <3>1 DEF TailEarned
      <4>2. EarnedBefore(Following[n], ckpt.s.gen)
        BY <4>1, FollowingEarned
      <4>3. s.status = "result_committed" => ResultHeld(ckpt.s.gen)
        BY <2>1 DEF TailEarned, StateEarned
      <4> QED BY <3>1, <4>2, <4>3 DEF Route, RouteError, EarnedBefore
    <3>2. CASE s.failed # "none"
      BY <3>2 DEF Route, RouteError, EarnedBefore
    <3> QED BY <3>1, <3>2
  <2> QED BY <2>1, <2>2, <2>3
          DEF TailEarned, StateEarned, EarnedBefore, EarnedAfter, ResultHeld, FlagSet
<1> QED BY <1>1, <1>4, <1>5, <1>6, <1>7, <1>8, <1>9, <1>10, <1>11, <1>12, <1>13, <1>14
        DEF Persist

-----------------------------------------------------------------------------
(* The record, the flag and the API.                                       *)

\* A step that does not touch the row keeps what the row has earned.
LEMMA RecordStays ==
  ASSUME TypeOK, TypeOK', RecordEarned, [Next]_vars, record'.failed = record.failed,
         record'.gen = record.gen, record'.committed => record.committed,
         record'.status \in {"completed", "result_committed"} => record'.status = record.status,
         seen' => store'.stored
  PROVE  RecordEarned'
<1>1. /\ store.gen \in Nat /\ store'.gen \in Nat /\ record.gen \in Nat
  BY DEF TypeOK, Stores, Records
<1> QED BY <1>1, StoreRises DEF RecordEarned, EarnedBefore, ResultHeld, FlagSet

LEMMA RowUpdates ==
  ASSUME NEW r \in Records(Nodes \cup {"worker"})
  PROVE  /\ NewGeneration(r).failed = "none" /\ NewGeneration(r).committed = FALSE
         /\ NewGeneration(r).status = "discovered"
         /\ StartAttempt(r).failed = r.failed /\ StartAttempt(r).committed = r.committed
         /\ StartAttempt(r).status = "processing"
         /\ \A status \in {"attachments_processed", "summarized"} :
              /\ SetStage(r, status).failed = r.failed
              /\ SetStage(r, status).committed = r.committed
              /\ SetStage(r, status).status = status
         /\ ResultCommitted(r).failed = r.failed
         /\ ResultCommitted(r).status = "result_committed"
         /\ Completed(r).failed = r.failed /\ Completed(r).committed = r.committed
         /\ Completed(r).status = "completed"
         /\ MarkManualReview(r).failed = r.failed
         /\ MarkManualReview(r).committed = r.committed
         /\ MarkManualReview(r).status = r.status
         /\ RequeueFailed(r).failed = "none" /\ RequeueFailed(r).committed = r.committed
         /\ RequeueFailed(r).status = "discovered"
BY DEF NewGeneration, StartAttempt, SetStage, ResultCommitted, Completed, MarkManualReview,
       RequeueFailed, Records

LEMMA RecordStep ==
  ASSUME TypeOK, TypeOK', GenerationsInOrder, TailEarned, RecordEarned, [Next]_vars
  PROVE  RecordEarned'
<1> USE StateFields
<1>0. /\ record \in Records(Nodes \cup {"worker"})
      /\ store.gen \in Nat /\ store'.gen \in Nat /\ record.gen \in Nat
      /\ record'.gen \in Nat
  BY DEF TypeOK, Stores, Records
<1>1. ~MarkAsRead => (seen' => store'.stored)
  <2>1. ~MarkAsRead => seen' = seen
    <3>1. CASE StartWorker \/ Environment \/ Persist \/ Api \/ UNCHANGED vars
      BY <3>1 DEF StartWorker, Environment, Persist, StopWorker, Deploy, ProcessCommand,
         ReprocessCommand, RetryCommand, Command, NodeFails, Fail, LoseRequest, LoseReply,
         GiveUp, Escape, RunRaises, LeaveRun, Crash, Send, SendWithoutFile, SendAgain,
         ReceiveCommit, ReceiveConflict, Api, ApiHandles, vars
    <3>2. CASE Run
      BY <3>2 DEF Run, Accept, Defer, Continue, RestartFailed, Rewind, StartFresh, Begin,
         Finish, LeaveRun
    <3>3. CASE Work
      BY <3>3 DEF Work, CheckIdempotency, FetchMessage, Normalize, Collect, Plan, Process,
         Validate, Summarize, Prepare, ManualReview, CommitState, CompleteMessage, ProduceData,
         Produce
    <3>4. CASE Superstep
      BY <3>4 DEF Superstep, Reuse, FindBusy, Claim, StoreOutput, ConfirmNode, RecordNode,
         FinalCheckpoint, Checkpoint, RecordFailure, MissingEdge, RunRaises, LeaveRun
    <3> QED BY <3>1, <3>2, <3>3, <3>4 DEF Next, ProcessStep
  <2> QED BY <2>1, StoreRises DEF RecordEarned, TypeOK, Stores
<1>2. CASE record' = record /\ ~MarkAsRead
  BY <1>1, <1>2, RecordStays
<1>3. CASE MarkAsRead
  <2>1. /\ ckpt.next = "mark_message_as_read" /\ record' = record /\ store' = store
    BY <1>3 DEF MarkAsRead, Produce, AtNode
  <2>2. store.stored
    BY <2>1 DEF TailEarned, EarnedBefore, ResultHeld
  <2> QED BY <2>1, <2>2, RecordStays
<1>4. ASSUME record' = NewGeneration(record), ~MarkAsRead
      PROVE  RecordEarned'
  BY <1>0, <1>1, <1>4, RowUpdates DEF RecordEarned, EarnedBefore
<1>5. ASSUME record' \in {StartAttempt(record), MarkManualReview(record),
                          SetStage(record, "attachments_processed"), SetStage(record, "summarized")},
             ~MarkAsRead
      PROVE  RecordEarned'
  <2>1. /\ record'.failed = record.failed /\ record'.gen = record.gen
        /\ record'.committed = record.committed
        /\ \/ record'.status \in {"processing", "attachments_processed", "summarized"}
           \/ record'.status = record.status
    BY <1>0, <1>5 DEF StartAttempt, MarkManualReview, SetStage, Records
  <2> QED BY <1>1, <1>5, <2>1, RecordStays
<1>6. CASE ReprocessCommand
  BY <1>4, <1>6 DEF ReprocessCommand, Command, MarkAsRead, Produce
<1>7. CASE \E permanent \in BOOLEAN : RetryCommand(permanent)
  <2>1. record' = RequeueFailed(record) /\ seen' = seen /\ store' = store
    BY <1>7 DEF RetryCommand, Command
  <2> QED BY <1>0, <2>1, RowUpdates, RecordGenerations
          DEF RecordEarned, EarnedBefore, ResultHeld, FlagSet
<1>8. CASE Accept
  <2>1. record' = Ensure(record, code) /\ seen' = seen /\ store' = store
    BY <1>8 DEF Accept, Ensured
  <2>2. \/ record' = record
        \/ record'.failed = "none" /\ record'.committed = FALSE /\ record'.status = "discovered"
    BY <1>0, <2>1 DEF Ensure, NoRecord, NewGeneration, Records
  <2> QED BY <1>0, <2>1, <2>2 DEF RecordEarned, EarnedBefore, ResultHeld, FlagSet
<1>9. CASE RestartFailed
  BY <1>5, <1>9 DEF RestartFailed, MarkAsRead, Produce
<1>10. CASE Work /\ ~MarkAsRead
  BY <1>2, <1>5, <1>10, WorkKeeps
<1>11. ASSUME NEW n \in Nodes, RecordNode(n)
       PROVE  RecordEarned'
  <2>1. /\ ckpt.next = n /\ phase = "confirmed" /\ store' = store /\ seen' = seen
        /\ n \in {"process_attachments", "summarize_message", "commit_processing_state", "complete"}
    BY <1>11 DEF RecordNode, AtFinal, RecordingNodes
  <2>2. ckpt.s.gen = record.gen
    BY <2>1 DEF GenerationsInOrder
  <2>3. CASE n = "process_attachments"
    <3>1. record' = SetStage(record, "attachments_processed")
      BY <1>11, <2>3 DEF RecordNode
    <3> QED BY <1>5, <2>1, <3>1 DEF MarkAsRead, Produce
  <2>4. CASE n = "summarize_message"
    <3>1. record' = SetStage(record, "summarized")
      BY <1>11, <2>4 DEF RecordNode
    <3> QED BY <1>5, <2>1, <3>1 DEF MarkAsRead, Produce
  <2>5. CASE n = "commit_processing_state"
    <3>1. record' = ResultCommitted(record)
      BY <1>11, <2>5 DEF RecordNode
    <3>2. ResultHeld(record.gen)
      BY <2>1, <2>2, <2>5 DEF TailEarned, EarnedBefore
    <3> QED BY <1>0, <2>1, <3>1, <3>2, RowUpdates, RecordGenerations
            DEF RecordEarned, EarnedBefore, ResultHeld, FlagSet
  <2>6. CASE n = "complete"
    <3>1. record' = Completed(record)
      BY <1>11, <2>6 DEF RecordNode
    <3>2. ResultHeld(record.gen) /\ FlagSet
      BY <2>1, <2>2, <2>6 DEF TailEarned, EarnedBefore
    <3> QED BY <1>0, <2>1, <3>1, <3>2, RowUpdates, RecordGenerations
            DEF RecordEarned, EarnedBefore, ResultHeld, FlagSet
  <2> QED BY <2>1, <2>3, <2>4, <2>5, <2>6
<1>12. CASE RecordFailure
  <2>1. record' = Error(record, ckpt.s.failed, ckpt.s.status = "permanent_error")
        /\ seen' = seen /\ store' = store /\ ckpt.s.gen = record.gen
    BY <1>12 DEF RecordFailure, GenerationsInOrder
  <2>2. /\ record'.gen = record.gen /\ record'.failed = ckpt.s.failed
        /\ record'.committed = record.committed
        /\ record'.status \in {"retryable_error", "permanent_error"}
    <3> DEFINE permanent == ckpt.s.status = "permanent_error"
    <3>1. permanent \in BOOLEAN /\ record' = Error(record, ckpt.s.failed, permanent)
      BY <2>1
    <3>2. ckpt.s.failed \in Nodes \cup {"worker", "none"}
      OBVIOUS
    <3> HIDE DEF permanent
    <3> DEFINE failure == Error(record, ckpt.s.failed, permanent)
    <3>3. /\ failure.gen = record.gen /\ failure.failed = ckpt.s.failed
          /\ failure.committed = record.committed
          /\ failure.status \in {"retryable_error", "permanent_error"}
      BY <1>0, <3>1, <3>2, ErrorKeeps
    <3> HIDE DEF failure
    <3>4. record' = failure
      BY <3>1 DEF failure
    <3> QED BY <3>3, <3>4
  <2>3. EarnedBefore(ckpt.s.failed, record.gen)
    BY <2>1 DEF TailEarned, StateEarned
  <2> QED BY <2>1, <2>2, <2>3 DEF RecordEarned, EarnedBefore, ResultHeld, FlagSet
<1>13. CASE Escape \/ MissingEdge
  <2>1. RunRaises /\ seen' = seen /\ store' = store
    BY <1>13 DEF Escape, MissingEdge, RunRaises, LeaveRun
  <2> QED BY <1>0, <2>1, RaiseKeeps DEF RecordEarned, EarnedBefore, ResultHeld, FlagSet
<1>14. CASE StartWorker \/ StopWorker \/ Deploy \/ ProcessCommand \/ UNCHANGED vars
            \/ Persist \/ Api \/ LoseReply \/ GiveUp
            \/ (\E request \in inflight : LoseRequest(request))
            \/ (\E n \in Nodes, permanent \in BOOLEAN : NodeFails(n, permanent))
            \/ \E kept \in BOOLEAN : Crash(kept)
  <2>1. record' = record /\ (~MarkAsRead \/ MarkAsRead)
    BY <1>14 DEF StartWorker, StopWorker, Deploy, ProcessCommand, Persist, Send, SendWithoutFile,
       SendAgain, ReceiveCommit, ReceiveConflict, Fail, Api, ApiHandles, LoseReply, GiveUp,
       LoseRequest, NodeFails, Crash, vars
  <2> QED BY <1>2, <1>3, <2>1
<1>15. CASE Defer \/ Continue \/ Rewind \/ StartFresh \/ Finish
  <2>1. record' = record
    BY <1>15 DEF Defer, Continue, Rewind, StartFresh, Finish
  <2> QED BY <1>2, <1>3, <2>1
<1>16. CASE Superstep
  <2>1. CASE \/ Checkpoint
             \/ \E n \in Nodes : \/ Reuse(n) \/ FindBusy(n) \/ Claim(n) \/ StoreOutput(n)
                                 \/ ConfirmNode(n) \/ FinalCheckpoint(n)
    <3>1. record' = record
      BY <2>1 DEF Checkpoint, Reuse, FindBusy, Claim, StoreOutput, ConfirmNode, FinalCheckpoint
    <3> QED BY <1>2, <1>3, <3>1
  <2> QED BY <1>11, <1>12, <1>13, <1>16, <2>1 DEF Superstep
<1>17. CASE Run
  BY <1>8, <1>9, <1>15, <1>17 DEF Run
<1>18. CASE Environment
  BY <1>6, <1>7, <1>13, <1>14, <1>18 DEF Environment
<1> QED BY <1>3, <1>10, <1>14, <1>16, <1>17, <1>18 DEF Next, ProcessStep

-----------------------------------------------------------------------------
(* The theorems.                                                           *)

DeliveryInvariant == TypeInvariant /\ NothingUnearned

LEMMA DeliveryInit == Init => DeliveryInvariant
<1> SUFFICES ASSUME Init PROVE DeliveryInvariant
  OBVIOUS
<1>1. TypeInvariant
  BY TypeInit
<1>2. DOMAIN journal = {}
  BY DEF Init
<1>3. NothingUnearned
  BY <1>2 DEF Init, InitialState, NoRecord, EmptyStore, NothingUnearned, GenerationsInOrder,
     TailEarned, JournalEarned, RecordEarned, StateEarned, EarnedBefore, EarnedAfter
<1> QED BY <1>1, <1>3 DEF DeliveryInvariant

LEMMA DeliveryStep == DeliveryInvariant /\ [Next]_vars => DeliveryInvariant'
<1> SUFFICES ASSUME DeliveryInvariant, [Next]_vars PROVE DeliveryInvariant'
  OBVIOUS
<1>1. /\ TypeInvariant /\ TypeOK /\ DownIsIdle
      /\ GenerationsInOrder /\ TailEarned /\ JournalEarned /\ RecordEarned
  BY DEF DeliveryInvariant, TypeInvariant, NothingUnearned
<1>2. TypeInvariant' /\ TypeOK'
  BY <1>1, TypeStep DEF TypeInvariant
<1>3. GenerationsInOrder' /\ JournalEarned' /\ RecordEarned'
  BY <1>1, <1>2, GenerationsStep, JournalEarnedStep, RecordStep
<1>4. TailEarned'
  <2>1. CASE StartWorker \/ Environment \/ Run \/ Api \/ UNCHANGED vars
    BY <1>1, <1>2, <2>1, TailStepOutside, TailStepInside DEF Environment
  <2>2. CASE Superstep
    BY <1>1, <1>2, <2>2, TailStepOutside, TailStepInside DEF Superstep
  <2>3. CASE Work \/ Persist
    BY <1>1, <1>2, <2>3, TailStepInside
  <2> QED BY <2>1, <2>2, <2>3 DEF Next, ProcessStep
<1> QED BY <1>2, <1>3, <1>4 DEF DeliveryInvariant, NothingUnearned

\* No checkpoint, journal row or recorded failure ever lets a run enter the
\* tail of the graph without the result, or the flag, that it skips.
THEOREM NothingIsUnearned == Spec => []NothingUnearned
<1>1. DeliveryInvariant => NothingUnearned
  BY DEF DeliveryInvariant
<1> QED BY <1>1, DeliveryInit, DeliveryStep, PTL DEF Spec

\* A record that says its result is committed is right, after any number of
\* crashes, requeues, redeliveries and late requests.
THEOREM ConfirmedIsAlwaysStored == Spec => []ConfirmedIsStored
<1>1. DeliveryInvariant => ConfirmedIsStored
  BY DEF DeliveryInvariant, TypeInvariant, TypeOK, Stores, Records, NothingUnearned,
     GenerationsInOrder, RecordEarned, ResultHeld, ConfirmedIsStored
<1> QED BY <1>1, DeliveryInit, DeliveryStep, PTL DEF Spec

\* The agent never flags a message whose result the API does not hold.
THEOREM SeenIsAlwaysStored == Spec => []SeenIsStored
<1>1. DeliveryInvariant => SeenIsStored
  BY DEF DeliveryInvariant, NothingUnearned, RecordEarned, SeenIsStored
<1> QED BY <1>1, DeliveryInit, DeliveryStep, PTL DEF Spec

\* A completed message has the result of its own generation in the API and,
\* if so configured, the flag.
THEOREM CompletedIsAlwaysDelivered == Spec => []CompletedIsDelivered
<1>1. DeliveryInvariant => CompletedIsDelivered
  BY DEF DeliveryInvariant, TypeInvariant, TypeOK, Stores, Records, NothingUnearned,
     GenerationsInOrder, RecordEarned, ResultHeld, FlagSet, CompletedIsDelivered
<1> QED BY <1>1, DeliveryInit, DeliveryStep, PTL DEF Spec

LEMMA CommitIsFinal ==
  ASSUME NEW st \in Stores, NEW request \in Requests, st.stored
  PROVE  LET next == CommitRequest(st, request)
         IN  next.stored /\ next.gen >= st.gen /\ (next.gen = st.gen => next = st)
BY DEF CommitRequest, Conflicts, Same, Stores, Requests

\* Within a generation the stored result never changes, and no late or repeated
\* request takes the API back to an older one.
THEOREM StoredIsAlwaysFinal == Spec => StoredIsFinal
<1>1. ASSUME DeliveryInvariant, [Next]_vars
      PROVE  [store.stored => /\ store'.stored /\ store'.gen >= store.gen
                              /\ store'.gen = store.gen => store' = store]_store
  <2>1. TypeOK /\ store \in Stores /\ inflight \subseteq Requests
    BY <1>1 DEF DeliveryInvariant, TypeInvariant, TypeOK
  <2>2. ASSUME NEW request \in inflight, store' = CommitRequest(store, request), store.stored
        PROVE  store'.stored /\ store'.gen >= store.gen /\ (store'.gen = store.gen => store' = store)
    BY <2>1, <2>2, CommitIsFinal
  <2> QED BY <1>1, <2>1, <2>2, StepKeeps DEF StoreStep
<1> QED BY <1>1, DeliveryInit, DeliveryStep, PTL DEF Spec, StoredIsFinal

-----------------------------------------------------------------------------
(* A node that runs, or is confirmed, follows no failure.                  *)

FailuresRouted ==
  /\ ckpt.half = "action" /\ ckpt.next \in Nodes \ {"manual_review"} => ckpt.s.failed = "none"
  /\ phase = "executed" => patched.failed = "none"
  /\ ckpt.s.pending.stage # "none" => ckpt.s.failed = "none"
  /\ patched.pending.stage # "none" => patched.failed = "none"
  /\ phase \in {"sent", "confirmed", "finalized"} => ckpt.s.failed = "none"

LEMMA NodeNames ==
  /\ "none" \notin Nodes /\ "end" \notin Nodes /\ "failure" \notin Nodes
  /\ "complete" \in Nodes /\ "manual_review" \in Nodes
  /\ NoKey.stage = "none"
BY DEF Nodes, LogicalNodes, NoKey

\* Steps that move neither checkpoint nor channel values.
LEMMA RoutedOutside ==
  ASSUME FailuresRouted, UNCHANGED <<ckpt, patched>>,
         \/ phase' = phase
         \/ phase' \notin {"executed", "sent", "confirmed", "finalized"}
         \/ phase' # "executed" /\ ckpt.s.failed = "none"
  PROVE  FailuresRouted'
BY DEF FailuresRouted

LEMMA RoutedAtBegin ==
  ASSUME NEW s, NEW next, NEW half, Begin(s, next, half),
         s.failed = "none"
  PROVE  FailuresRouted'
BY DEF Begin, FailuresRouted

LEMMA RoutedAtEnd ==
  ASSUME TypeOK, FailuresRouted, NEW kept, LeaveRun(kept)
  PROVE  FailuresRouted'
<1>1. ckpt.s \in States
  BY StateFields
<1>2. Relocate(ckpt.s, kept).pending = ckpt.s.pending
  BY <1>1 DEF Relocate, States
<1>3. ckpt'.s = Relocate(ckpt.s, kept)
  BY <1>1 DEF LeaveRun, TypeOK
<1> QED BY <1>2, <1>3, LeaveRunKeeps DEF FailuresRouted

\* The bodies of the nodes pass the pending key on; only the review forgives a failure.
LEMMA WorkPending ==
  ASSUME TypeOK, FailuresRouted, Work
  PROVE  patched'.pending = ckpt.s.pending /\ patched'.failed = "none"
<1> USE StateFields DEF Produce
<1>1. CASE ManualReview
  BY <1>1 DEF ManualReview, States
<1>2. CASE ~ManualReview
  <2>1. PICK n \in LogicalNodes : AtNode(n)
    BY <1>2 DEF Work, CheckIdempotency, FetchMessage, Normalize, Collect, Plan, Process, Validate,
      Summarize, Prepare, CommitState, MarkAsRead, CompleteMessage, ProduceData, LogicalNodes
  <2>2. ckpt.s.failed = "none"
    BY <2>1 DEF FailuresRouted, AtNode, Nodes, LogicalNodes
  <2>3. patched'.failed = "none"
    BY <2>2, WorkKeeps
  <2>4. CASE CheckIdempotency
    BY <2>3, <2>4 DEF CheckIdempotency, States
  <2>5. CASE FetchMessage
    BY <2>3, <2>5 DEF FetchMessage, States
  <2>6. CASE Process
    BY <2>3, <2>6 DEF Process, States
  <2>7. CASE Summarize
    BY <2>3, <2>7 DEF Summarize, States
  <2>8. CASE Prepare
    BY <2>3, <2>8 DEF Prepare, States
  <2>9. CASE CommitState
    BY <2>3, <2>9 DEF CommitState, States
  <2>10. CASE MarkAsRead \/ CompleteMessage
    BY <2>3, <2>10 DEF MarkAsRead, CompleteMessage, States
  <2>11. CASE Normalize \/ Collect \/ Plan \/ Validate
    <3>1. PICK m, data : ProduceData(m, data)
      BY <2>11 DEF Normalize, Collect, Plan, Validate
    <3> QED BY <2>3, <3>1 DEF ProduceData, States
  <2> QED BY <1>2, <2>3, <2>4, <2>5, <2>6, <2>7, <2>8, <2>9, <2>10, <2>11 DEF Work
<1> QED BY <1>1, <1>2

\* A failure leaves no pending key.
LEMMA RoutedAtFailure ==
  ASSUME TypeOK, FailuresRouted, NEW n, NEW permanent, patched' = FailedState(n, permanent),
         ckpt' = ckpt, phase' = "patched"
  PROVE  FailuresRouted'
<1>1. patched'.pending.stage = "none"
  BY StateFields, NodeNames DEF FailedState, States
<1> QED BY <1>1 DEF FailuresRouted

LEMMA RoutedInSuperstep ==
  ASSUME TypeOK, FailuresRouted, NEW n \in Nodes,
         \/ Reuse(n) \/ FindBusy(n) \/ Claim(n) \/ StoreOutput(n)
         \/ ConfirmNode(n) \/ RecordNode(n) \/ FinalCheckpoint(n)
  PROVE  FailuresRouted'
<1> USE StateFields
<1>1. CASE Reuse(n)
  <2>1. patched'.pending.stage = "none" /\ phase' = "patched" /\ ckpt' = ckpt
    BY <1>1, NodeNames DEF Reuse, States
  <2> QED BY <2>1 DEF FailuresRouted
<1>2. CASE FindBusy(n)
  BY <1>2, RoutedAtFailure DEF FindBusy
<1>3. CASE Claim(n)
  BY <1>3, RoutedOutside DEF Claim
<1>4. CASE StoreOutput(n)
  <2>1. patched'.failed = patched.failed /\ patched.failed = "none" /\ phase' = "patched" /\ ckpt' = ckpt
    BY <1>4 DEF StoreOutput, FailuresRouted, TypeOK, States
  <2> QED BY <2>1 DEF FailuresRouted
<1>5. CASE ConfirmNode(n)
  <2>1. ckpt.s.failed = "none"
    BY <1>5, NodeNames DEF ConfirmNode, FailuresRouted
  <2> QED BY <1>5, <2>1, RoutedOutside DEF ConfirmNode
<1>6. CASE RecordNode(n)
  BY <1>6, RoutedOutside DEF RecordNode, FailuresRouted
<1>7. CASE FinalCheckpoint(n)
  <2> DEFINE s == [ckpt.s EXCEPT !.pending = NoKey]
  <2>1. /\ ckpt' = [s |-> s, next |-> Route(n, s), half |-> "action"]
        /\ patched' = s /\ phase' = "ready"
    BY <1>7 DEF FinalCheckpoint
  <2>2. s.pending.stage = "none"
    BY NodeNames DEF States
  <2> HIDE DEF s
  <2>3. Route(n, s) \in Nodes \ {"manual_review"} => s.failed = "none"
    BY NodeNames DEF Route, RouteError
  <2> QED BY <2>1, <2>2, <2>3 DEF FailuresRouted
<1> QED BY <1>1, <1>2, <1>3, <1>4, <1>5, <1>6, <1>7

LEMMA RoutedStep ==
  ASSUME TypeOK, DownIsIdle, FailuresRouted, [Next]_vars
  PROVE  FailuresRouted'
<1> USE StateFields
<1>1. CASE StartWorker \/ StopWorker \/ Deploy \/ ProcessCommand \/ ReprocessCommand
           \/ (\E permanent \in BOOLEAN : RetryCommand(permanent)) \/ UNCHANGED vars
  BY <1>1, RoutedOutside DEF StartWorker, StopWorker, Deploy, ProcessCommand, ReprocessCommand,
    RetryCommand, Command, vars
<1>2. CASE Accept \/ Defer \/ RestartFailed
  BY <1>2, RoutedOutside DEF Accept, Defer, RestartFailed
<1>3. CASE Continue
  <2>1. ckpt.s.failed = "none"
    BY <1>3 DEF Continue, FailedStage
  <2> QED BY <1>3, <2>1, RoutedAtBegin DEF Continue
<1>4. CASE Rewind
  <2> DEFINE cleared == [ckpt.s EXCEPT !.failed = "none", !.status = "processing", !.pending = NoKey]
  <2>1. PICK s, next : /\ Begin(s, next, "action")
                       /\ s \in {cleared, [cleared EXCEPT !.raw = "none", !.dirOurs = TRUE]}
    BY <1>4 DEF Rewind
  <2>2. s.failed = "none"
    BY <2>1 DEF States
  <2> QED BY <2>1, <2>2, RoutedAtBegin
<1>5. CASE StartFresh
  <2>1. InitialState(record.gen, code).failed = "none"
    BY DEF InitialState
  <2> QED BY <1>5, <2>1, RoutedAtBegin DEF StartFresh
<1>6. CASE Finish \/ Escape \/ MissingEdge \/ \E kept \in BOOLEAN : Crash(kept)
  BY <1>6, RoutedAtEnd DEF Finish, Escape, MissingEdge, RunRaises, Crash
<1>7. CASE Work
  <2>1. ckpt' = ckpt /\ phase' = "executed" /\ phase = "claimed"
    BY <1>7, WorkKeeps
  <2> QED BY <1>7, <2>1, WorkPending DEF FailuresRouted
<1>8. CASE Send
  <2>1. ckpt.s.failed = "none"
    BY <1>8 DEF Send, AtNode, FailuresRouted, Nodes, LogicalNodes
  <2> QED BY <1>8, <2>1, RoutedOutside DEF Send
<1>9. CASE SendAgain \/ Api \/ LoseReply \/ \E request \in inflight : LoseRequest(request)
  BY <1>9, RoutedOutside DEF SendAgain, Api, ApiHandles, LoseReply, LoseRequest
<1>10. CASE ReceiveCommit
  <2>1. /\ patched'.failed = "none" /\ patched'.pending = ckpt.s.pending /\ ckpt' = ckpt
        /\ phase' = "executed"
    BY <1>10 DEF ReceiveCommit, FailuresRouted, States
  <2> QED BY <2>1 DEF FailuresRouted
<1>11. CASE \/ SendWithoutFile \/ ReceiveConflict \/ GiveUp
            \/ \E n \in Nodes, permanent \in BOOLEAN : NodeFails(n, permanent)
  BY <1>11, RoutedAtFailure DEF SendWithoutFile, ReceiveConflict, GiveUp, NodeFails, Fail
<1>12. CASE Checkpoint
  BY <1>12, NodeNames DEF Checkpoint, FailuresRouted
<1>13. CASE RecordFailure
  <2>1. /\ patched'.failed = ckpt.s.failed /\ patched'.pending = ckpt.s.pending /\ ckpt' = ckpt
        /\ phase' = "patched"
    BY <1>13 DEF RecordFailure, States
  <2> QED BY <2>1 DEF FailuresRouted
<1>14. CASE Superstep
  BY <1>6, <1>12, <1>13, <1>14, RoutedInSuperstep DEF Superstep
<1>15. CASE Run \/ Persist
  BY <1>2, <1>3, <1>4, <1>5, <1>6, <1>8, <1>9, <1>10, <1>11, <1>15 DEF Run, Persist
<1> QED BY <1>1, <1>6, <1>7, <1>9, <1>11, <1>14, <1>15 DEF Next, ProcessStep, Environment

-----------------------------------------------------------------------------
(* A completed message is left alone until it gets a new generation.       *)

CompletedAtEnd ==
  record.status = "completed" =>
    \/ phase \in {"idle", "asked"}
    \/ phase = "finalized" /\ AtFinal("complete")
    \/ phase = "ready" /\ ckpt.next = "end"

LEMMA EnsuredOpen ==
  ASSUME TypeOK, record.status # "completed"
  PROVE  Ensured.status # "completed"
BY DEF TypeOK, Ensured, Ensure, NoRecord, NewGeneration, Records

LEMMA CompletedStep ==
  ASSUME TypeOK, DownIsIdle, FailuresRouted, CompletedAtEnd, [Next]_vars
  PROVE  CompletedAtEnd'
<1> USE StateFields
<1>0. record \in Records(Nodes \cup {"worker"})
  BY DEF TypeOK
<1>1. ASSUME phase' \in {"idle", "asked"}
      PROVE  CompletedAtEnd'
  BY <1>1 DEF CompletedAtEnd
<1>2. ASSUME record'.status # "completed"
      PROVE  CompletedAtEnd'
  BY <1>2 DEF CompletedAtEnd
<1>3. ASSUME UNCHANGED <<record, ckpt, phase>>
      PROVE  CompletedAtEnd'
  BY <1>3 DEF CompletedAtEnd, AtFinal
<1>4. ASSUME phase \notin {"idle", "asked", "ready", "finalized"}, record' = record
      PROVE  CompletedAtEnd'
  BY <1>4 DEF CompletedAtEnd
<1>5. CASE StartWorker \/ StopWorker \/ Deploy \/ Api \/ SendAgain \/ LoseReply \/ UNCHANGED vars
           \/ \E request \in inflight : LoseRequest(request)
  BY <1>3, <1>5 DEF StartWorker, StopWorker, Deploy, Api, ApiHandles, SendAgain, LoseReply, LoseRequest, vars
<1>6. CASE ProcessCommand \/ Defer \/ Finish \/ Escape \/ MissingEdge \/ \E kept \in BOOLEAN : Crash(kept)
  BY <1>1, <1>6 DEF ProcessCommand, Command, Defer, Finish, Escape, MissingEdge, RunRaises, Crash, LeaveRun
<1>7. CASE ReprocessCommand \/ \E permanent \in BOOLEAN : RetryCommand(permanent)
  BY <1>0, <1>2, <1>7, RowUpdates DEF ReprocessCommand, RetryCommand
<1>8. CASE Accept
  <2>1. record' = Ensured
    BY <1>8 DEF Accept
  <2>2. Ensured.status # "completed"
    <3>1. CASE phase = "forced"
      BY <3>1, EnsuredOpen DEF CompletedAtEnd
    <3>2. CASE phase # "forced"
      BY <1>8, <3>2 DEF Accept, MayAttempt
    <3> QED BY <3>1, <3>2
  <2> QED BY <1>2, <2>1, <2>2
<1>9. CASE RestartFailed
  BY <1>0, <1>2, <1>9, RowUpdates DEF RestartFailed
<1>10. CASE Continue \/ Rewind \/ StartFresh
  BY <1>4, <1>10 DEF Continue, Rewind, StartFresh
<1>11. CASE Work
  <2>1. phase = "claimed" /\ record' \in {record, StartAttempt(record), MarkManualReview(record)}
    BY <1>11, WorkKeeps
  <2>2. record.status # "completed"
    BY <2>1 DEF CompletedAtEnd
  <2>3. record'.status # "completed"
    <3>1. StartAttempt(record).status = "processing" /\ MarkManualReview(record).status = record.status
      BY <1>0, RowUpdates
    <3> QED BY <2>1, <2>2, <3>1
  <2> QED BY <1>2, <2>3
<1>12. CASE Send \/ SendWithoutFile \/ ReceiveCommit \/ ReceiveConflict \/ GiveUp \/ Checkpoint
            \/ \E n \in Nodes, permanent \in BOOLEAN : NodeFails(n, permanent)
  <2>1. record' = record /\ phase \in {"claimed", "sent", "executed", "patched"}
    BY <1>12 DEF Send, SendWithoutFile, ReceiveCommit, ReceiveConflict, GiveUp, NodeFails, Fail, Checkpoint
  <2> QED BY <1>4, <2>1
<1>13. ASSUME NEW n \in Nodes,
              Reuse(n) \/ FindBusy(n) \/ Claim(n) \/ StoreOutput(n) \/ ConfirmNode(n)
       PROVE  CompletedAtEnd'
  <2>1. record' = record /\ phase \in {"ready", "executed"} /\ ckpt.next # "end"
    BY <1>13, NodeNames DEF Reuse, FindBusy, Claim, StoreOutput, ConfirmNode, AtNode, AtFinal
  <2>2. record.status # "completed"
    BY <2>1 DEF CompletedAtEnd
  <2> QED BY <1>2, <2>1, <2>2
<1>14. ASSUME NEW n \in Nodes, RecordNode(n)
       PROVE  CompletedAtEnd'
  <2>1. n \in {"process_attachments", "summarize_message", "commit_processing_state", "complete"}
        /\ phase' = "finalized" /\ ckpt' = ckpt /\ AtFinal(n)
    BY <1>14 DEF RecordNode, RecordingNodes
  <2>2. CASE n = "complete"
    BY <2>1, <2>2 DEF CompletedAtEnd, AtFinal
  <2>3. CASE n # "complete"
    BY <1>0, <1>2, <1>14, <2>1, <2>3, RowUpdates DEF RecordNode
  <2> QED BY <2>2, <2>3
<1>15. ASSUME NEW n \in Nodes, FinalCheckpoint(n)
       PROVE  CompletedAtEnd'
  <2> DEFINE s == [ckpt.s EXCEPT !.pending = NoKey]
  <2>1. record' = record /\ phase' = "ready" /\ ckpt'.next = Route(n, s) /\ AtFinal(n)
        /\ phase \in {"finalized", "ready"}
    BY <1>15 DEF FinalCheckpoint
  <2>2. s.failed = ckpt.s.failed
    BY DEF States
  <2> HIDE DEF s
  <2>3. ASSUME record.status = "completed"
        PROVE  Route(n, s) = "end"
    <3>1. n = "complete" /\ phase = "finalized"
      BY <2>1, <2>3, NodeNames DEF CompletedAtEnd, AtFinal
    <3>2. s.failed = "none"
      BY <2>2, <3>1 DEF FailuresRouted
    <3> QED BY <3>1, <3>2 DEF Route, RouteError, Following
  <2> QED BY <2>1, <2>3 DEF CompletedAtEnd
<1>16. CASE RecordFailure
  <2> DEFINE permanent == ckpt.s.status = "permanent_error"
             failure == Error(record, ckpt.s.failed, permanent)
  <2>1. permanent \in BOOLEAN /\ record' = failure
    BY <1>16 DEF RecordFailure
  <2> HIDE DEF permanent
  <2>2. failure.status \in {"retryable_error", "permanent_error"}
    BY <1>0, <2>1, ErrorKeeps
  <2> HIDE DEF failure
  <2> QED BY <1>2, <2>1, <2>2
<1>17. CASE Superstep
  BY <1>6, <1>12, <1>13, <1>14, <1>15, <1>16, <1>17 DEF Superstep
<1>18. CASE Run \/ Persist
  BY <1>5, <1>6, <1>8, <1>9, <1>10, <1>12, <1>18 DEF Run, Persist
<1> QED BY <1>5, <1>6, <1>7, <1>11, <1>12, <1>17, <1>18 DEF Next, ProcessStep, Environment

-----------------------------------------------------------------------------
(* The refinement.                                                         *)

RefinementInvariant == DeliveryInvariant /\ FailuresRouted /\ CompletedAtEnd

LEMMA RefinementParts ==
  ASSUME RefinementInvariant
  PROVE  /\ TypeOK /\ DownIsIdle /\ FailuresRouted /\ CompletedAtEnd
         /\ GenerationsInOrder /\ TailEarned /\ RecordEarned
BY DEF RefinementInvariant, DeliveryInvariant, TypeInvariant, NothingUnearned

LEMMA RefinementInit == Init => RefinementInvariant
<1> SUFFICES ASSUME Init PROVE RefinementInvariant
  OBVIOUS
<1>1. FailuresRouted /\ CompletedAtEnd
  BY NodeNames DEF Init, InitialState, NoRecord, FailuresRouted, CompletedAtEnd
<1> QED BY <1>1, DeliveryInit DEF RefinementInvariant

LEMMA RefinementStep == RefinementInvariant /\ [Next]_vars => RefinementInvariant'
<1> SUFFICES ASSUME RefinementInvariant, [Next]_vars PROVE RefinementInvariant'
  OBVIOUS
<1>1. FailuresRouted' /\ CompletedAtEnd'
  BY RefinementParts, RoutedStep, CompletedStep
<1> QED BY <1>1, DeliveryStep DEF RefinementInvariant

\* Names for what MessageDelivery sees of a state.
Done == record.status = "completed"

\* The steps of the row that are none, a reopening, or a new generation.
SameRow == record'.gen = record.gen /\ record'.committed = record.committed /\ Done' = Done
Reopened == record'.gen = record.gen /\ record'.committed = record.committed /\ Done /\ ~Done'
Renewed == record'.gen = record.gen + 1 /\ ~record'.committed /\ ~Done'
Confirmed ==
  /\ store.stored /\ store.gen = record.gen
  /\ record'.gen = record.gen /\ record'.committed /\ Done' = Done
Ended ==
  /\ store.stored /\ store.gen = record.gen /\ FlagSet
  /\ record'.gen = record.gen /\ record'.committed = record.committed /\ Done'

RowStep == SameRow \/ Reopened \/ Renewed \/ Confirmed \/ Ended

LEMMA RowKept ==
  ASSUME record' = record
  PROVE  RowStep
BY DEF RowStep, SameRow, Done

LEMMA RowReopened ==
  ASSUME record'.gen = record.gen, record'.committed = record.committed, record'.status # "completed"
  PROVE  RowStep
BY DEF RowStep, SameRow, Reopened, Done

LEMMA RowRenewed ==
  ASSUME record \in Records(Nodes \cup {"worker"}), record' = NewGeneration(record)
  PROVE  RowStep
BY RowUpdates, RecordGenerations DEF RowStep, Renewed, Done

LEMMA AcceptRow ==
  ASSUME TypeOK, GenerationsInOrder, record' = Ensured
  PROVE  RowStep
<1>1. record \in Records(Nodes \cup {"worker"}) /\ code \in Nat
  BY DEF TypeOK
<1>2. CASE ~record.exists
  <2>1. record = NoRecord /\ record' = [NoRecord EXCEPT !.exists = TRUE, !.ver = code]
    BY <1>2 DEF GenerationsInOrder, Ensured, Ensure
  <2>2. /\ record'.gen = record.gen /\ record'.committed = record.committed
        /\ record'.status # "completed"
    BY <2>1 DEF NoRecord
  <2> QED BY <2>2, RowReopened
<1>3. CASE record.exists /\ record.ver # code
  <2>1. record' = [NewGeneration(record) EXCEPT !.ver = code]
    BY <1>3 DEF Ensured, Ensure
  <2>2. record'.gen = record.gen + 1 /\ record'.committed = FALSE /\ record'.status = "discovered"
    BY <1>1, <2>1 DEF NewGeneration, Records
  <2> QED BY <2>2 DEF RowStep, Renewed, Done
<1>4. CASE record.exists /\ record.ver = code
  BY <1>4, RowKept DEF Ensured, Ensure
<1> QED BY <1>2, <1>3, <1>4

LEMMA RecordNodeRow ==
  ASSUME RefinementInvariant, NEW n \in Nodes, RecordNode(n)
  PROVE  RowStep
<1> USE RefinementParts
<1>1. record \in Records(Nodes \cup {"worker"}) /\ store.gen \in Nat /\ record.gen \in Nat
  BY StateFields DEF TypeOK
<1>2. /\ n \in {"process_attachments", "summarize_message", "commit_processing_state", "complete"}
      /\ phase = "confirmed" /\ ckpt.next = n /\ ckpt.half = "finalize"
  BY DEF RecordNode, RecordingNodes, AtFinal
<1>3. ckpt.s.gen = record.gen /\ ckpt.s.failed = "none" /\ store.gen <= record.gen
      /\ record.status # "completed"
  BY <1>2 DEF GenerationsInOrder, FailuresRouted, CompletedAtEnd
<1>4. EarnedAfter(n, record.gen)
  BY <1>2, <1>3 DEF TailEarned
<1>5. CASE n = "process_attachments"
  <2>1. record' = SetStage(record, "attachments_processed")
    BY <1>5 DEF RecordNode
  <2> QED BY <1>1, <2>1, RowUpdates, RecordGenerations, RowReopened
<1>6. CASE n = "summarize_message"
  <2>1. record' = SetStage(record, "summarized")
    BY <1>6 DEF RecordNode
  <2> QED BY <1>1, <2>1, RowUpdates, RecordGenerations, RowReopened
<1>7. CASE n = "commit_processing_state"
  <2>1. record' = ResultCommitted(record)
    BY <1>7 DEF RecordNode
  <2>2. record'.gen = record.gen /\ record'.committed = TRUE /\ record'.status = "result_committed"
    BY <1>1, <2>1 DEF ResultCommitted, Records
  <2>3. store.stored /\ store.gen = record.gen
    BY <1>1, <1>3, <1>4, <1>7 DEF EarnedAfter, ResultHeld
  <2> QED BY <1>3, <2>2, <2>3 DEF RowStep, Confirmed, Done
<1>8. CASE n = "complete"
  <2>1. record' = Completed(record)
    BY <1>8 DEF RecordNode
  <2>2. /\ record'.gen = record.gen /\ record'.committed = record.committed
        /\ record'.status = "completed"
    BY <1>1, <2>1, RowUpdates, RecordGenerations
  <2>3. store.stored /\ store.gen = record.gen /\ FlagSet
    BY <1>1, <1>3, <1>4, <1>8 DEF EarnedAfter, ResultHeld
  <2> QED BY <2>2, <2>3 DEF RowStep, Ended, Done
<1> QED BY <1>2, <1>5, <1>6, <1>7, <1>8

LEMMA RowSteps ==
  ASSUME RefinementInvariant, [Next]_vars
  PROVE  RowStep
<1> USE RefinementParts
<1>0. record \in Records(Nodes \cup {"worker"}) /\ ckpt.s.failed \in Nodes \cup {"none"}
  BY StateFields DEF TypeOK
<1>1. CASE StartWorker \/ StopWorker \/ Deploy \/ ProcessCommand \/ Api \/ Persist \/ LoseReply \/ GiveUp
           \/ UNCHANGED vars \/ (\E request \in inflight : LoseRequest(request))
           \/ (\E n \in Nodes, permanent \in BOOLEAN : NodeFails(n, permanent))
           \/ \E kept \in BOOLEAN : Crash(kept)
  BY <1>1, RowKept DEF StartWorker, StopWorker, Deploy, ProcessCommand, Persist, Send, SendWithoutFile,
    SendAgain, ReceiveCommit, ReceiveConflict, Fail, Api, ApiHandles, LoseReply, GiveUp,
    LoseRequest, NodeFails, Crash, vars
<1>2. CASE Defer \/ Continue \/ Rewind \/ StartFresh \/ Finish
  BY <1>2, RowKept DEF Defer, Continue, Rewind, StartFresh, Finish
<1>3. CASE ReprocessCommand
  BY <1>0, <1>3, RowRenewed DEF ReprocessCommand
<1>4. CASE \E permanent \in BOOLEAN : RetryCommand(permanent)
  <2>1. record' = RequeueFailed(record)
    BY <1>4 DEF RetryCommand
  <2>2. /\ record'.gen = record.gen /\ record'.committed = record.committed
        /\ record'.status = "discovered"
    BY <1>0, <2>1, RowUpdates, RecordGenerations
  <2> QED BY <2>2, RowReopened
<1>5. CASE Accept
  BY <1>5, AcceptRow DEF Accept
<1>6. CASE RestartFailed
  <2>1. record' = StartAttempt(record)
    BY <1>6 DEF RestartFailed
  <2>2. /\ record'.gen = record.gen /\ record'.committed = record.committed
        /\ record'.status = "processing"
    BY <1>0, <2>1, RowUpdates, RecordGenerations
  <2> QED BY <2>2, RowReopened
<1>7. CASE Work
  <2>1. record' \in {record, StartAttempt(record), MarkManualReview(record)}
    BY <1>7, WorkKeeps
  <2>2. CASE record' = StartAttempt(record)
    BY <1>0, <2>2, RowUpdates, RecordGenerations, RowReopened
  <2>3. CASE record' = MarkManualReview(record)
    <3>1. /\ record'.gen = record.gen /\ record'.committed = record.committed
          /\ record'.status = record.status
      BY <1>0, <2>3, RowUpdates, RecordGenerations
    <3> QED BY <3>1 DEF RowStep, SameRow, Done
  <2> QED BY <2>1, <2>2, <2>3, RowKept
<1>8. CASE RecordFailure
  <2> DEFINE permanent == ckpt.s.status = "permanent_error"
             failure == Error(record, ckpt.s.failed, permanent)
  <2>1. permanent \in BOOLEAN /\ record' = failure
    BY <1>8 DEF RecordFailure
  <2> HIDE DEF permanent
  <2>2. /\ failure.gen = record.gen /\ failure.committed = record.committed
        /\ failure.status \in {"retryable_error", "permanent_error"}
    BY <1>0, <2>1, ErrorKeeps
  <2> HIDE DEF failure
  <2> QED BY <2>1, <2>2, RowReopened
<1>9. CASE Escape \/ MissingEdge
  <2>1. RunRaises
    BY <1>9 DEF Escape, MissingEdge
  <2>2. /\ record'.gen = record.gen /\ record'.committed = record.committed
        /\ record' = record \/ record'.status \in {"retryable_error", "permanent_error"}
    BY <2>1, RaiseKeeps
  <2> QED BY <2>2, RowKept, RowReopened
<1>10. CASE \/ Checkpoint
            \/ \E n \in Nodes : \/ Reuse(n) \/ FindBusy(n) \/ Claim(n) \/ StoreOutput(n)
                                \/ ConfirmNode(n) \/ FinalCheckpoint(n)
  BY <1>10, RowKept DEF Checkpoint, Reuse, FindBusy, Claim, StoreOutput, ConfirmNode, FinalCheckpoint
<1>11. CASE Superstep
  BY <1>8, <1>9, <1>10, <1>11, RecordNodeRow DEF Superstep
<1>12. CASE Run
  BY <1>2, <1>5, <1>6, <1>12 DEF Run
<1>13. CASE Environment
  BY <1>1, <1>3, <1>4, <1>9, <1>13 DEF Environment
<1> QED BY <1>1, <1>7, <1>11, <1>12, <1>13 DEF Next, ProcessStep

\* The API, the flag and the row change in different steps.
LEMMA OneAtATime ==
  ASSUME TypeOK, [Next]_vars
  PROVE  \/ UNCHANGED <<store, seen>>
         \/ Api /\ UNCHANGED <<record, seen>>
         \/ MarkAsRead /\ UNCHANGED <<record, store>>
<1>1. CASE Api
  BY <1>1 DEF Api, ApiHandles
<1>2. CASE MarkAsRead
  BY <1>2 DEF MarkAsRead, Produce
<1>3. CASE StartWorker \/ Environment \/ Persist \/ UNCHANGED vars
  BY <1>3 DEF StartWorker, Environment, Persist, StopWorker, Deploy, ProcessCommand,
    ReprocessCommand, RetryCommand, Command, NodeFails, Fail, LoseRequest, LoseReply,
    GiveUp, Escape, RunRaises, LeaveRun, Crash, Send, SendWithoutFile, SendAgain,
    ReceiveCommit, ReceiveConflict, vars
<1>4. CASE Run
  BY <1>4 DEF Run, Accept, Defer, Continue, RestartFailed, Rewind, StartFresh, Begin, Finish, LeaveRun
<1>5. CASE Work
  BY <1>2, <1>5 DEF Work, CheckIdempotency, FetchMessage, Normalize, Collect, Plan, Process, Validate,
    Summarize, Prepare, ManualReview, CommitState, CompleteMessage, ProduceData, Produce
<1>6. CASE Superstep
  BY <1>6 DEF Superstep, Reuse, FindBusy, Claim, StoreOutput, ConfirmNode, RecordNode,
    FinalCheckpoint, Checkpoint, RecordFailure, MissingEdge, RunRaises, LeaveRun
<1> QED BY <1>1, <1>3, <1>4, <1>5, <1>6 DEF Next, ProcessStep

StoredBefore == IF store.stored THEN store.gen + 1 ELSE 0

LEMMA ApiStores ==
  ASSUME RefinementInvariant, Api, store' # store
  PROVE  StoredBefore' \in (StoredBefore + 1) .. (record.gen + 1)
<1> USE RefinementParts
<1>1. PICK request \in inflight : store' = CommitRequest(store, request)
  BY DEF Api, ApiHandles
<1>2. /\ store \in Stores /\ request \in Requests /\ request.gen <= record.gen /\ record.gen \in Nat
  BY <1>1, StateFields DEF TypeOK, GenerationsInOrder
<1>3. ~Conflicts(store, request) /\ ~Same(store, request)
  BY <1>1 DEF CommitRequest
<1>4. store'.stored /\ store'.gen = request.gen
  BY <1>1, <1>3 DEF CommitRequest
<1>5. store.stored => request.gen > store.gen
  BY <1>2, <1>3 DEF Conflicts, Same, Stores, Requests
<1>6. request.gen \in Nat /\ store.gen \in Nat /\ store.stored \in BOOLEAN
  BY <1>2 DEF Requests, Stores
<1> QED BY <1>2, <1>4, <1>5, <1>6 DEF StoredBefore

LEMMA FlagsStored ==
  ASSUME RefinementInvariant, MarkAsRead
  PROVE  store.stored /\ store.gen = record.gen
<1> USE RefinementParts
<1>1. phase = "claimed" /\ ckpt.next = "mark_message_as_read"
  BY DEF MarkAsRead, Produce, AtNode
<1>2. ckpt.s.gen = record.gen /\ store.gen <= record.gen /\ store.gen \in Nat /\ record.gen \in Nat
  BY <1>1, StateFields DEF GenerationsInOrder
<1>3. ResultHeld(record.gen)
  BY <1>1, <1>2 DEF TailEarned, EarnedBefore
<1> QED BY <1>2, <1>3 DEF ResultHeld

LEMMA StepRefines ==
  ASSUME RefinementInvariant, [Next]_vars
  PROVE  [Delivery!Next]_(Delivery!vars)
<1> USE RefinementParts
<1>1. /\ record.gen \in Nat /\ store.gen \in Nat /\ store.stored \in BOOLEAN
      /\ record.committed \in BOOLEAN /\ seen \in BOOLEAN
  BY StateFields DEF TypeOK, Records, Stores
<1>2. CASE Api /\ UNCHANGED <<record, seen>>
  <2>1. CASE store' = store
    BY <1>2, <2>1 DEF Delivery!vars
  <2>2. CASE store' # store
    <3>1. StoredBefore' \in (StoredBefore + 1) .. (record.gen + 1)
      BY <1>2, <2>2, ApiStores
    <3>2. Delivery!Store
      BY <1>2, <3>1 DEF Delivery!Store, StoredBefore
    <3> QED BY <3>2 DEF Delivery!Next
  <2> QED BY <2>1, <2>2
<1>3. CASE MarkAsRead /\ UNCHANGED <<record, store>>
  <2>1. CASE seen' = seen
    BY <1>3, <2>1 DEF Delivery!vars
  <2>2. CASE seen' # seen
    <3>1. seen' = TRUE
      BY <1>1, <1>3, <2>2, SettingsAssumption DEF MarkAsRead
    <3>2. store.stored /\ store.gen = record.gen
      BY <1>3, FlagsStored
    <3>3. Delivery!Flag
      BY <1>3, <3>1, <3>2 DEF Delivery!Flag
    <3> QED BY <3>3 DEF Delivery!Next
  <2> QED BY <2>1, <2>2
<1>4. CASE UNCHANGED <<store, seen>>
  <2>1. record'.committed \in BOOLEAN
    <3>1. TypeOK'
      BY RefinementStep, TypeStep DEF RefinementInvariant, DeliveryInvariant, TypeInvariant
    <3> QED BY <3>1 DEF TypeOK, Records
  <2>2. CASE SameRow
    BY <1>4, <2>2 DEF SameRow, Done, Delivery!vars
  <2>3. CASE Reopened
    <3>1. Delivery!Reopen
      BY <1>4, <2>3 DEF Reopened, Done, Delivery!Reopen
    <3> QED BY <3>1 DEF Delivery!Next
  <2>4. CASE Renewed
    <3>1. record'.committed = FALSE /\ (record'.status = "completed") = FALSE
      BY <2>1, <2>4 DEF Renewed, Done
    <3>2. Delivery!NextGeneration
      BY <1>4, <2>4, <3>1 DEF Renewed, Done, Delivery!NextGeneration
    <3> QED BY <3>2 DEF Delivery!Next
  <2>5. CASE Confirmed
    <3>1. record'.committed = TRUE
      BY <2>1, <2>5 DEF Confirmed
    <3>2. Delivery!Confirm
      BY <1>4, <2>5, <3>1 DEF Confirmed, Done, Delivery!Confirm
    <3> QED BY <3>2 DEF Delivery!Next
  <2>6. CASE Ended
    <3>1. Delivery!Finish
      BY <1>4, <2>6 DEF Ended, Done, FlagSet, Delivery!Finish
    <3> QED BY <3>1 DEF Delivery!Next
  <2> QED BY <2>2, <2>3, <2>4, <2>5, <2>6, RowSteps DEF RowStep
<1> QED BY <1>2, <1>3, <1>4, OneAtATime

LEMMA InitRefines == Init => Delivery!Init
BY DEF Init, NoRecord, EmptyStore, Delivery!Init

\* Whatever crashes, failures, commands and late requests do, the pipeline
\* never does more with a message than MessageDelivery allows.
THEOREM PromiseIsKept == Spec => KeepsPromise
<1>1. RefinementInvariant /\ [Next]_vars => [Delivery!Next]_(Delivery!vars)
  BY StepRefines
<1> QED BY <1>1, InitRefines, RefinementInit, RefinementStep, PTL DEF Spec, KeepsPromise, Delivery!Spec

-----------------------------------------------------------------------------
(* A confirmed message does not go through the analysis again.             *)
(*                                                                         *)
(* The checkpoint that a run continues must belong to the confirmed        *)
(* generation and lie in the tail of the graph, after every crash, new     *)
(* version and command.  It can be lost in one way only, by a start from   *)
(* the beginning, which happens when the run has ended; but then, if it    *)
(* has not failed, the message is completed and no run begins.             *)

RowsInOrder ==
  /\ ~record.exists => ckpt.next = "none"
  /\ InRun => record.ver = code
  /\ ckpt.next # "none" /\ ckpt.s.gen = record.gen => ckpt.s.ver = record.ver
  /\ record.committed => ckpt.next # "none" /\ ckpt.s.gen = record.gen
  /\ patched.ver = ckpt.s.ver
  /\ phase = "rewinding" => ckpt.next # "none"
  /\ \A k \in DOMAIN journal : k.gen <= ckpt.s.gen

PathsInOrder ==
  /\ ckpt.next = "check_idempotency" =>
       ckpt.s.status # "completed" /\ patched.status # "completed"
  /\ ckpt.next = "failure" => ckpt.s.failed # "none" /\ patched.failed # "none"
  /\ phase = "finalized" /\ ckpt.next = "complete" => Done

\* No failure is on record or was erased from it, and the checkpoint is this generation's.
Untroubled == record.failed = "none" /\ spent.requeues = 0 /\ ckpt.s.gen = record.gen

EndIsCompleted == ckpt.next = "end" /\ ckpt.s.failed = "none" => Done

CompleteIsPending ==
  ckpt.next = "complete" =>
    /\ ckpt.half = "finalize" /\ ckpt.s.failed = "none" => ckpt.s.pending.stage = "complete"
    /\ phase = "patched" /\ patched.failed = "none" => patched.pending.stage = "complete"

CompletedRowIsLast ==
  \A k \in DOMAIN journal :
    k.stage = "complete" /\ k.gen = record.gen /\ journal[k].status = "completed" =>
      ckpt.s.failed = "none" /\ (AtFinal("complete") \/ ckpt.next = "end")

TailFailures == {"none", "mark_message_as_read", "complete"}

TailOnly ==
  record.committed =>
    /\ ckpt.next \in {"commit_processing_state", "mark_message_as_read", "complete", "failure", "end"}
    /\ ckpt.next = "commit_processing_state" => ckpt.half = "finalize"
    /\ ckpt.s.failed \in TailFailures
    /\ phase \in {"executed", "patched"} => patched.failed \in TailFailures

TailHolds == EndIsCompleted /\ CompleteIsPending /\ CompletedRowIsLast /\ TailOnly

SkipInvariant == RowsInOrder /\ PathsInOrder /\ (Untroubled => TailHolds)

\* Rows appear in the generation that is worked on, and are completed at the
\* second superstep of their node.
RowMade(k) == k \in DOMAIN journal \/ k.gen = ckpt.s.gen

RowCompleted(k) ==
  journal'[k].status = "completed" =>
    \/ k \in DOMAIN journal /\ journal[k].status = "completed"
    \/ ckpt.s.failed = "none" /\ AtFinal(k.stage)

RowsMade == \A k \in DOMAIN journal' : RowMade(k) /\ RowCompleted(k)

LEMMA RowsReleased ==
  ASSUME JournalOK(journal),
         \/ journal' = journal
         \/ journal' = RecoverAbandoned(journal)
         \/ journal' = InvalidateAll(journal)
         \/ \E key, permanent : journal' = FailRow(journal, key, permanent)
  PROVE  RowsMade
<1> USE DEF RowsMade, RowMade, RowCompleted, JournalOK, Rows
<1>1. CASE journal' = journal
  BY <1>1
<1>2. CASE journal' = RecoverAbandoned(journal)
  BY <1>2 DEF RecoverAbandoned
<1>3. CASE journal' = InvalidateAll(journal)
  BY <1>3 DEF InvalidateAll
<1>4. CASE \E key, permanent : journal' = FailRow(journal, key, permanent)
  BY <1>4 DEF FailRow
<1> QED BY <1>1, <1>2, <1>3, <1>4

LEMMA RowsOfNode ==
  ASSUME TypeOK, FailuresRouted, NEW n \in Nodes, Claim(n) \/ StoreOutput(n) \/ ConfirmNode(n)
  PROVE  RowsMade
<1> USE StateFields DEF RowsMade, RowMade, RowCompleted, JournalOK, Rows
<1>1. CASE Claim(n)
  BY <1>1 DEF Claim, ClaimRow, WithRow, KeyOf
<1>2. CASE StoreOutput(n)
  BY <1>2 DEF StoreOutput, StoreResult
<1>3. CASE ConfirmNode(n)
  <2>1. /\ journal' = CompleteRow(journal, ckpt.s.pending)
        /\ AtFinal(ckpt.s.pending.stage) /\ ckpt.s.failed = "none"
    BY <1>3, NodeNames DEF ConfirmNode, FailuresRouted
  <2> QED BY <2>1 DEF CompleteRow
<1> QED BY <1>1, <1>2, <1>3

LEMMA RowsStep ==
  ASSUME TypeOK, FailuresRouted, [Next]_vars
  PROVE  RowsMade
<1>1. JournalOK(journal)
  BY StateFields
<1>2. CASE UNCHANGED journal
  BY <1>1, <1>2, RowsReleased
<1>3. CASE StartWorker \/ ProcessCommand \/ ReprocessCommand
           \/ \E permanent \in BOOLEAN : RetryCommand(permanent)
  BY <1>1, <1>3, RowsReleased DEF StartWorker, ProcessCommand, ReprocessCommand, RetryCommand
<1>4. CASE \/ SendWithoutFile \/ ReceiveConflict \/ GiveUp
           \/ \E n \in Nodes, permanent \in BOOLEAN : NodeFails(n, permanent)
  <2>1. \E key, permanent : journal' = FailRow(journal, key, permanent)
    BY <1>4 DEF SendWithoutFile, ReceiveConflict, GiveUp, NodeFails, Fail
  <2> QED BY <1>1, <2>1, RowsReleased
<1>5. CASE \E n \in Nodes : Claim(n) \/ StoreOutput(n) \/ ConfirmNode(n)
  BY <1>5, RowsOfNode
<1>6. CASE StopWorker \/ Deploy \/ Escape \/ LoseReply \/ Api \/ UNCHANGED vars
           \/ (\E request \in inflight : LoseRequest(request))
           \/ \E kept \in BOOLEAN : Crash(kept)
  BY <1>2, <1>6 DEF StopWorker, Deploy, Escape, LoseReply, LoseRequest, Crash, RunRaises,
       LeaveRun, Api, ApiHandles, vars
<1>7. CASE Run
  BY <1>2, <1>7 DEF Run, Accept, Defer, Continue, RestartFailed, Rewind, StartFresh, Begin,
       Finish, LeaveRun
<1>8. CASE Work
  BY <1>2, <1>8, WorkKeeps
<1>9. CASE Send \/ SendAgain \/ ReceiveCommit
  BY <1>2, <1>9 DEF Send, SendAgain, ReceiveCommit
<1>10. CASE Checkpoint \/ RecordFailure \/ MissingEdge
           \/ \E n \in Nodes : Reuse(n) \/ FindBusy(n) \/ RecordNode(n) \/ FinalCheckpoint(n)
  BY <1>2, <1>10 DEF Checkpoint, RecordFailure, MissingEdge, RunRaises, LeaveRun, Reuse,
       FindBusy, RecordNode, FinalCheckpoint
<1> QED BY <1>3, <1>4, <1>5, <1>6, <1>7, <1>8, <1>9, <1>10
        DEF Next, ProcessStep, Superstep, Persist, Environment

\* What was requeued once stays so.
LEMMA RequeuesRise ==
  ASSUME TypeOK, [Next]_vars
  PROVE  spent'.requeues = 0 => spent.requeues = 0 /\ ~(\E permanent \in BOOLEAN : RetryCommand(permanent))
<1>0. spent.requeues \in Nat /\ spent \in [{"faults", "crashes", "escapes", "commands", "requeues", "prepared"} -> Nat]
  BY DEF TypeOK
<1>1. ASSUME NEW event \in {"faults", "crashes", "escapes", "commands", "prepared"}, Count(event)
      PROVE  spent'.requeues = spent.requeues
  BY <1>0, <1>1 DEF Count
<1>2. ASSUME UNCHANGED spent
      PROVE  spent'.requeues = spent.requeues
  BY <1>2
<1>3. ASSUME NEW permanent \in BOOLEAN, RetryCommand(permanent)
      PROVE  spent'.requeues = spent.requeues + 1
  BY <1>0, <1>3 DEF RetryCommand
<1>4. spent'.requeues = spent.requeues \/ spent'.requeues = spent.requeues + 1
  <2>1. CASE Environment
    BY <1>1, <1>2, <1>3, <2>1 DEF Environment, StopWorker, Deploy, ProcessCommand, ReprocessCommand,
       NodeFails, LoseRequest, LoseReply, GiveUp, Escape, Crash, Spend
  <2>2. CASE Work
    BY <1>1, <1>2, <2>2 DEF Work, CheckIdempotency, FetchMessage, Normalize, Collect, Plan, Process,
       Validate, Summarize, Prepare, ManualReview, CommitState, MarkAsRead, CompleteMessage, ProduceData
  <2>3. CASE StartWorker \/ Api \/ Persist \/ UNCHANGED vars
    BY <1>2, <2>3 DEF StartWorker, Api, ApiHandles, Persist, Send, SendWithoutFile, SendAgain,
       ReceiveCommit, ReceiveConflict, vars
  <2>4. CASE Run
    BY <1>2, <2>4 DEF Run, Accept, Defer, Continue, RestartFailed, Rewind, StartFresh, Begin, Finish
  <2>5. CASE Superstep
    BY <1>2, <2>5 DEF Superstep, Reuse, FindBusy, Claim, StoreOutput, ConfirmNode, RecordNode,
       FinalCheckpoint, Checkpoint, RecordFailure, MissingEdge
  <2> QED BY <2>1, <2>2, <2>3, <2>4, <2>5 DEF Next, ProcessStep
<1>5. ASSUME NEW permanent \in BOOLEAN, RetryCommand(permanent), spent'.requeues = 0
      PROVE  FALSE
  BY <1>0, <1>3, <1>5
<1> QED BY <1>0, <1>4, <1>5

-----------------------------------------------------------------------------
(* Steps that leave the place of the checkpoint alone.                     *)

SamePlace ==
  /\ ckpt'.next = ckpt.next /\ ckpt'.half = ckpt.half
  /\ ckpt'.s.gen = ckpt.s.gen /\ ckpt'.s.ver = ckpt.s.ver /\ ckpt'.s.status = ckpt.s.status
  /\ ckpt'.s.failed = ckpt.s.failed /\ ckpt'.s.pending = ckpt.s.pending

\* The values that the superstep is going to checkpoint fit the place.
PatchFits ==
  /\ patched'.ver = ckpt.s.ver
  /\ phase' = "rewinding" => ckpt.next # "none"
  /\ ckpt.next = "check_idempotency" => patched'.status # "completed"
  /\ ckpt.next = "failure" => patched'.failed # "none"
  /\ phase' = "finalized" /\ ckpt.next = "complete" => Done'
  /\ Untroubled /\ TailHolds =>
       /\ record.committed /\ phase' \in {"executed", "patched"} => patched'.failed \in TailFailures
       /\ ckpt.next = "complete" /\ phase' = "patched" /\ patched'.failed = "none" =>
            patched'.pending.stage = "complete"

\* The row stays in the generation; only the commit node confirms it.
RowFits ==
  /\ record'.gen = record.gen /\ (record.exists => record'.exists)
  /\ record'.ver = record.ver \/ ckpt.next = "none"
  /\ InRun' => record'.ver = code'
  /\ record'.committed =>
       \/ record.committed
       \/ /\ AtFinal("commit_processing_state") /\ ckpt.s.gen = record.gen
          /\ ckpt.s.failed = "none" /\ phase' \notin {"executed", "patched"}
  /\ Untroubled' => Untroubled /\ (Done => Done')

LEMMA PlaceKept ==
  ASSUME ckpt' = ckpt
  PROVE  SamePlace
BY DEF SamePlace

LEMMA PlaceStep ==
  ASSUME TypeOK, RowsInOrder, PathsInOrder, Untroubled => TailHolds, RowsMade,
         SamePlace, PatchFits, RowFits
  PROVE  SkipInvariant'
<1>1. RowsInOrder'
  <2>1. /\ ~record'.exists => ckpt'.next = "none"
        /\ InRun' => record'.ver = code'
        /\ ckpt'.next # "none" /\ ckpt'.s.gen = record'.gen => ckpt'.s.ver = record'.ver
    BY DEF RowsInOrder, SamePlace, RowFits
  <2>2. /\ record'.committed => ckpt'.next # "none" /\ ckpt'.s.gen = record'.gen
        /\ patched'.ver = ckpt'.s.ver /\ (phase' = "rewinding" => ckpt'.next # "none")
    BY DEF RowsInOrder, SamePlace, RowFits, PatchFits, AtFinal
  <2>3. ASSUME NEW k \in DOMAIN journal'
        PROVE  k.gen <= ckpt'.s.gen
    <3>1. k \in DOMAIN journal \/ k.gen = ckpt.s.gen
      BY DEF RowsMade, RowMade
    <3>2. ckpt'.s.gen = ckpt.s.gen /\ ckpt.s.gen \in Nat
      BY StateFields DEF SamePlace
    <3> QED BY <3>1, <3>2 DEF RowsInOrder
  <2> QED BY <2>1, <2>2, <2>3 DEF RowsInOrder
<1>2. PathsInOrder'
  BY DEF PathsInOrder, SamePlace, PatchFits, Done
<1>3. ASSUME Untroubled'
      PROVE  TailHolds'
  <2>1. Untroubled /\ TailHolds /\ (Done => Done')
    BY <1>3 DEF RowFits
  <2>2. EndIsCompleted'
    BY <2>1 DEF TailHolds, EndIsCompleted, SamePlace, Done
  <2>3. CompleteIsPending'
    BY <2>1 DEF TailHolds, CompleteIsPending, SamePlace, PatchFits
  <2>4. CompletedRowIsLast'
    <3> SUFFICES ASSUME NEW k \in DOMAIN journal', k.stage = "complete", k.gen = record'.gen,
                        journal'[k].status = "completed"
                 PROVE  ckpt.s.failed = "none" /\ (AtFinal("complete") \/ ckpt.next = "end")
      BY DEF CompletedRowIsLast, SamePlace, AtFinal
    <3>1. RowCompleted(k)
      BY DEF RowsMade
    <3>2. CASE k \in DOMAIN journal /\ journal[k].status = "completed"
      BY <2>1, <3>2 DEF TailHolds, CompletedRowIsLast, RowFits
    <3>3. CASE ckpt.s.failed = "none" /\ AtFinal(k.stage)
      BY <3>3
    <3> QED BY <3>1, <3>2, <3>3 DEF RowCompleted
  <2>5. TailOnly'
    <3>1. CASE record.committed
      BY <2>1, <3>1 DEF TailHolds, TailOnly, SamePlace, PatchFits
    <3>2. CASE record'.committed /\ ~record.committed
      BY <3>2 DEF RowFits, TailOnly, SamePlace, AtFinal, TailFailures
    <3> QED BY <3>1, <3>2 DEF TailOnly
  <2> QED BY <2>2, <2>3, <2>4, <2>5 DEF TailHolds
<1> QED BY <1>1, <1>2, <1>3 DEF SkipInvariant

\* The values wait unchanged, or are again those of the checkpoint.
LEMMA PatchKept ==
  ASSUME RowsInOrder, PathsInOrder, SamePlace,
         \/ phase' = phase /\ patched' = patched /\ (Done => Done')
         \/ /\ phase' \notin {"executed", "patched"}
            /\ phase' = "rewinding" => ckpt.next # "none"
            /\ phase' = "finalized" /\ ckpt.next = "complete" => Done'
            /\ patched' = patched \/ patched' = ckpt'.s
  PROVE  PatchFits
BY DEF RowsInOrder, PathsInOrder, SamePlace, PatchFits, TailHolds, TailOnly, CompleteIsPending

LEMMA RowUnchanged ==
  ASSUME TypeOK, [Next]_vars, RowsInOrder, SamePlace, record' = record,
         ~InRun' \/ (InRun /\ code' = code)
  PROVE  RowFits
BY RequeuesRise DEF RowFits, RowsInOrder, SamePlace, Untroubled, Done

SkipContext == RefinementInvariant /\ JournalInvariant /\ SkipInvariant

LEMMA SkipParts ==
  ASSUME SkipContext, [Next]_vars
  PROVE  /\ TypeOK /\ DownIsIdle /\ RewindsToNode /\ FailuresRouted /\ CompletedAtEnd
         /\ GenerationsInOrder /\ PendingInOrder
         /\ RowsInOrder /\ PathsInOrder /\ (Untroubled => TailHolds) /\ RowsMade
<1>1. /\ TypeOK /\ DownIsIdle /\ RewindsToNode /\ FailuresRouted /\ CompletedAtEnd
      /\ GenerationsInOrder /\ PendingInOrder
      /\ RowsInOrder /\ PathsInOrder /\ (Untroubled => TailHolds)
  BY DEF SkipContext, RefinementInvariant, DeliveryInvariant, TypeInvariant, NothingUnearned,
     JournalInvariant, SkipInvariant
<1> QED BY <1>1, RowsStep

LEMMA QuietStep ==
  ASSUME SkipContext, [Next]_vars, SamePlace, record' = record,
         ~InRun' \/ (InRun /\ code' = code),
         \/ phase' = phase /\ patched' = patched
         \/ /\ phase' \notin {"executed", "patched", "rewinding"}
            /\ phase' = "finalized" => ckpt.next # "complete"
            /\ patched' = patched \/ patched' = ckpt'.s
  PROVE  SkipInvariant'
<1>1. PatchFits
  BY SkipParts, PatchKept DEF Done
<1>2. RowFits
  BY SkipParts, RowUnchanged
<1> QED BY <1>1, <1>2, SkipParts, PlaceStep

LEMMA PlaceAtEnd ==
  ASSUME TypeOK, NEW kept, LeaveRun(kept)
  PROVE  SamePlace /\ patched' = ckpt'.s /\ phase' = "idle" /\ code' = code
<1>1. ckpt.s \in States
  BY StateFields
<1>2. Relocate(ckpt.s, kept).pending = ckpt.s.pending /\ Relocate(ckpt.s, kept).ver = ckpt.s.ver
  BY <1>1 DEF Relocate, States
<1>3. ckpt'.s = Relocate(ckpt.s, kept)
  BY <1>1 DEF LeaveRun, TypeOK
<1> QED BY <1>2, <1>3, LeaveRunKeeps DEF SamePlace

LEMMA SkipAtRest ==
  ASSUME SkipContext, [Next]_vars,
         \/ StartWorker \/ StopWorker \/ Deploy \/ ProcessCommand \/ Defer \/ Continue \/ Finish
         \/ Api \/ LoseReply \/ Send \/ SendAgain \/ UNCHANGED vars
         \/ (\E request \in inflight : LoseRequest(request))
         \/ (\E n \in Nodes : Claim(n) \/ ConfirmNode(n))
         \/ \E kept \in BOOLEAN : Crash(kept)
  PROVE  SkipInvariant'
<1> USE SkipParts
<1>1. CASE StartWorker \/ StopWorker \/ Api \/ LoseReply \/ SendAgain \/ UNCHANGED vars
           \/ \E request \in inflight : LoseRequest(request)
  <2>1. UNCHANGED <<record, ckpt, patched, phase, code>>
    BY <1>1 DEF StartWorker, StopWorker, Api, ApiHandles, LoseReply, SendAgain, LoseRequest, vars
  <2>2. ~InRun' \/ (InRun /\ code' = code)
    BY <2>1 DEF InRun
  <2> QED BY <2>1, <2>2, PlaceKept, QuietStep
<1>2. CASE Deploy
  <2>1. UNCHANGED <<record, ckpt, patched, phase>> /\ phase = "idle"
    BY <1>2 DEF Deploy, DownIsIdle
  <2>2. ~InRun'
    BY <2>1 DEF InRun
  <2> QED BY <2>1, <2>2, PlaceKept, QuietStep
<1>3. CASE ProcessCommand \/ Defer
  <2>1. UNCHANGED <<record, ckpt, patched>> /\ phase' \in {"idle", "asked"}
    BY <1>3 DEF ProcessCommand, Command, Defer
  <2>2. ~InRun'
    BY <2>1 DEF InRun
  <2> QED BY <2>1, <2>2, PlaceKept, QuietStep
<1>4. CASE Send \/ \E n \in Nodes : Claim(n) \/ ConfirmNode(n)
  <2>1. /\ UNCHANGED <<record, ckpt, patched, code>>
        /\ phase' \in {"sent", "claimed", "confirmed", "finalized"}
        /\ phase \in {"claimed", "ready"}
        /\ phase' = "finalized" => ckpt.next # "complete"
    BY <1>4 DEF Send, Claim, ConfirmNode, AtFinal, RecordingNodes
  <2>2. InRun
    BY <2>1 DEF InRun
  <2> QED BY <2>1, <2>2, PlaceKept, QuietStep
<1>5. CASE Continue
  <2>1. /\ ckpt' = [s |-> ckpt.s, next |-> ckpt.next, half |-> ckpt.half]
        /\ patched' = ckpt.s /\ phase = "accepted" /\ phase' = "ready"
        /\ UNCHANGED <<record, code>>
    BY <1>5 DEF Continue, Begin
  <2>2. SamePlace /\ patched' = ckpt'.s /\ InRun
    BY <2>1 DEF SamePlace, InRun
  <2> QED BY <2>1, <2>2, QuietStep
<1>6. CASE Finish \/ \E kept \in BOOLEAN : Crash(kept)
  <2>1. PICK kept \in BOOLEAN : LeaveRun(kept)
    BY <1>6 DEF Finish, Crash
  <2>2. record' = record /\ SamePlace /\ patched' = ckpt'.s /\ phase' = "idle"
    BY <1>6, <2>1, PlaceAtEnd DEF Finish, Crash
  <2>3. ~InRun'
    BY <2>2 DEF InRun
  <2> QED BY <2>2, <2>3, QuietStep
<1> QED BY <1>1, <1>2, <1>3, <1>4, <1>5, <1>6

-----------------------------------------------------------------------------
(* The row changes.                                                        *)

\* The row's operators leave its version, and all but NewGeneration its failure.
LEMMA RowVersions ==
  ASSUME NEW r \in Records(Nodes \cup {"worker"})
  PROVE  /\ NewGeneration(r).ver = r.ver /\ StartAttempt(r).ver = r.ver
         /\ SetStage(r, "attachments_processed").ver = r.ver
         /\ SetStage(r, "summarized").ver = r.ver
         /\ ResultCommitted(r).ver = r.ver /\ Completed(r).ver = r.ver
         /\ MarkManualReview(r).ver = r.ver /\ RequeueFailed(r).ver = r.ver
         /\ \A stage, permanent : Error(r, stage, permanent).ver = r.ver
BY DEF NewGeneration, StartAttempt, SetStage, ResultCommitted, Completed, MarkManualReview,
       RequeueFailed, Error, Records

\* A row that is not completed, and whose failure no step erases.
LEMMA RowMoved ==
  ASSUME SkipContext, [Next]_vars, SamePlace,
         record'.gen = record.gen, record'.exists = record.exists, record'.ver = record.ver,
         record'.committed = record.committed,
         ~InRun' \/ (InRun /\ code' = code),
         \/ record'.failed = record.failed /\ (Done => Done')
         \/ record'.failed # "none" \/ spent'.requeues # 0
  PROVE  RowFits
<1>1. InRun' => record'.ver = code'
  BY SkipParts DEF RowsInOrder
<1>2. Untroubled' => Untroubled /\ (Done => Done')
  BY SkipParts, RequeuesRise DEF Untroubled, SamePlace
<1> QED BY <1>1, <1>2 DEF RowFits

\* A new generation has nothing in common with the checkpoint.
LEMMA RenewStep ==
  ASSUME SkipContext, [Next]_vars, ckpt' = ckpt, patched' = patched,
         phase' \notin {"finalized", "rewinding"}, record'.gen = record.gen + 1, ~record'.committed, record'.exists,
         InRun' => record'.ver = code'
  PROVE  SkipInvariant'
<1> USE SkipParts
<1>1. ckpt.s.gen # record'.gen
  BY StateFields DEF GenerationsInOrder
<1>2. RowsInOrder'
  <2>1. ASSUME NEW k \in DOMAIN journal'
        PROVE  k.gen <= ckpt'.s.gen
    <3>1. k \in DOMAIN journal \/ k.gen = ckpt.s.gen
      BY DEF RowsMade, RowMade
    <3>2. ckpt.s.gen \in Nat
      BY StateFields
    <3> QED BY <3>1, <3>2 DEF RowsInOrder
  <2> QED BY <1>1, <2>1 DEF RowsInOrder
<1>3. PathsInOrder'
  BY DEF PathsInOrder
<1>4. ~Untroubled'
  BY <1>1 DEF Untroubled
<1> QED BY <1>2, <1>3, <1>4 DEF SkipInvariant

LEMMA SkipAtAccept ==
  ASSUME SkipContext, [Next]_vars, Accept
  PROVE  SkipInvariant'
<1> USE SkipParts
<1>0. /\ record \in Records(Nodes \cup {"worker"}) /\ code \in Nat
  BY DEF TypeOK
<1>1. /\ record' = Ensured /\ UNCHANGED <<journal, ckpt, patched, code, spent>>
      /\ phase \in {"idle", "asked", "forced"} /\ phase' = "accepted"
  BY DEF Accept
<1>2. CASE ~record.exists
  <2>1. record = NoRecord /\ record' = [NoRecord EXCEPT !.exists = TRUE, !.ver = code]
    BY <1>1, <1>2 DEF GenerationsInOrder, Ensured, Ensure
  <2>2. /\ record'.gen = record.gen /\ record'.exists /\ record'.ver = code' /\ ~record'.committed
        /\ record'.failed = record.failed /\ record'.status = record.status
    BY <1>1, <2>1 DEF NoRecord
  <2>3. ckpt.next = "none"
    BY <1>2 DEF RowsInOrder
  <2>4. RowFits
    BY <1>1, <2>2, <2>3 DEF RowFits, Untroubled, Done
  <2>5. PatchFits
    BY <1>1, <2>3, PlaceKept, PatchKept DEF Done
  <2> QED BY <1>1, <2>4, <2>5, PlaceKept, PlaceStep
<1>3. CASE record.exists /\ record.ver # code
  <2>1. record' = [NewGeneration(record) EXCEPT !.ver = code]
    BY <1>1, <1>3 DEF Ensured, Ensure
  <2>2. record'.gen = record.gen + 1 /\ ~record'.committed /\ record'.exists /\ record'.ver = code'
    BY <1>0, <1>1, <1>3, <2>1 DEF NewGeneration, Records
  <2> QED BY <1>1, <2>2, RenewStep
<1>4. CASE record.exists /\ record.ver = code
  <2>1. record' = record
    BY <1>1, <1>4 DEF Ensured, Ensure
  <2>2. RowFits
    BY <1>1, <1>4, <2>1 DEF RowFits, Untroubled, Done
  <2>3. PatchFits
    BY <1>1, PlaceKept, PatchKept DEF Done
  <2> QED BY <1>1, <2>2, <2>3, PlaceKept, PlaceStep
<1> QED BY <1>2, <1>3, <1>4

LEMMA SkipAtCommand ==
  ASSUME SkipContext, [Next]_vars,
         ReprocessCommand \/ \E permanent \in BOOLEAN : RetryCommand(permanent)
  PROVE  SkipInvariant'
<1> USE SkipParts
<1>0. record \in Records(Nodes \cup {"worker"})
  BY DEF TypeOK
<1>1. UNCHANGED <<ckpt, patched, code>> /\ phase' = "forced" /\ record.exists
  BY DEF ReprocessCommand, RetryCommand, Command
<1>2. ~InRun'
  BY <1>1 DEF InRun
<1>3. CASE ReprocessCommand
  <2>1. record' = NewGeneration(record)
    BY <1>3 DEF ReprocessCommand
  <2>2. record'.gen = record.gen + 1 /\ ~record'.committed /\ record'.exists
    BY <1>0, <1>1, <2>1, RecordGenerations, RowUpdates
  <2> QED BY <1>1, <1>2, <2>2, RenewStep
<1>4. CASE \E permanent \in BOOLEAN : RetryCommand(permanent)
  <2>1. record' = RequeueFailed(record)
    BY <1>4 DEF RetryCommand
  <2>2. /\ record'.gen = record.gen /\ record'.exists = record.exists /\ record'.ver = record.ver
        /\ record'.committed = record.committed
    BY <1>0, <2>1, RecordGenerations, RowUpdates, RowVersions
  <2>3. spent'.requeues # 0
    BY <1>4, RequeuesRise
  <2>4. RowFits
    BY <1>1, <1>2, <2>2, <2>3, PlaceKept, RowMoved
  <2>5. PatchFits
    BY <1>1, PlaceKept, PatchKept
  <2> QED BY <1>1, <2>4, <2>5, PlaceKept, PlaceStep
<1> QED BY <1>3, <1>4

LEMMA SkipAtRestart ==
  ASSUME SkipContext, [Next]_vars, RestartFailed
  PROVE  SkipInvariant'
<1> USE SkipParts
<1>0. record \in Records(Nodes \cup {"worker"})
  BY DEF TypeOK
<1>1. /\ record' = StartAttempt(record) /\ UNCHANGED <<ckpt, patched, code>>
      /\ phase = "accepted" /\ phase' = "rewinding"
  BY DEF RestartFailed
<1>2. InRun /\ ~Done
  BY <1>1 DEF InRun, CompletedAtEnd, Done
<1>3. /\ record'.gen = record.gen /\ record'.exists = record.exists /\ record'.ver = record.ver
      /\ record'.committed = record.committed /\ record'.failed = record.failed
  BY <1>0, <1>1, RecordGenerations, RowUpdates, RowVersions
<1>4. RowFits
  BY <1>1, <1>2, <1>3, PlaceKept, RowMoved
<1>5. PatchFits
  BY <1>1, PlaceKept, PatchKept DEF RestartFailed, SameRun
<1> QED BY <1>1, <1>4, <1>5, PlaceKept, PlaceStep

LEMMA SkipAtRaise ==
  ASSUME SkipContext, [Next]_vars, Escape \/ MissingEdge
  PROVE  SkipInvariant'
<1> USE SkipParts
<1>0. record \in Records(Nodes \cup {"worker"})
  BY DEF TypeOK
<1>1. RunRaises
  BY DEF Escape, MissingEdge
<1>2. LeaveRun(FALSE)
  BY <1>1 DEF RunRaises
<1>3. SamePlace /\ patched' = ckpt'.s /\ phase' = "idle" /\ code' = code
  BY <1>2, PlaceAtEnd
<1>4. ~InRun'
  BY <1>3 DEF InRun
<1>5. CASE record' = record
  BY <1>3, <1>4, <1>5, QuietStep
<1>6. CASE record' # record
  <2>1. record' = Error(record, "worker", FALSE)
    BY <1>1, <1>6 DEF RunRaises
  <2>2. record'.ver = record.ver
    BY <1>0, <2>1 DEF Error, Records
  <2>3. /\ record'.gen = record.gen /\ record'.exists = record.exists
        /\ record'.committed = record.committed /\ record'.failed = "worker"
    BY <1>1, <1>6, RaiseKeeps
  <2>4. RowFits
    BY <1>3, <1>4, <2>2, <2>3, RowMoved
  <2>5. PatchFits
    BY <1>3, PatchKept
  <2> QED BY <1>3, <2>4, <2>5, PlaceStep
<1> QED BY <1>5, <1>6

LEMMA SkipAtRecord ==
  ASSUME SkipContext, [Next]_vars, NEW n \in Nodes, RecordNode(n)
  PROVE  SkipInvariant'
<1> USE SkipParts
<1>0. record \in Records(Nodes \cup {"worker"})
  BY DEF TypeOK
<1>1. /\ UNCHANGED <<ckpt, patched, code>> /\ phase = "confirmed" /\ phase' = "finalized"
      /\ AtFinal(n) /\ ckpt.next = n
      /\ n \in {"process_attachments", "summarize_message", "commit_processing_state", "complete"}
  BY DEF RecordNode, RecordingNodes, AtFinal
<1>2. InRun /\ ~Done /\ ckpt.s.failed = "none" /\ ckpt.s.gen = record.gen
  BY <1>1 DEF InRun, CompletedAtEnd, Done, FailuresRouted, GenerationsInOrder
<1>3. /\ record'.gen = record.gen /\ record'.exists = record.exists /\ record'.ver = record.ver
      /\ record'.failed = record.failed
      /\ record'.committed = record.committed \/ n = "commit_processing_state"
      /\ n = "complete" => Done'
  <2>1. CASE n = "process_attachments"
    <3>1. record' = SetStage(record, "attachments_processed")
      BY <2>1 DEF RecordNode
    <3> QED BY <1>0, <2>1, <3>1, RecordGenerations, RowUpdates, RowVersions
  <2>2. CASE n = "summarize_message"
    <3>1. record' = SetStage(record, "summarized")
      BY <2>2 DEF RecordNode
    <3> QED BY <1>0, <2>2, <3>1, RecordGenerations, RowUpdates, RowVersions
  <2>3. CASE n = "commit_processing_state"
    <3>1. record' = ResultCommitted(record)
      BY <2>3 DEF RecordNode
    <3> QED BY <1>0, <2>3, <3>1, RecordGenerations, RowUpdates, RowVersions
  <2>4. CASE n = "complete"
    <3>1. record' = Completed(record)
      BY <2>4 DEF RecordNode
    <3> QED BY <1>0, <2>4, <3>1, RecordGenerations, RowUpdates, RowVersions DEF Done
  <2> QED BY <1>1, <2>1, <2>2, <2>3, <2>4
<1>4. RowFits
  <2>1. InRun' => record'.ver = code'
    BY <1>1, <1>2, <1>3 DEF RowsInOrder
  <2>2. Untroubled' => Untroubled /\ (Done => Done')
    BY <1>1, <1>2, <1>3, RequeuesRise DEF Untroubled
  <2>3. record'.committed => record.committed \/ AtFinal("commit_processing_state")
    BY <1>1, <1>3
  <2> QED BY <1>1, <1>2, <1>3, <2>1, <2>2, <2>3 DEF RowFits
<1>5. PatchFits
  <2>1. phase' = "finalized" /\ ckpt.next = "complete" => Done'
    BY <1>1, <1>3
  <2>2. SamePlace /\ patched' = patched /\ phase' \notin {"executed", "patched", "rewinding"}
    BY <1>1, PlaceKept
  <2> QED BY <2>1, <2>2, PatchKept
<1> QED BY <1>1, <1>4, <1>5, PlaceKept, PlaceStep

-----------------------------------------------------------------------------
(* The first superstep: what it is going to checkpoint.                    *)

LEMMA PatchFailed ==
  ASSUME SkipContext, [Next]_vars, NEW n \in Nodes, NEW permanent,
         patched' = FailedState(n, permanent), AtNode(n), phase' = "patched"
  PROVE  PatchFits
<1> USE SkipParts
<1>1. /\ patched'.failed = n /\ patched'.status \in {"permanent_error", "retryable_error"}
      /\ patched'.ver = ckpt.s.ver
  BY StateFields DEF FailedState, States
<1>2. ckpt.next = n /\ ckpt.half = "action" /\ n \notin {"none", "failure", "end"}
  BY NodeNames DEF AtNode
<1>3. Untroubled /\ TailHolds /\ record.committed => n \in TailFailures
  BY <1>2 DEF TailHolds, TailOnly, TailFailures
<1> QED BY <1>1, <1>2, <1>3 DEF PatchFits

LEMMA PatchReused ==
  ASSUME SkipContext, [Next]_vars, NEW n \in Nodes, Reuse(n)
  PROVE  PatchFits
<1> USE SkipParts
<1>1. /\ patched'.failed = ckpt.s.failed /\ patched'.status = ckpt.s.status /\ phase' = "patched"
      /\ patched'.ver = ckpt.s.ver
  BY StateFields DEF Reuse, States
<1>2. ckpt.next = n /\ ckpt.half = "action" /\ n \notin {"none", "failure", "end"}
  BY NodeNames DEF Reuse, AtNode
<1>3. ~(Untroubled /\ TailHolds /\ ckpt.next = "complete")
  <2> SUFFICES ASSUME Untroubled, TailHolds, ckpt.next = "complete" PROVE FALSE
    OBVIOUS
  <2> DEFINE key == KeyOf(ckpt.s, n)
  <2>1. key \in DOMAIN journal /\ journal[key].status = "completed"
    BY DEF Reuse, Reusable, HasStatus
  <2>2. key.stage = "complete" /\ key.gen = record.gen
    BY <1>2 DEF KeyOf, Untroubled
  <2> HIDE DEF key
  <2>3. AtFinal("complete") \/ ckpt.next = "end"
    BY <2>1, <2>2 DEF TailHolds, CompletedRowIsLast
  <2> QED BY <1>2, <2>3 DEF AtFinal
<1>4. TailHolds /\ record.committed => patched'.failed \in TailFailures
  BY <1>1 DEF TailHolds, TailOnly
<1>5. ckpt.next = "check_idempotency" => patched'.status # "completed"
  BY <1>1 DEF PathsInOrder
<1> QED BY <1>1, <1>2, <1>3, <1>4, <1>5 DEF PatchFits

LEMMA PatchStored ==
  ASSUME SkipContext, [Next]_vars, NEW n \in Nodes, StoreOutput(n)
  PROVE  PatchFits
<1> USE SkipParts
<1>0. patched \in States
  BY DEF TypeOK
<1>1. /\ patched'.failed = patched.failed /\ patched'.status = patched.status
      /\ patched'.pending = KeyOf(ckpt.s, n) /\ phase = "executed" /\ phase' = "patched"
  BY <1>0 DEF StoreOutput, States
<1>2. ckpt.next = n /\ n # "failure" /\ patched'.pending.stage = n
  BY <1>1, NodeNames DEF StoreOutput, AtNode, KeyOf
<1>3. patched'.failed = "none"
  BY <1>1 DEF FailuresRouted
<1>4. ckpt.next = "check_idempotency" => patched'.status # "completed"
  BY <1>1 DEF PathsInOrder
<1>5. patched'.ver = ckpt.s.ver
  BY <1>0 DEF StoreOutput, States, RowsInOrder
<1> QED BY <1>1, <1>2, <1>3, <1>4, <1>5 DEF PatchFits, TailFailures

LEMMA WorkVersion ==
  ASSUME TypeOK, Work
  PROVE  patched'.ver = ckpt.s.ver
<1> USE StateFields DEF Produce
<1>1. CASE CheckIdempotency
  BY <1>1 DEF CheckIdempotency, States
<1>2. CASE FetchMessage
  BY <1>2 DEF FetchMessage, States
<1>3. CASE Normalize \/ Collect \/ Plan \/ Validate
  <2>1. PICK n, data : ProduceData(n, data)
    BY <1>3 DEF Normalize, Collect, Plan, Validate
  <2> QED BY <2>1 DEF ProduceData, States
<1>4. CASE Process
  BY <1>4 DEF Process, States
<1>5. CASE Summarize
  BY <1>5 DEF Summarize, States
<1>6. CASE Prepare
  BY <1>6 DEF Prepare, States
<1>7. CASE ManualReview
  BY <1>7 DEF ManualReview, States
<1>8. CASE CommitState
  BY <1>8 DEF CommitState, States
<1>9. CASE MarkAsRead
  BY <1>9 DEF MarkAsRead
<1>10. CASE CompleteMessage
  BY <1>10 DEF CompleteMessage, States
<1> QED BY <1>1, <1>2, <1>3, <1>4, <1>5, <1>6, <1>7, <1>8, <1>9, <1>10 DEF Work

LEMMA PatchWorked ==
  ASSUME SkipContext, [Next]_vars, Work
  PROVE  PatchFits
<1> USE SkipParts
<1>1. phase = "claimed" /\ phase' = "executed" /\ patched'.failed = "none"
  BY WorkKeeps, WorkPending
<1>2. ckpt.next # "failure"
  BY <1>1, NodeNames DEF PendingInOrder, Working
<1>3. ASSUME ckpt.next = "check_idempotency"
      PROVE  patched'.status # "completed"
  <2>1. CheckIdempotency
    BY <1>3 DEF Work, CheckIdempotency, FetchMessage, Normalize, Collect, Plan, Process, Validate,
       Summarize, Prepare, ManualReview, CommitState, MarkAsRead, CompleteMessage, ProduceData,
       Produce, AtNode
  <2>2. patched'.status \in {record.status, "processing"}
    BY <2>1, StateFields DEF CheckIdempotency, Produce, States
  <2>3. record.status # "completed"
    BY <1>1 DEF CompletedAtEnd
  <2> QED BY <2>2, <2>3
<1> QED BY <1>1, <1>2, <1>3, WorkVersion DEF PatchFits, TailFailures

LEMMA SkipAtWork ==
  ASSUME SkipContext, [Next]_vars, Work
  PROVE  SkipInvariant'
<1> USE SkipParts
<1>0. record \in Records(Nodes \cup {"worker"})
  BY DEF TypeOK
<1>1. /\ phase = "claimed" /\ ckpt' = ckpt /\ code' = code
      /\ record' \in {record, StartAttempt(record), MarkManualReview(record)}
  BY WorkKeeps
<1>2. InRun /\ ~Done
  BY <1>1 DEF InRun, CompletedAtEnd, Done
<1>3. /\ record'.gen = record.gen /\ record'.exists = record.exists /\ record'.ver = record.ver
      /\ record'.failed = record.failed /\ record'.committed = record.committed
  <2>1. CASE record' = record
    BY <2>1
  <2>2. CASE record' = StartAttempt(record)
    BY <1>0, <2>2, RecordGenerations, RowUpdates, RowVersions
  <2>3. CASE record' = MarkManualReview(record)
    BY <1>0, <2>3, RecordGenerations, RowUpdates, RowVersions
  <2> QED BY <1>1, <2>1, <2>2, <2>3
<1>4. RowFits
  BY <1>1, <1>2, <1>3, PlaceKept, RowMoved
<1> QED BY <1>1, <1>4, PatchWorked, PlaceKept, PlaceStep

LEMMA SkipAtPatch ==
  ASSUME SkipContext, [Next]_vars,
         \/ SendWithoutFile \/ ReceiveConflict \/ GiveUp \/ ReceiveCommit
         \/ (\E n \in Nodes, permanent \in BOOLEAN : NodeFails(n, permanent))
         \/ \E n \in Nodes : Reuse(n) \/ FindBusy(n) \/ StoreOutput(n)
  PROVE  SkipInvariant'
<1> USE SkipParts
<1>1. UNCHANGED <<record, ckpt, code>> /\ phase \in {"ready", "claimed", "sent", "executed"}
  BY DEF SendWithoutFile, ReceiveConflict, GiveUp, ReceiveCommit, NodeFails, Fail, Reuse, FindBusy,
     StoreOutput
<1>2. InRun
  BY <1>1 DEF InRun
<1>3. RowFits
  BY <1>1, <1>2, PlaceKept, RowUnchanged
<1>4. PatchFits
  <2>1. CASE SendWithoutFile \/ ReceiveConflict \/ GiveUp
    <3>1. PICK permanent : Fail("persist_result_via_api", permanent)
      BY <2>1 DEF SendWithoutFile, ReceiveConflict, GiveUp
    <3>2. AtNode("persist_result_via_api") /\ "persist_result_via_api" \in Nodes
      <4>1. "persist_result_via_api" \in Nodes
        BY DEF Nodes, LogicalNodes
      <4>2. AtNode("persist_result_via_api")
        BY <2>1 DEF SendWithoutFile, ReceiveConflict, GiveUp, PendingInOrder, Working, AtNode
      <4> QED BY <4>1, <4>2
    <3> QED BY <3>1, <3>2, PatchFailed DEF Fail
  <2>2. CASE \E n \in Nodes, permanent \in BOOLEAN : NodeFails(n, permanent)
    BY <2>2, PatchFailed DEF NodeFails, Fail
  <2>3. CASE \E n \in Nodes : FindBusy(n)
    BY <2>3, PatchFailed DEF FindBusy
  <2>4. CASE \E n \in Nodes : Reuse(n) \/ StoreOutput(n)
    BY <2>4, PatchReused, PatchStored
  <2>5. CASE ReceiveCommit
    <3>1. /\ patched'.failed = ckpt.s.failed /\ patched'.ver = ckpt.s.ver
          /\ phase = "sent" /\ phase' = "executed"
      BY <2>5, StateFields DEF ReceiveCommit, States
    <3>2. patched'.failed = "none"
      BY <3>1 DEF FailuresRouted
    <3>3. ckpt.next = "persist_result_via_api"
      BY <3>1 DEF PendingInOrder
    <3> QED BY <3>1, <3>2, <3>3 DEF PatchFits, TailFailures
  <2> QED BY <2>1, <2>2, <2>3, <2>4, <2>5
<1> QED BY <1>1, <1>3, <1>4, PlaceKept, PlaceStep

LEMMA FailureKeeps ==
  ASSUME record \in Records(Nodes \cup {"worker"}),
         ckpt.s.failed \in Nodes \cup {"worker", "none"}, RecordFailure
  PROVE  /\ record'.gen = record.gen /\ record'.exists = record.exists
         /\ record'.ver = record.ver /\ record'.committed = record.committed
         /\ record'.failed = ckpt.s.failed
<1>1. PICK permanent \in BOOLEAN : record' = Error(record, ckpt.s.failed, permanent)
  BY DEF RecordFailure
<1>2. Error(record, ckpt.s.failed, permanent).ver = record.ver
  BY DEF Error, Records
<1>3. /\ Error(record, ckpt.s.failed, permanent).gen = record.gen
      /\ Error(record, ckpt.s.failed, permanent).exists = record.exists
  BY ErrorKeeps
<1>4. /\ Error(record, ckpt.s.failed, permanent).committed = record.committed
      /\ Error(record, ckpt.s.failed, permanent).failed = ckpt.s.failed
  BY ErrorKeeps
<1> QED BY <1>1, <1>2, <1>3, <1>4

LEMMA SkipAtFailure ==
  ASSUME SkipContext, [Next]_vars, RecordFailure
  PROVE  SkipInvariant'
<1> USE SkipParts
<1>0. record \in Records(Nodes \cup {"worker"}) /\ ckpt.s \in States
      /\ ckpt.s.failed \in Nodes \cup {"worker", "none"}
  BY StateFields DEF TypeOK
<1>1. /\ ckpt' = ckpt /\ code' = code /\ ckpt.next = "failure"
      /\ phase = "ready" /\ phase' = "patched"
      /\ patched' = [ckpt.s EXCEPT !.status = record'.status]
  BY DEF RecordFailure, AtNode
<1>2. /\ patched'.failed = ckpt.s.failed /\ ckpt.s.failed # "none" /\ InRun
      /\ patched'.ver = ckpt.s.ver
  BY <1>0, <1>1 DEF States, PathsInOrder, InRun
<1>3. /\ record'.gen = record.gen /\ record'.exists = record.exists /\ record'.ver = record.ver
      /\ record'.committed = record.committed /\ record'.failed # "none"
  BY <1>0, <1>2, FailureKeeps
<1>4. RowFits
  BY <1>1, <1>2, <1>3, PlaceKept, RowMoved
<1>5. PatchFits
  BY <1>1, <1>2 DEF PatchFits, TailHolds, TailOnly
<1> QED BY <1>1, <1>4, <1>5, PlaceKept, PlaceStep

-----------------------------------------------------------------------------
(* The steps that move the checkpoint.                                     *)


\* A superstep ends, a run begins: the row and the journal stay, the values are
\* those of the checkpoint.
PlaceMoved ==
  /\ UNCHANGED <<record, journal, code, spent>>
  /\ InRun /\ phase' = "ready" /\ patched' = ckpt'.s

LEMMA MoveStep ==
  ASSUME SkipContext, [Next]_vars, PlaceMoved, ckpt'.next # "none",
         ckpt'.s.gen = ckpt.s.gen, ckpt.s.gen = record.gen, ckpt'.s.ver = ckpt.s.ver, ckpt.next # "none",
         ckpt'.next = "check_idempotency" => ckpt'.s.status # "completed",
         ckpt'.next = "failure" => ckpt'.s.failed # "none",
         Untroubled /\ TailHolds => TailHolds'
  PROVE  SkipInvariant'
<1> USE SkipParts
<1>1. RowsInOrder'
  BY DEF PlaceMoved, RowsInOrder
<1>2. PathsInOrder'
  BY DEF PlaceMoved, PathsInOrder
<1>3. Untroubled' => Untroubled
  BY DEF PlaceMoved, Untroubled
<1> QED BY <1>1, <1>2, <1>3 DEF SkipInvariant

\* The checkpoint of the first superstep.
LEMMA SkipAtCheckpoint ==
  ASSUME SkipContext, [Next]_vars, Checkpoint
  PROVE  SkipInvariant'
<1> USE SkipParts
<1>1. /\ ckpt'.s = patched /\ patched' = patched /\ phase = "patched" /\ phase' = "ready"
      /\ UNCHANGED <<record, journal, code, spent>>
      /\ \/ ckpt.next = "failure" /\ ckpt'.next = "end" /\ ckpt'.half = "action"
         \/ ckpt.next # "failure" /\ ckpt'.next = ckpt.next /\ ckpt'.half = "finalize"
  BY DEF Checkpoint
<1>2. /\ ckpt'.s.gen = ckpt.s.gen /\ ckpt.s.gen = record.gen /\ ckpt'.s.ver = ckpt.s.ver
      /\ ckpt.half = "action" /\ ckpt.next \in Nodes \cup {"failure"}
  BY <1>1 DEF GenerationsInOrder, PendingInOrder, RowsInOrder
<1>3. PlaceMoved
  BY <1>1 DEF PlaceMoved, InRun
<1>4. ckpt.next \notin {"none", "end"} /\ ckpt'.next # "none"
  BY <1>1, <1>2, NodeNames
<1>5. /\ ckpt'.next = "check_idempotency" => ckpt'.s.status # "completed"
      /\ ckpt'.next = "failure" => ckpt'.s.failed # "none"
  BY <1>1 DEF PathsInOrder
<1>6. ASSUME Untroubled, TailHolds
      PROVE  TailHolds'
  <2>1. EndIsCompleted'
    BY <1>1, <1>4 DEF EndIsCompleted, PathsInOrder
  <2>2. CompleteIsPending'
    BY <1>1, <1>6 DEF TailHolds, CompleteIsPending
  <2>3. CompletedRowIsLast'
    <3> SUFFICES ASSUME NEW k \in DOMAIN journal, k.stage = "complete", k.gen = record.gen,
                        journal[k].status = "completed"
                 PROVE  FALSE
      BY <1>1 DEF CompletedRowIsLast
    <3> QED BY <1>2, <1>4, <1>6 DEF TailHolds, CompletedRowIsLast, AtFinal
  <2>4. TailOnly'
    BY <1>1, <1>6 DEF TailHolds, TailOnly
  <2> QED BY <2>1, <2>2, <2>3, <2>4 DEF TailHolds
<1> QED BY <1>2, <1>3, <1>4, <1>5, <1>6, MoveStep

LEMMA RouteOpen ==
  ASSUME NEW n \in Nodes, NEW s
  PROVE  /\ Route(n, s) \notin {"none", "check_idempotency"}
         /\ Route(n, s) = "failure" => s.failed # "none"
         /\ s.failed = "none" /\ Route(n, s) = "end" =>
              n = "complete" \/ (n = "check_idempotency" /\ s.status = "completed")
         /\ s.failed # "none" /\ s.failed \notin ManualReviewStages => Route(n, s) = "failure"
<1>1. /\ Following[n] \in (Nodes \ {"check_idempotency"}) \cup {"end"}
      /\ Following[n] = "end" => n = "complete"
  BY DEF Following, Nodes, LogicalNodes
<1> QED BY <1>1, NodeNames DEF Route, RouteError

\* The checkpoint of the second one, which chooses the next node.
LEMMA SkipAtRoute ==
  ASSUME SkipContext, [Next]_vars, NEW n \in Nodes, FinalCheckpoint(n)
  PROVE  SkipInvariant'
<1> USE SkipParts
<1> DEFINE s == [ckpt.s EXCEPT !.pending = NoKey]
<1>1. s.gen = ckpt.s.gen /\ s.ver = ckpt.s.ver /\ s.failed = ckpt.s.failed /\ s.status = ckpt.s.status
  BY StateFields DEF States
<1>2. /\ ckpt'.s = s /\ ckpt'.next = Route(n, s) /\ ckpt'.half = "action" /\ patched' = s
      /\ phase \in {"ready", "finalized"} /\ phase' = "ready"
      /\ UNCHANGED <<record, journal, code, spent>>
      /\ ckpt.next = n /\ ckpt.half = "finalize"
      /\ phase = "finalized" \/ ckpt.s.pending.stage # n
  BY DEF FinalCheckpoint, AtFinal
<1> HIDE DEF s
<1>3. ckpt.s.gen = record.gen /\ n # "none" /\ n # "end"
  BY <1>2, NodeNames DEF GenerationsInOrder
<1>4. PlaceMoved
  BY <1>2 DEF PlaceMoved, InRun
<1>5. /\ ckpt'.next # "none" /\ ckpt'.next # "check_idempotency"
      /\ ckpt'.next = "failure" => ckpt'.s.failed # "none"
  BY <1>2, RouteOpen
<1>6. ASSUME Untroubled, TailHolds
      PROVE  TailHolds'
  <2>0. n = "complete" /\ s.failed = "none" => Done
    BY <1>1, <1>2, <1>6 DEF TailHolds, CompleteIsPending, PathsInOrder
  <2>1. EndIsCompleted'
    <3> SUFFICES ASSUME Route(n, s) = "end", s.failed = "none" PROVE Done
      BY <1>2 DEF EndIsCompleted, Done
    <3>1. n = "complete"
      BY <1>1, <1>2, RouteOpen DEF PathsInOrder
    <3> QED BY <2>0, <3>1
  <2>2. CompleteIsPending'
    BY <1>2 DEF CompleteIsPending
  <2>3. CompletedRowIsLast'
    <3> SUFFICES ASSUME NEW k \in DOMAIN journal, k.stage = "complete", k.gen = record.gen,
                        journal[k].status = "completed"
                 PROVE  s.failed = "none" /\ Route(n, s) = "end"
      BY <1>2 DEF CompletedRowIsLast
    <3>1. s.failed = "none" /\ n = "complete"
      BY <1>1, <1>2, <1>3, <1>6 DEF TailHolds, CompletedRowIsLast, AtFinal
    <3> QED BY <3>1 DEF Route, RouteError, Following
  <2>4. TailOnly'
    <3> SUFFICES ASSUME record.committed
                 PROVE  /\ Route(n, s) \in {"mark_message_as_read", "complete", "failure", "end"}
                        /\ s.failed \in TailFailures
      BY <1>2 DEF TailOnly
    <3>1. /\ n \in {"commit_processing_state", "mark_message_as_read", "complete", "failure", "end"}
          /\ s.failed \in TailFailures
      BY <1>1, <1>2, <1>6 DEF TailHolds, TailOnly
    <3>2. n \in {"commit_processing_state", "mark_message_as_read", "complete"}
      BY <3>1, NodeNames
    <3>3. CASE s.failed = "none"
      <4>1. Following[n] \in {"mark_message_as_read", "complete", "end"}
        BY <3>2 DEF Following
      <4>2. Route(n, s) = Following[n]
        BY <3>2, <3>3 DEF Route, RouteError
      <4> QED BY <3>1, <4>1, <4>2
    <3>4. CASE s.failed # "none"
      BY <3>1, <3>4, RouteOpen DEF TailFailures, ManualReviewStages
    <3> QED BY <3>1, <3>3, <3>4
  <2> QED BY <2>1, <2>2, <2>3, <2>4 DEF TailHolds
<1> QED BY <1>1, <1>2, <1>3, <1>4, <1>5, <1>6, MoveStep

\* A resumed run goes back to the node that failed, or farther for the files.
LEMMA SkipAtRewind ==
  ASSUME SkipContext, [Next]_vars, Rewind
  PROVE  SkipInvariant'
<1> USE SkipParts
<1> DEFINE cleared == [ckpt.s EXCEPT !.failed = "none", !.status = "processing", !.pending = NoKey]
<1>1. PICK s, next : /\ Begin(s, next, "action")
                     /\ s \in {cleared, [cleared EXCEPT !.raw = "none", !.dirOurs = TRUE]}
                     /\ IF Refetch THEN next = "fetch_message" ELSE next = FailedStage
  BY DEF Rewind
<1>2. s.gen = ckpt.s.gen /\ s.ver = ckpt.s.ver /\ s.failed = "none" /\ s.status = "processing"
  BY <1>1, StateFields DEF States
<1>3. /\ ckpt'.s = s /\ ckpt'.next = next /\ ckpt'.half = "action" /\ patched' = s
      /\ phase = "rewinding" /\ phase' = "ready"
      /\ UNCHANGED <<record, journal, code, spent>>
  BY <1>1 DEF Begin, Rewind
<1>4. /\ ckpt.s.gen = record.gen /\ ckpt.next # "none"
      /\ FailedStage \in LogicalNodes \ {"check_idempotency"}
  BY <1>3 DEF GenerationsInOrder, RowsInOrder, RewindsToNode, Resumable
<1>5. PlaceMoved
  BY <1>3 DEF PlaceMoved, InRun
<1>6. next \in LogicalNodes \ {"check_idempotency"}
  BY <1>1, <1>4 DEF LogicalNodes
<1>7. next \notin {"none", "failure", "end", "check_idempotency"}
  BY <1>6 DEF LogicalNodes
<1>8. ASSUME Untroubled, TailHolds
      PROVE  TailHolds'
  <2>1. ckpt.s.failed # "none" /\ FailedStage = ckpt.s.failed
    BY <1>4, <1>8 DEF FailedStage, Untroubled, LogicalNodes
  <2>2. EndIsCompleted'
    BY <1>3, <1>7 DEF EndIsCompleted
  <2>3. CompleteIsPending'
    BY <1>3 DEF CompleteIsPending
  <2>4. CompletedRowIsLast'
    <3> SUFFICES ASSUME NEW k \in DOMAIN journal, k.stage = "complete", k.gen = record.gen,
                        journal[k].status = "completed"
                 PROVE  FALSE
      BY <1>3 DEF CompletedRowIsLast
    <3> QED BY <1>8, <2>1 DEF TailHolds, CompletedRowIsLast
  <2>5. TailOnly'
    <3> SUFFICES ASSUME record.committed
                 PROVE  next \in {"mark_message_as_read", "complete"}
      BY <1>2, <1>3 DEF TailOnly, TailFailures
    <3>1. FailedStage \in {"mark_message_as_read", "complete"}
      BY <1>8, <2>1 DEF TailHolds, TailOnly, TailFailures
    <3>2. ~Refetch
      BY <3>1 DEF Refetch
    <3> QED BY <1>1, <3>1, <3>2
  <2> QED BY <2>2, <2>3, <2>4, <2>5 DEF TailHolds
<1> QED BY <1>2, <1>3, <1>4, <1>5, <1>7, <1>8, MoveStep

\* A start from the beginning: if the result of this generation were confirmed, or
\* its last node done, the checkpoint would be continued or the message left alone.
LEMMA FreshIsUnconfirmed ==
  ASSUME SkipContext, [Next]_vars, StartFresh, Untroubled
  PROVE  /\ ~record.committed
         /\ \A k \in DOMAIN journal :
              ~(k.stage = "complete" /\ k.gen = record.gen /\ journal[k].status = "completed")
<1> USE SkipParts
<1>1. phase = "accepted" /\ ~Done
  BY DEF StartFresh, CompletedAtEnd, Done
<1>2. TailHolds /\ ckpt.s.gen = record.gen /\ FailedStage = ckpt.s.failed
  BY DEF Untroubled, FailedStage
<1>3. ckpt.next # "none" => SameRun
  BY <1>1, <1>2 DEF SameRun, RowsInOrder, InRun
<1>4. ckpt.next # "none" => ckpt.s.failed # "none" /\ ~Resumable(ckpt.s.failed)
  <2> SUFFICES ASSUME ckpt.next # "none" PROVE ckpt.s.failed # "none" /\ ~Resumable(ckpt.s.failed)
    OBVIOUS
  <2>1. ~(ckpt.next # "end" /\ ckpt.s.failed = "none") /\ ~Resumable(ckpt.s.failed)
    BY <1>2, <1>3 DEF StartFresh
  <2>2. ~(ckpt.next = "end" /\ ckpt.s.failed = "none")
    BY <1>1, <1>2 DEF TailHolds, EndIsCompleted
  <2> QED BY <2>1, <2>2
<1>5. ~record.committed
  <2> SUFFICES ASSUME record.committed PROVE FALSE
    OBVIOUS
  <2>1. ckpt.s.failed \in {"mark_message_as_read", "complete"}
    BY <1>2, <1>4 DEF TailHolds, TailOnly, TailFailures, RowsInOrder
  <2>2. Resumable(ckpt.s.failed)
    BY <2>1 DEF Resumable, LogicalNodes
  <2> QED BY <1>4, <2>2 DEF RowsInOrder
<1>6. ASSUME NEW k \in DOMAIN journal, k.stage = "complete", k.gen = record.gen,
             journal[k].status = "completed"
      PROVE  FALSE
  <2>1. ckpt.s.failed = "none" /\ ckpt.next # "none"
    BY <1>2, <1>6 DEF TailHolds, CompletedRowIsLast, AtFinal
  <2> QED BY <1>4, <2>1
<1> QED BY <1>5, <1>6

LEMMA SkipAtFresh ==
  ASSUME SkipContext, [Next]_vars, StartFresh
  PROVE  SkipInvariant'
<1> USE SkipParts
<1> DEFINE s == InitialState(record.gen, code)
<1>1. /\ s.gen = record.gen /\ s.ver = code /\ s.failed = "none" /\ s.status = "discovered"
  BY DEF InitialState
<1>2. /\ ckpt'.s = s /\ ckpt'.next = "check_idempotency" /\ ckpt'.half = "action" /\ patched' = s
      /\ phase = "accepted" /\ phase' = "ready"
      /\ UNCHANGED <<record, journal, code, spent>>
  BY DEF StartFresh, Begin
<1> HIDE DEF s
<1>3. /\ ckpt.s.gen <= record.gen /\ ckpt.s.gen \in Nat /\ record.gen \in Nat
      /\ \A k \in DOMAIN journal : k.gen \in Nat /\ k.gen <= ckpt.s.gen
  BY StateFields DEF GenerationsInOrder, RowsInOrder, TypeOK, Keys
<1>4. record.ver = code /\ record.exists
  BY <1>2 DEF RowsInOrder, InRun, GenerationsInOrder
<1>5. RowsInOrder'
  <2>1. \A k \in DOMAIN journal : k.gen <= record.gen
    BY <1>3
  <2> QED BY <1>1, <1>2, <1>4, <2>1 DEF RowsInOrder
<1>6. PathsInOrder'
  BY <1>1, <1>2 DEF PathsInOrder
<1>7. ASSUME Untroubled'
      PROVE  TailHolds'
  <2>1. record.failed = "none" /\ spent.requeues = 0
    BY <1>2, <1>7 DEF Untroubled
  <2>2. CASE ckpt.s.gen = record.gen
    <3>1. /\ ~record.committed
          /\ \A k \in DOMAIN journal :
               ~(k.stage = "complete" /\ k.gen = record.gen /\ journal[k].status = "completed")
      BY <2>1, <2>2, FreshIsUnconfirmed DEF Untroubled
    <3> QED BY <1>2, <3>1 DEF TailHolds, EndIsCompleted, CompleteIsPending, CompletedRowIsLast, TailOnly
  <2>3. CASE ckpt.s.gen # record.gen
    <3>1. ~record.committed
      BY <2>3 DEF RowsInOrder
    <3>2. \A k \in DOMAIN journal : k.gen # record.gen
      BY <1>3, <2>3
    <3> QED BY <1>2, <3>1, <3>2
            DEF TailHolds, EndIsCompleted, CompleteIsPending, CompletedRowIsLast, TailOnly
  <2> QED BY <2>2, <2>3
<1> QED BY <1>5, <1>6, <1>7 DEF SkipInvariant

-----------------------------------------------------------------------------
LEMMA SkipInit == Init => SkipContext
<1> SUFFICES ASSUME Init PROVE SkipContext
  OBVIOUS
<1>1. RefinementInvariant /\ JournalInvariant
  BY RefinementInit, JournalInvariantInit
<1>2. RowsInOrder /\ PathsInOrder
  BY DEF Init, InitialState, NoRecord, RowsInOrder, PathsInOrder, InRun
<1>3. TailHolds
  BY DEF Init, InitialState, NoRecord, TailHolds, EndIsCompleted, CompleteIsPending,
     CompletedRowIsLast, TailOnly
<1> QED BY <1>1, <1>2, <1>3 DEF SkipContext, SkipInvariant

LEMMA SkipStep == SkipContext /\ [Next]_vars => SkipContext'
<1> SUFFICES ASSUME SkipContext, [Next]_vars PROVE SkipContext'
  OBVIOUS
<1>1. TypeInvariant
  BY DEF SkipContext, RefinementInvariant, DeliveryInvariant
<1>2. RefinementInvariant' /\ JournalInvariant'
  BY <1>1, RefinementStep, JournalInvariantStep DEF SkipContext
<1>3. SkipInvariant'
  <2>1. CASE Run
    BY <2>1, SkipAtRest, SkipAtAccept, SkipAtRestart, SkipAtRewind, SkipAtFresh DEF Run
  <2>2. CASE Superstep
    BY <2>2, SkipAtRest, SkipAtPatch, SkipAtRecord, SkipAtRoute, SkipAtCheckpoint, SkipAtFailure,
       SkipAtRaise DEF Superstep
  <2>3. CASE Environment
    BY <2>3, SkipAtRest, SkipAtCommand, SkipAtPatch, SkipAtRaise DEF Environment
  <2>4. CASE StartWorker \/ Work \/ Persist \/ Api \/ UNCHANGED vars
    BY <2>4, SkipAtRest, SkipAtWork, SkipAtPatch DEF Persist
  <2> QED BY <2>1, <2>2, <2>3, <2>4 DEF Next, ProcessStep
<1> QED BY <1>2, <1>3 DEF SkipContext

\* Once a result is confirmed and no failure is on record, or was erased from it by
\* retry-failed, no node up to the API call is executed again in that generation,
\* whatever crashes, versions, other commands and late requests come between.
THEOREM ConfirmedIsNotRepeated == Spec => ConfirmedSkipsAnalysis
<1>1. ASSUME SkipContext, NEW n \in AnalysisNodes, record.committed, FailedStage = "none",
             spent.requeues = 0, ckpt.s.gen = record.gen, Claim(n)
      PROVE  FALSE
  <2>1. Untroubled
    BY <1>1 DEF FailedStage, Untroubled
  <2>2. TailOnly
    BY <1>1, <2>1 DEF SkipContext, SkipInvariant, TailHolds
  <2>3. ckpt.next = n
    BY <1>1 DEF Claim, AtNode
  <2> QED BY <1>1, <2>2, <2>3 DEF TailOnly, AnalysisNodes, LogicalNodes
<1>2. SkipContext /\ [Next]_vars =>
        [\A n \in AnalysisNodes :
           record.committed /\ FailedStage = "none" /\ spent.requeues = 0
             /\ ckpt.s.gen = record.gen => ~Claim(n)]_vars
  BY <1>1
<1> QED BY <1>2, SkipInit, SkipStep, PTL DEF Spec, ConfirmedSkipsAnalysis

-----------------------------------------------------------------------------
(* Which requests are refused, for a message with a date.                  *)

DatesAgree ==
  StableDate => store.received = 0 /\ \A request \in inflight : request.received = 0

ConflictInvariant == DeliveryInvariant /\ DatesAgree /\ DatedConflictIsOwn

\* A node's work does not touch the client, the API or the checkpoint.
LEMMA WorkIsLocal ==
  ASSUME Work
  PROVE  phase = "claimed" /\ UNCHANGED <<ckpt, store, inflight, reply>>
<1>1. ASSUME NEW n, NEW s, Produce(n, s)
      PROVE  phase = "claimed" /\ UNCHANGED <<ckpt, store, inflight, reply>>
  BY <1>1 DEF Produce
<1>2. PICK n, s : Produce(n, s)
  <2>1. CASE CheckIdempotency \/ FetchMessage \/ Normalize \/ Collect \/ Plan
    BY <2>1 DEF CheckIdempotency, FetchMessage, Normalize, Collect, Plan, ProduceData
  <2>2. CASE Process
    BY <2>2 DEF Process
  <2>3. CASE Validate
    BY <2>3 DEF Validate, ProduceData
  <2>4. CASE Summarize
    <3>1. PICK summary : Produce("summarize_message", [ckpt.s EXCEPT !.data.summary = summary,
                                                                     !.status = "summarized"])
      BY <2>4 DEF Summarize
    <3> QED BY <3>1
  <2>5. CASE Prepare \/ ManualReview \/ CommitState \/ MarkAsRead \/ CompleteMessage
    BY <2>5 DEF Prepare, ManualReview, CommitState, MarkAsRead, CompleteMessage
  <2> QED BY <2>1, <2>2, <2>3, <2>4, <2>5 DEF Work
<1> QED BY <1>1, <1>2

\* What is stored came in a request, and every request carries the same date.
LEMMA DatesStep ==
  ASSUME TypeOK, DatesAgree, [Next]_vars
  PROVE  DatesAgree'
<1>1. CASE Api
  BY <1>1 DEF Api, ApiHandles, CommitRequest, DatesAgree
<1>2. CASE store' = store /\ inflight' \subseteq inflight \cup {Request}
  BY <1>2 DEF DatesAgree, Request
<1>3. CASE StartWorker \/ Environment \/ Persist \/ UNCHANGED vars
  BY <1>2, <1>3 DEF StartWorker, Environment, Persist, StopWorker, Deploy, ProcessCommand,
    ReprocessCommand, RetryCommand, Command, NodeFails, Fail, LoseRequest, LoseReply,
    GiveUp, Escape, RunRaises, LeaveRun, Crash, Send, SendWithoutFile, SendAgain,
    ReceiveCommit, ReceiveConflict, vars
<1>4. CASE Run
  BY <1>2, <1>4 DEF Run, Accept, Defer, Continue, RestartFailed, Rewind, StartFresh, Begin,
    Finish, LeaveRun
<1>5. CASE UNCHANGED <<store, inflight>>
  BY <1>2, <1>5
<1>6. CASE Work
  BY <1>5, <1>6, WorkIsLocal
<1>7. CASE Checkpoint \/ RecordFailure \/ MissingEdge
  BY <1>5, <1>7 DEF Checkpoint, RecordFailure, MissingEdge, RunRaises, LeaveRun
<1>8. ASSUME NEW n \in Nodes, \/ Reuse(n) \/ FindBusy(n) \/ Claim(n) \/ StoreOutput(n)
                              \/ ConfirmNode(n) \/ RecordNode(n) \/ FinalCheckpoint(n)
      PROVE  DatesAgree'
  BY <1>5, <1>8 DEF Reuse, FindBusy, Claim, StoreOutput, ConfirmNode, RecordNode,
    FinalCheckpoint, RunRaises, LeaveRun
<1> QED BY <1>1, <1>3, <1>4, <1>5, <1>6, <1>7, <1>8 DEF Next, ProcessStep, Superstep

LEMMA AnswerWaits ==
  ASSUME TailEarned, [Next]_vars, reply' = "conflict", ~Api
  PROVE  reply = "conflict" /\ UNCHANGED <<store, ckpt>>
<1>1. reply # "none" => phase = "sent"
  BY DEF TailEarned
<1>2. CASE UNCHANGED <<reply, store, ckpt>>
  BY <1>2
<1>3. CASE reply' = "none" \/ (phase # "sent" /\ reply' = reply)
  BY <1>1, <1>3
<1>4. CASE Persist \/ LoseReply \/ GiveUp \/ UNCHANGED vars
  BY <1>2, <1>3, <1>4 DEF Persist, LoseReply, GiveUp, Fail, Send, SendWithoutFile, SendAgain,
    ReceiveCommit, ReceiveConflict, vars
<1>5. CASE StartWorker \/ StopWorker \/ Deploy \/ ProcessCommand \/ ReprocessCommand
           \/ \E permanent \in BOOLEAN : RetryCommand(permanent)
  BY <1>2, <1>5 DEF StartWorker, StopWorker, Deploy, ProcessCommand, ReprocessCommand,
    RetryCommand, Command
<1>6. CASE \/ \E n \in Nodes, permanent \in BOOLEAN : NodeFails(n, permanent)
           \/ \E request \in inflight : LoseRequest(request)
  BY <1>2, <1>6 DEF NodeFails, Fail, LoseRequest
<1>7. CASE Escape \/ \E kept \in BOOLEAN : Crash(kept)
  BY <1>3, <1>7 DEF Escape, RunRaises, LeaveRun, Crash
<1>8. CASE Run
  BY <1>1, <1>8 DEF Run, Accept, Defer, Continue, RestartFailed, Rewind, StartFresh, Begin,
    Finish, LeaveRun
<1>9. CASE Work
  BY <1>3, <1>9, WorkIsLocal
<1>10. CASE Superstep
  <2>1. CASE Checkpoint \/ RecordFailure \/ MissingEdge
    BY <1>3, <2>1 DEF Checkpoint, RecordFailure, MissingEdge, RunRaises, LeaveRun
  <2>2. ASSUME NEW n \in Nodes, \/ Reuse(n) \/ FindBusy(n) \/ Claim(n) \/ StoreOutput(n)
                                \/ ConfirmNode(n) \/ RecordNode(n) \/ FinalCheckpoint(n)
        PROVE  reply = "conflict" /\ UNCHANGED <<store, ckpt>>
    BY <1>3, <2>2 DEF Reuse, FindBusy, Claim, StoreOutput, ConfirmNode, RecordNode,
      FinalCheckpoint, RunRaises, LeaveRun, AtNode, AtFinal
  <2> QED BY <1>10, <2>1, <2>2 DEF Superstep
<1> QED BY <1>4, <1>5, <1>6, <1>7, <1>8, <1>9, <1>10 DEF Next, ProcessStep, Environment

\* The answer is for the present generation, and the API holds no later one.
LEMMA ConflictAnswered ==
  ASSUME ConflictInvariant, Api, reply' = "conflict", StableDate
  PROVE  DatedConflictIsOwn'
<1>1. PICK request \in inflight : ApiHandles(request)
  BY DEF Api
<1>2. /\ TypeOK /\ GenerationsInOrder /\ TailEarned /\ DatesAgree /\ DatedConflictIsOwn
  BY DEF ConflictInvariant, DeliveryInvariant, TypeInvariant, NothingUnearned
<1>3. /\ store \in Stores /\ request \in Requests /\ request.received = store.received
      /\ store.gen \in Nat /\ request.gen \in Nat /\ ckpt.s.gen \in Nat /\ record.gen \in Nat
  BY <1>1, <1>2, StateFields DEF TypeOK, DatesAgree, Requests
<1>4. ckpt' = ckpt
  BY <1>1 DEF ApiHandles
<1>5. ASSUME phase = "sent", request = Request
      PROVE  DatedConflictIsOwn'
  <2>1. Conflicts(store, request) /\ store' = store
    BY <1>1, <1>5 DEF ApiHandles, CommitRequest
  <2>2. request.gen = ckpt.s.gen /\ request.fingerprint = ckpt.s.data.apiRecord
    BY <1>5 DEF Request
  <2>3. store.gen <= record.gen /\ ckpt.s.gen = record.gen
    BY <1>2, <1>5 DEF GenerationsInOrder
  <2>4. store.stored /\ store.gen = request.gen /\ store.fingerprint # request.fingerprint
    BY <1>3, <2>1, <2>2, <2>3 DEF Conflicts
  <2> QED BY <1>4, <2>1, <2>2, <2>4 DEF DatedConflictIsOwn
<1>6. ASSUME ~(phase = "sent" /\ request = Request)
      PROVE  DatedConflictIsOwn'
  <2>1. reply = "conflict"
    BY <1>1, <1>6 DEF ApiHandles
  <2>2. /\ store.stored /\ store.gen = ckpt.s.gen
        /\ store.fingerprint # ckpt.s.data.apiRecord
    BY <1>2, <2>1 DEF DatedConflictIsOwn
  <2>3. request.gen <= record.gen /\ ckpt.s.gen = record.gen
    BY <1>2, <2>1 DEF GenerationsInOrder, TailEarned
  <2>4. store' = CommitRequest(store, request)
    BY <1>1 DEF ApiHandles
  <2>5. Conflicts(store, request) \/ Same(store, request)
    BY <1>3, <2>2, <2>3 DEF Conflicts, Same
  <2>6. store' = store
    BY <2>4, <2>5 DEF CommitRequest
  <2> QED BY <1>4, <2>2, <2>6 DEF DatedConflictIsOwn
<1> QED BY <1>5, <1>6

LEMMA ConflictStep == ConflictInvariant /\ [Next]_vars => ConflictInvariant'
<1> SUFFICES ASSUME ConflictInvariant, [Next]_vars PROVE ConflictInvariant'
  OBVIOUS
<1>1. /\ DeliveryInvariant /\ DatesAgree /\ DatedConflictIsOwn /\ TypeOK /\ TailEarned
  BY DEF ConflictInvariant, DeliveryInvariant, TypeInvariant, NothingUnearned
<1>2. DeliveryInvariant' /\ DatesAgree'
  BY <1>1, DeliveryStep, DatesStep
<1>3. DatedConflictIsOwn'
  <2>1. CASE ~(StableDate /\ reply' = "conflict")
    BY <2>1 DEF DatedConflictIsOwn
  <2>2. CASE Api /\ StableDate /\ reply' = "conflict"
    BY <2>2, ConflictAnswered
  <2>3. CASE ~Api /\ StableDate /\ reply' = "conflict"
    <3>1. reply = "conflict" /\ UNCHANGED <<store, ckpt>>
      BY <1>1, <2>3, AnswerWaits
    <3> QED BY <1>1, <2>3, <3>1 DEF DatedConflictIsOwn
  <2> QED BY <2>1, <2>2, <2>3
<1> QED BY <1>2, <1>3 DEF ConflictInvariant

\* For a message whose date can be read, 409 reaches a waiting client only for another
\* payload of the very generation the API holds: no new generation is ever refused.
THEOREM OnlyAnotherPayloadIsRefused == Spec => []DatedConflictIsOwn
<1>1. Init => ConflictInvariant
  BY DeliveryInit DEF Init, EmptyStore, DatesAgree, DatedConflictIsOwn, ConflictInvariant
<1>2. ConflictInvariant => DatedConflictIsOwn
  BY DEF ConflictInvariant
<1> QED BY <1>1, <1>2, ConflictStep, PTL DEF Spec

-----------------------------------------------------------------------------
(* Without a crash or an escaped exception the record knows of the result  *)
(* before a run gets past commit_processing_state.                         *)

Uninterrupted == spent.crashes = 0 /\ spent.escapes = 0

AfterCommit == {"mark_message_as_read", "complete"}
Delivered == {"result_committed", "completed"}

\* What has to be so as long as the record does not say that the result is committed.
RecordTells ==
  ~record.committed => record.failed \notin AfterCommit /\ record.status \notin Delivered

StateTells(s) ==
  /\ s.failed \notin AfterCommit
  /\ s.failed = "none" /\ s.status \in Delivered => ckpt.next = "commit_processing_state"

CommitTells ==
  /\ ckpt.half = "finalize" /\ ckpt.s.failed = "none" =>
       ckpt.s.pending.stage = "commit_processing_state" /\ phase # "finalized"
  /\ phase = "patched" /\ patched.failed = "none" =>
       patched.pending.stage = "commit_processing_state"

CheckpointTells ==
  ckpt.s.gen = record.gen /\ ~record.committed =>
    /\ ckpt.next \notin AfterCommit
    /\ StateTells(ckpt.s) /\ StateTells(patched)
    /\ ckpt.next = "commit_processing_state" => CommitTells

RowsTell ==
  \A k \in DOMAIN journal :
    /\ k.gen <= record.gen
    /\ k.stage = "commit_processing_state" /\ k.gen = record.gen
         /\ journal[k].status = "completed" /\ ~record.committed
       => phase = "confirmed" /\ ckpt.next = "commit_processing_state"

Tells == RecordTells /\ CheckpointTells /\ RowsTell

FlagInvariant == DeliveryInvariant /\ (Uninterrupted => Tells)

\* What a step may rely on.
Told == TypeInvariant /\ TypeOK' /\ GenerationsInOrder /\ TailEarned /\ Tells

-----------------------------------------------------------------------------
CompletedFrom(new, old) ==
  \A k \in DOMAIN new :
    /\ k \in DOMAIN old \/ k.gen = ckpt.s.gen
    /\ new[k].status = "completed" => k \in DOMAIN old /\ old[k].status = "completed"

LEMMA CompletedKept ==
  ASSUME NEW j, JournalOK(j), NEW n \in Nodes, NEW permanent, NEW output
  PROVE  /\ CompletedFrom(j, j)
         /\ CompletedFrom(RecoverAbandoned(j), j)
         /\ CompletedFrom(InvalidateAll(j), j)
         /\ CompletedFrom(ClaimRow(j, KeyOf(ckpt.s, n)), j)
         /\ CompletedFrom(FailRow(j, KeyOf(ckpt.s, n), permanent), j)
         /\ CompletedFrom(StoreResult(j, KeyOf(ckpt.s, n), output), j)
<1> USE DEF CompletedFrom, JournalOK, Rows
<1>1. CompletedFrom(j, j)
  OBVIOUS
<1>2. CompletedFrom(RecoverAbandoned(j), j)
  BY DEF RecoverAbandoned
<1>3. CompletedFrom(InvalidateAll(j), j)
  BY DEF InvalidateAll
<1>4. CompletedFrom(ClaimRow(j, KeyOf(ckpt.s, n)), j)
  BY DEF ClaimRow, WithRow, KeyOf
<1>5. CompletedFrom(FailRow(j, KeyOf(ckpt.s, n), permanent), j)
  BY DEF FailRow
<1>6. CompletedFrom(StoreResult(j, KeyOf(ckpt.s, n), output), j)
  BY DEF StoreResult
<1> QED BY <1>1, <1>2, <1>3, <1>4, <1>5, <1>6

LEMMA RowsStay ==
  ASSUME Told, CompletedFrom(journal', journal),
         record'.gen = record.gen, record.committed => record'.committed,
         phase = "confirmed" => phase' = phase /\ ckpt' = ckpt
  PROVE  RowsTell'
<1>1. /\ RowsTell /\ ckpt.s.gen <= record.gen
      /\ record.committed \in BOOLEAN /\ record'.committed \in BOOLEAN
  BY DEF Told, Tells, GenerationsInOrder, TypeInvariant, TypeOK, Records
<1> QED BY <1>1 DEF RowsTell, CompletedFrom

LEMMA RowsOfThePast ==
  ASSUME Told, CompletedFrom(journal', journal), record'.gen = record.gen + 1
  PROVE  RowsTell'
<1>1. RowsTell /\ ckpt.s.gen <= record.gen /\ ckpt.s.gen \in Nat /\ record.gen \in Nat
  BY StateFields DEF Told, Tells, GenerationsInOrder, TypeInvariant
<1>2. \A k \in DOMAIN journal : k.gen \in Nat /\ k.gen <= record.gen
  BY <1>1 DEF RowsTell, Told, TypeInvariant, TypeOK, Keys
<1>3. \A k \in DOMAIN journal' : k.gen \in Nat /\ k.gen <= record.gen
  BY <1>1, <1>2 DEF CompletedFrom
<1> QED BY <1>1, <1>3 DEF RowsTell

SameMarks(s, t) ==
  s.gen = t.gen /\ s.failed = t.failed /\ s.status = t.status /\ s.pending = t.pending

LEMMA CheckpointStays ==
  ASSUME Told, SameMarks(ckpt'.s, ckpt.s), ckpt'.next = ckpt.next, ckpt'.half = ckpt.half,
         SameMarks(patched', patched) \/ SameMarks(patched', ckpt.s),
         record'.gen = record.gen, record.committed => record'.committed,
         phase' = "finalized" => phase = "finalized",
         phase' = "patched" => phase = "patched" /\ SameMarks(patched', patched)
  PROVE  CheckpointTells'
<1>1. /\ CheckpointTells
      /\ record.committed \in BOOLEAN /\ record'.committed \in BOOLEAN
  BY DEF Told, Tells, TypeInvariant, TypeOK, Records
<1> QED BY <1>1 DEF CheckpointTells, StateTells, CommitTells, SameMarks

\* Nothing is claimed of a generation that has just begun.
LEMMA CheckpointOfThePast ==
  ASSUME Told, ckpt' = ckpt, record'.gen = record.gen + 1
  PROVE  CheckpointTells'
<1>1. ckpt.s.gen <= record.gen /\ ckpt.s.gen \in Nat /\ record.gen \in Nat
  BY StateFields DEF Told, GenerationsInOrder, TypeInvariant
<1> QED BY <1>1 DEF CheckpointTells

\* What the operators on the row do to what it tells.
LEMMA RecordMarks ==
  ASSUME NEW r \in Records(Nodes \cup {"worker"})
  PROVE  /\ NewGeneration(r).failed = "none" /\ NewGeneration(r).status = "discovered"
         /\ StartAttempt(r).failed = r.failed /\ StartAttempt(r).status = "processing"
         /\ StartAttempt(r).committed = r.committed
         /\ \A status : /\ SetStage(r, status).failed = r.failed
                        /\ SetStage(r, status).status = status
                        /\ SetStage(r, status).committed = r.committed
         /\ ResultCommitted(r).committed
         /\ Completed(r).committed = r.committed
         /\ MarkManualReview(r).committed = r.committed
         /\ MarkManualReview(r).failed = r.failed /\ MarkManualReview(r).status = r.status
         /\ RequeueFailed(r).committed = r.committed
         /\ RequeueFailed(r).failed = "none" /\ RequeueFailed(r).status = "discovered"
BY DEF NewGeneration, StartAttempt, SetStage, ResultCommitted, Completed, MarkManualReview,
       RequeueFailed, Records

LEMMA ErrorMarks ==
  ASSUME NEW r \in Records(Nodes \cup {"worker"}), NEW stage, NEW permanent \in BOOLEAN
  PROVE  /\ Error(r, stage, permanent).gen = r.gen
         /\ Error(r, stage, permanent).failed = stage
         /\ Error(r, stage, permanent).committed = r.committed
         /\ Error(r, stage, permanent).status \in {"retryable_error", "permanent_error"}
BY DEF Error, Records

LEMMA AttemptMarks ==
  ASSUME NEW r \in Records(Nodes \cup {"worker"})
  PROVE  /\ StartAttempt(r).gen = r.gen /\ StartAttempt(r).committed = r.committed
         /\ StartAttempt(r).failed = r.failed /\ StartAttempt(r).status = "processing"
BY DEF StartAttempt, Records

LEMMA ToldParts ==
  ASSUME Told
  PROVE  /\ TypeOK /\ TypeOK' /\ DownIsIdle /\ GenerationsInOrder /\ TailEarned
         /\ RecordTells /\ CheckpointTells /\ RowsTell
         /\ record \in Records(Nodes \cup {"worker"}) /\ record' \in Records(Nodes \cup {"worker"})
         /\ record.committed \in BOOLEAN /\ record'.committed \in BOOLEAN
         /\ JournalOK(journal)
BY StateFields DEF Told, Tells, TypeInvariant, TypeOK, Records

LEMMA FlagAtRest ==
  ASSUME Told, \/ StartWorker \/ StopWorker \/ Deploy \/ Api \/ LoseReply \/ Send \/ SendAgain
               \/ Defer \/ (\E request \in inflight : LoseRequest(request)) \/ UNCHANGED vars
  PROVE  Tells'
<1>1. /\ UNCHANGED <<record, ckpt, patched>>
      /\ journal' \in {journal, RecoverAbandoned(journal)}
      /\ phase' \in {phase, "sent", "idle"}
      /\ phase = "confirmed" => phase' = phase
  BY DEF StartWorker, StopWorker, Deploy, Api, ApiHandles, LoseReply, Send, SendAgain, Defer,
    LoseRequest, vars
<1>2. CompletedFrom(journal', journal)
  <2>1. "complete" \in Nodes
    BY DEF Nodes, LogicalNodes
  <2> QED BY <1>1, <2>1, ToldParts, CompletedKept
<1>3. RowsTell'
  BY <1>1, <1>2, RowsStay
<1>4. CheckpointTells'
  BY <1>1, CheckpointStays DEF SameMarks
<1> QED BY <1>1, <1>3, <1>4, ToldParts DEF Tells, RecordTells

LEMMA FlagAtCommand ==
  ASSUME Told, \/ ProcessCommand \/ ReprocessCommand
               \/ \E permanent \in BOOLEAN : RetryCommand(permanent)
  PROVE  Tells'
<1>1. /\ UNCHANGED <<ckpt, patched>> /\ phase' \in {"asked", "forced"} /\ phase = "idle"
      /\ journal' \in {RecoverAbandoned(journal), InvalidateAll(journal)}
      /\ record' \in {record, NewGeneration(record), RequeueFailed(record)}
  BY ToldParts DEF ProcessCommand, ReprocessCommand, RetryCommand, Command, DownIsIdle
<1>2. CompletedFrom(journal', journal)
  <2>1. "complete" \in Nodes
    BY DEF Nodes, LogicalNodes
  <2> QED BY <1>1, <2>1, ToldParts, CompletedKept
<1>3. RecordTells'
  BY <1>1, ToldParts, RecordMarks DEF RecordTells, AfterCommit, Delivered
<1>4. CASE record' = NewGeneration(record)
  <2>1. record'.gen = record.gen + 1
    BY <1>4, ToldParts, RecordGenerations
  <2> QED BY <1>1, <1>2, <1>3, <2>1, RowsOfThePast, CheckpointOfThePast DEF Tells
<1>5. CASE record' # NewGeneration(record)
  <2>1. record'.gen = record.gen /\ record'.committed = record.committed
    <3>1. record \in Records(Nodes \cup {"worker"})
      BY ToldParts
    <3>2. RequeueFailed(record).gen = record.gen /\ RequeueFailed(record).committed = record.committed
      BY <3>1, RecordGenerations, RecordMarks
    <3> QED BY <1>1, <1>5, <3>2
  <2>2. RowsTell'
    BY <1>1, <1>2, <2>1, RowsStay
  <2>3. CheckpointTells'
    BY <1>1, <2>1, CheckpointStays DEF SameMarks
  <2> QED BY <1>3, <2>2, <2>3 DEF Tells
<1> QED BY <1>4, <1>5

LEMMA FlagAtAccept ==
  ASSUME Told, Accept
  PROVE  Tells'
<1>1. /\ UNCHANGED <<ckpt, patched, journal>> /\ phase' = "accepted" /\ record' = Ensure(record, code)
      /\ phase \in {"idle", "asked", "forced"}
  BY DEF Accept, Ensured
<1>2. CompletedFrom(journal', journal)
  <2>1. "complete" \in Nodes
    BY DEF Nodes, LogicalNodes
  <2> QED BY <1>1, <2>1, ToldParts, CompletedKept
<1>3. record.exists \in BOOLEAN /\ (~record.exists => record = NoRecord)
  BY ToldParts DEF Records, GenerationsInOrder
<1>4. CASE record.exists /\ record.ver = code
  <2>1. record' = record
    BY <1>1, <1>4 DEF Ensure
  <2> QED BY <1>1, <1>2, <2>1, ToldParts, RowsStay, CheckpointStays DEF Tells, RecordTells, SameMarks
<1>5. CASE record.exists /\ record.ver # code
  <2>1. record' = [NewGeneration(record) EXCEPT !.ver = code]
    BY <1>1, <1>5 DEF Ensure
  <2>2. record'.gen = record.gen + 1 /\ record'.failed = "none" /\ record'.status = "discovered"
    BY <2>1, ToldParts DEF NewGeneration, Records
  <2>3. RecordTells'
    BY <2>2 DEF RecordTells, AfterCommit, Delivered
  <2> QED BY <1>1, <1>2, <2>2, <2>3, RowsOfThePast, CheckpointOfThePast DEF Tells
<1>6. CASE ~record.exists
  <2>1. record' = [NoRecord EXCEPT !.exists = TRUE, !.ver = code] /\ record = NoRecord
    BY <1>1, <1>3, <1>6 DEF Ensure
  <2>2. /\ record'.gen = record.gen /\ record'.committed = record.committed
        /\ record'.failed = record.failed /\ record'.status = record.status
    BY <2>1 DEF NoRecord
  <2> QED BY <1>1, <1>2, <2>2, ToldParts, RowsStay, CheckpointStays DEF Tells, RecordTells, SameMarks
<1> QED BY <1>3, <1>4, <1>5, <1>6

LEMMA FlagAtRestart ==
  ASSUME Told, RestartFailed
  PROVE  Tells'
<1>1. UNCHANGED <<ckpt, patched, journal>> /\ phase' = "rewinding" /\ record' = StartAttempt(record)
      /\ phase = "accepted"
  BY DEF RestartFailed
<1>2. CompletedFrom(journal', journal)
  <2>1. "complete" \in Nodes
    BY DEF Nodes, LogicalNodes
  <2> QED BY <1>1, <2>1, ToldParts, CompletedKept
<1>3. /\ record'.gen = record.gen /\ record'.committed = record.committed
      /\ record'.failed = record.failed /\ record'.status = "processing"
  BY <1>1, ToldParts, AttemptMarks
<1>4. RecordTells'
  BY <1>3, ToldParts DEF RecordTells, Delivered
<1> QED BY <1>1, <1>2, <1>3, <1>4, RowsStay, CheckpointStays DEF Tells, SameMarks

LEMMA FlagAtBegin ==
  ASSUME Told, Continue \/ Rewind \/ StartFresh
  PROVE  Tells'
<1>1. UNCHANGED <<record, journal>> /\ phase' = "ready" /\ phase \in {"accepted", "rewinding"}
  BY DEF Continue, Rewind, StartFresh, Begin
<1>2. CompletedFrom(journal', journal)
  <2>1. "complete" \in Nodes
    BY DEF Nodes, LogicalNodes
  <2> QED BY <1>1, <2>1, ToldParts, CompletedKept
<1>3. RowsTell' /\ RecordTells'
  BY <1>1, <1>2, ToldParts, RowsStay DEF RecordTells
<1>4. CASE Continue
  <2>1. ckpt'.s = ckpt.s /\ ckpt'.next = ckpt.next /\ ckpt'.half = ckpt.half /\ patched' = ckpt.s
    BY <1>4 DEF Continue, Begin
  <2> QED BY <1>1, <1>3, <2>1, CheckpointStays DEF Tells, SameMarks
<1>5. CASE Rewind
  <2>1. ckpt.s \in States
    BY ToldParts, StateFields
  <2>2. /\ ckpt'.s.failed = "none" /\ ckpt'.s.status = "processing" /\ ckpt'.s.gen = ckpt.s.gen
        /\ ckpt'.half = "action" /\ ckpt'.next \in {"fetch_message", FailedStage} /\ patched' = ckpt'.s
    <3> DEFINE cleared == [ckpt.s EXCEPT !.failed = "none", !.status = "processing",
                                         !.pending = NoKey]
               again == [cleared EXCEPT !.raw = "none", !.dirOurs = TRUE]
    <3>1. /\ cleared.failed = "none" /\ cleared.status = "processing" /\ cleared.gen = ckpt.s.gen
          /\ again.failed = "none" /\ again.status = "processing" /\ again.gen = ckpt.s.gen
      BY <2>1 DEF States
    <3>2. Begin(again, "fetch_message", "action") \/ Begin(cleared, FailedStage, "action")
      BY <1>5 DEF Rewind
    <3> HIDE DEF cleared, again
    <3> QED BY <3>1, <3>2 DEF Begin
  <2>3. ckpt.s.gen = record.gen /\ ~record.committed => FailedStage \notin AfterCommit
    BY ToldParts DEF FailedStage, RecordTells, CheckpointTells, StateTells
  <2>4. CheckpointTells'
    BY <1>1, <2>2, <2>3 DEF CheckpointTells, StateTells, CommitTells, AfterCommit, Delivered
  <2> QED BY <1>3, <2>4 DEF Tells
<1>6. CASE StartFresh
  <2>1. /\ ckpt'.s.failed = "none" /\ ckpt'.s.status = "discovered" /\ patched' = ckpt'.s
        /\ ckpt'.half = "action" /\ ckpt'.next = "check_idempotency"
    BY <1>6 DEF StartFresh, Begin, InitialState
  <2>2. CheckpointTells'
    BY <1>1, <2>1 DEF CheckpointTells, StateTells, AfterCommit, Delivered
  <2> QED BY <1>3, <2>2 DEF Tells
<1> QED BY <1>4, <1>5, <1>6

LEMMA FlagAtEnd ==
  ASSUME Told, Finish \/ MissingEdge
  PROVE  Tells'
<1>1. LeaveRun(FALSE) /\ phase = "ready"
  BY DEF Finish, MissingEdge, RunRaises
<1>2. /\ record' \in {record, Error(record, "worker", FALSE)}
  BY DEF Finish, MissingEdge, RunRaises
<1>3. /\ SameMarks(ckpt'.s, ckpt.s) /\ ckpt'.next = ckpt.next /\ ckpt'.half = ckpt.half
      /\ patched' = ckpt'.s /\ phase' = "idle" /\ journal' = journal
  <2>1. ckpt.s \in States /\ ckpt' = [ckpt EXCEPT !.s = Relocate(ckpt.s, FALSE)]
    BY <1>1, ToldParts, StateFields DEF LeaveRun
  <2>2. ckpt'.s = Relocate(ckpt.s, FALSE)
    BY <1>1, <2>1, ToldParts DEF TypeOK
  <2>3. SameMarks(ckpt'.s, ckpt.s)
    <3>1. Relocate(ckpt.s, FALSE).pending = ckpt.s.pending
      BY <2>1 DEF Relocate, States
    <3>2. SameMarks(Relocate(ckpt.s, FALSE), ckpt.s)
      BY <2>1, <3>1, RelocateKeeps DEF SameMarks
    <3> QED BY <2>2, <3>2
  <2> QED BY <1>1, <2>3, ToldParts, LeaveRunKeeps
<1>4. CompletedFrom(journal', journal)
  <2>1. "complete" \in Nodes
    BY DEF Nodes, LogicalNodes
  <2> QED BY <1>3, <2>1, ToldParts, CompletedKept
<1>5. /\ record'.gen = record.gen /\ record'.committed = record.committed
      /\ \/ record' = record
         \/ record'.failed = "worker" /\ record'.status \in {"retryable_error", "permanent_error"}
  <2>1. record \in Records(Nodes \cup {"worker"})
    BY ToldParts
  <2> DEFINE error == Error(record, "worker", FALSE)
  <2>2. /\ error.gen = record.gen /\ error.committed = record.committed /\ error.failed = "worker"
        /\ error.status \in {"retryable_error", "permanent_error"}
    BY <2>1, ErrorMarks
  <2> HIDE DEF error
  <2> QED BY <1>2, <2>2 DEF error
<1>6. RecordTells'
  BY <1>5, ToldParts DEF RecordTells, AfterCommit, Delivered
<1>7. RowsTell'
  BY <1>1, <1>4, <1>5, RowsStay
<1>8. CheckpointTells'
  BY <1>3, <1>5, CheckpointStays
<1> QED BY <1>6, <1>7, <1>8 DEF Tells

\* A node that works on the tail finds it committed, if nothing interrupted the run.
LEMMA CommittedInTail ==
  ASSUME Told, phase \notin {"idle", "asked", "forced", "accepted"}
  PROVE  /\ ckpt.s.gen = record.gen /\ patched.gen = record.gen
         /\ ckpt.next \in AfterCommit => record.committed
BY ToldParts DEF GenerationsInOrder, CheckpointTells

LEMMA FlagAtClaim ==
  ASSUME Told, NEW n \in Nodes, Claim(n)
  PROVE  Tells'
<1>1. /\ UNCHANGED <<record, ckpt, patched>> /\ phase = "ready" /\ phase' = "claimed"
      /\ CompletedFrom(journal', journal)
  BY ToldParts, CompletedKept DEF Claim
<1>2. RowsTell' /\ CheckpointTells'
  BY <1>1, RowsStay, CheckpointStays DEF SameMarks
<1> QED BY <1>1, <1>2, ToldParts DEF Tells, RecordTells

\* A stored output is confirmed with its row, or was committed before.
LEMMA FlagAtReuse ==
  ASSUME Told, NEW n \in Nodes, Reuse(n)
  PROVE  Tells'
<1>1. /\ UNCHANGED <<record, journal, ckpt>> /\ phase = "ready" /\ phase' = "patched"
      /\ ckpt.next = n /\ Reusable(journal, KeyOf(ckpt.s, n))
      /\ patched' = [ckpt.s EXCEPT !.data = journal[KeyOf(ckpt.s, n)].output, !.pending = NoKey]
  BY DEF Reuse, AtNode
<1>2. RowsTell' /\ RecordTells'
  <2>1. CompletedFrom(journal', journal)
    BY <1>1, ToldParts, CompletedKept
  <2> QED BY <1>1, <2>1, ToldParts, RowsStay DEF RecordTells
<1>3. patched'.failed = ckpt.s.failed /\ patched'.status = ckpt.s.status
  BY <1>1, ToldParts, StateFields DEF States
<1>4. ASSUME n = "commit_processing_state" PROVE record.committed
  <2>1. KeyOf(ckpt.s, n).stage = n /\ KeyOf(ckpt.s, n).gen = record.gen
    BY <1>1, CommittedInTail DEF KeyOf
  <2>2. KeyOf(ckpt.s, n) \in DOMAIN journal /\ journal[KeyOf(ckpt.s, n)].status = "completed"
    BY <1>1 DEF Reusable, HasStatus
  <2> QED BY <1>1, <1>4, <2>1, <2>2, ToldParts DEF RowsTell
<1>5. CheckpointTells'
  BY <1>1, <1>3, <1>4, ToldParts DEF CheckpointTells, StateTells
<1> QED BY <1>2, <1>5 DEF Tells

\* A node that failed is none of those behind the commit.
LEMMA FlagAtFailure ==
  ASSUME Told, NEW n \in Nodes, NEW permanent \in BOOLEAN, ckpt.next = n,
         phase \in {"ready", "claimed", "sent", "executed"}, phase' = "patched",
         patched' = FailedState(n, permanent), UNCHANGED <<record, ckpt>>,
         journal' \in {journal, FailRow(journal, KeyOf(ckpt.s, n), permanent)}
  PROVE  Tells'
<1>1. patched'.failed = n /\ n # "none"
  BY ToldParts, StateFields DEF FailedState, States, Nodes, LogicalNodes
<1>2. CompletedFrom(journal', journal)
  BY ToldParts, CompletedKept
<1>3. RowsTell' /\ RecordTells'
  BY <1>2, ToldParts, RowsStay DEF RecordTells
<1>4. CheckpointTells'
  BY <1>1, ToldParts DEF CheckpointTells, StateTells, CommitTells
<1> QED BY <1>3, <1>4 DEF Tells

LEMMA FlagAtFailures ==
  ASSUME Told, \/ SendWithoutFile \/ ReceiveConflict \/ GiveUp \/ (\E n \in Nodes : FindBusy(n))
               \/ \E n \in Nodes, permanent \in BOOLEAN : NodeFails(n, permanent)
  PROVE  Tells'
<1>1. "persist_result_via_api" \in Nodes
  BY DEF Nodes, LogicalNodes
<1>2. ASSUME NEW n \in Nodes, NEW permanent \in BOOLEAN, Fail(n, permanent), ckpt.next = n,
             phase \in {"ready", "claimed", "sent", "executed"}
      PROVE  Tells'
  BY <1>2, FlagAtFailure DEF Fail
<1>3. CASE SendWithoutFile
  <2>1. (ckpt.s.raw = "gone") \in BOOLEAN
    OBVIOUS
  <2> QED BY <1>1, <1>2, <1>3, <2>1 DEF SendWithoutFile, AtNode
<1>4. CASE ReceiveConflict \/ GiveUp
  <2>1. ckpt.next = "persist_result_via_api" /\ phase = "sent"
    BY <1>4, ToldParts DEF ReceiveConflict, GiveUp, TailEarned
  <2> QED BY <1>1, <1>2, <1>4, <2>1 DEF ReceiveConflict, GiveUp
<1>5. ASSUME NEW n \in Nodes, FindBusy(n) PROVE Tells'
  BY <1>5, FlagAtFailure DEF FindBusy, AtNode
<1>6. ASSUME NEW n \in Nodes, NEW permanent \in BOOLEAN, NodeFails(n, permanent) PROVE Tells'
  BY <1>2, <1>6 DEF NodeFails, AtNode
<1> QED BY <1>3, <1>4, <1>5, <1>6

LEMMA FlagAtStore ==
  ASSUME Told, NEW n \in Nodes, StoreOutput(n)
  PROVE  Tells'
<1>1. /\ UNCHANGED <<record, ckpt>> /\ phase = "executed" /\ phase' = "patched" /\ ckpt.next = n
      /\ patched' = [patched EXCEPT !.pending = KeyOf(ckpt.s, n)]
      /\ CompletedFrom(journal', journal)
  BY ToldParts, CompletedKept DEF StoreOutput, AtNode
<1>2. RowsTell' /\ RecordTells'
  BY <1>1, ToldParts, RowsStay DEF RecordTells
<1>3. /\ patched'.failed = patched.failed /\ patched'.status = patched.status
      /\ patched'.pending.stage = ckpt.next
  BY <1>1, ToldParts DEF TypeOK, States, KeyOf
<1>4. CheckpointTells'
  BY <1>1, <1>3, ToldParts DEF CheckpointTells, StateTells, CommitTells
<1> QED BY <1>2, <1>4 DEF Tells

LEMMA FlagAtCheckpoint ==
  ASSUME Told, Checkpoint
  PROVE  Tells'
<1>1. /\ UNCHANGED <<record, journal, patched>> /\ phase = "patched" /\ phase' = "ready"
      /\ ckpt'.s = patched
      /\ \/ ckpt'.next = "end" /\ ckpt'.half = "action" /\ ckpt.next = "failure"
         \/ ckpt'.next = ckpt.next
  BY DEF Checkpoint
<1>2. RowsTell' /\ RecordTells'
  <2>1. "complete" \in Nodes
    BY DEF Nodes, LogicalNodes
  <2>2. CompletedFrom(journal', journal)
    BY <1>1, <2>1, ToldParts, CompletedKept
  <2> QED BY <1>1, <2>2, ToldParts, RowsStay DEF RecordTells
<1>3. CheckpointTells'
  BY <1>1, CommittedInTail, ToldParts DEF CheckpointTells, StateTells, CommitTells, AfterCommit
<1> QED BY <1>2, <1>3 DEF Tells

LEMMA FlagAtRecordFailure ==
  ASSUME Told, RecordFailure
  PROVE  Tells'
<1>1. /\ UNCHANGED <<journal, ckpt>> /\ phase = "ready" /\ phase' = "patched" /\ ckpt.next = "failure"
      /\ record' = Error(record, ckpt.s.failed, ckpt.s.status = "permanent_error")
      /\ patched' = [ckpt.s EXCEPT !.status = record'.status]
  BY DEF RecordFailure, AtNode
<1>2. /\ record'.gen = record.gen /\ record'.committed = record.committed
      /\ record'.failed = ckpt.s.failed
      /\ record'.status \in {"retryable_error", "permanent_error"}
  <2>1. record \in Records(Nodes \cup {"worker"}) /\ (ckpt.s.status = "permanent_error") \in BOOLEAN
    BY ToldParts
  <2> DEFINE error == Error(record, ckpt.s.failed, ckpt.s.status = "permanent_error")
  <2>2. /\ error.gen = record.gen /\ error.committed = record.committed
        /\ error.failed = ckpt.s.failed
        /\ error.status \in {"retryable_error", "permanent_error"}
    BY <2>1, ErrorMarks
  <2> HIDE DEF error
  <2>3. record' = error
    BY <1>1 DEF error
  <2> QED BY <2>2, <2>3
<1>3. patched'.failed = ckpt.s.failed /\ patched'.status = record'.status
  BY <1>1, ToldParts, StateFields DEF States
<1>4. RowsTell'
  <2>1. "complete" \in Nodes
    BY DEF Nodes, LogicalNodes
  <2>2. CompletedFrom(journal', journal)
    BY <1>1, <2>1, ToldParts, CompletedKept
  <2> QED BY <1>1, <1>2, <2>2, RowsStay
<1>5. CheckpointTells'
  BY <1>1, <1>2, <1>3, ToldParts DEF CheckpointTells, StateTells, Delivered
<1>6. RecordTells'
  BY <1>1, <1>2, CommittedInTail, ToldParts DEF RecordTells, CheckpointTells, StateTells, Delivered
<1> QED BY <1>4, <1>5, <1>6 DEF Tells

LEMMA FlagAtConfirm ==
  ASSUME Told, NEW n \in Nodes, ConfirmNode(n)
  PROVE  Tells'
<1>1. /\ UNCHANGED <<record, ckpt, patched>> /\ phase = "ready" /\ ckpt.next = n
      /\ ckpt.s.pending.stage = n /\ journal' = CompleteRow(journal, ckpt.s.pending)
      /\ phase' = IF n \in RecordingNodes THEN "confirmed" ELSE "finalized"
  BY DEF ConfirmNode, AtFinal
<1>2. \A k \in DOMAIN journal' :
        /\ k \in DOMAIN journal
        /\ journal'[k].status = "completed" => journal[k].status = "completed" \/ k = ckpt.s.pending
  BY <1>1, ToldParts DEF CompleteRow, JournalOK, Rows
<1>3. RowsTell'
  BY <1>1, <1>2, ToldParts DEF RowsTell, RecordingNodes
<1>4. CheckpointTells'
  BY <1>1, ToldParts DEF CheckpointTells, StateTells, CommitTells, RecordingNodes
<1> QED BY <1>1, <1>3, <1>4, ToldParts DEF Tells, RecordTells

LEMMA FlagAtRecord ==
  ASSUME Told, NEW n \in Nodes, RecordNode(n)
  PROVE  Tells'
<1>1. /\ UNCHANGED <<journal, ckpt, patched>> /\ phase = "confirmed" /\ phase' = "finalized"
      /\ ckpt.next = n /\ n \in RecordingNodes
      /\ record' = CASE n = "process_attachments"     -> SetStage(record, "attachments_processed")
                     [] n = "summarize_message"       -> SetStage(record, "summarized")
                     [] n = "commit_processing_state" -> ResultCommitted(record)
                     [] n = "complete"                -> Completed(record)
  BY DEF RecordNode, AtFinal
<1>2. record \in Records(Nodes \cup {"worker"})
  BY ToldParts
<1>3. CASE n \in {"commit_processing_state", "complete"}
  <2>1. record'.committed /\ record'.gen = record.gen
    <3>1. CASE n = "commit_processing_state"
      <4>1. record' = ResultCommitted(record)
        BY <1>1, <3>1
      <4> QED BY <1>2, <4>1, RecordMarks, RecordGenerations
    <3>2. CASE n = "complete"
      <4>1. record' = Completed(record) /\ record.committed
        BY <1>1, <3>2, CommittedInTail DEF AfterCommit
      <4> QED BY <1>2, <4>1, RecordMarks, RecordGenerations
    <3> QED BY <1>3, <3>1, <3>2
  <2> QED BY <1>1, <2>1, ToldParts DEF Tells, RecordTells, CheckpointTells, RowsTell
<1>4. CASE n \in {"process_attachments", "summarize_message"}
  <2>1. /\ record'.gen = record.gen /\ record'.committed = record.committed
        /\ record'.failed = record.failed /\ record'.status \notin Delivered
    <3>1. record' \in {SetStage(record, "attachments_processed"), SetStage(record, "summarized")}
      BY <1>1, <1>4
    <3> QED BY <1>2, <3>1 DEF SetStage, Records, Delivered
  <2>2. RowsTell'
    BY <1>1, <1>4, <2>1, ToldParts DEF RowsTell
  <2>3. CheckpointTells'
    BY <1>1, <1>4, <2>1, ToldParts DEF CheckpointTells, StateTells
  <2>4. RecordTells'
    BY <2>1, ToldParts DEF RecordTells
  <2> QED BY <2>2, <2>3, <2>4 DEF Tells
<1> QED BY <1>1, <1>3, <1>4 DEF RecordingNodes

\* The edges out of a node lead behind the commit from the commit itself, or when
\* the record said that the result is committed.
LEMMA FlagAtRoute ==
  ASSUME Told, NEW n \in Nodes, FinalCheckpoint(n)
  PROVE  Tells'
<1>1. /\ UNCHANGED <<record, journal>> /\ phase' = "ready" /\ ckpt.next = n /\ ckpt.half = "finalize"
      /\ phase = "finalized" \/ (phase = "ready" /\ ckpt.s.pending.stage # n)
      /\ ckpt' = [s |-> [ckpt.s EXCEPT !.pending = NoKey],
                  next |-> Route(n, [ckpt.s EXCEPT !.pending = NoKey]), half |-> "action"]
      /\ patched' = [ckpt.s EXCEPT !.pending = NoKey]
  BY DEF FinalCheckpoint, AtFinal
<1>2. RowsTell' /\ RecordTells'
  <2>1. CompletedFrom(journal', journal)
    BY <1>1, ToldParts, CompletedKept
  <2> QED BY <1>1, <2>1, ToldParts, RowsStay DEF RecordTells
<1> DEFINE s == [ckpt.s EXCEPT !.pending = NoKey]
<1>3. s.failed = ckpt.s.failed /\ s.status = ckpt.s.status /\ s.gen = ckpt.s.gen
  BY ToldParts, StateFields DEF States
<1>4. ckpt'.s = s /\ ckpt'.next = Route(n, s) /\ ckpt'.half = "action" /\ patched' = s
  BY <1>1
<1> HIDE DEF s
<1>5. CASE record.committed
  BY <1>1, <1>2, <1>5, ToldParts DEF Tells, CheckpointTells
<1>6. CASE ~record.committed
  <2>1. /\ n \notin AfterCommit /\ s.failed \notin AfterCommit
        /\ s.failed = "none" => n # "commit_processing_state" /\ s.status \notin Delivered
    BY <1>1, <1>3, <1>6, CommittedInTail, ToldParts DEF CheckpointTells, StateTells, CommitTells
  <2>2. Route(n, s) \notin AfterCommit
    BY <2>1 DEF Route, RouteError, Following, Nodes, LogicalNodes, AfterCommit, Delivered
  <2>3. CheckpointTells'
    BY <1>1, <1>4, <2>1, <2>2 DEF CheckpointTells, StateTells, CommitTells
  <2> QED BY <1>2, <2>3 DEF Tells
<1> QED BY <1>5, <1>6, ToldParts

\* A node at work gives the state no mark of a delivered message, except the commit
\* itself and a check that found one on the record.
LEMMA MarksOfWork ==
  ASSUME Told, Work \/ ReceiveCommit
  PROVE  /\ UNCHANGED <<ckpt, journal>> /\ phase \in {"claimed", "sent"} /\ phase' = "executed"
         /\ patched'.failed \in {ckpt.s.failed, "none"}
         /\ \/ patched'.failed = ckpt.s.failed /\ patched'.status = ckpt.s.status
            \/ patched'.status \notin Delivered
            \/ ckpt.next = "commit_processing_state"
            \/ patched'.status = record.status
            \/ ckpt.next \in AfterCommit
         /\ \/ record' \in {record, MarkManualReview(record)}
            \/ record' = StartAttempt(record)
<1>1. ckpt.s \in States
  BY ToldParts, StateFields
<1>2. CASE CheckIdempotency
  <2> DEFINE known == record.status \in {"completed", "result_committed"}
             status == IF known THEN record.status ELSE "processing"
  <2>1. patched' = [ckpt.s EXCEPT !.status = status]
    BY <1>2 DEF CheckIdempotency, Produce
  <2>2. patched'.failed = ckpt.s.failed /\ patched'.status = status
    <3> HIDE DEF status
    <3> QED BY <1>1, <2>1 DEF States
  <2>3. status = record.status \/ status \notin Delivered
    BY DEF Delivered
  <2>4. record' \in {record, StartAttempt(record)}
    BY <1>2 DEF CheckIdempotency
  <2> HIDE DEF status, known
  <2> QED BY <1>2, <2>2, <2>3, <2>4 DEF CheckIdempotency, Produce
<1>3. ASSUME NEW n, NEW data, ProduceData(n, data)
      PROVE  /\ UNCHANGED <<ckpt, journal, record>> /\ phase = "claimed" /\ phase' = "executed"
             /\ patched'.failed = ckpt.s.failed /\ patched'.status = ckpt.s.status
  BY <1>1, <1>3 DEF ProduceData, Produce, States
<1>4. CASE Normalize \/ Collect \/ Plan \/ Validate
  BY <1>3, <1>4 DEF Normalize, Collect, Plan, Validate
<1>5. CASE FetchMessage
  BY <1>1, <1>5 DEF FetchMessage, Produce, States
<1>6. CASE Process
  BY <1>1, <1>6 DEF Process, Produce, States, Delivered
<1>7. CASE Summarize
  BY <1>1, <1>7 DEF Summarize, Produce, States, Delivered
<1>8. CASE Prepare
  BY <1>1, <1>8 DEF Prepare, Produce, States
<1>9. CASE ManualReview
  BY <1>1, <1>9 DEF ManualReview, Produce, States, Delivered
<1>10. CASE CommitState
  BY <1>1, <1>10 DEF CommitState, Produce, AtNode, States
<1>11. CASE MarkAsRead
  BY <1>1, <1>11 DEF MarkAsRead, Produce, States
<1>12. CASE CompleteMessage
  BY <1>1, <1>12 DEF CompleteMessage, Produce, AtNode, States, AfterCommit
<1>13. CASE ReceiveCommit
  BY <1>1, <1>13 DEF ReceiveCommit, States
<1> QED BY <1>2, <1>4, <1>5, <1>6, <1>7, <1>8, <1>9, <1>10, <1>11, <1>12, <1>13 DEF Work

LEMMA FlagAtWork ==
  ASSUME Told, Work \/ ReceiveCommit
  PROVE  Tells'
<1>1. record \in Records(Nodes \cup {"worker"})
  BY ToldParts
<1>2. /\ record'.gen = record.gen /\ record'.committed = record.committed
      /\ record'.failed = record.failed /\ record'.status \in {record.status, "processing"}
  <2>1. MarkManualReview(record).gen = record.gen
    BY <1>1, RecordGenerations
  <2>2. /\ MarkManualReview(record).committed = record.committed
        /\ MarkManualReview(record).failed = record.failed
        /\ MarkManualReview(record).status = record.status
    BY <1>1, RecordMarks
  <2>3. CASE record' = record
    BY <2>3
  <2>4. CASE record' = MarkManualReview(record)
    BY <2>1, <2>2, <2>4
  <2>5. CASE record' = StartAttempt(record)
    BY <1>1, <2>5, AttemptMarks
  <2> QED BY <2>3, <2>4, <2>5, MarksOfWork
<1>3. RecordTells'
  BY <1>2, ToldParts DEF RecordTells, Delivered
<1>4. RowsTell'
  <2>1. "complete" \in Nodes
    BY DEF Nodes, LogicalNodes
  <2>2. CompletedFrom(journal', journal) /\ phase # "confirmed"
    BY <2>1, ToldParts, MarksOfWork, CompletedKept
  <2> QED BY <1>2, <2>2, RowsStay
<1>5. CheckpointTells'
  BY <1>2, MarksOfWork, ToldParts
     DEF CheckpointTells, StateTells, CommitTells, RecordTells, AfterCommit
<1> QED BY <1>3, <1>4, <1>5 DEF Tells

-----------------------------------------------------------------------------
\* Only a crash or an escape counts as one.
LEMMA Uninterruptible ==
  ASSUME TypeOK, [Next]_vars, Uninterrupted'
  PROVE  Uninterrupted /\ ~Escape /\ ~(\E kept \in BOOLEAN : Crash(kept))
<1> DEFINE Calm == spent'.crashes = spent.crashes /\ spent'.escapes = spent.escapes
<1>1. /\ spent.crashes \in Nat /\ spent.escapes \in Nat
      /\ spent \in [{"faults", "crashes", "escapes", "commands", "requeues", "prepared"} -> Nat]
  BY DEF TypeOK
<1>2. ASSUME NEW event \in {"faults", "commands", "prepared"}, Count(event)
      PROVE  Calm
  BY <1>1, <1>2 DEF Count
<1>3. ASSUME UNCHANGED spent
      PROVE  Calm
  BY <1>3
<1>4. ASSUME NEW permanent \in BOOLEAN, RetryCommand(permanent)
      PROVE  Calm
  BY <1>1, <1>4 DEF RetryCommand
<1>5. ~Escape /\ ~(\E kept \in BOOLEAN : Crash(kept))
  <2>1. ASSUME Count("escapes") PROVE FALSE
    <3>1. spent'.escapes = spent.escapes + 1
      BY <1>1, <2>1 DEF Count
    <3> QED BY <1>1, <3>1 DEF Uninterrupted
  <2>2. ASSUME Count("crashes") PROVE FALSE
    <3>1. spent'.crashes = spent.crashes + 1
      BY <1>1, <2>2 DEF Count
    <3> QED BY <1>1, <3>1 DEF Uninterrupted
  <2> QED BY <2>1, <2>2 DEF Escape, Crash, Spend
<1> HIDE DEF Calm
<1>6. Calm
  <2>1. CASE Environment
    BY <1>2, <1>3, <1>4, <1>5, <2>1 DEF Environment, StopWorker, Deploy, ProcessCommand,
       ReprocessCommand, NodeFails, LoseRequest, LoseReply, GiveUp, Spend
  <2>2. CASE Work
    BY <1>2, <1>3, <2>2 DEF Work, CheckIdempotency, FetchMessage, Normalize, Collect, Plan, Process,
       Validate, Summarize, Prepare, ManualReview, CommitState, MarkAsRead, CompleteMessage, ProduceData
  <2>3. CASE StartWorker \/ Api \/ Persist \/ UNCHANGED vars
    BY <1>3, <2>3 DEF StartWorker, Api, ApiHandles, Persist, Send, SendWithoutFile, SendAgain,
       ReceiveCommit, ReceiveConflict, vars
  <2>4. CASE Run
    BY <1>3, <2>4 DEF Run, Accept, Defer, Continue, RestartFailed, Rewind, StartFresh, Begin, Finish
  <2>5. CASE Superstep
    BY <1>3, <2>5 DEF Superstep, Reuse, FindBusy, Claim, StoreOutput, ConfirmNode, RecordNode,
       FinalCheckpoint, Checkpoint, RecordFailure, MissingEdge
  <2> QED BY <2>1, <2>2, <2>3, <2>4, <2>5 DEF Next, ProcessStep
<1> QED BY <1>5, <1>6 DEF Uninterrupted, Calm

LEMMA FlagInit == Init => FlagInvariant
<1> SUFFICES ASSUME Init PROVE FlagInvariant
  OBVIOUS
<1>1. RecordTells /\ CheckpointTells /\ RowsTell
  BY DEF Init, InitialState, NoRecord, NoKey, RecordTells, CheckpointTells, StateTells, CommitTells,
     RowsTell, AfterCommit, Delivered
<1> QED BY <1>1, DeliveryInit DEF FlagInvariant, Tells

LEMMA FlagStep == FlagInvariant /\ [Next]_vars => FlagInvariant'
<1> SUFFICES ASSUME FlagInvariant, [Next]_vars PROVE FlagInvariant'
  OBVIOUS
<1>1. DeliveryInvariant /\ DeliveryInvariant' /\ TypeOK
  BY DeliveryStep DEF FlagInvariant, DeliveryInvariant, TypeInvariant
<1>2. ASSUME Uninterrupted' PROVE Tells'
  <2>1. Uninterrupted /\ ~Escape /\ ~(\E kept \in BOOLEAN : Crash(kept))
    BY <1>1, <1>2, Uninterruptible
  <2>2. Told
    BY <1>1, <2>1 DEF Told, FlagInvariant, DeliveryInvariant, TypeInvariant, NothingUnearned
  <2>3. CASE Run
    BY <2>2, <2>3, FlagAtRest, FlagAtAccept, FlagAtRestart, FlagAtBegin, FlagAtEnd DEF Run
  <2>4. CASE Superstep
    BY <2>2, <2>4, FlagAtClaim, FlagAtReuse, FlagAtFailures, FlagAtStore, FlagAtConfirm, FlagAtRecord,
       FlagAtRoute, FlagAtCheckpoint, FlagAtRecordFailure, FlagAtEnd DEF Superstep
  <2>5. CASE Work \/ Persist
    BY <2>2, <2>5, FlagAtWork, FlagAtRest, FlagAtFailures DEF Persist
  <2>6. CASE Environment
    BY <2>1, <2>2, <2>6, FlagAtRest, FlagAtCommand, FlagAtFailures DEF Environment
  <2>7. CASE StartWorker \/ Api \/ UNCHANGED vars
    BY <2>2, <2>7, FlagAtRest
  <2> QED BY <2>3, <2>4, <2>5, <2>6, <2>7 DEF Next, ProcessStep
<1> QED BY <1>1, <1>2 DEF FlagInvariant

\* As long as nothing crashed and no exception escaped the graph, the flag is set only
\* when the record of that generation says that its result is committed.
THEOREM FlagIsSetAfterTheRecord == Spec => FlagFollowsRecord
<1>1. ASSUME FlagInvariant, [Next]_vars
      PROVE  [seen' /\ spent.crashes = 0 /\ spent.escapes = 0 => record.committed]_seen
  <2> SUFFICES ASSUME seen' # seen, Uninterrupted, seen' PROVE record.committed
    BY DEF Uninterrupted
  <2>1. MarkAsRead
    BY <1>1, OneAtATime DEF FlagInvariant, DeliveryInvariant, TypeInvariant
  <2>2. phase = "claimed" /\ ckpt.next = "mark_message_as_read"
    BY <2>1 DEF MarkAsRead, Produce, AtNode
  <2>3. GenerationsInOrder /\ CheckpointTells
    BY <1>1 DEF FlagInvariant, DeliveryInvariant, NothingUnearned, Tells
  <2> QED BY <2>2, <2>3 DEF GenerationsInOrder, CheckpointTells, AfterCommit
<1> QED BY <1>1, FlagInit, FlagStep, PTL DEF Spec, FlagFollowsRecord

=============================================================================
