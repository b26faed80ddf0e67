-------------------------- MODULE ResultsApiProofs --------------------------
(***************************************************************************)
(* Theorems about ResultsApi, for any numbers of handlers, PUTs,           *)
(* attachments, months and faults.                                         *)
(***************************************************************************)
EXTENDS ResultsApi, TLAPS

\* The object keys a payload stands for are keys of S3.
LEMMA KeysOfPuts ==
  ASSUME NEW p \in Puts
  PROVE  /\ p # NoRow
         /\ p.request \in Requests
         /\ p.files \subseteq Files
         /\ Month(p) \in Months
         /\ RawKey(p) \in Keys
         /\ \A file \in Files : AttachmentKey(p, file) \in Keys
  <1>1. p # NoRow /\ p.request \in Requests /\ p.files \subseteq Files /\ MonthOf[p.request.received] \in Months
    BY PutsAssumption, NamesAssumption
  <1> QED BY <1>1 DEF Month, RawKey, AttachmentKey, Keys

\* A handler that answers leaves the others, and their lock, alone.
LEMMA AnsweredTypes ==
  ASSUME TypeOK, NEW w \in Writers, Answered(w)
  PROVE  /\ lock' \in Writers \cup {Nobody}
         /\ stage' \in [Writers -> Stages]
         /\ put' \in [Writers -> Puts \cup {NoRow}]
         /\ left' \in [Writers -> SUBSET Files]
         /\ seen' \in [Writers -> Puts \cup {NoRow}]
         /\ \A v \in Writers : stage'[v] # "idle" => put'[v] # NoRow
         /\ lock' # Nobody => stage'[lock'] = "commit"
  BY NamesAssumption DEF TypeOK, Answered, Stages

LEMMA UploadedTypes ==
  ASSUME TypeOK, NEW key \in Keys, Uploaded(key)
  PROVE  objects' \in [Keys -> {"absent", "fresh", "old"}]
  BY DEF TypeOK, Uploaded

\* The parts of TypeOK that a step of one kind leaves alone.
WriterTypes ==
  /\ lock \in Writers \cup {Nobody}
  /\ stage \in [Writers -> Stages]
  /\ put \in [Writers -> Puts \cup {NoRow}]
  /\ left \in [Writers -> SUBSET Files]
  /\ seen \in [Writers -> Puts \cup {NoRow}]
  /\ \A w \in Writers : stage[w] # "idle" => put[w] # NoRow
  /\ lock # Nobody => stage[lock] = "commit"

StoreTypes ==
  /\ objects \in [Keys -> {"absent", "fresh", "old"}]
  /\ row \in Puts \cup {NoRow}
  /\ acknowledged \subseteq Puts

OtherTypes ==
  /\ reader \in Readers /\ cleaner \in Cleaners
  /\ puts \in 0 .. MaxPuts /\ faults \in 0 .. MaxFaults

LEMMA TypeParts == TypeOK <=> WriterTypes /\ StoreTypes /\ OtherTypes
  BY DEF TypeOK, WriterTypes, StoreTypes, OtherTypes

LEMMA FaultTypes ==
  ASSUME TypeOK, Fault
  PROVE  faults' \in 0 .. MaxFaults
  BY BoundsAssumption DEF TypeOK, Fault

LEMMA InitTypes == Init => TypeOK
  <1> SUFFICES ASSUME Init PROVE TypeOK
    OBVIOUS
  <1>1. WriterTypes
    BY DEF Init, WriterTypes, Stages
  <1>2. StoreTypes
    BY DEF Init, StoreTypes
  <1>3. OtherTypes
    BY BoundsAssumption DEF Init, OtherTypes, Idle, Asleep, Readers, Cleaners
  <1> QED BY <1>1, <1>2, <1>3, TypeParts

\* The steps of a handler.
LEMMA ReceiveTypes ==
  ASSUME TypeOK, NEW w \in Writers, Receive(w)
  PROVE  TypeOK'
  <1>1. WriterTypes'
    <2>1. PICK p \in Puts : put' = [put EXCEPT ![w] = p] /\ left' = [left EXCEPT ![w] = p.files]
      BY DEF Receive
    <2> QED BY <2>1, KeysOfPuts DEF TypeOK, Receive, WriterTypes, Stages
  <1>2. StoreTypes' /\ OtherTypes'
    BY BoundsAssumption DEF TypeOK, Receive, StoreTypes, OtherTypes
  <1> QED BY <1>1, <1>2, TypeParts DEF TypeOK, WriterTypes, StoreTypes, OtherTypes

LEMMA PutFailsTypes ==
  ASSUME TypeOK, NEW w \in Writers, NEW key \in Keys, PutFails(w, key),
         UNCHANGED <<row, acknowledged, reader, cleaner, puts>>
  PROVE  TypeOK'
  <1>1. WriterTypes'
    BY AnsweredTypes DEF PutFails, WriterTypes
  <1>2. StoreTypes' /\ OtherTypes'
    BY UploadedTypes, FaultTypes DEF PutFails, TypeOK, StoreTypes, OtherTypes
  <1> QED BY <1>1, <1>2 DEF TypeOK, WriterTypes, StoreTypes, OtherTypes

LEMMA StoreRawTypes ==
  ASSUME TypeOK, NEW w \in Writers, StoreRaw(w)
  PROVE  TypeOK'
  <1>1. put[w] \in Puts /\ RawKey(put[w]) \in Keys
    BY KeysOfPuts DEF TypeOK, StoreRaw
  <1>2. CASE PutFails(w, RawKey(put[w]))
    BY <1>1, <1>2, PutFailsTypes DEF StoreRaw
  <1>3. CASE ~PutFails(w, RawKey(put[w]))
    <2>1. Uploaded(RawKey(put[w])) /\ stage' = [stage EXCEPT ![w] = "files"]
          /\ UNCHANGED <<lock, put, left, seen, faults>>
      BY <1>3 DEF StoreRaw
    <2>2. WriterTypes'
      BY <2>1 DEF TypeOK, StoreRaw, WriterTypes, Stages
    <2>3. StoreTypes' /\ OtherTypes'
      BY <1>1, <2>1, UploadedTypes DEF TypeOK, StoreRaw, StoreTypes, OtherTypes
    <2> QED BY <2>2, <2>3 DEF TypeOK, WriterTypes, StoreTypes, OtherTypes
  <1> QED BY <1>2, <1>3

LEMMA StoreFileTypes ==
  ASSUME TypeOK, NEW w \in Writers, StoreFile(w)
  PROVE  TypeOK'
  <1>1. PICK file \in left[w] :
          \/ /\ Uploaded(AttachmentKey(put[w], file))
             /\ left' = [left EXCEPT ![w] = @ \ {file}]
             /\ UNCHANGED <<lock, stage, put, seen, faults>>
          \/ PutFails(w, AttachmentKey(put[w], file))
    BY DEF StoreFile
  <1>2. put[w] \in Puts /\ file \in Files
    BY DEF TypeOK, StoreFile
  <1>3. AttachmentKey(put[w], file) \in Keys
    BY <1>2, KeysOfPuts
  <1>4. CASE PutFails(w, AttachmentKey(put[w], file))
    BY <1>3, <1>4, PutFailsTypes DEF StoreFile
  <1>5. CASE ~PutFails(w, AttachmentKey(put[w], file))
    <2>1. Uploaded(AttachmentKey(put[w], file)) /\ left' = [left EXCEPT ![w] = @ \ {file}]
          /\ UNCHANGED <<lock, stage, put, seen, faults>>
      BY <1>1, <1>5
    <2>2. WriterTypes'
      BY <2>1 DEF TypeOK, WriterTypes
    <2>3. StoreTypes' /\ OtherTypes'
      BY <1>3, <2>1, UploadedTypes DEF TypeOK, StoreFile, StoreTypes, OtherTypes
    <2> QED BY <2>2, <2>3 DEF TypeOK, WriterTypes, StoreTypes, OtherTypes
  <1> QED BY <1>4, <1>5

LEMMA BeginCommitTypes ==
  ASSUME TypeOK, NEW w \in Writers, BeginCommit(w)
  PROVE  TypeOK'
  <1>1. StoreTypes' /\ OtherTypes'
    BY DEF TypeOK, BeginCommit, StoreTypes, OtherTypes
  <1>2. WriterTypes'
    <2>1. CASE Answered(w)
      BY <2>1, AnsweredTypes DEF WriterTypes
    <2>2. CASE ~Answered(w)
      <3>1. /\ stage' = [stage EXCEPT ![w] = "commit"]
            /\ seen' = [seen EXCEPT ![w] = row]
            /\ lock' = IF row = NoRow THEN lock ELSE w
            /\ UNCHANGED <<put, left>>
            /\ stage[w] = "files"
        BY <2>2 DEF BeginCommit
      <3> QED BY <3>1 DEF TypeOK, WriterTypes, Stages
    <2> QED BY <2>1, <2>2
  <1> QED BY <1>1, <1>2 DEF TypeOK, WriterTypes, StoreTypes, OtherTypes

LEMMA EndTypes ==
  ASSUME TypeOK, NEW w \in Writers,
         Commit(w) \/ CommitUnheard(w) \/ InsertLoses(w) \/ CommitFails(w) \/ RejectFile(w)
  PROVE  TypeOK'
  <1>1. Answered(w)
    BY DEF Commit, CommitUnheard, InsertLoses, CommitFails, RejectFile
  <1>2. WriterTypes'
    BY <1>1, AnsweredTypes DEF WriterTypes
  <1>3. StoreTypes' /\ OtherTypes'
    BY FaultTypes DEF TypeOK, Commit, CommitUnheard, InsertLoses, CommitFails, RejectFile, StoreTypes, OtherTypes
  <1> QED BY <1>2, <1>3 DEF TypeOK, WriterTypes, StoreTypes, OtherTypes

LEMMA CrashTypes ==
  ASSUME TypeOK, Crash
  PROVE  TypeOK'
  <1>1. WriterTypes'
    BY DEF TypeOK, Crash, WriterTypes, Stages
  <1>2. StoreTypes' /\ OtherTypes'
    BY FaultTypes DEF TypeOK, Crash, StoreTypes, OtherTypes
  <1> QED BY <1>1, <1>2 DEF TypeOK, WriterTypes, StoreTypes, OtherTypes

\* A reader has what the statements before have found, and rows are never deleted.
Reading ==
  /\ reader.at # "idle" => row # NoRow
  /\ reader.at \in {"attachments", "shown", "head", "stream"} => reader.email # NoRow
  /\ reader.at \in {"shown", "head", "stream"} => reader.files # NoRow

\* The steps of the reader change the reader only.
LEMMA ReaderTypes ==
  ASSUME TypeOK, Reading, Reader
  PROVE  TypeOK'
  <1>1. UNCHANGED <<objects, row, writerVars, acknowledged, cleaner, puts, faults>>
    BY DEF Reader, ReadLocator, ReadEmail, ReadAttachments, OpenAttachment, HeadObject, StreamObject, LeavePage
  <1>2. reader' \in Readers
    <2>1. reader \in Readers /\ row \in Puts \cup {NoRow} /\ acknowledged \in SUBSET Puts /\ Idle \in Readers
      BY DEF TypeOK, Idle, Readers
    <2>2. CASE ReadLocator
      BY <2>1, <2>2 DEF ReadLocator, Readers
    <2>3. CASE ReadEmail
      BY <2>1, <2>3 DEF ReadEmail, Statements, Readers
    <2>4. CASE ReadAttachments
      BY <2>1, <2>4 DEF ReadAttachments, Statements, Readers
    <2>5. CASE OpenAttachment
      <3>1. PICK file \in reader.files.files :
              reader' = IF row = reader.files
                        THEN [reader EXCEPT !.at = "head", !.want = "attachment", !.file = file]
                        ELSE Idle
        BY <2>5 DEF OpenAttachment
      <3>2. CASE row = reader.files
        <4>1. reader.files \in Puts
          BY <2>1, <2>5, <3>2 DEF Reading, OpenAttachment
        <4>2. file \in Files
          BY <4>1, KeysOfPuts
        <4> QED BY <2>1, <3>1, <3>2, <4>2 DEF Readers
      <3> QED BY <2>1, <3>1, <3>2
    <2>6. CASE HeadObject
      BY <2>1, <2>6 DEF HeadObject, Readers
    <2>7. CASE StreamObject
      BY <2>1, <2>7 DEF StreamObject, Readers
    <2>8. CASE LeavePage
      BY <2>1, <2>8 DEF LeavePage
    <2> QED BY <2>2, <2>3, <2>4, <2>5, <2>6, <2>7, <2>8 DEF Reader
  <1> QED BY <1>1, <1>2 DEF TypeOK, writerVars

\* The steps of the cleanup change the objects and the cleanup.
LEMMA CleanerTypes ==
  ASSUME TypeOK, Cleaner
  PROVE  TypeOK'
  <1>1. UNCHANGED <<row, writerVars, acknowledged, reader, puts>>
    BY DEF Cleaner, ListPrefixes, CheckPrefix, DeletePrefix, DeleteFails, CleanupEnds
  <1>2. faults' \in 0 .. MaxFaults
    BY FaultTypes DEF TypeOK, Cleaner, ListPrefixes, CheckPrefix, DeletePrefix, DeleteFails, CleanupEnds
  <1>3. cleaner' \in Cleaners
    <2>1. cleaner \in Cleaners /\ Asleep \in Cleaners
      BY DEF TypeOK, Asleep, Cleaners
    <2>2. CASE ListPrefixes
      BY <2>2 DEF ListPrefixes, OrphanPrefixes, Cleaners
    <2>3. CASE CheckPrefix
      <3>1. PICK month \in cleaner.prefixes :
              cleaner' = IF Unlinked THEN [at |-> "delete", prefixes |-> cleaner.prefixes, month |-> month]
                         ELSE [cleaner EXCEPT !.prefixes = @ \ {month}]
        BY <2>3 DEF CheckPrefix
      <3>2. cleaner \in [at : {"idle", "check"}, prefixes : SUBSET Months]
        BY <2>1, <2>3 DEF CheckPrefix, Cleaners
      <3>3. cleaner.prefixes \in SUBSET Months /\ month \in Months
        BY <3>2
      <3> QED BY <3>1, <3>2, <3>3 DEF Cleaners
    <2>4. CASE DeletePrefix
      <3>1. cleaner.prefixes \in SUBSET Months
        BY <2>1 DEF Cleaners
      <3> QED BY <2>4, <3>1 DEF DeletePrefix, Cleaners
    <2>5. CASE DeleteFails \/ CleanupEnds
      BY <2>1, <2>5 DEF DeleteFails, CleanupEnds
    <2> QED BY <2>2, <2>3, <2>4, <2>5 DEF Cleaner
  <1>4. objects' \in [Keys -> {"absent", "fresh", "old"}]
    BY DEF TypeOK, Cleaner, ListPrefixes, CheckPrefix, DeletePrefix, DeleteFails, CleanupEnds
  <1> QED BY <1>1, <1>2, <1>3, <1>4 DEF TypeOK, writerVars

\* Rows change by the commit of a handler only.
LEMMA RowSteps ==
  ASSUME TypeOK, [Next]_vars
  PROVE  \/ row' = row
         \/ \E w \in Writers : /\ stage[w] = "commit" /\ CanWrite(w)
                               /\ Commit(w) \/ CommitUnheard(w)
                               /\ row' = put[w] /\ put[w] \in Puts
  <1>1. CASE \E w \in Writers : Receive(w) \/ StoreRaw(w) \/ StoreFile(w) \/ RejectFile(w)
                                 \/ BeginCommit(w) \/ InsertLoses(w) \/ CommitFails(w)
    BY <1>1 DEF Receive, StoreRaw, StoreFile, RejectFile, BeginCommit, InsertLoses, CommitFails
  <1>2. CASE \E w \in Writers : Commit(w) \/ CommitUnheard(w)
    <2>1. PICK w \in Writers : Commit(w) \/ CommitUnheard(w)
      BY <1>2
    <2> QED BY <2>1 DEF Commit, CommitUnheard, TypeOK
  <1>3. CASE Crash \/ Reader \/ Cleaner \/ (\E month \in Months : Age(month)) \/ UNCHANGED vars
    BY <1>3 DEF Crash, Reader, ReadLocator, ReadEmail, ReadAttachments, OpenAttachment, HeadObject,
      StreamObject, LeavePage, Cleaner, ListPrefixes, CheckPrefix, DeletePrefix, DeleteFails,
      CleanupEnds, Age, vars
  <1> QED BY <1>1, <1>2, <1>3 DEF Next, Writer

\* The reader changes by its own steps only.
LEMMA ReaderSteps ==
  ASSUME [Next]_vars, ~Reader
  PROVE  UNCHANGED reader
  <1>1. CASE \E w \in Writers : Receive(w) \/ Writer(w)
    BY <1>1 DEF Writer, Receive, StoreRaw, StoreFile, RejectFile, BeginCommit, Commit, CommitUnheard,
      InsertLoses, CommitFails
  <1>2. CASE Crash \/ Cleaner \/ (\E month \in Months : Age(month)) \/ UNCHANGED vars
    BY <1>2 DEF Crash, Cleaner, ListPrefixes, CheckPrefix, DeletePrefix, DeleteFails, CleanupEnds, Age, vars
  <1> QED BY <1>1, <1>2 DEF Next

LEMMA ReadingStep ==
  ASSUME TypeOK, Reading, [Next]_vars
  PROVE  Reading'
  <1>1. row # NoRow => row' # NoRow
    BY RowSteps, KeysOfPuts
  <1>2. CASE ~Reader
    BY <1>1, <1>2, ReaderSteps DEF Reading
  <1>3. CASE Reader
    <2>1. reader \in Readers /\ Idle.at = "idle"
      BY DEF TypeOK, Idle
    <2>2. CASE ReadLocator
      BY <1>1, <2>2 DEF ReadLocator, Reading, Idle
    <2>3. CASE ReadEmail
      BY <1>1, <2>1, <2>3 DEF ReadEmail, Statements, Reading, Readers
    <2>4. CASE ReadAttachments
      BY <1>1, <2>1, <2>4 DEF ReadAttachments, Statements, Reading, Readers
    <2>5. CASE OpenAttachment
      BY <1>1, <2>1, <2>5 DEF OpenAttachment, Reading, Readers
    <2>6. CASE HeadObject
      BY <1>1, <2>1, <2>6 DEF HeadObject, Reading, Readers
    <2>7. CASE StreamObject \/ LeavePage
      BY <1>1, <2>1, <2>7 DEF StreamObject, LeavePage, Reading, Readers
    <2> QED BY <1>3, <2>2, <2>3, <2>4, <2>5, <2>6, <2>7 DEF Reader
  <1> QED BY <1>2, <1>3

TypeInv == TypeOK /\ Reading

LEMMA TypeStep ==
  ASSUME TypeInv, [Next]_vars
  PROVE  TypeInv'
  <1>1. TypeOK /\ Reading
    BY DEF TypeInv
  <1>2. TypeOK'
    <2>1. CASE \E w \in Writers : Receive(w) \/ Writer(w)
      BY <1>1, <2>1, ReceiveTypes, StoreRawTypes, StoreFileTypes, BeginCommitTypes, EndTypes DEF Writer
    <2>2. CASE Crash \/ Reader \/ Cleaner
      BY <1>1, <2>2, CrashTypes, ReaderTypes, CleanerTypes
    <2>3. CASE \E month \in Months : Age(month)
      <3>1. objects' \in [Keys -> {"absent", "fresh", "old"}]
        BY <1>1, <2>3 DEF TypeOK, Age
      <3> QED BY <1>1, <2>3, <3>1 DEF TypeOK, Age, writerVars
    <2>4. CASE UNCHANGED vars
      BY <1>1, <2>4 DEF TypeOK, vars, writerVars
    <2> QED BY <2>1, <2>2, <2>3, <2>4 DEF Next
  <1> QED BY <1>1, <1>2, ReadingStep DEF TypeInv

LEMMA TypeInitially == Init => TypeInv
  BY InitTypes DEF Init, TypeInv, Reading, Idle

LEMMA TypeAlways == Spec => []TypeInv
  <1> QED BY TypeInitially, TypeStep, PTL DEF Spec

\* Every state of the model has the types its variables are declared with.
THEOREM ApiTypeCorrect == Spec => []TypeOK
  <1>1. TypeInv => TypeOK
    BY DEF TypeInv
  <1> QED BY <1>1, TypeAlways, PTL

-----------------------------------------------------------------------------
(* The lock on the locator *)

\* A transaction that has found the locator holds it, and what it has seen is
\* what is stored; what it is about to write was compared with that.
Guarded ==
  /\ lock # Nobody => seen[lock] # NoRow
  /\ \A w \in Writers : stage[w] = "commit" =>
       /\ seen[w] # NoRow => lock = w /\ row = seen[w]
       /\ ~Conflicts(StoreOf(seen[w]), put[w].request)
       /\ ~Same(StoreOf(seen[w]), put[w].request)

\* Who commits knows the rows as they are.
LEMMA SeenIsCurrent ==
  ASSUME Guarded, NEW w \in Writers, stage[w] = "commit", CanWrite(w)
  PROVE  /\ seen[w] = row
         /\ ~Conflicts(StoreOf(row), put[w].request)
         /\ ~Same(StoreOf(row), put[w].request)
  BY DEF Guarded, CanWrite

\* A handler that answers takes nothing from the others.
LEMMA AnsweredGuards ==
  ASSUME TypeOK, NEW w \in Writers, Answered(w)
  PROVE  /\ lock' # Nobody => lock' = lock /\ lock # w /\ seen'[lock] = seen[lock]
         /\ \A v \in Writers : stage'[v] = "commit" =>
              /\ stage[v] = "commit" /\ seen'[v] = seen[v] /\ put'[v] = put[v]
              /\ lock = v => lock' = v
              /\ v # w
  BY DEF TypeOK, Answered, Stages

LEMMA AnsweredKeepsGuarded ==
  ASSUME TypeOK, Guarded, NEW w \in Writers, Answered(w), UNCHANGED row
  PROVE  Guarded'
  <1>1. (lock # Nobody => seen[lock] # NoRow)'
    BY AnsweredGuards DEF Guarded
  <1>2. ASSUME NEW v \in Writers, stage'[v] = "commit"
        PROVE  /\ seen'[v] # NoRow => lock' = v /\ row' = seen'[v]
               /\ ~Conflicts(StoreOf(seen'[v]), put'[v].request)
               /\ ~Same(StoreOf(seen'[v]), put'[v].request)
    <2>1. stage[v] = "commit" /\ seen'[v] = seen[v] /\ put'[v] = put[v] /\ (lock = v => lock' = v)
      BY <1>2, AnsweredGuards
    <2> QED BY <2>1 DEF Guarded
  <1> QED BY <1>1, <1>2 DEF Guarded, StoreOf

LEMMA WriteKeepsGuarded ==
  ASSUME TypeOK, Guarded, NEW w \in Writers, Answered(w), stage[w] = "commit", CanWrite(w)
  PROVE  Guarded'
  <1>1. (lock # Nobody => seen[lock] # NoRow)'
    BY AnsweredGuards DEF Guarded
  <1>2. ASSUME NEW v \in Writers, stage'[v] = "commit"
        PROVE  /\ seen'[v] = NoRow
               /\ ~Conflicts(StoreOf(seen'[v]), put'[v].request)
               /\ ~Same(StoreOf(seen'[v]), put'[v].request)
    <2>1. stage[v] = "commit" /\ seen'[v] = seen[v] /\ put'[v] = put[v] /\ v # w
      BY <1>2, AnsweredGuards
    <2>2. seen[v] # NoRow => lock = v /\ row = seen[v]
      BY <2>1 DEF Guarded
    <2>3. seen[v] = NoRow
      \* w would hold the lock that v holds, or have found no row where v has found one
      BY <2>1, <2>2 DEF Guarded, CanWrite
    <2> QED BY <2>1, <2>3 DEF Guarded
  <1> QED BY <1>1, <1>2 DEF Guarded, StoreOf

LEMMA BeginKeepsGuarded ==
  ASSUME TypeOK, Guarded, NEW w \in Writers, BeginCommit(w)
  PROVE  Guarded'
  <1>1. CASE Answered(w)
    BY <1>1, AnsweredKeepsGuarded DEF BeginCommit
  <1>2. CASE ~Answered(w)
    <2>1. /\ ~Conflicts(StoreOf(row), put[w].request)
          /\ ~Same(StoreOf(row), put[w].request)
          /\ stage' = [stage EXCEPT ![w] = "commit"]
          /\ seen' = [seen EXCEPT ![w] = row]
          /\ lock' = IF row = NoRow THEN lock ELSE w
          /\ UNCHANGED <<put, row>>
      BY <1>2 DEF BeginCommit
    <2>2. stage[w] = "files" /\ (row # NoRow => lock = Nobody)
      BY DEF BeginCommit, Locked
    <2>3. (lock # Nobody => seen[lock] # NoRow)'
      BY <2>1, <2>2 DEF Guarded, TypeOK
    <2>4. ASSUME NEW v \in Writers, stage'[v] = "commit"
          PROVE  /\ seen'[v] # NoRow => lock' = v /\ row' = seen'[v]
                 /\ ~Conflicts(StoreOf(seen'[v]), put'[v].request)
                 /\ ~Same(StoreOf(seen'[v]), put'[v].request)
      <3>1. CASE v = w
        <4>1. seen'[v] = row /\ put'[v] = put[w] /\ row' = row
          BY <2>1, <3>1 DEF TypeOK
        <4> QED BY <2>1, <3>1, <4>1
      <3>2. CASE v # w
        <4>1. stage[v] = "commit" /\ seen'[v] = seen[v] /\ put'[v] = put[v] /\ row' = row
          BY <2>1, <2>4, <3>2 DEF TypeOK
        <4>2. seen[v] # NoRow => lock = v /\ row = seen[v] /\ lock # Nobody
          BY <4>1, NamesAssumption DEF Guarded
        <4>3. seen'[v] # NoRow => lock' = v /\ row' = seen'[v]
          BY <2>1, <2>2, <4>1, <4>2
        <4> QED BY <4>1, <4>3 DEF Guarded
      <3> QED BY <3>1, <3>2
    <2> QED BY <2>3, <2>4 DEF Guarded, StoreOf
  <1> QED BY <1>1, <1>2

\* Every other step leaves locks, locators and what was compared alone.
LEMMA QuietKeepsGuarded ==
  ASSUME Guarded, UNCHANGED <<lock, row>>,
         \A v \in Writers : stage'[v] = "commit" =>
           stage[v] = "commit" /\ seen'[v] = seen[v] /\ put'[v] = put[v],
         lock # Nobody => seen'[lock] = seen[lock]
  PROVE  Guarded'
  BY DEF Guarded, StoreOf

LEMMA GuardedStep ==
  ASSUME TypeOK, Guarded, [Next]_vars
  PROVE  Guarded'
  <1>1. ASSUME NEW w \in Writers, Receive(w)
        PROVE  Guarded'
    BY <1>1, QuietKeepsGuarded DEF TypeOK, Receive
  <1>2. ASSUME NEW w \in Writers, StoreRaw(w) \/ StoreFile(w) \/ RejectFile(w)
        PROVE  Guarded'
    <2>1. UNCHANGED row
      BY <1>2 DEF StoreRaw, StoreFile, RejectFile
    <2>2. CASE Answered(w)
      BY <2>1, <2>2, AnsweredKeepsGuarded
    <2>3. CASE ~Answered(w)
      <3>1. /\ UNCHANGED <<lock, put, seen>>
            /\ stage' = [stage EXCEPT ![w] = "files"] \/ UNCHANGED stage
        BY <1>2, <2>3 DEF StoreRaw, StoreFile, RejectFile, PutFails
      <3> QED BY <2>1, <3>1, QuietKeepsGuarded DEF TypeOK
    <2> QED BY <2>2, <2>3
  <1>3. ASSUME NEW w \in Writers, BeginCommit(w)
        PROVE  Guarded'
    BY <1>3, BeginKeepsGuarded
  <1>4. ASSUME NEW w \in Writers, Commit(w) \/ CommitUnheard(w)
        PROVE  Guarded'
    BY <1>4, WriteKeepsGuarded DEF Commit, CommitUnheard
  <1>5. ASSUME NEW w \in Writers, InsertLoses(w) \/ CommitFails(w)
        PROVE  Guarded'
    BY <1>5, AnsweredKeepsGuarded DEF InsertLoses, CommitFails
  <1>6. CASE Crash
    BY <1>6 DEF Crash, Guarded
  <1>7. CASE Reader \/ Cleaner \/ (\E month \in Months : Age(month)) \/ UNCHANGED vars
    <2>1. UNCHANGED <<lock, stage, put, seen, row>>
      BY <1>7 DEF Reader, ReadLocator, ReadEmail, ReadAttachments, OpenAttachment, HeadObject,
        StreamObject, LeavePage, Cleaner, ListPrefixes, CheckPrefix, DeletePrefix, DeleteFails,
        CleanupEnds, Age, vars, writerVars
    <2> QED BY <2>1, QuietKeepsGuarded
  <1> QED BY <1>1, <1>2, <1>3, <1>4, <1>5, <1>6, <1>7 DEF Next, Writer

GuardInv == TypeInv /\ Guarded

LEMMA GuardedAlways == Spec => []GuardInv
  <1>1. Init => GuardInv
    BY TypeInitially DEF Init, Guarded, GuardInv
  <1>2. GuardInv /\ [Next]_vars => GuardInv'
    BY TypeStep, GuardedStep DEF GuardInv, TypeInv
  <1> QED BY <1>1, <1>2, PTL DEF Spec

LEMMA RowWrites ==
  ASSUME GuardInv, [Next]_vars, row' # row
  PROVE  /\ row' \in Puts
         /\ ~Conflicts(StoreOf(row), row'.request)
         /\ ~Same(StoreOf(row), row'.request)
  <1>1. PICK w \in Writers : stage[w] = "commit" /\ CanWrite(w) /\ row' = put[w] /\ put[w] \in Puts
    BY RowSteps DEF GuardInv, TypeInv
  <1> QED BY <1>1, SeenIsCurrent DEF GuardInv

\* Whatever handlers, faults and cleanups do, the rows change only as one whole
\* PUT of ResultsStore changes them, which is not in conflict with them.
THEOREM ConcurrentPutsAreAtomic == Spec => PutsAreAtomic
  <1>1. ASSUME GuardInv, [Next]_vars, row' # row
        PROVE  \E p \in Puts : /\ ~Conflicts(StoreOf(row), p.request)
                               /\ row' = p
                               /\ StoreOf(p) = CommitRequest(StoreOf(row), p.request)
    <2>1. /\ row' \in Puts /\ row' # NoRow
          /\ ~Conflicts(StoreOf(row), row'.request)
          /\ ~Same(StoreOf(row), row'.request)
      BY <1>1, RowWrites, KeysOfPuts
    <2>2. StoreOf(row') = CommitRequest(StoreOf(row), row'.request)
      BY <2>1 DEF StoreOf, CommitRequest
    <2> QED BY <2>1, <2>2
  <1> QED BY <1>1, GuardedAlways, PTL DEF Spec, PutsAreAtomic

-----------------------------------------------------------------------------
(* What was acknowledged, and what is read *)

AckInv == GuardInv /\ AcknowledgedStays

\* A write is of a newer generation than the rows it replaces.
LEMMA WritesAreNewer ==
  ASSUME GuardInv, [Next]_vars, row' # row, row # NoRow
  PROVE  row'.request.gen > row.request.gen
  <1>1. row \in Puts /\ row' \in Puts
    BY RowWrites DEF GuardInv, TypeInv, TypeOK
  <1>2. row.request.gen \in Nat /\ row'.request.gen \in Nat
    BY <1>1, KeysOfPuts DEF Requests
  <1>3. /\ StoreOf(row).stored
        /\ StoreOf(row).gen = row.request.gen
        /\ StoreOf(row).fingerprint = row.request.fingerprint
    BY DEF StoreOf
  <1> QED BY RowWrites, <1>2, <1>3 DEF Conflicts, Same

\* The generation of the rows never falls.
LEMMA RowsGrow ==
  ASSUME GuardInv, [Next]_vars, row # NoRow
  PROVE  row' # NoRow /\ row'.request.gen >= row.request.gen
  <1>1. row \in Puts /\ row.request.gen \in Nat
    BY KeysOfPuts DEF GuardInv, TypeInv, TypeOK, Requests
  <1>2. CASE row' = row
    BY <1>1, <1>2
  <1>3. CASE row' # row
    <2>1. row' \in Puts /\ row'.request.gen \in Nat
      BY <1>3, RowWrites, KeysOfPuts DEF Requests
    <2> QED BY <1>1, <1>3, <2>1, WritesAreNewer, KeysOfPuts
  <1> QED BY <1>2, <1>3

\* A PUT is acknowledged when its payload is what is stored.
LEMMA Acknowledges ==
  ASSUME GuardInv, [Next]_vars, NEW p \in acknowledged', p \notin acknowledged
  PROVE  row' = p /\ p \in Puts
  <1> USE DEF GuardInv, TypeInv
  <1>1. PICK w \in Writers : BeginCommit(w) \/ Commit(w)
    <2>1. CASE \E w \in Writers : Receive(w) \/ StoreRaw(w) \/ StoreFile(w) \/ RejectFile(w)
                 \/ CommitUnheard(w) \/ InsertLoses(w) \/ CommitFails(w)
      BY <2>1 DEF Receive, StoreRaw, StoreFile, RejectFile, CommitUnheard, InsertLoses, CommitFails
    <2>2. CASE Crash \/ Reader \/ Cleaner \/ (\E month \in Months : Age(month)) \/ UNCHANGED vars
      BY <2>2 DEF Crash, Reader, ReadLocator, ReadEmail, ReadAttachments, OpenAttachment, HeadObject,
        StreamObject, LeavePage, Cleaner, ListPrefixes, CheckPrefix, DeletePrefix, DeleteFails,
        CleanupEnds, Age, vars
    <2> QED BY <2>1, <2>2 DEF Next, Writer
  <1>2. p = put[w] /\ put[w] \in Puts
    BY <1>1 DEF BeginCommit, Commit, TypeOK
  <1>3. CASE Commit(w)
    BY <1>2, <1>3 DEF Commit
  <1>4. CASE BeginCommit(w)
    <2>1. Same(StoreOf(row), put[w].request) /\ row' = row
      BY <1>4 DEF BeginCommit
    <2>2. row # NoRow
      BY <2>1 DEF Same, StoreOf, EmptyStore
    <2>3. row \in Puts /\ StoreOf(row).fingerprint = row.request.fingerprint
      BY <2>2 DEF StoreOf, TypeOK
    <2>4. row = put[w]
      BY <1>2, <2>1, <2>3, PutsAssumption DEF Same
    <2> QED BY <1>2, <2>1, <2>4
  <1> QED BY <1>1, <1>3, <1>4

LEMMA AckStep ==
  ASSUME AckInv, [Next]_vars
  PROVE  AckInv'
  <1>1. GuardInv'
    BY TypeStep, GuardedStep DEF AckInv, GuardInv, TypeInv
  <1>2. ASSUME NEW p \in acknowledged'
        PROVE  /\ row' # NoRow
               /\ row'.request.gen >= p.request.gen
               /\ row'.request.gen = p.request.gen => row' = p
    <2>1. CASE p \notin acknowledged
      <3>1. row' = p /\ p \in Puts
        BY <2>1, Acknowledges DEF AckInv
      <3> QED BY <3>1, KeysOfPuts DEF Requests
    <2>2. CASE p \in acknowledged
      <3>1. /\ row # NoRow
            /\ row.request.gen >= p.request.gen
            /\ row.request.gen = p.request.gen => row = p
        BY <2>2 DEF AckInv, AcknowledgedStays
      <3>2. CASE row' = row
        BY <3>1, <3>2
      <3>3. CASE row' # row
        <4>1. row'.request.gen > row.request.gen /\ row' \in Puts /\ row \in Puts /\ p \in Puts
          BY <2>2, <3>1, <3>3, WritesAreNewer, RowWrites DEF AckInv, GuardInv, TypeInv, TypeOK
        <4>2. /\ row'.request.gen \in Nat /\ row.request.gen \in Nat /\ p.request.gen \in Nat
              /\ row' # NoRow
          BY <4>1, KeysOfPuts DEF Requests
        <4> QED BY <3>1, <4>1, <4>2
      <3> QED BY <3>2, <3>3
    <2> QED BY <2>1, <2>2
  <1> QED BY <1>1, <1>2 DEF AckInv, AcknowledgedStays

LEMMA AckAlways == Spec => []AckInv
  <1>1. Init => AckInv
    BY TypeInitially DEF Init, Guarded, GuardInv, AcknowledgedStays, AckInv
  <1> QED BY <1>1, AckStep, PTL DEF Spec

\* Nothing that was answered with 200 is lost or replaced by an older payload.
THEOREM AcknowledgedAlwaysStays == Spec => []AcknowledgedStays
  <1>1. AckInv => AcknowledgedStays
    BY DEF AckInv
  <1> QED BY <1>1, AckAlways, PTL

\* What a reader has seen so far is in order with what was acknowledged before
\* it began and with what is stored now.
InOrder ==
  /\ reader.at = "email" => \A p \in reader.since : p.request.gen <= row.request.gen
  /\ reader.at = "attachments" =>
       /\ reader.email.request.gen <= row.request.gen
       /\ \A p \in reader.since : p.request.gen <= reader.email.request.gen
  /\ DetailIsOrdered

OrderInv == AckInv /\ InOrder

LEMMA InOrderStep ==
  ASSUME OrderInv, [Next]_vars
  PROVE  InOrder'
  <1> USE DEF OrderInv, AckInv, GuardInv, TypeInv
  <1>1. reader \in Readers
    BY DEF TypeOK
  <1>2. reader.at # "idle" => row \in Puts /\ row.request.gen \in Nat
    BY KeysOfPuts DEF Reading, TypeOK, Requests
  <1>3. \A p \in reader.since : p.request.gen \in Nat
    BY <1>1, KeysOfPuts DEF Readers, Requests
  <1>4. reader.at = "attachments" => reader.email \in Puts /\ reader.email.request.gen \in Nat
    BY <1>1, KeysOfPuts DEF Reading, Readers, Requests
  <1>5. CASE ~Reader
    <2>1. UNCHANGED reader
      BY <1>5, ReaderSteps
    <2>2. reader.at # "idle" => row'.request.gen >= row.request.gen /\ row'.request.gen \in Nat
      <3>1. reader.at # "idle" => row # NoRow
        BY DEF Reading
      <3>2. TypeOK'
        BY TypeStep
      <3>3. row # NoRow => row' \in Puts
        BY <3>2, RowsGrow DEF TypeOK
      <3> QED BY <3>1, <3>3, RowsGrow, KeysOfPuts DEF Requests
    <2> QED BY <1>1, <1>2, <1>3, <1>4, <2>1, <2>2 DEF InOrder, DetailIsOrdered, Readers
  <1>6. CASE Reader
    <2>1. UNCHANGED row
      BY <1>6 DEF Reader, ReadLocator, ReadEmail, ReadAttachments, OpenAttachment, HeadObject,
        StreamObject, LeavePage
    <2>2. CASE ReadLocator
      <3>1. reader'.at = "email" /\ reader'.since = acknowledged
        BY <2>2 DEF ReadLocator, Idle
      <3> QED BY <2>1, <3>1, KeysOfPuts DEF InOrder, DetailIsOrdered, AcknowledgedStays, TypeOK, Requests
    <2>3. CASE ReadEmail
      <3>1. reader'.at = "attachments" /\ reader'.since = reader.since /\ reader'.email = row
        BY <1>1, <2>3 DEF ReadEmail, Statements, Readers
      <3>2. reader.at = "email"
        BY <2>3 DEF ReadEmail
      <3> QED BY <1>2, <2>1, <3>1, <3>2 DEF InOrder, DetailIsOrdered
    <2>4. CASE ReadAttachments
      <3>1. /\ reader'.at \in {"head", "shown"} /\ reader'.since = reader.since
            /\ reader'.email = reader.email /\ reader'.files = row
        BY <1>1, <2>4 DEF ReadAttachments, Statements, Readers
      <3>2. reader.at = "attachments"
        BY <2>4 DEF ReadAttachments
      <3> QED BY <3>1, <3>2 DEF InOrder, DetailIsOrdered
    <2>5. CASE OpenAttachment \/ HeadObject \/ StreamObject \/ LeavePage
      <3>1. reader'.at \in {"idle", "head", "missing", "stream"}
        <4>1. CASE OpenAttachment
          BY <1>1, <4>1 DEF OpenAttachment, Idle, Readers
        <4>2. CASE HeadObject
          BY <1>1, <4>2 DEF HeadObject, Readers
        <4>3. CASE StreamObject
          BY <1>1, <4>3 DEF StreamObject, Idle, Readers
        <4>4. CASE LeavePage
          BY <4>4 DEF LeavePage, Idle
        <4> QED BY <2>5, <4>1, <4>2, <4>3, <4>4
      <3> QED BY <3>1 DEF InOrder, DetailIsOrdered
    <2> QED BY <1>6, <2>2, <2>3, <2>4, <2>5 DEF Reader
  <1> QED BY <1>5, <1>6

LEMMA OrderAlways == Spec => []OrderInv
  <1>1. Init => OrderInv
    BY TypeInitially DEF Init, Guarded, GuardInv, AcknowledgedStays, AckInv, OrderInv, InOrder,
      DetailIsOrdered, Idle
  <1>2. OrderInv /\ [Next]_vars => OrderInv'
    BY AckStep, InOrderStep DEF OrderInv
  <1> QED BY <1>1, <1>2, PTL DEF Spec

\* The three statements of one detail() never go back in time.
THEOREM DetailIsAlwaysOrdered == Spec => []DetailIsOrdered
  <1>1. OrderInv => DetailIsOrdered
    BY DEF OrderInv, InOrder
  <1> QED BY <1>1, OrderAlways, PTL

-----------------------------------------------------------------------------
(* Objects, when the cleanup runs alone *)

Kept(p) == \A key \in ObjectsOf(p) : objects[key] # "absent"

\* The cleanup is never at work with a handler, and deletes only what no row names.
Apart ==
  /\ cleaner.at # "idle" => \A w \in Writers : stage[w] = "idle"
  /\ cleaner.at = "delete" => row = NoRow

\* What a handler has stored so far.
Uploads ==
  \A w \in Writers :
    /\ stage[w] = "raw" => left[w] = put[w].files
    /\ stage[w] = "files" =>
         /\ objects[RawKey(put[w])] # "absent"
         /\ \A file \in put[w].files \ left[w] : objects[AttachmentKey(put[w], file)] # "absent"
    /\ stage[w] = "commit" => Kept(put[w])

\* What a reader has read is still there.
Held ==
  /\ reader.at \in {"attachments", "shown", "head", "stream"} => Kept(reader.email)
  /\ reader.at \in {"shown", "head", "stream"} => Kept(reader.files)
  /\ reader.at \in {"head", "stream"} => reader.want = "raw" \/ reader.file \in reader.files.files
  /\ reader.at # "missing"

Published == row # NoRow => Kept(row)

ObjectInv == GuardInv /\ Apart /\ Uploads /\ Published /\ Held

\* An object that is gone after a step was deleted, before any row and with no
\* handler at work.
LEMMA ObjectsStay ==
  ASSUME TypeOK, Apart, [Next]_vars,
         row # NoRow \/ \E w \in Writers : stage[w] # "idle"
  PROVE  \A key \in Keys : objects[key] # "absent" => objects'[key] # "absent"
  <1>1. cleaner.at # "delete"
    BY DEF Apart
  <1>2. CASE \E w \in Writers : StoreRaw(w) \/ StoreFile(w)
    <2>1. PICK w \in Writers : StoreRaw(w) \/ StoreFile(w)
      BY <1>2
    <2>2. UNCHANGED objects \/ \E key : Uploaded(key)
      BY <2>1 DEF StoreRaw, StoreFile, PutFails, TypeOK
    <2> QED BY <2>2 DEF TypeOK, Uploaded
  <1>3. CASE \E month \in Months : Age(month)
    BY <1>3 DEF TypeOK, Age
  <1>4. CASE \E w \in Writers : Receive(w) \/ RejectFile(w) \/ BeginCommit(w) \/ Commit(w)
               \/ CommitUnheard(w) \/ InsertLoses(w) \/ CommitFails(w)
    BY <1>4 DEF Receive, RejectFile, BeginCommit, Commit, CommitUnheard, InsertLoses, CommitFails
  <1>5. CASE Crash \/ Reader \/ Cleaner \/ UNCHANGED vars
    BY <1>1, <1>5 DEF Crash, Reader, ReadLocator, ReadEmail, ReadAttachments, OpenAttachment, HeadObject,
      StreamObject, LeavePage, Cleaner, ListPrefixes, CheckPrefix, DeletePrefix, DeleteFails,
      CleanupEnds, vars
  <1> QED BY <1>2, <1>3, <1>4, <1>5 DEF Next, Writer

LEMMA KeptStays ==
  ASSUME TypeOK, Apart, [Next]_vars,
         row # NoRow \/ \E w \in Writers : stage[w] # "idle",
         NEW p \in Puts, Kept(p)
  PROVE  Kept(p)'
  <1>1. ObjectsOf(p) \subseteq Keys
    BY KeysOfPuts DEF ObjectsOf
  <1> QED BY <1>1, ObjectsStay DEF Kept, ObjectsOf, RawKey, AttachmentKey, Month

LEMMA ApartStep ==
  ASSUME CleanerAlone, GuardInv, Apart, [Next]_vars
  PROVE  Apart'
  <1> USE DEF GuardInv, TypeInv
  <1>1. CASE \E w \in Writers : Receive(w)
    BY <1>1 DEF Receive, Apart
  <1>2. CASE \E w \in Writers : Writer(w)
    <2>1. PICK w \in Writers : Writer(w)
      BY <1>2
    <2>2. stage[w] # "idle" /\ UNCHANGED cleaner
      BY <2>1 DEF Writer, StoreRaw, StoreFile, RejectFile, BeginCommit, Commit, CommitUnheard,
        InsertLoses, CommitFails
    <2> QED BY <2>2 DEF Apart
  <1>3. CASE Crash
    BY <1>3 DEF Crash, Apart
  <1>4. CASE Reader \/ (\E month \in Months : Age(month)) \/ UNCHANGED vars
    <2>1. UNCHANGED <<row, stage, cleaner>>
      BY <1>4 DEF Reader, ReadLocator, ReadEmail, ReadAttachments, OpenAttachment, HeadObject,
        StreamObject, LeavePage, Age, vars, writerVars
    <2> QED BY <2>1 DEF Apart
  <1>5. CASE Cleaner
    <2>1. UNCHANGED <<row, stage>>
      BY <1>5 DEF Cleaner, ListPrefixes, CheckPrefix, DeletePrefix, DeleteFails, CleanupEnds, writerVars
    <2>2. CASE ListPrefixes
      BY <2>1, <2>2 DEF ListPrefixes, Apart
    <2>3. CASE CheckPrefix
      <3>1. cleaner.at = "check"
        BY <2>3 DEF CheckPrefix
      <3>2. cleaner'.at = "delete" => row = NoRow
        BY <2>3, <3>1 DEF CheckPrefix, Unlinked, TypeOK, Cleaners
      <3> QED BY <2>1, <3>1, <3>2 DEF Apart
    <2>4. CASE DeletePrefix \/ DeleteFails \/ CleanupEnds
      BY <2>1, <2>4 DEF DeletePrefix, DeleteFails, CleanupEnds, Asleep, Apart
    <2> QED BY <1>5, <2>2, <2>3, <2>4 DEF Cleaner
  <1> QED BY <1>1, <1>2, <1>3, <1>4, <1>5 DEF Next

\* A handler that is not the one that steps keeps what it has stored.
LEMMA UploadsStay ==
  ASSUME TypeOK, Apart, Uploads, [Next]_vars,
         NEW v \in Writers, stage'[v] \in {"files", "commit"},
         stage'[v] = stage[v], put'[v] = put[v], left'[v] = left[v]
  PROVE  /\ stage'[v] = "files" =>
              /\ objects'[RawKey(put[v])] # "absent"
              /\ \A file \in put[v].files \ left[v] : objects'[AttachmentKey(put[v], file)] # "absent"
         /\ stage'[v] = "commit" => Kept(put[v])'
  <1>1. put[v] \in Puts
    BY DEF TypeOK
  <1>2. /\ RawKey(put[v]) \in Keys /\ put[v].files \subseteq Files
        /\ \A file \in Files : AttachmentKey(put[v], file) \in Keys
    BY <1>1, KeysOfPuts
  <1>3. \A key \in Keys : objects[key] # "absent" => objects'[key] # "absent"
    BY ObjectsStay
  <1>4. stage'[v] = "files" =>
              /\ objects'[RawKey(put[v])] # "absent"
              /\ \A file \in put[v].files \ left[v] : objects'[AttachmentKey(put[v], file)] # "absent"
    BY <1>2, <1>3 DEF Uploads
  <1>5. stage'[v] = "commit" => Kept(put[v])'
    <2>1. SUFFICES ASSUME stage[v] = "commit"
                   PROVE  \A key \in ObjectsOf(put[v]) : objects'[key] # "absent"
      BY DEF Kept, ObjectsOf, RawKey, AttachmentKey, Month
    <2>2. Kept(put[v])
      BY <2>1 DEF Uploads
    <2> QED BY <1>2, <1>3, <2>2 DEF Kept, ObjectsOf
  <1> QED BY <1>4, <1>5

LEMMA OthersGoOn ==
  ASSUME TypeOK, NEW w \in Writers, Receive(w) \/ Writer(w), NEW v \in Writers, v # w
  PROVE  stage'[v] = stage[v] /\ put'[v] = put[v] /\ left'[v] = left[v]
  BY DEF TypeOK, Writer, Receive, StoreRaw, StoreFile, PutFails, RejectFile, BeginCommit, Commit,
    CommitUnheard, InsertLoses, CommitFails, Answered

UploadedBy(w) ==
  /\ stage[w] = "raw" => left[w] = put[w].files
  /\ stage[w] = "files" =>
       /\ objects[RawKey(put[w])] # "absent"
       /\ \A file \in put[w].files \ left[w] : objects[AttachmentKey(put[w], file)] # "absent"
  /\ stage[w] = "commit" => Kept(put[w])

LEMMA StoreRawUploads ==
  ASSUME TypeOK, Uploads, NEW w \in Writers, StoreRaw(w)
  PROVE  UploadedBy(w)'
  <1>1. CASE Answered(w)
    BY <1>1 DEF TypeOK, Answered, UploadedBy
  <1>2. CASE ~Answered(w)
    <2>1. /\ Uploaded(RawKey(put[w])) /\ stage' = [stage EXCEPT ![w] = "files"]
          /\ UNCHANGED <<put, left>> /\ left[w] = put[w].files
      BY <1>2 DEF StoreRaw, PutFails, Uploads
    <2>2. RawKey(put[w]) \in Keys
      BY KeysOfPuts DEF TypeOK, StoreRaw
    <2>3. objects'[RawKey(put[w])] # "absent"
      BY <2>1, <2>2 DEF TypeOK, Uploaded
    <2>4. RawKey(put[w])' = RawKey(put[w])
      BY <2>1 DEF RawKey, Month
    <2> QED BY <2>1, <2>3, <2>4 DEF TypeOK, UploadedBy
  <1> QED BY <1>1, <1>2

LEMMA StoreFileUploads ==
  ASSUME TypeOK, Uploads, NEW w \in Writers, StoreFile(w),
         \A key \in Keys : objects[key] # "absent" => objects'[key] # "absent"
  PROVE  UploadedBy(w)'
  <1>1. CASE Answered(w)
    BY <1>1 DEF TypeOK, Answered, UploadedBy
  <1>2. CASE ~Answered(w)
    <2>1. PICK file \in left[w] : /\ Uploaded(AttachmentKey(put[w], file))
                                 /\ left' = [left EXCEPT ![w] = @ \ {file}]
                                 /\ UNCHANGED <<stage, put>>
      BY <1>2 DEF StoreFile, PutFails
    <2>2. /\ put[w] \in Puts /\ file \in Files /\ stage'[w] = "files" /\ left'[w] = left[w] \ {file}
          /\ put'[w] = put[w]
      BY <2>1 DEF TypeOK, StoreFile
    <2>3. /\ RawKey(put[w]) \in Keys /\ put[w].files \subseteq Files
          /\ \A f \in Files : AttachmentKey(put[w], f) \in Keys
      BY <2>2, KeysOfPuts
    <2>4. objects'[RawKey(put[w])] # "absent"
      BY <2>3 DEF StoreFile, Uploads
    <2>5. ASSUME NEW f \in put[w].files \ left'[w]
          PROVE  objects'[AttachmentKey(put[w], f)] # "absent"
      <3>1. CASE f = file
        BY <2>1, <2>2, <2>3, <3>1 DEF TypeOK, Uploaded
      <3>2. CASE f # file
        BY <2>2, <2>3, <2>5, <3>2 DEF StoreFile, Uploads
      <3> QED BY <3>1, <3>2
    <2>6. UNCHANGED put
      BY <2>1
    <2> QED BY <2>2, <2>4, <2>5, <2>6 DEF UploadedBy, RawKey, AttachmentKey, Month
  <1> QED BY <1>1, <1>2

LEMMA UploadsStep ==
  ASSUME TypeOK, Apart, Uploads, [Next]_vars
  PROVE  Uploads'
  <1> SUFFICES ASSUME NEW v \in Writers PROVE UploadedBy(v)'
    BY DEF Uploads, UploadedBy
  <1>1. CASE stage'[v] = stage[v] /\ put'[v] = put[v] /\ left'[v] = left[v]
    <2>1. stage'[v] = "raw" => left'[v] = put'[v].files
      BY <1>1 DEF Uploads
    <2>2. CASE stage'[v] \in {"files", "commit"}
      <3>1. /\ stage'[v] = "files" =>
                /\ objects'[RawKey(put[v])] # "absent"
                /\ \A file \in put[v].files \ left[v] : objects'[AttachmentKey(put[v], file)] # "absent"
            /\ stage'[v] = "commit" => Kept(put[v])'
        BY <1>1, <2>2, UploadsStay
      <3>2. RawKey(put[v])' = RawKey(put[v])
        BY <1>1 DEF RawKey, Month
      <3>3. \A file : AttachmentKey(put[v], file)' = AttachmentKey(put[v], file)
        BY <1>1 DEF AttachmentKey, Month
      <3> QED BY <1>1, <2>1, <3>1, <3>2, <3>3 DEF UploadedBy
    <2> QED BY <2>1, <2>2 DEF UploadedBy
  <1>2. CASE \E w \in Writers : Receive(w) \/ Writer(w)
    <2>1. PICK w \in Writers : Receive(w) \/ Writer(w)
      BY <1>2
    <2>2. CASE v # w
      BY <1>1, <2>1, <2>2, OthersGoOn
    <2>3. CASE v = w
      <3>1. CASE Receive(w)
        <4>1. stage'[w] = "raw" /\ left'[w] = put'[w].files
          BY <3>1 DEF TypeOK, Receive
        <4> QED BY <2>3, <4>1 DEF UploadedBy
      <3>2. CASE StoreRaw(w)
        BY <2>3, <3>2, StoreRawUploads
      <3>3. CASE StoreFile(w)
        <4>1. stage[w] # "idle"
          BY <3>3 DEF StoreFile
        <4> QED BY <2>3, <3>3, <4>1, StoreFileUploads, ObjectsStay
      <3>4. CASE Answered(w)
        BY <2>3, <3>4 DEF TypeOK, Answered, UploadedBy
      <3>5. CASE BeginCommit(w) /\ ~Answered(w)
        <4>1. stage'[w] = "commit" /\ UNCHANGED <<put, left, objects>> /\ stage[w] = "files" /\ left[w] = {}
          BY <3>5 DEF TypeOK, BeginCommit
        <4>2. Kept(put[w])
          BY <4>1 DEF Uploads, Kept, ObjectsOf
        <4>3. Kept(put[w])'
          BY <4>1, <4>2 DEF Kept, ObjectsOf, RawKey, AttachmentKey, Month
        <4> QED BY <2>3, <4>1, <4>3 DEF UploadedBy
      <3> QED BY <2>1, <3>1, <3>2, <3>3, <3>4, <3>5
        DEF Writer, RejectFile, Commit, CommitUnheard, InsertLoses, CommitFails
    <2> QED BY <2>2, <2>3
  <1>3. CASE Crash
    BY <1>3 DEF Crash, UploadedBy
  <1>4. CASE Reader \/ Cleaner \/ (\E month \in Months : Age(month)) \/ UNCHANGED vars
    <2>1. UNCHANGED <<stage, put, left>>
      BY <1>4 DEF Reader, ReadLocator, ReadEmail, ReadAttachments, OpenAttachment, HeadObject,
        StreamObject, LeavePage, Cleaner, ListPrefixes, CheckPrefix, DeletePrefix, DeleteFails,
        CleanupEnds, Age, vars, writerVars
    <2> QED BY <1>1, <2>1
  <1> QED BY <1>2, <1>3, <1>4 DEF Next

\* Rows are written by a handler that has stored their objects, and these stay.
LEMMA PublishedStep ==
  ASSUME GuardInv, Apart, Uploads, Published, [Next]_vars
  PROVE  Published'
  <1> USE DEF GuardInv, TypeInv
  <1>1. CASE row' = row
    <2>1. SUFFICES ASSUME row # NoRow PROVE Kept(row)'
      BY <1>1 DEF Published
    <2>2. PICK p \in Puts : p = row /\ p = row'
      BY <1>1, <2>1 DEF TypeOK
    <2>3. Kept(p)
      BY <2>1, <2>2 DEF Published
    <2>4. Kept(p)'
      BY <2>1, <2>3, KeptStays
    <2> QED BY <2>2, <2>4 DEF Kept
  <1>2. CASE row' # row
    <2>1. PICK w \in Writers : stage[w] = "commit" /\ row' = put[w] /\ put[w] \in Puts
      BY <1>2, RowSteps
    <2>2. PICK p \in Puts : p = put[w] /\ p = row'
      BY <2>1
    <2>3. Kept(p)
      BY <2>1, <2>2 DEF Uploads
    <2>4. Kept(p)'
      BY <2>1, <2>3, KeptStays
    <2> QED BY <2>2, <2>4 DEF Published, Kept
  <1> QED BY <1>1, <1>2

\* The object a reader opens is one of a row it has read.
LEMMA WantedIsThere ==
  ASSUME TypeOK, Reading, Held, reader.at \in {"head", "stream"}
  PROVE  objects[Wanted] # "absent"
  <1>1. CASE reader.want = "raw"
    BY <1>1 DEF Held, Kept, ObjectsOf, Wanted
  <1>2. CASE reader.want # "raw"
    BY <1>2 DEF Held, Kept, ObjectsOf, Wanted
  <1> QED BY <1>1, <1>2

LEMMA HeldStep ==
  ASSUME GuardInv, Apart, Published, Held, [Next]_vars
  PROVE  Held'
  <1> USE DEF GuardInv, TypeInv
  <1>1. reader \in Readers
    BY DEF TypeOK
  <1>2. ASSUME NEW p \in Puts, Kept(p), reader.at # "idle"
        PROVE  Kept(p)'
    BY <1>2, KeptStays DEF Reading
  <1>3. reader.at \in {"attachments", "shown", "head", "stream"} =>
          reader.email \in Puts /\ (Kept(reader.email) => \A key \in ObjectsOf(reader.email) : objects'[key] # "absent")
    <2>1. SUFFICES ASSUME reader.at \in {"attachments", "shown", "head", "stream"}
                   PROVE  reader.email \in Puts
                          /\ (Kept(reader.email) => \A key \in ObjectsOf(reader.email) : objects'[key] # "absent")
      OBVIOUS
    <2>2. PICK p \in Puts : p = reader.email
      BY <1>1, <2>1 DEF Reading, Readers
    <2>3. Kept(p) => Kept(p)'
      BY <1>2, <2>1
    <2>4. Kept(p) => \A key \in ObjectsOf(p) : objects'[key] # "absent"
      BY <2>3 DEF Kept, ObjectsOf, RawKey, AttachmentKey, Month
    <2> QED BY <2>2, <2>4
  <1>4. reader.at \in {"shown", "head", "stream"} =>
          reader.files \in Puts /\ (Kept(reader.files) => \A key \in ObjectsOf(reader.files) : objects'[key] # "absent")
    <2>1. SUFFICES ASSUME reader.at \in {"shown", "head", "stream"}
                   PROVE  reader.files \in Puts
                          /\ (Kept(reader.files) => \A key \in ObjectsOf(reader.files) : objects'[key] # "absent")
      OBVIOUS
    <2>2. PICK p \in Puts : p = reader.files
      BY <1>1, <2>1 DEF Reading, Readers
    <2>3. Kept(p) => Kept(p)'
      BY <1>2, <2>1
    <2>4. Kept(p) => \A key \in ObjectsOf(p) : objects'[key] # "absent"
      BY <2>3 DEF Kept, ObjectsOf, RawKey, AttachmentKey, Month
    <2> QED BY <2>2, <2>4
  <1>5. CASE UNCHANGED reader
    <2>1. /\ reader.at \in {"attachments", "shown", "head", "stream"} =>
               \A key \in ObjectsOf(reader.email) : objects'[key] # "absent"
          /\ reader.at \in {"shown", "head", "stream"} =>
               \A key \in ObjectsOf(reader.files) : objects'[key] # "absent"
      BY <1>3, <1>4 DEF Held
    <2>2. /\ ObjectsOf(reader.email)' = ObjectsOf(reader.email)
          /\ ObjectsOf(reader.files)' = ObjectsOf(reader.files)
      BY <1>5 DEF ObjectsOf, RawKey, AttachmentKey, Month
    <2> QED BY <1>5, <2>1, <2>2 DEF Held, Kept
  <1>6. CASE Reader
    <2>1. UNCHANGED <<row, objects>>
      BY <1>6 DEF Reader, ReadLocator, ReadEmail, ReadAttachments, OpenAttachment, HeadObject,
        StreamObject, LeavePage
    <2>2. ASSUME reader'.at \in {"idle", "email"}
          PROVE  Held'
      BY <2>2 DEF Held
    <2>3. CASE ReadLocator
      <3>1. reader'.at = "email"
        BY <2>3 DEF ReadLocator, Idle
      <3> QED BY <2>2, <3>1
    <2>4. CASE ReadEmail
      <3>1. reader'.at = "attachments" /\ reader'.email = row /\ reader.at = "email"
        BY <1>1, <2>4 DEF ReadEmail, Statements, Readers
      <3>2. Kept(row)
        BY <3>1 DEF Published, Reading
      <3>3. Kept(reader.email)'
        BY <2>1, <3>1, <3>2 DEF Kept, ObjectsOf, RawKey, AttachmentKey, Month
      <3> QED BY <3>1, <3>3 DEF Held
    <2>5. CASE ReadAttachments
      <3>1. /\ reader'.at = IF reader.want = "raw" THEN "head" ELSE "shown"
            /\ reader'.want = reader.want
            /\ reader'.email = reader.email /\ reader'.files = row /\ reader.at = "attachments"
        BY <1>1, <2>5 DEF ReadAttachments, Statements, Readers
      <3>2. Kept(row) /\ Kept(reader.email)
        BY <3>1 DEF Published, Reading, Held
      <3>3. Kept(reader.email)' /\ Kept(reader.files)'
        BY <2>1, <3>1, <3>2 DEF Kept, ObjectsOf, RawKey, AttachmentKey, Month
      <3> QED BY <3>1, <3>3 DEF Held
    <2>6. CASE OpenAttachment
      <3>1. PICK file \in reader.files.files :
              reader' = IF row = reader.files
                        THEN [reader EXCEPT !.at = "head", !.want = "attachment", !.file = file]
                        ELSE Idle
        BY <2>6 DEF OpenAttachment
      <3>2. CASE row = reader.files
        <4>1. /\ reader'.at = "head" /\ reader'.file = file
              /\ reader'.email = reader.email /\ reader'.files = reader.files /\ reader.at = "shown"
          BY <1>1, <2>6, <3>1, <3>2 DEF OpenAttachment, Readers
        <4>2. Kept(reader.files) /\ Kept(reader.email)
          BY <4>1 DEF Held
        <4>3. Kept(reader.email)' /\ Kept(reader.files)'
          BY <2>1, <4>1, <4>2 DEF Kept, ObjectsOf, RawKey, AttachmentKey, Month
        <4> QED BY <4>1, <4>3 DEF Held
      <3>3. CASE row # reader.files
        <4>1. reader'.at = "idle"
          BY <3>1, <3>3 DEF Idle
        <4> QED BY <2>2, <4>1
      <3> QED BY <3>2, <3>3
    <2>7. CASE HeadObject
      <3>1. reader.at = "head" /\ objects[Wanted] # "absent"
        BY <2>7, WantedIsThere DEF HeadObject
      <3>2. /\ reader'.at = "stream" /\ reader'.want = reader.want /\ reader'.file = reader.file
            /\ reader'.email = reader.email /\ reader'.files = reader.files
        BY <1>1, <2>7, <3>1 DEF HeadObject, Readers
      <3>3. Kept(reader.files) /\ Kept(reader.email)
        BY <3>1 DEF Held
      <3>4. Kept(reader.email)' /\ Kept(reader.files)'
        BY <2>1, <3>2, <3>3 DEF Kept, ObjectsOf, RawKey, AttachmentKey, Month
      <3> QED BY <3>1, <3>2, <3>4 DEF Held
    <2>8. CASE StreamObject
      <3>1. reader' = Idle
        BY <2>8, WantedIsThere DEF StreamObject
      <3> QED BY <2>2, <3>1 DEF Idle
    <2>9. CASE LeavePage
      BY <2>2, <2>9 DEF LeavePage, Idle
    <2> QED BY <1>6, <2>3, <2>4, <2>5, <2>6, <2>7, <2>8, <2>9 DEF Reader
  <1> QED BY <1>5, <1>6, ReaderSteps

LEMMA ObjectStep ==
  ASSUME CleanerAlone, ObjectInv, [Next]_vars
  PROVE  ObjectInv'
  <1>1. GuardInv'
    BY TypeStep, GuardedStep DEF ObjectInv, GuardInv, TypeInv
  <1>2. Apart' /\ Uploads' /\ Published' /\ Held'
    BY ApartStep, UploadsStep, PublishedStep, HeldStep DEF ObjectInv, GuardInv, TypeInv
  <1> QED BY <1>1, <1>2 DEF ObjectInv

LEMMA ObjectInitially == Init => ObjectInv
  <1> SUFFICES ASSUME Init PROVE ObjectInv
    OBVIOUS
  <1>1. GuardInv
    BY TypeInitially DEF Init, Guarded, GuardInv
  <1>2. Apart /\ Uploads /\ Published /\ Held
    BY DEF Init, Apart, Uploads, Published, Held, Asleep, Idle
  <1> QED BY <1>1, <1>2 DEF ObjectInv

\* When the cleanup is not run while a PUT is in progress, whatever is stored or
\* was read names objects that are there.
THEOREM PublishedObjectsAlwaysExist ==
  ASSUME CleanerAlone
  PROVE  Spec => []PublishedObjectsExist
  <1>1. ObjectInv /\ [Next]_vars => ObjectInv'
    BY ObjectStep
  <1>2. ObjectInv => PublishedObjectsExist
    BY DEF ObjectInv, Published, Kept, Held, PublishedObjectsExist
  <1> QED BY ObjectInitially, <1>1, <1>2, PTL DEF Spec
=============================================================================
