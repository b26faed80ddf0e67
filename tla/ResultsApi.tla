----------------------------- MODULE ResultsApi -----------------------------
(***************************************************************************)
(* The Results API around the rows of one message: the PUT handlers that   *)
(* put its objects into S3 and then commit its rows (services/ingestion.py,*)
(* db.py), the readers of its detail and of its files (main.py), and the   *)
(* orphan cleanup of maintenance.py.  The handlers run concurrently; each  *)
(* awaits S3 and PostgreSQL, so each stage is a step of its own.           *)
(*                                                                         *)
(* The three tables are written by one transaction, so `row' is the        *)
(* request whose rows are committed.  ResultsStore says what one PUT does  *)
(* to it; here a PUT is a transaction that first locks and reads.          *)
(***************************************************************************)
EXTENDS ResultsStore, FiniteSets

CONSTANTS
  Writers,        \* concurrent PUT handlers
  Puts,           \* the PUTs a client may send: payload and attachments
  Files,          \* attachments by sha256 and safe_filename
  Months,         \* the year and month of a received_at
  MonthOf,        \* [dates -> Months]
  NoRow,
  Nobody,
  CleanerAlone,   \* the cleanup is run while no PUT is in progress
  MaxPuts, MaxFaults

ASSUME PutsAssumption ==
  /\ \A p \in Puts : /\ p.request \in Requests
                     /\ p.files \subseteq Files
                     /\ MonthOf[p.request.received] \in Months
  \* the fingerprint covers the list of files and received_at
  /\ \A p, q \in Puts : p.request.fingerprint = q.request.fingerprint => p = q
ASSUME NamesAssumption == NoRow \notin Puts /\ Nobody \notin Writers /\ "raw" \notin Files
ASSUME BoundsAssumption == CleanerAlone \in BOOLEAN /\ MaxPuts \in Nat /\ MaxFaults \in Nat

VARIABLES
  objects,        \* S3: [Keys -> {"absent", "fresh", "old"}], old: LastModified is before the cutoff
  row,            \* PostgreSQL: the PUT whose rows are committed
  lock,           \* the transaction that holds FOR UPDATE on the locator
  stage, put, left, seen,   \* per handler: where it is, its payload, the files to store, the locator it read
  acknowledged,   \* PUTs answered with 200 (history)
  reader,         \* one reading client
  cleaner,        \* the orphan cleanup
  puts, faults    \* how many there were: bounded by MaxPuts and MaxFaults

writerVars == <<lock, stage, put, left, seen>>
vars == <<objects, row, writerVars, acknowledged, reader, cleaner, puts, faults>>

Keys == Months \X (Files \cup {"raw"})
Prefix(month) == {key \in Keys : key[1] = month}

Month(p) == MonthOf[p.request.received]
RawKey(p) == <<Month(p), "raw">>
AttachmentKey(p, file) == <<Month(p), file>>

Present(keys) == {key \in keys : objects[key] # "absent"}

StoreOf(r) ==
  IF r = NoRow THEN EmptyStore
  ELSE [stored |-> TRUE, gen |-> r.request.gen, fingerprint |-> r.request.fingerprint,
        received |-> r.request.received, review |-> r.request.review]

Idle == [at |-> "idle", want |-> "detail", email |-> NoRow, files |-> NoRow, file |-> "raw", since |-> {}]
Asleep == [at |-> "idle", prefixes |-> {}]

Init ==
  /\ objects = [key \in Keys |-> "absent"]
  /\ row = NoRow
  /\ lock = Nobody
  /\ stage = [w \in Writers |-> "idle"]
  /\ put = [w \in Writers |-> NoRow]
  /\ left = [w \in Writers |-> {}]
  /\ seen = [w \in Writers |-> NoRow]
  /\ acknowledged = {}
  /\ reader = Idle
  /\ cleaner = Asleep
  /\ puts = 0 /\ faults = 0

-----------------------------------------------------------------------------
(* PUT /internal/emails/{record_id} *)

\* The request is parsed, its path, key and file mapping are checked.
Receive(w) ==
  /\ stage[w] = "idle" /\ puts < MaxPuts
  /\ CleanerAlone => cleaner.at = "idle"
  /\ \E p \in Puts :
       /\ put' = [put EXCEPT ![w] = p]
       /\ left' = [left EXCEPT ![w] = p.files]
  /\ stage' = [stage EXCEPT ![w] = "raw"]
  /\ puts' = puts + 1
  /\ UNCHANGED <<objects, row, lock, seen, acknowledged, reader, cleaner, faults>>

\* Mutant: the transaction of a handler that has answered is left open.
AnsweredStillLocked(w) ==
  /\ stage' = [stage EXCEPT ![w] = "idle"]
  /\ put' = [put EXCEPT ![w] = NoRow]
  /\ left' = [left EXCEPT ![w] = {}]
  /\ seen' = [seen EXCEPT ![w] = NoRow]
  /\ UNCHANGED lock

\* The handler answers and its transaction, if any, is over.
Answered(w) ==
  /\ stage' = [stage EXCEPT ![w] = "idle"]
  /\ put' = [put EXCEPT ![w] = NoRow]
  /\ left' = [left EXCEPT ![w] = {}]
  /\ seen' = [seen EXCEPT ![w] = NoRow]
  /\ lock' = IF lock = w THEN Nobody ELSE lock

Fault == faults < MaxFaults /\ faults' = faults + 1

\* Mutant: put_verified believes an upload it has not verified with HEAD.
UploadedUnverified(key) ==
  \/ objects' = [objects EXCEPT ![key] = "fresh"]
  \/ UNCHANGED objects

Uploaded(key) == objects' = [objects EXCEPT ![key] = "fresh"]

\* The upload or the HEAD behind it fails: the object may be there or not; 503.
PutFails(w, key) ==
  /\ Fault
  /\ Uploaded(key) \/ UNCHANGED objects
  /\ Answered(w)

StoreRaw(w) ==
  /\ stage[w] = "raw"
  /\ \/ /\ Uploaded(RawKey(put[w]))
        /\ stage' = [stage EXCEPT ![w] = "files"]
        /\ UNCHANGED <<lock, put, left, seen, faults>>
     \/ PutFails(w, RawKey(put[w]))
  /\ UNCHANGED <<row, acknowledged, reader, cleaner, puts>>

StoreFile(w) ==
  /\ stage[w] = "files"
  /\ \E file \in left[w] :
       \/ /\ Uploaded(AttachmentKey(put[w], file))
          /\ left' = [left EXCEPT ![w] = @ \ {file}]
          /\ UNCHANGED <<lock, stage, put, seen, faults>>
       \/ PutFails(w, AttachmentKey(put[w], file))
  /\ UNCHANGED <<row, acknowledged, reader, cleaner, puts>>

\* A part that is not what its metadata says is found after earlier parts are stored: 422.
RejectFile(w) ==
  /\ stage[w] = "files" /\ left[w] # {}
  /\ Fault
  /\ Answered(w)
  /\ UNCHANGED <<objects, row, acknowledged, reader, cleaner, puts>>

\* Mutant: the locator is read without FOR UPDATE.
LockedNever == FALSE

Locked == lock # Nobody

\* commit() reads the locator FOR UPDATE, which waits for a transaction that holds it.
BeginCommit(w) ==
  /\ stage[w] = "files" /\ left[w] = {}
  /\ row # NoRow => ~Locked
  /\ \/ /\ Conflicts(StoreOf(row), put[w].request)
        /\ Answered(w)
        /\ UNCHANGED acknowledged
     \/ /\ Same(StoreOf(row), put[w].request)
        /\ acknowledged' = acknowledged \cup {put[w]}
        /\ Answered(w)
     \/ /\ ~Conflicts(StoreOf(row), put[w].request)
        /\ ~Same(StoreOf(row), put[w].request)
        /\ stage' = [stage EXCEPT ![w] = "commit"]
        /\ seen' = [seen EXCEPT ![w] = row]
        /\ lock' = IF row = NoRow THEN lock ELSE w
        /\ UNCHANGED <<put, left, acknowledged>>
  /\ UNCHANGED <<objects, row, reader, cleaner, puts, faults>>

\* Mutant: the insert becomes an upsert of the locator.
CanAlwaysWrite(w) == TRUE

\* The locator is inserted unless another transaction has inserted one.
CanWrite(w) == seen[w] = NoRow => row = NoRow

Commit(w) ==
  /\ stage[w] = "commit" /\ CanWrite(w)
  /\ row' = put[w]
  /\ acknowledged' = acknowledged \cup {put[w]}
  /\ Answered(w)
  /\ UNCHANGED <<objects, reader, cleaner, puts, faults>>

\* The transaction is committed and the connection breaks before that is known: 503.
CommitUnheard(w) ==
  /\ stage[w] = "commit" /\ CanWrite(w)
  /\ Fault
  /\ row' = put[w]
  /\ Answered(w)
  /\ UNCHANGED <<objects, acknowledged, reader, cleaner, puts>>

\* IntegrityError of the second of two inserts: rolled back, 503.
InsertLoses(w) ==
  /\ stage[w] = "commit" /\ ~CanWrite(w)
  /\ Answered(w)
  /\ UNCHANGED <<objects, row, acknowledged, reader, cleaner, puts, faults>>

CommitFails(w) ==
  /\ stage[w] = "commit"
  /\ Fault
  /\ Answered(w)
  /\ UNCHANGED <<objects, row, acknowledged, reader, cleaner, puts>>

\* The API process ends: handlers are gone, PostgreSQL rolls their transactions back.
Crash ==
  /\ \E w \in Writers : stage[w] # "idle"
  /\ Fault
  /\ stage' = [w \in Writers |-> "idle"]
  /\ put' = [w \in Writers |-> NoRow]
  /\ left' = [w \in Writers |-> {}]
  /\ seen' = [w \in Writers |-> NoRow]
  /\ lock' = Nobody
  /\ UNCHANGED <<objects, row, acknowledged, reader, cleaner, puts>>

Writer(w) ==
  \/ StoreRaw(w) \/ StoreFile(w) \/ RejectFile(w) \/ BeginCommit(w)
  \/ Commit(w) \/ CommitUnheard(w) \/ InsertLoses(w) \/ CommitFails(w)

-----------------------------------------------------------------------------
(* The readers: statements of one session, each sees what is committed then *)

\* detail() and the raw download that uses it find the locator.
ReadLocator ==
  /\ reader.at = "idle" /\ row # NoRow
  /\ \E want \in {"detail", "raw"} :
       reader' = [Idle EXCEPT !.at = "email", !.want = want, !.since = acknowledged]
  /\ UNCHANGED <<objects, row, writerVars, acknowledged, cleaner, puts, faults>>

\* Mutant: the attachments are read before the e-mail.
StatementsSwapped == <<"files", "email">>

\* Which column of the reader the first and the second statement fill.
Statements == <<"email", "files">>

ReadEmail ==
  /\ reader.at = "email"
  /\ reader' = [reader EXCEPT !.at = "attachments", ![Statements[1]] = row]
  /\ UNCHANGED <<objects, row, writerVars, acknowledged, cleaner, puts, faults>>

ReadAttachments ==
  /\ reader.at = "attachments"
  /\ reader' = [reader EXCEPT !.at = IF reader.want = "raw" THEN "head" ELSE "shown",
                             ![Statements[2]] = row]
  /\ UNCHANGED <<objects, row, writerVars, acknowledged, cleaner, puts, faults>>

\* An attachment is asked for by the id the detail showed; a newer generation has other ids: 404.
OpenAttachment ==
  /\ reader.at = "shown"
  /\ \E file \in reader.files.files :
       reader' = IF row = reader.files
                 THEN [reader EXCEPT !.at = "head", !.want = "attachment", !.file = file]
                 ELSE Idle
  /\ UNCHANGED <<objects, row, writerVars, acknowledged, cleaner, puts, faults>>

Wanted == IF reader.want = "raw" THEN RawKey(reader.email) ELSE AttachmentKey(reader.files, reader.file)

\* HEAD decides between 404 and the stream; the stream opens the object once more.
HeadObject ==
  /\ reader.at = "head"
  /\ reader' = [reader EXCEPT !.at = IF objects[Wanted] = "absent" THEN "missing" ELSE "stream"]
  /\ UNCHANGED <<objects, row, writerVars, acknowledged, cleaner, puts, faults>>

StreamObject ==
  /\ reader.at = "stream"
  /\ reader' = IF objects[Wanted] = "absent" THEN [reader EXCEPT !.at = "missing"] ELSE Idle
  /\ UNCHANGED <<objects, row, writerVars, acknowledged, cleaner, puts, faults>>

LeavePage ==
  /\ reader.at \in {"shown", "missing"}
  /\ reader' = Idle
  /\ UNCHANGED <<objects, row, writerVars, acknowledged, cleaner, puts, faults>>

Reader == ReadLocator \/ ReadEmail \/ ReadAttachments \/ OpenAttachment
            \/ HeadObject \/ StreamObject \/ LeavePage

-----------------------------------------------------------------------------
(* mail-results-orphans *)

\* The retention passes; it is longer than any PUT takes.
Age(month) ==
  /\ \E key \in Prefix(month) : objects[key] = "fresh"
  /\ \A w \in Writers : stage[w] # "idle" => Month(put[w]) # month
  /\ objects' = [key \in Keys |-> IF key[1] = month /\ objects[key] = "fresh" THEN "old" ELSE objects[key]]
  /\ UNCHANGED <<row, writerVars, acknowledged, reader, cleaner, puts, faults>>

\* Mutant: a prefix is recognised by its attachments only.
PrefixesOfAttachments ==
  {month \in Months : /\ Present(Prefix(month)) \ {<<month, "raw">>} # {}
                      /\ \A key \in Prefix(month) : objects[key] # "fresh"}

\* Prefixes whose newest object is before the cutoff.
OrphanPrefixes ==
  {month \in Months : /\ Present(Prefix(month)) # {}
                      /\ \A key \in Prefix(month) : objects[key] # "fresh"}

ListPrefixes ==
  /\ cleaner.at = "idle" /\ OrphanPrefixes # {}
  /\ CleanerAlone => \A w \in Writers : stage[w] = "idle"
  /\ cleaner' = [at |-> "check", prefixes |-> OrphanPrefixes]
  /\ UNCHANGED <<objects, row, writerVars, acknowledged, reader, puts, faults>>

Unlinked == row = NoRow

\* The locator is looked up by the record id in a session of its own, closed before the deletion.
CheckPrefix ==
  /\ cleaner.at = "check"
  /\ \E month \in cleaner.prefixes :
       cleaner' = IF Unlinked THEN [at |-> "delete", prefixes |-> cleaner.prefixes, month |-> month]
                  ELSE [cleaner EXCEPT !.prefixes = @ \ {month}]
  /\ UNCHANGED <<objects, row, writerVars, acknowledged, reader, puts, faults>>

\* Every object the prefix has now is deleted, whenever it was stored.
DeletePrefix ==
  /\ cleaner.at = "delete"
  /\ objects' = [key \in Keys |-> IF key[1] = cleaner.month THEN "absent" ELSE objects[key]]
  /\ cleaner' = [at |-> "check", prefixes |-> cleaner.prefixes \ {cleaner.month}]
  /\ UNCHANGED <<row, writerVars, acknowledged, reader, puts, faults>>

\* S3 fails between two pages: some are deleted and the command ends.
DeleteFails ==
  /\ cleaner.at = "delete"
  /\ Fault
  /\ \E gone \in SUBSET Prefix(cleaner.month) :
       objects' = [key \in Keys |-> IF key \in gone THEN "absent" ELSE objects[key]]
  /\ cleaner' = Asleep
  /\ UNCHANGED <<row, writerVars, acknowledged, reader, puts>>

CleanupEnds ==
  /\ cleaner.at = "check" /\ cleaner.prefixes = {}
  /\ cleaner' = Asleep
  /\ UNCHANGED <<objects, row, writerVars, acknowledged, reader, puts, faults>>

Cleaner == ListPrefixes \/ CheckPrefix \/ DeletePrefix \/ DeleteFails \/ CleanupEnds

-----------------------------------------------------------------------------
Next ==
  \/ \E w \in Writers : Receive(w) \/ Writer(w)
  \/ Crash
  \/ Reader
  \/ Cleaner
  \/ \E month \in Months : Age(month)

Spec == Init /\ [][Next]_vars

\* A handler goes on, the cleanup is run again and again, time passes.
Fairness ==
  /\ \A w \in Writers : WF_vars(Writer(w))
  /\ WF_vars(Cleaner)
  /\ \A month \in Months : WF_vars(Age(month))

FairSpec == Spec /\ Fairness

-----------------------------------------------------------------------------
(* Properties *)

Stages == {"idle", "raw", "files", "commit"}

Readers ==
  [at : {"idle", "email", "attachments", "shown", "head", "stream", "missing"},
   want : {"detail", "raw", "attachment"}, email : Puts \cup {NoRow}, files : Puts \cup {NoRow},
   file : Files \cup {"raw"}, since : SUBSET Puts]

Cleaners ==
  [at : {"idle", "check"}, prefixes : SUBSET Months]
    \cup [at : {"delete"}, prefixes : SUBSET Months, month : Months]

\* Every variable has its type; a handler that is not idle has a payload, and
\* only one that is about to commit holds the locator.
TypeOK ==
  /\ objects \in [Keys -> {"absent", "fresh", "old"}]
  /\ row \in Puts \cup {NoRow}
  /\ lock \in Writers \cup {Nobody}
  /\ stage \in [Writers -> Stages]
  /\ put \in [Writers -> Puts \cup {NoRow}]
  /\ left \in [Writers -> SUBSET Files]
  /\ seen \in [Writers -> Puts \cup {NoRow}]
  /\ \A w \in Writers : stage[w] # "idle" => put[w] # NoRow
  /\ lock # Nobody => stage[lock] = "commit"
  /\ acknowledged \subseteq Puts
  /\ reader \in Readers /\ cleaner \in Cleaners
  /\ puts \in 0 .. MaxPuts /\ faults \in 0 .. MaxFaults

ObjectsOf(p) == {RawKey(p)} \cup {AttachmentKey(p, file) : file \in p.files}

\* Every object the committed rows name is in S3, whichever PUT failed or was
\* refused before or after: objects are stored before the transaction, an
\* upload counts only after its HEAD, and the cleanup spares linked prefixes.
\* So does a reader that has read a row find its object, though the rows may
\* have been replaced since, and HEAD and GET are separate calls.
PublishedObjectsExist ==
  /\ row # NoRow => \A key \in ObjectsOf(row) : objects[key] # "absent"
  /\ reader.at # "missing"

\* Once a PUT was answered with 200 its generation, or a newer one, is stored;
\* of its own generation nothing but its own payload.
AcknowledgedStays ==
  \A p \in acknowledged :
    /\ row # NoRow
    /\ row.request.gen >= p.request.gen
    /\ row.request.gen = p.request.gen => row = p

\* A detail shows an e-mail at least as new as every PUT acknowledged before the
\* reading began, and never attachments older than the e-mail (they may be
\* newer: the statements of detail() are separate).
DetailIsOrdered ==
  reader.at = "shown" =>
    /\ \A p \in reader.since : p.request.gen <= reader.email.request.gen
    /\ reader.email.request.gen <= reader.files.request.gen

\* Concurrent PUTs are the atomic ones of ResultsStore: the rows change only as
\* one PUT changes them, and that PUT is neither older than they are nor in
\* conflict with them at the moment of the change.
PutsAreAtomic ==
  [][row' # row =>
       \E p \in Puts : /\ ~Conflicts(StoreOf(row), p.request)
                       /\ row' = p
                       /\ StoreOf(p) = CommitRequest(StoreOf(row), p.request)]_vars

\* Objects of a record that has no locator are deleted in the end, also after a
\* cleanup that failed half-way.
OrphansGo == []<>(row # NoRow \/ Present(Keys) = {})

=============================================================================
