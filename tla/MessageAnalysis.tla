--------------------------- MODULE MessageAnalysis ---------------------------
(***************************************************************************)
(* AnalysisService.summarize, in several threads over one LLM client.  A   *)
(* long text is cut into chunks, a sample of them is digested, and the     *)
(* digests are reduced in groups until one is left.  What could be read is *)
(* then summarised, in full or, if that fails, in a short form.            *)
(*                                                                         *)
(* A chunk is named by its level (of a forwarded chain; 1 for other texts) *)
(* and its number; a digest is the set of the chunks it accounts for.      *)
(***************************************************************************)
EXTENDS LlmClient, FiniteSets, Sequences

CONSTANTS
  Messages,      \* the shapes of message there are
  Assignments,   \* which message a thread may have: a set of functions
  MaxChunks,     \* the three max_..._summary_chunks
  FinalAttempts, \* final_summary_attempts
  OwnWarnings    \* how many warnings a digest of the model may have

\* attachment: chunks of its text, 0 when it is not cut; skipped: one could not
\* be read; levels: chunks of each level of a chain, <<>> if it is none; body:
\* chunks of a long body, 0 when it is short.
ASSUME WorkersAssumption == IsFiniteSet(Workers)
ASSUME MessagesAssumption ==
  Messages \subseteq [attachment : Nat, skipped : BOOLEAN, levels : Seq(Nat \ {0}), body : Nat]
ASSUME AssignmentsAssumption == Assignments \subseteq [Workers -> Messages]
ASSUME AttemptsAssumption == MaxChunks \in Nat \ {0} /\ FinalAttempts \in Nat \ {0}
ASSUME WarningsAssumption == OwnWarnings \subseteq Nat

Parts == {"attachment", "chain", "body", "final", "compact", "classify", "ended"}
Outcomes == {"none", "done", "permanent", "external"}

VARIABLES
  message,
  part,      \* per thread: what it works on
  reading,   \* the chunks of this part are chosen
  chosen,    \* those chunks
  pending,   \* what has to be digested in this round, in order
  made,      \* the digests there are
  sure,      \* the last digest came from the model
  chain,     \* the chain's digest, for the short form: none, sure or unsure
  told,      \* the notices the summary will carry
  tries,     \* attempts at the full or the short summary
  outcome

analysis == <<message, part, reading, chosen, pending, made, sure, chain, told, tries, outcome>>
vars == <<llm, analysis>>

-----------------------------------------------------------------------------
(* Sampling *)

\* Python's round of n / d: to the nearest, a half to the even one.
Round(n, d) ==
  LET q == n \div d
      twice == 2 * (n % d)
  IN  IF twice < d \/ (twice = d /\ q % 2 = 0) THEN q ELSE q + 1

\* Mutant: the positions are spread over the number of chunks, not to the last one.
PositionOf(index, total, maximum) == Round(index * total, maximum)

Position(index, total, maximum) == Round(index * (total - 1), maximum - 1)

\* The indices of the chunks that are read.
Select(total, maximum) ==
  IF total <= maximum THEN {i \in 0..total : i < total}
  ELSE IF maximum = 1 THEN {0}
  ELSE {Position(index, total, maximum) : index \in 0..(maximum - 1)}

Chunks(m, p) ==
  CASE p = "attachment" -> {1} \X (1..m.attachment)
    [] p = "chain"      -> UNION {{l} \X (1..m.levels[l]) : l \in DOMAIN m.levels}
    [] p = "body"       -> {1} \X (1..m.body)

\* By level, and by number within the level.
Reads(c, d) == c[1] < d[1] \/ (c[1] = d[1] /\ c[2] < d[2])

\* The index of a chunk: how many there are before it.
Index(chunks, c) == Cardinality({d \in chunks : Reads(d, c)})

Sample(chunks) ==
  {c \in chunks : Index(chunks, c) \in Select(Cardinality(chunks), MaxChunks)}

\* One by one, as they are read.
InTurn(chunks) ==
  [n \in 1..Cardinality(chunks) |-> {c \in chunks : Index(chunks, c) = n - 1}]

All(digests) == UNION {digests[n] : n \in 1..Len(digests)}

-----------------------------------------------------------------------------

Init ==
  /\ LlmInit
  /\ message \in Assignments
  /\ part = [w \in Workers |-> "attachment"]
  /\ reading = [w \in Workers |-> FALSE]
  /\ chosen = [w \in Workers |-> {}]
  /\ pending = [w \in Workers |-> <<>>]
  /\ made = [w \in Workers |-> <<>>]
  /\ sure = [w \in Workers |-> FALSE]
  /\ chain = [w \in Workers |-> "none"]
  /\ told = [w \in Workers |-> {}]
  /\ tries = [w \in Workers |-> 0]
  /\ outcome = [w \in Workers |-> "none"]

\* A forwarded message is read as a chain, not as a body.
After(w) ==
  CASE part[w] = "attachment" -> "chain"
    [] part[w] = "chain" /\ message[w].levels = <<>> -> "body"
    [] OTHER -> "final"

BeginPart(w) ==
  /\ part[w] \in {"attachment", "chain", "body"} /\ ~reading[w]
  /\ LET chunks == Chunks(message[w], part[w]) IN
       \/ /\ chunks = {}
          /\ part' = [part EXCEPT ![w] = After(w)]
          /\ UNCHANGED <<reading, chosen, pending>>
       \/ /\ chunks # {}
          /\ reading' = [reading EXCEPT ![w] = TRUE]
          /\ pending' = [pending EXCEPT ![w] = InTurn(Sample(chunks))]
          /\ chosen' = [chosen EXCEPT ![w] = Sample(chunks)]
          /\ UNCHANGED part
  /\ UNCHANGED <<llm, message, made, sure, chain, told, tries, outcome>>

BeginDigest(w) ==
  /\ reading[w] /\ pending[w] # <<>>
  /\ StartCall(w)
  /\ UNCHANGED analysis

\* A digest the model could not write in the required form stands in for it, unsure.
Digest(w) ==
  /\ reading[w] /\ call[w] \in {"ok", "format"}
  /\ made' = [made EXCEPT ![w] = Append(@, Head(pending[w]))]
  /\ pending' = [pending EXCEPT ![w] = Tail(@)]
  /\ sure' = [sure EXCEPT ![w] = call[w] = "ok"]
  /\ TakeResult(w)
  /\ UNCHANGED <<message, part, reading, chosen, chain, told, tries, outcome>>

\* The digests of the first level that has several are reduced, then those of all levels.
InScope(digests) ==
  LET Level(n) == {chunk[1] : chunk \in digests[n]}
      several == {n \in DOMAIN digests : \E k \in DOMAIN digests : k # n /\ Level(k) = Level(n)}
  IN  IF several = {} THEN DOMAIN digests
      ELSE {n \in several : \A k \in several : \A l \in Level(n), j \in Level(k) : l <= j}

\* In the text, wherever the digests stand now: a level that was reduced stands last.
Earlier(digests, k, l) == \E c \in digests[k] : \A d \in digests[l] : Reads(c, d)

\* Those of the digests in scope that have so many cuts before them.
Group(digests, scope, cuts, n) ==
  UNION {digests[k] :
           k \in {l \in scope : Cardinality({c \in cuts : Earlier(digests, c, l)}) = n}}

\* Mutant: the group under construction is dropped when the digests run out.
GroupsClosed(digests, scope, cuts) ==
  [g \in 1..Cardinality(cuts) |-> Group(digests, scope, cuts, g - 1)]

\* Consecutive digests share a group as long as they fit: a cut is after the last of a group.
Groups(digests, scope, cuts) ==
  [g \in 1..Cardinality(cuts) + 1 |-> Group(digests, scope, cuts, g - 1)]

\* The digests with these numbers, in order.
Only(digests, numbers) ==
  [n \in 1..Cardinality(numbers) |->
     digests[CHOOSE k \in numbers : Cardinality({l \in numbers : l < k}) = n - 1]]

\* Where a group ends depends on lengths; it may be after every digest but the last.
Reduce(w) ==
  /\ reading[w] /\ pending[w] = <<>> /\ Len(made[w]) > 1
  /\ LET scope == InScope(made[w]) IN
       /\ \E cuts \in SUBSET {k \in scope : \E l \in scope : Earlier(made[w], k, l)} :
            pending' = [pending EXCEPT ![w] = Groups(made[w], scope, cuts)]
       /\ made' = [made EXCEPT ![w] = Only(made[w], DOMAIN made[w] \ scope)]
  /\ UNCHANGED <<llm, message, part, reading, chosen, sure, chain, told, tries, outcome>>

\* Mutant: the notice is added behind all the warnings of the digest.
NoticeBehind(own) == own + 1

\* warnings_ru[:3] and the notice; the evidence keeps four.
NoticePlace(own) == (IF own < 3 THEN own ELSE 3) + 1

Sampled(w) == Cardinality(chosen[w]) < Cardinality(Chunks(message[w], part[w]))

\* One digest is left: the part is in the evidence.
EndPart(w) ==
  /\ reading[w] /\ pending[w] = <<>> /\ Len(made[w]) = 1
  /\ \E own \in OwnWarnings :
       told' = [told EXCEPT ![w] = @ \cup
         (IF Sampled(w) /\ (part[w] = "body" \/ (part[w] = "chain" /\ NoticePlace(own) <= 4))
          THEN {part[w]} ELSE {})]
  /\ \E confident \in BOOLEAN :   \* the confidence the model gave is above 0
       chain' = IF part[w] = "chain"
                THEN [chain EXCEPT ![w] = IF sure[w] /\ confident THEN "sure" ELSE "unsure"] ELSE chain
  /\ part' = [part EXCEPT ![w] = After(w)]
  /\ reading' = [reading EXCEPT ![w] = FALSE]
  /\ chosen' = [chosen EXCEPT ![w] = {}]
  /\ made' = [made EXCEPT ![w] = <<>>]
  /\ sure' = [sure EXCEPT ![w] = FALSE]
  /\ UNCHANGED <<llm, message, pending, tries, outcome>>

-----------------------------------------------------------------------------
(* The summary *)

Ends(w, how) ==
  /\ part' = [part EXCEPT ![w] = "ended"]
  /\ outcome' = [outcome EXCEPT ![w] = how]

\* _with_attachment_notices: the file that could not be read is named in the summary.
Notices(w) == IF message[w].skipped THEN {"skipped"} ELSE {}

Done(w) ==
  /\ Ends(w, "done")
  /\ told' = [told EXCEPT ![w] = @ \cup Notices(w)]

BeginSummary(w) ==
  /\ part[w] \in {"final", "compact", "classify"}
  /\ StartCall(w)
  /\ UNCHANGED analysis

\* The full summary, or the classification of the short one.
Summarised(w) ==
  /\ part[w] \in {"final", "classify"} /\ call[w] = "ok"
  /\ Done(w)
  /\ TakeResult(w)
  /\ UNCHANGED <<message, reading, chosen, pending, made, sure, chain, tries>>

\* Without a classification the message is for a person to classify.
Unclassified(w) ==
  /\ part[w] = "classify" /\ call[w] \in {"format", "permanent"}
  /\ Done(w)
  /\ TakeResult(w)
  /\ UNCHANGED <<message, reading, chosen, pending, made, sure, chain, tries>>

Shortened(w) ==
  /\ part[w] = "compact" /\ call[w] = "ok"
  /\ part' = [part EXCEPT ![w] = "classify"]
  /\ TakeResult(w)
  /\ UNCHANGED <<message, reading, chosen, pending, made, sure, chain, told, tries, outcome>>

\* The attempts run out: the digest of the chain is the summary, if it is sure,
\* else the short form is tried as often; then the error is the result.
NotSummarised(w) ==
  /\ part[w] \in {"final", "compact"} /\ call[w] \in {"format", "permanent"}
  /\ TakeResult(w)
  /\ \/ /\ tries[w] + 1 < FinalAttempts
        /\ tries' = [tries EXCEPT ![w] = @ + 1]
        /\ UNCHANGED <<part, outcome>>
     \/ /\ tries[w] + 1 = FinalAttempts /\ part[w] = "final"
        /\ tries' = [tries EXCEPT ![w] = 0]
        /\ part' = [part EXCEPT ![w] = IF chain[w] = "sure" THEN "classify" ELSE "compact"]
        /\ UNCHANGED outcome
     \/ /\ tries[w] + 1 = FinalAttempts /\ part[w] = "compact"
        /\ Ends(w, "permanent")
        /\ UNCHANGED tries
  /\ UNCHANGED <<message, reading, chosen, pending, made, sure, chain, told>>

\* Only the final steps catch a PermanentError, nothing catches ExternalServiceError.
Raises(w) ==
  /\ \/ call[w] = "external" /\ Ends(w, "external")
     \/ call[w] = "permanent" /\ reading[w] /\ Ends(w, "permanent")
  /\ reading' = [reading EXCEPT ![w] = FALSE]
  /\ pending' = [pending EXCEPT ![w] = <<>>]
  /\ made' = [made EXCEPT ![w] = <<>>]
  /\ chosen' = [chosen EXCEPT ![w] = {}]
  /\ TakeResult(w)
  /\ UNCHANGED <<message, sure, chain, told, tries>>

Step(w) ==
  \/ CallStep(w) /\ UNCHANGED analysis
  \/ BeginPart(w) \/ BeginDigest(w) \/ Digest(w) \/ Reduce(w) \/ EndPart(w)
  \/ BeginSummary(w) \/ Summarised(w) \/ Unclassified(w) \/ Shortened(w) \/ NotSummarised(w)
  \/ Raises(w)

Next ==
  \/ Elapse /\ UNCHANGED analysis
  \/ \E w \in Workers : Step(w)

\* Threads go on as long as they can: every request is answered or times out.
Spec == Init /\ [][Next]_vars /\ WF_vars(\E w \in Workers : Step(w))

-----------------------------------------------------------------------------
(* Properties *)

\* Every variable has its type, and the client's semaphore counts the requests
\* under way in all threads.
TypeOK ==
  /\ LlmTypeOK
  /\ message \in [Workers -> Messages] /\ part \in [Workers -> Parts]
  /\ reading \in [Workers -> BOOLEAN] /\ sure \in [Workers -> BOOLEAN]
  /\ chain \in [Workers -> {"none", "sure", "unsure"}]
  /\ \A w \in Workers : told[w] \subseteq {"chain", "body", "skipped"}
  /\ tries \in [Workers -> 0..FinalAttempts - 1]
  /\ outcome \in [Workers -> Outcomes]
  /\ permits = MaxRequests - Cardinality({w \in Workers : call[w] = "sent"})

\* Whatever the groups, no chunk that was chosen is lost between its digest and
\* the one digest the summary is made from, and none is counted twice.
EvidenceIsWhole ==
  \A w \in Workers :
    LET digests == pending[w] \o made[w] IN
      /\ All(digests) = chosen[w]
      /\ \A m, n \in DOMAIN digests : m # n => digests[m] \cap digests[n] = {}

IsEven(total, maximum) ==
  LET S == Select(total, maximum) IN
    /\ S \subseteq 0..(total - 1) /\ {0, total - 1} \subseteq S
    /\ Cardinality(S) = IF total < maximum THEN total ELSE maximum
    /\ \A i \in S \ {total - 1} : \E j \in S :
         /\ i < j /\ \A k \in S : ~(i < k /\ k < j)
         /\ (j - i - 1) * (maximum - 1) < total - 1
         /\ total > maximum => (j - i + 1) * (maximum - 1) > total - 1

SmallSamplesAreEven == \A total \in 1..40, maximum \in 2..12 : IsEven(total, maximum)

\* A sample is as large as the limit allows, has the beginning and the end of
\* the text, and its chunks are evenly spaced, whatever the rounding does: for
\* texts up to 40 chunks, and for the texts of the run.
SampleIsEven ==
  /\ SmallSamplesAreEven
  /\ \A w \in Workers : reading[w] =>
       LET chunks == Chunks(message[w], part[w]) IN
         /\ Cardinality(chosen[w]) <= MaxChunks
         /\ MaxChunks > 1 =>
              \A c \in chunks : Index(chunks, c) \in {0, Cardinality(chunks) - 1} => c \in chosen[w]

Expected(m) ==
  {p \in {"chain", "body"} : /\ p = "body" => m.levels = <<>>
                             /\ Cardinality(Chunks(m, p)) > MaxChunks}
  \cup (IF m.skipped THEN {"skipped"} ELSE {})

\* A finished summary says so when a part of the message was only sampled, or a
\* file could not be read, whichever of the ways it was made in.
NoticesReachTheSummary ==
  \A w \in Workers : outcome[w] = "done" => Expected(message[w]) \subseteq told[w]

\* The analysis ends, though reducing may leave as many digests as before and
\* the breaker and the semaphore are other threads' too.
AnalysisEnds == <>(\A w \in Workers : outcome[w] # "none")

=============================================================================
