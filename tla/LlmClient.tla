------------------------------ MODULE LlmClient ------------------------------
(***************************************************************************)
(* The agent's LLMClient.  Its semaphore and its circuit breaker are       *)
(* shared by the threads that work on messages; the budget of structured   *)
(* calls is a thread's own, for one message.                               *)
(*                                                                         *)
(* A structured call asks once more when the answer is not valid, and each *)
(* of its requests is retried on its own.  The model is configured, so no  *)
(* request asks for its name first.                                        *)
(***************************************************************************)
EXTENDS Naturals

CONSTANTS
  Workers,
  Budget,      \* max_structured_requests_per_message
  MaxRetries,  \* max_retries
  MaxRequests, \* max_concurrent_requests
  Threshold    \* circuit_breaker_failures

ASSUME LimitsAssumption ==
  /\ Budget \in Nat \ {0} /\ MaxRetries \in Nat
  /\ MaxRequests \in Nat \ {0} /\ Threshold \in Nat \ {0}

Results == {"ok", "format", "permanent", "external"}
CallStates == {"none", "check", "wait", "sent"} \cup Results

VARIABLES
  call,       \* per thread: where its structured call is, or how it ended
  again,      \* it is the second request of the call
  attempt,    \* the attempt of that request, from 0
  remaining,  \* remaining_requests
  permits,
  failures,   \* counted up to Threshold
  open        \* _open_until is in the future

llm == <<call, again, attempt, remaining, permits, failures, open>>

LlmInit ==
  /\ call = [w \in Workers |-> "none"]
  /\ again = [w \in Workers |-> FALSE]
  /\ attempt = [w \in Workers |-> 0]
  /\ remaining = [w \in Workers |-> Budget]
  /\ permits = MaxRequests
  /\ failures = 0
  /\ open = FALSE

\* Mutant: the budget is looked at and never spent.
BudgetUnspent(w) == UNCHANGED remaining

\* _consume_message_budget
Consume(w) == remaining' = [remaining EXCEPT ![w] = @ - 1]

\* structured begins: with nothing left it raises before any request.
StartCall(w) ==
  /\ call[w] = "none"
  /\ \/ /\ remaining[w] = 0
        /\ call' = [call EXCEPT ![w] = "permanent"]
        /\ UNCHANGED <<again, remaining>>
     \/ /\ remaining[w] > 0
        /\ Consume(w)
        /\ call' = [call EXCEPT ![w] = "check"]
        /\ again' = [again EXCEPT ![w] = FALSE]
  /\ UNCHANGED <<attempt, permits, failures, open>>

\* The breaker is looked at once per request, before its first attempt.
Check(w) ==
  /\ call[w] = "check"
  /\ call' = [call EXCEPT ![w] = IF open THEN "external" ELSE "wait"]
  /\ attempt' = [attempt EXCEPT ![w] = 0]
  /\ UNCHANGED <<again, remaining, permits, failures, open>>

Send(w) ==
  /\ call[w] = "wait" /\ permits > 0
  /\ permits' = permits - 1
  /\ call' = [call EXCEPT ![w] = "sent"]
  /\ UNCHANGED <<again, attempt, remaining, failures, open>>

LeaveSemaphore == permits' = permits + 1

\* The answer is one JSON object that satisfies the schema.
Answered(w) ==
  /\ call[w] = "sent" /\ LeaveSemaphore
  /\ failures' = 0
  /\ call' = [call EXCEPT ![w] = "ok"]
  /\ UNCHANGED <<again, attempt, remaining, open>>

\* HTTP 200, but the content is cut off, no JSON, or breaks the schema.
Invalid(w) ==
  /\ call[w] = "sent" /\ LeaveSemaphore
  /\ failures' = 0
  /\ call' = [call EXCEPT ![w] = IF again[w] THEN "format" ELSE "check"]
  /\ again' = [again EXCEPT ![w] = TRUE]
  /\ UNCHANGED <<attempt, remaining, open>>

Up(n) == IF n < Threshold THEN n + 1 ELSE n

\* An attempt that failed counts, for good (HTTP 4xx) or not, and may open the breaker.
CountFailure ==
  /\ failures' = Up(failures)
  /\ open' = (open \/ Up(failures) = Threshold)

\* Mutant: the number of attempts is not limited.
RetryAlways(w) == TRUE

MayRetry(w) == attempt[w] < MaxRetries

\* No connection, a timeout, HTTP 429 or 5xx: a pause and another attempt, or the end.
FailsForNow(w) ==
  /\ call[w] = "sent" /\ LeaveSemaphore
  /\ CountFailure
  /\ \/ /\ MayRetry(w)
        /\ attempt' = [attempt EXCEPT ![w] = @ + 1]
        /\ call' = [call EXCEPT ![w] = "wait"]
     \/ /\ ~MayRetry(w)
        /\ call' = [call EXCEPT ![w] = "external"]
        /\ UNCHANGED attempt
  /\ UNCHANGED <<again, remaining>>

IsRejected(w) ==
  /\ call[w] = "sent" /\ LeaveSemaphore
  /\ CountFailure
  /\ call' = [call EXCEPT ![w] = "permanent"]
  /\ UNCHANGED <<again, attempt, remaining>>

\* The time of the breaker runs out; its count stays.
Elapse ==
  /\ open /\ open' = FALSE
  /\ UNCHANGED <<call, again, attempt, remaining, permits, failures>>

CallStep(w) ==
  Check(w) \/ Send(w) \/ Answered(w) \/ Invalid(w) \/ FailsForNow(w) \/ IsRejected(w)

\* The caller has taken the result.
TakeResult(w) ==
  /\ call' = [call EXCEPT ![w] = "none"]
  /\ again' = [again EXCEPT ![w] = FALSE]
  /\ attempt' = [attempt EXCEPT ![w] = 0]
  /\ UNCHANGED <<remaining, permits, failures, open>>

\* Every variable of the client has its type.
LlmTypeOK ==
  /\ call \in [Workers -> CallStates]
  /\ again \in [Workers -> BOOLEAN]
  /\ attempt \in [Workers -> 0..MaxRetries]
  /\ remaining \in [Workers -> 0..Budget]
  /\ permits \in 0..MaxRequests
  /\ failures \in 0..Threshold
  /\ open \in BOOLEAN

=============================================================================
