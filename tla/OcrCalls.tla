------------------------------ MODULE OcrCalls ------------------------------
(***************************************************************************)
(* The agent's OCRClient in front of the OCR service.  A call sends up to  *)
(* max_retries + 1 requests; one that times out at the client is at work   *)
(* in the service still when the next is sent.                             *)
(***************************************************************************)
EXTENDS OcrService

CONSTANTS
  Callers,        \* threads of the agent, each with one call of process
  Wanted,         \* what the calls may ask for: a set of functions from Callers to Asked
  MaxRetries,     \* max_retries
  MaxRequests,    \* max_concurrent_requests of the client
  MaxAccepted     \* bound: how many requests reach the service

ASSUME CallsAssumption == Requests = Callers \X (1..MaxRetries + 1)
ASSUME WantedAssumption == Wanted \subseteq [Callers -> Asked]
ASSUME PermitsAssumption == MaxRequests \in Nat \ {0} /\ MaxRetries \in Nat /\ MaxAccepted \in Nat

VARIABLES
  call,      \* per caller
  wanted,    \* per caller: the key of its document
  attempt,
  permits    \* the value of the client's semaphore

client == <<call, wanted, attempt, permits>>
all == <<service, client>>

Mine(c) == <<c, attempt[c]>>

CallInit ==
  /\ Init
  /\ call = [c \in Callers |-> "idle"]
  /\ wanted \in Wanted
  /\ attempt = [c \in Callers |-> 1]
  /\ permits = MaxRequests

BeginCall(c) ==
  /\ call[c] = "idle"
  /\ call' = [call EXCEPT ![c] = "queued"]
  /\ UNCHANGED <<service, wanted, attempt, permits>>

\* Mutant: an error that could be retried is, whatever the number of attempts.
AnyAttempt(c) == attempt[c] = MaxRetries + 1 \/ TRUE

\* Every failure is retried, a refusal too.
MayRetry(c) == attempt[c] <= MaxRetries

\* The attempt failed: another one after the pause, or OCRServiceError.
Failed(c) ==
  \/ /\ MayRetry(c)
     /\ attempt' = [attempt EXCEPT ![c] = @ + 1]
     /\ call' = [call EXCEPT ![c] = "queued"]
  \/ /\ ~MayRetry(c)
     /\ call' = [call EXCEPT ![c] = "failed"]
     /\ UNCHANGED attempt

Send(c) ==
  /\ call[c] = "queued" /\ permits > 0
  /\ Cardinality({r \in Requests : stage[r] # "idle"}) < MaxAccepted
  /\ permits' = permits - 1
  /\ Arrive(Mine(c), wanted[c])
  /\ call' = [call EXCEPT ![c] = "sent"]
  /\ UNCHANGED <<wanted, attempt>>

\* The connection fails: the service sees nothing.
NotSent(c) ==
  /\ call[c] = "queued" /\ permits > 0
  /\ Failed(c)
  /\ UNCHANGED <<service, wanted, permits>>

Receive(c) ==
  /\ call[c] = "sent" /\ stage[Mine(c)] = "done"
  /\ permits' = permits + 1
  /\ \/ /\ status[Mine(c)] = "ok"
        /\ call' = [call EXCEPT ![c] = "answered"]
        /\ UNCHANGED attempt
     \/ status[Mine(c)] = "failed" /\ Failed(c)
  /\ UNCHANGED <<service, wanted>>

\* The read timeout of the client; the service is not told.
GiveUp(c) ==
  /\ call[c] = "sent" /\ stage[Mine(c)] # "done"
  /\ permits' = permits + 1
  /\ Failed(c)
  /\ UNCHANGED <<service, wanted>>

Calls(c) == Send(c) \/ NotSent(c) \/ Receive(c) \/ GiveUp(c)

CallNext ==
  \/ (Shutdown \/ CloseNext) /\ UNCHANGED client
  \/ \E r \in Requests : (Works(r) \/ LateEnd(r)) /\ UNCHANGED client
  \/ \E c \in Callers : BeginCall(c) \/ Calls(c)

CallSpec == CallInit /\ [][CallNext]_all

\* What may go on: the event loop, the threads, which all end, the client and its timeouts.
Progress ==
  \/ CloseNext /\ UNCHANGED client
  \/ \E r \in Requests : (Works(r) \/ LateEnd(r)) /\ UNCHANGED client
  \/ \E c \in Callers : Calls(c)

\* Something goes on as long as anything can; every attempt is made once, so all of it does.
FairCallSpec == CallSpec /\ WF_all(Progress)

-----------------------------------------------------------------------------
(* Properties *)

\* Every variable has its type, and the client's semaphore counts the requests
\* that are sent and not answered.
CallTypeOK ==
  /\ TypeOK
  /\ call \in [Callers -> {"idle", "queued", "sent", "answered", "failed"}]
  /\ wanted \in [Callers -> Asked]
  /\ attempt \in [Callers -> 1..MaxRetries + 1]
  /\ permits = MaxRequests - Cardinality({c \in Callers : call[c] = "sent"})

\* A call that has begun ends, and so does every request the service has
\* accepted, though slots and pipelines are held by threads nobody waits for:
\* again and again nothing is under way.
WorkEnds ==
  []<>(/\ \A c \in Callers : call[c] \in {"idle", "answered", "failed"}
       /\ Quiet)

=============================================================================
