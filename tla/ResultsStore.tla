---------------------------- MODULE ResultsStore ----------------------------
(***************************************************************************)
(* What the Results API keeps of one message: its row of `email_locator`   *)
(* and the payload stored with it.  The row is locked for the length of    *)
(* the transaction, so a PUT is one atomic step on it                      *)
(* (api-service/app/db.py, ResultRepository.commit).                       *)
(*                                                                         *)
(* A request carries the generation, the payload fingerprint, received_at  *)
(* and whether the summary it stores asks for a manual review.             *)
(***************************************************************************)
EXTENDS Naturals

Requests == [gen : Nat, fingerprint : Nat, received : Nat, review : BOOLEAN]

EmptyStore == [stored |-> FALSE, gen |-> 0, fingerprint |-> 0, received |-> 0, review |-> FALSE]

Stores == [stored : BOOLEAN, gen : Nat, fingerprint : Nat, received : Nat, review : BOOLEAN]

-----------------------------------------------------------------------------
Same(store, request) ==
  store.stored /\ request.gen = store.gen /\ request.fingerprint = store.fingerprint

\* Mutant: another payload of the stored generation replaces it.
ConflictsByGeneration(store, request) ==
  /\ store.stored
  /\ \/ request.gen < store.gen
     \/ request.gen > store.gen /\ request.received # store.received

\* ConflictError, answered with 409.
Conflicts(store, request) ==
  /\ store.stored
  /\ \/ request.gen < store.gen
     \/ request.gen = store.gen /\ request.fingerprint # store.fingerprint
     \/ request.gen > store.gen /\ request.received # store.received

CommitRequest(store, request) ==
  IF Conflicts(store, request) \/ Same(store, request) THEN store
  ELSE [stored |-> TRUE, gen |-> request.gen, fingerprint |-> request.fingerprint,
        received |-> request.received, review |-> request.review]

=============================================================================
