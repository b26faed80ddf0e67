--------------------------- MODULE MessageDelivery ---------------------------
(***************************************************************************)
(* What the agent promises about one message, whatever it goes through to  *)
(* keep it.  A message is analysed in generations.  The Results API holds  *)
(* the result of at most one of them and never goes back to an older one.  *)
(* Only when it holds the result of the current generation may the agent   *)
(* note that down, flag the message, and finish it.                        *)
(***************************************************************************)
EXTENDS Naturals

CONSTANT MarkRead  \* finishing requires the flag

VARIABLES
  generation, \* the generation being worked on, from 1
  stored,     \* the generation the Results API holds, 0 for none
  confirmed,  \* the agent has noted that the current generation is stored
  seen,       \* the message is flagged \Seen
  finished    \* the agent is done with the current generation

vars == <<generation, stored, confirmed, seen, finished>>

TypeOK ==
  /\ generation \in Nat \ {0} /\ stored \in Nat
  /\ confirmed \in BOOLEAN /\ seen \in BOOLEAN /\ finished \in BOOLEAN

Init ==
  /\ generation = 1
  /\ stored = 0
  /\ confirmed = FALSE /\ seen = FALSE /\ finished = FALSE

NextGeneration ==
  /\ generation' = generation + 1
  /\ confirmed' = FALSE /\ finished' = FALSE
  /\ UNCHANGED <<stored, seen>>

\* The result of the current generation, or a late one of an earlier generation.
Store ==
  /\ stored' \in (stored + 1) .. generation
  /\ UNCHANGED <<generation, confirmed, seen, finished>>

Confirm ==
  /\ stored = generation
  /\ confirmed' = TRUE
  /\ UNCHANGED <<generation, stored, seen, finished>>

Flag ==
  /\ stored = generation
  /\ seen' = TRUE
  /\ UNCHANGED <<generation, stored, confirmed, finished>>

Finish ==
  /\ stored = generation
  /\ MarkRead => seen
  /\ finished' = TRUE
  /\ UNCHANGED <<generation, stored, confirmed, seen>>

\* An error met after the end: the agent will look at the message again.
Reopen ==
  /\ finished
  /\ finished' = FALSE
  /\ UNCHANGED <<generation, stored, confirmed, seen>>

Next == NextGeneration \/ Store \/ Confirm \/ Flag \/ Finish \/ Reopen

Spec == Init /\ [][Next]_vars

=============================================================================
