------------------------- MODULE DeliveryRefinement -------------------------
(***************************************************************************)
(* The broker's deliveries implement OneUse.  given is a history variable: *)
(* what every incarnation has given the recipient, which the broker's own  *)
(* state says of the present one only.                                     *)
(***************************************************************************)
EXTENDS DeliveryBroker

VARIABLE given

Given ==
  given' = [o \in Op |-> [e \in 1..MaxEpoch |->
              given[o][e] + IF e = epoch /\ runs'[o] > runs[o] THEN 1 ELSE 0]]

RInit == Init /\ given = [o \in Op |-> [e \in 1..MaxEpoch |-> 0]]
RNext == Next /\ Given
RSpec == RInit /\ [][RNext]_<<vars, given>>

Abstract == INSTANCE OneUse WITH
  Round  <- 1..MaxEpoch,
  alive  <- Up,
  round  <- epoch,
  asked  <- issued,
  status <- [o \in Op |-> [state |-> job[o].state, mayHaveRun |-> job[o].mayHaveRun]],
  used   <- spent

\* Every step of the broker is a step of OneUse or changes nothing a client or a
\* recipient sees: admission, replay, cancellation, faults, shutdown, crash and
\* restart included.
ImplementsOneUse == Abstract!OSpec
=============================================================================
