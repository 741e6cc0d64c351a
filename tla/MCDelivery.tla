----------------------------- MODULE MCDelivery -----------------------------
(* Instances of DeliveryBroker small enough for TLC. *)
EXTENDS DeliveryBroker, TLC

AllUsable == Client \X Profile

\* The identifiers of one kind are interchangeable in Init, Next, every
\* invariant and every action property; the liveness run does not use this.
Symmetry == Permutations(Client) \cup Permutations(Profile) \cup Permutations(Op)
=============================================================================
