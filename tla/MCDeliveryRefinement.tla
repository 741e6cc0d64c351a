------------------------ MODULE MCDeliveryRefinement ------------------------
(* An instance of DeliveryRefinement small enough for TLC. *)
EXTENDS DeliveryRefinement, TLC

AllUsable == Client \X Profile

\* Operations are interchangeable in Init, Next and every property checked.
Symmetry == Permutations(Op)

\* A second incarnation is followed where neither of them remembers or resets a
\* consent and the destination was registered once.
Family ==
  epoch > 1 => nextGrant = 1 /\ epochs = NoEpochs /\ nextContent <= 2
=============================================================================
