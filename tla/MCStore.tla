------------------------------ MODULE MCStore ------------------------------
(* Instances of SecretStore small enough for TLC. *)
EXTENDS SecretStore, TLC

\* Every document is written under the first record.
OneRecord == [d \in Doc |-> CHOOSE r \in Record : TRUE]

Symmetry == Permutations(Thread)
=============================================================================
