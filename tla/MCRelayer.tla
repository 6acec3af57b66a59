------------------------------ MODULE MCRelayer ------------------------------
(***************************************************************************)
(* The instances of the relayer that TLC checks.                           *)
(***************************************************************************)
EXTENDS Relayer, TLC

\* Deposits, containers, transactions and handlers are interchangeable.
Symmetry == Permutations(Deposits) \cup Permutations(Jobs)
              \cup Permutations(TxIds) \cup Permutations(Handlers)

=============================================================================
