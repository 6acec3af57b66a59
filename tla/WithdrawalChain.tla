---------------------------- MODULE WithdrawalChain ----------------------------
(***************************************************************************)
(* The surroundings of the relayer: the bridge contract of the withdrawal  *)
(* chain, which pays a deposit at most once, and the other relayers, which *)
(* may pay a deposit and report it to core as well. The contract and core  *)
(* are not part of the repository; they are modelled from how the chain    *)
(* clients and the connector use them.                                     *)
(***************************************************************************)
EXTENDS RelayerState

\* The memory of the relayer's process.
Memory == <<up, served, cache, recoveryLimit, req, job, submitChan, pool, sub, cu>>

\* A pending withdrawal is mined. It reverts when the deposit is paid
\* already, and may revert for reasons of its own. A pending transaction may
\* also stay pending, and may be mined after the process that sent it died.
MineWithdrawal(t) ==
    /\ tx[t].state = "pending"
    /\ \/ /\ tx[t].d \notin paid
          /\ tx' = [tx EXCEPT ![t].state = "success"]
          /\ paid' = paid \cup {tx[t].d}
       \/ /\ tx[t].d \in paid \/ "revert" \in Faults
          /\ tx' = [tx EXCEPT ![t].state = "reverted"]
          /\ paid' = paid
    /\ UNCHANGED <<row, core, Memory>>

\* Another relayer's withdrawal is mined.
ForeignPay(d) ==
    /\ "foreign" \in Faults
    /\ d \notin paid
    /\ paid' = paid \cup {d}
    /\ UNCHANGED <<row, tx, core, Memory>>

\* Another relayer reports a paid deposit to core.
ForeignReport(d) ==
    /\ "foreign" \in Faults
    /\ d \in paid /\ core[d] = "nil"
    /\ core' = [core EXCEPT ![d] = "foreign"]
    /\ UNCHANGED <<row, tx, paid, Memory>>

ChainNext ==
    \/ \E t \in TxIds : MineWithdrawal(t)
    \/ \E d \in Deposits : ForeignPay(d) \/ ForeignReport(d)

=============================================================================
