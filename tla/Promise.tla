-------------------------------- MODULE Promise --------------------------------
(***************************************************************************)
(* What the relayer promises the users of the bridge, seen from outside:   *)
(* the bridge contract pays deposits, the database says of some deposits   *)
(* that their withdrawal took place, and core has a withdrawal hash for    *)
(* some. The relayer claims and reports only what was paid. A claim may be *)
(* taken back (the row is reopened when a deposit comes in twice).         *)
(***************************************************************************)
CONSTANT Deposits

VARIABLES
    paid,       \* deposits the bridge contract has paid
    claimed,    \* deposits whose row says that they were withdrawn
    reported    \* deposits core has a withdrawal hash for

promiseVars == <<paid, claimed, reported>>

PromiseInit == paid = {} /\ claimed = {} /\ reported = {}

\* The contract pays a deposit once.
Pay(d) ==
    /\ d \notin paid
    /\ paid' = paid \cup {d}
    /\ UNCHANGED <<claimed, reported>>

Claim(d) ==
    /\ d \in paid
    /\ claimed' = claimed \cup {d}
    /\ UNCHANGED <<paid, reported>>

Retract(d) ==
    /\ claimed' = claimed \ {d}
    /\ UNCHANGED <<paid, reported>>

\* One transaction on core tells of several deposits.
Report(batch) ==
    /\ batch \subseteq paid
    /\ reported' \in SUBSET Deposits /\ reported' \ batch = reported \ batch
    /\ UNCHANGED <<paid, claimed>>

PromiseNext ==
    \/ \E d \in Deposits : Pay(d) \/ Claim(d) \/ Retract(d)
    \/ \E batch \in SUBSET Deposits : Report(batch)

PromiseSpec == PromiseInit /\ [][PromiseNext]_promiseVars

=============================================================================
