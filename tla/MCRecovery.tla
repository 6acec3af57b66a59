------------------------------ MODULE MCRecovery ------------------------------
(***************************************************************************)
(* The relayer with a history variable that counts how often               *)
(* checkExistence admitted a failed deposit again.                         *)
(***************************************************************************)
EXTENDS Relayer

VARIABLE recoveries

\* One more than the configured number is enough to see the limit passed.
MaxRecoveries == RecoveryAttempts + 1

Admits(d) ==
    \E r \in Requesters :
        /\ row[d].status = "FAILED"
        /\ req[r] = [pc |-> "row", d |-> d] /\ req'[r].pc = "insert"

RInit == Init /\ recoveries = [d \in Deposits |-> 0]

RNext ==
    /\ Next
    /\ recoveries' = [d \in Deposits |->
                        IF Admits(d) THEN recoveries[d] + 1 ELSE recoveries[d]]
    /\ \A d \in Deposits : recoveries'[d] <= MaxRecoveries

RSpec == RInit /\ [][RNext]_<<vars, recoveries>>

\* checkExistence admits a failed deposit again at most recoveryAttempts times
\* and refuses it with "already saved: max" from then on.
RecoveriesBounded == \A d \in Deposits : recoveries[d] <= RecoveryAttempts

=============================================================================
