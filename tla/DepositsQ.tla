------------------------------ MODULE DepositsQ ------------------------------
(***************************************************************************)
(* The deposits table of the relayer's Postgres database, as the queries   *)
(* of internal/db/postgres/deposits.go read and write it. A table maps a   *)
(* deposit identifier (tx hash, nonce, chain id: the primary key) to its   *)
(* row. Of a row the model keeps what steers the relayer: the withdrawal   *)
(* status, the withdrawal tx hash and the number of recovery attempts.     *)
(* Every operator is one SQL statement, so one atomic step of a caller.    *)
(***************************************************************************)
EXTENDS Naturals

\* WithdrawalStatus. UNSPECIFIED is never written to the table.
WithdrawalStatus == {"PENDING", "PROCESSING", "SUBMITTING_TO_CORE",
                     "PROCESSED", "FAILED", "ALREADY_WITHDRAWN"}

\* The row of an identifier that was never inserted.
NoRow == [status |-> "NO_ROW", hash |-> "nil", attempts |-> 0]

RowStatus == WithdrawalStatus \cup {"NO_ROW"}

\* The statuses of a deposit the relayer still has to work on.
Unsettled == {"PENDING", "PROCESSING"}

\* The statuses that claim the withdrawal took place.
Settled == {"SUBMITTING_TO_CORE", "PROCESSED", "ALREADY_WITHDRAWN"}

UpdateRecoveryData(table, d, attempts) ==
    [table EXCEPT ![d].attempts = attempts, ![d].status = "PENDING"]

\* A duplicate key turns the INSERT into UpdateRecoveryData. The INSERT does
\* not set withdrawal_tx_hash, so a new row has none, and an old one keeps its.
Insert(table, d, attempts) ==
    IF table[d].status = "NO_ROW"
    THEN [table EXCEPT ![d] = [status |-> "PENDING", hash |-> "nil",
                               attempts |-> attempts]]
    ELSE UpdateRecoveryData(table, d, attempts)

\* The two updates below are only ever issued for a deposit that has a row
\* (the invariant HeldHasRow of Relayer), so the WHERE clause always matches.
UpdateStatus(table, d, status) ==
    [table EXCEPT ![d].status = status]

UpdateWithdrawalDetails(table, d, hash, status) ==
    [table EXCEPT ![d].hash = hash, ![d].status = status]

\* The deposits (identifier and hash) whose row has the given status.
GetWithStatus(table, status) ==
    {[d |-> d, hash |-> table[d].hash] :
        d \in {e \in DOMAIN table : table[e].status = status}}

=============================================================================
