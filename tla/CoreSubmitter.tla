----------------------------- MODULE CoreSubmitter -----------------------------
(***************************************************************************)
(* The core submitter collects deposits from submitChan and, once a batch  *)
(* is full, reports them to core in one transaction (UpdateTxInfo of the   *)
(* connector, under DoWithRetry). After a report it marks the rows         *)
(* PROCESSED and empties its pool. A report that failed for good leaves    *)
(* the pool as it is; the next deposit tries it all again.                 *)
(***************************************************************************)
EXTENDS RelayerState

\* What the submitter leaves alone.
SubmitterFrame == UNCHANGED <<tx, paid, up, served, cache, recoveryLimit, req, job, cu>>

\* Faulty variant of ReceiveDeposit: a batch is full only when it overflows.
ReceiveDepositOffByOne ==
    /\ sub.pc = "recv" /\ submitChan # <<>>
    /\ pool' = Append(pool, Head(submitChan))
    /\ submitChan' = Tail(submitChan)
    /\ sub' = IF Len(pool) + 1 <= BatchSize
              THEN sub
              ELSE [sub EXCEPT !.pc = "query"]
    /\ UNCHANGED <<row, core>> /\ SubmitterFrame

\* A deposit is received and appended to the pool; a short pool waits.
ReceiveDeposit ==
    /\ sub.pc = "recv" /\ submitChan # <<>>
    /\ pool' = Append(pool, Head(submitChan))
    /\ submitChan' = Tail(submitChan)
    /\ sub' = IF Len(pool) + 1 < BatchSize
              THEN sub
              ELSE [sub EXCEPT !.pc = "query"]
    /\ UNCHANGED <<row, core>> /\ SubmitterFrame

\* DoWithRetry: one more attempt, or the error is logged and the pool kept.
AttemptFails ==
    sub' = IF sub.tries + 1 < Retries
           THEN [sub EXCEPT !.pc = "query", !.tries = @ + 1]
           ELSE Receiving

\* The deposits of the pool that core has a withdrawal hash for.
AlreadyReported == {i \in 1..Len(pool) : core[pool[i].d] # "nil"}

\* UpdateTxInfo reads every deposit of the pool from core. The message of a
\* deposit that has a hash there stays nil, and a transaction with a nil
\* message cannot be built: the attempt fails.
QueryCore ==
    /\ sub.pc = "query"
    /\ \/ /\ AlreadyReported # {} \/ "core" \in Faults
          /\ AttemptFails
       \/ /\ AlreadyReported = {}
          /\ sub' = [sub EXCEPT !.pc = "broadcast"]
    /\ UNCHANGED <<row, core, submitChan, pool>> /\ SubmitterFrame

\* toTransaction sends nil as the empty string, which core reports as nil.
CoreHash(hash) == IF hash \in {"nil", "empty"} THEN "nil" ELSE hash

\* Core executes the transaction: every deposit of the pool gets the hash of
\* one of its messages, and the others keep theirs.
CommitBatch ==
    core' \in {c \in [Deposits -> Hashes] :
        \A d \in Deposits :
            \/ \E i \in 1..Len(pool) :
                  pool[i].d = d /\ c[d] = CoreHash(pool[i].hash)
            \/ /\ \A i \in 1..Len(pool) : pool[i].d # d
               /\ c[d] = core[d]}

\* submitMsgs: the batch is committed; or it is not, with an error; or it is
\* committed and the error (a timeout) hides it.
BroadcastBatch ==
    /\ sub.pc = "broadcast"
    /\ \/ /\ CommitBatch
          /\ sub' = [pc |-> "mark", tries |-> 0, i |-> 1]
       \/ /\ "core" \in Faults
          /\ \/ core' = core
             \/ CommitBatch
          /\ AttemptFails
    /\ UNCHANGED <<row, submitChan, pool>> /\ SubmitterFrame

\* The next deposit of the pool: a row in SUBMITTING_TO_CORE (in memory)
\* becomes PROCESSED, any other status stays. A failed write is logged.
MarkProcessed ==
    /\ sub.pc = "mark" /\ sub.i <= Len(pool)
    /\ \/ /\ pool[sub.i].st # "SUBMITTING_TO_CORE" \/ "db" \in Faults
          /\ row' = row
       \/ /\ pool[sub.i].st = "SUBMITTING_TO_CORE"
          /\ row' = UpdateStatus(row, pool[sub.i].d, "PROCESSED")
    /\ sub' = [sub EXCEPT !.i = @ + 1]
    /\ UNCHANGED <<core, submitChan, pool>> /\ SubmitterFrame

ClearPool ==
    /\ sub.pc = "mark" /\ sub.i > Len(pool)
    /\ pool' = <<>>
    /\ sub' = Receiving
    /\ UNCHANGED <<row, core, submitChan>> /\ SubmitterFrame

CoreSubmitterNext ==
    \/ ReceiveDeposit \/ QueryCore \/ BroadcastBatch
    \/ MarkProcessed \/ ClearPool

=============================================================================
