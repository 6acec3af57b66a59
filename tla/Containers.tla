------------------------------ MODULE Containers ------------------------------
(***************************************************************************)
(* The withdrawal containers and the network workers that run them. A      *)
(* worker takes a queued container, runs it, and either hands the deposit  *)
(* to the core submitter or, after an error, deletes its cache entry. Run  *)
(* is cut at every database write and every call to a chain or to core.    *)
(* A container that returns an error without its deposit makes the worker  *)
(* dereference nil, which ends the process.                                *)
(***************************************************************************)
EXTENDS RelayerState

\* The container goes on at pc.
JobStep(j, pc) == job' = [job EXCEPT ![j].pc = pc]

\* A step that assigns the deposit's status in memory and goes on at pc.
JobStepAs(j, pc, st) == job' = [job EXCEPT ![j].pc = pc, ![j].st = st]

\* What every step of a container leaves alone.
JobFrame == UNCHANGED <<core, up, served, recoveryLimit, req, pool, sub, cu>>

\* runWithdrawalNetworkWorker: an idle worker takes a container. Run of a
\* catch-up container branches on the status of its snapshot.
TakeContainer(j) ==
    /\ job[j].pc = "queued"
    /\ Cardinality(Running) < Workers
    /\ JobStep(j, IF job[j].kind = "broadcast" THEN "bcStart"
                  ELSE IF job[j].st = "SUBMITTING_TO_CORE" THEN "cuCheck"
                  ELSE "cuProcessing")
    /\ UNCHANGED <<row, tx, paid, cache, submitChan>> /\ JobFrame

-----------------------------------------------------------------------------
(* Run of depositBroadcastContainer *)

\* Faulty variant of BroadcastIsProcessed: an RPC error counts as "processed".
BroadcastIsProcessedOnError(j) ==
    /\ job[j].pc = "bcStart"
    /\ \/ /\ "rpc" \in Faults
          /\ JobStepAs(j, "bcAwStatus", "ALREADY_WITHDRAWN")
       \/ /\ IsProcessed(job[j].d)
          /\ JobStepAs(j, "bcAwStatus", "ALREADY_WITHDRAWN")
       \/ /\ ~IsProcessed(job[j].d)
          /\ JobStep(j, "bcProcessing")
    /\ UNCHANGED <<row, tx, paid, cache, submitChan>> /\ JobFrame

\* The deposit may have been paid since checkExistence looked.
BroadcastIsProcessed(j) ==
    /\ job[j].pc = "bcStart"
    /\ \/ /\ "rpc" \in Faults
          /\ JobStepAs(j, "failStatus", "FAILED")
       \/ /\ IsProcessed(job[j].d)
          /\ JobStepAs(j, "bcAwStatus", "ALREADY_WITHDRAWN")
       \/ /\ ~IsProcessed(job[j].d)
          /\ JobStep(j, "bcProcessing")
    /\ UNCHANGED <<row, tx, paid, cache, submitChan>> /\ JobFrame

\* The error of either write is logged; the null hash goes to core anyway.
AlreadyWithdrawnStatus(j) ==
    /\ job[j].pc = "bcAwStatus"
    /\ \/ row' = UpdateStatus(row, job[j].d, job[j].st)
       \/ "db" \in Faults /\ row' = row
    /\ job' = [job EXCEPT ![j].pc = "bcAwDetails", ![j].hash = "null"]
    /\ UNCHANGED <<tx, paid, cache, submitChan>> /\ JobFrame

\* Faulty variant of AlreadyWithdrawnDetails: the details are written with the
\* status the deposit came with.
AlreadyWithdrawnDetailsStale(j) ==
    /\ job[j].pc = "bcAwDetails"
    /\ \/ row' = UpdateWithdrawalDetails(row, job[j].d, job[j].hash, "PENDING")
       \/ "db" \in Faults /\ row' = row
    /\ JobStep(j, "submit")
    /\ UNCHANGED <<tx, paid, cache, submitChan>> /\ JobFrame

AlreadyWithdrawnDetails(j) ==
    /\ job[j].pc = "bcAwDetails"
    /\ \/ row' = UpdateWithdrawalDetails(row, job[j].d, job[j].hash, job[j].st)
       \/ "db" \in Faults /\ row' = row
    /\ JobStep(j, "submit")
    /\ UNCHANGED <<tx, paid, cache, submitChan>> /\ JobFrame

\* The status PROCESSING; a failed write returns no deposit.
BroadcastProcessing(j) ==
    /\ job[j].pc = "bcProcessing"
    /\ \/ /\ row' = UpdateStatus(row, job[j].d, "PROCESSING")
          /\ JobStepAs(j, "withdraw", "PROCESSING")
       \/ /\ "db" \in Faults
          /\ row' = row
          /\ JobStep(j, "panic")
    /\ UNCHANGED <<tx, paid, cache, submitChan>> /\ JobFrame

-----------------------------------------------------------------------------
(* Run of depositCatchupContainer *)

\* isSubmitted asks core; its error returns no deposit.
CatchUpIsSubmitted(j) ==
    /\ job[j].pc = "cuCheck"
    /\ \/ /\ core[job[j].d] # "nil"
          /\ JobStep(j, "cuSubmitted")
       \/ /\ core[job[j].d] = "nil"
          /\ JobStep(j, "submit")
       \/ /\ "core" \in Faults
          /\ JobStep(j, "panic")
    /\ UNCHANGED <<row, tx, paid, cache, submitChan>> /\ JobFrame

\* The deposit is on core already: the row becomes PROCESSED, and Run returns
\* ErrAlreadySubmitted without the deposit.
CatchUpAlreadySubmitted(j) ==
    /\ job[j].pc = "cuSubmitted"
    /\ \/ row' = UpdateStatus(row, job[j].d, "PROCESSED")
       \/ "db" \in Faults /\ row' = row
    /\ JobStep(j, "panic")
    /\ UNCHANGED <<tx, paid, cache, submitChan>> /\ JobFrame

\* ProcessWithdraw: PROCESSING comes before the chain is asked.
CatchUpProcessing(j) ==
    /\ job[j].pc = "cuProcessing"
    /\ \/ /\ row' = UpdateStatus(row, job[j].d, "PROCESSING")
          /\ JobStepAs(j, "cuChain", "PROCESSING")
       \/ /\ "db" \in Faults
          /\ row' = row
          /\ JobStep(j, "panic")
    /\ UNCHANGED <<tx, paid, cache, submitChan>> /\ JobFrame

\* An earlier process may have sent the withdrawal already.
CatchUpIsProcessed(j) ==
    /\ job[j].pc = "cuChain"
    /\ \/ /\ "rpc" \in Faults
          /\ JobStepAs(j, "failStatus", "FAILED")
       \/ /\ IsProcessed(job[j].d)
          /\ JobStepAs(j, "cuSkipStatus", "PROCESSED")
       \/ /\ ~IsProcessed(job[j].d)
          /\ JobStep(j, "withdraw")
    /\ UNCHANGED <<row, tx, paid, cache, submitChan>> /\ JobFrame

\* A deposit that is paid already becomes PROCESSED and is skipped: Run
\* returns ErrWithdrawalProcessed, so it is not handed to the submitter.
CatchUpSkipStatus(j) ==
    /\ job[j].pc = "cuSkipStatus"
    /\ \/ row' = UpdateStatus(row, job[j].d, job[j].st)
       \/ "db" \in Faults /\ row' = row
    /\ job' = [job EXCEPT ![j].pc = "cuSkipDetails",
                          ![j].hash = IF @ = "nil" THEN "null" ELSE @]
    /\ UNCHANGED <<tx, paid, cache, submitChan>> /\ JobFrame

CatchUpSkipDetails(j) ==
    /\ job[j].pc = "cuSkipDetails"
    /\ \/ row' = UpdateWithdrawalDetails(row, job[j].d, job[j].hash, job[j].st)
       \/ "db" \in Faults /\ row' = row
    /\ JobStep(j, "evict")
    /\ UNCHANGED <<tx, paid, cache, submitChan>> /\ JobFrame

-----------------------------------------------------------------------------
(* executeWithdrawal and what both containers do after it *)

\* Withdraw returned an error. executeWithdrawal stores the hash that came
\* with it, which is never nil; the container then assigns FAILED.
WithdrawFails(j, hash) ==
    job' = [job EXCEPT ![j].pc = "wfStatus", ![j].st = "FAILED", ![j].hash = hash]

\* Withdraw of the chain client up to the send. An error before the send
\* returns the empty string as hash.
SendWithdrawal(j) ==
    /\ job[j].pc = "withdraw"
    /\ \/ /\ "rpc" \in Faults
          /\ WithdrawFails(j, "empty")
          /\ tx' = tx
       \/ \E t \in TxIds :
          /\ tx[t].state = "unused"
          /\ tx' = [tx EXCEPT ![t] = [d |-> job[j].d, state |-> "pending"]]
          /\ job' = [job EXCEPT ![j].pc = "finalize", ![j].hash = t]
    /\ UNCHANGED <<row, paid, cache, submitChan>> /\ JobFrame

\* Faulty variant of FinalizeWithdrawal: the status of the receipt is ignored.
FinalizeAnyReceipt(j) ==
    /\ job[j].pc = "finalize"
    /\ \/ /\ tx[job[j].hash].state \in {"success", "reverted"}
          /\ JobStep(j, "details")
       \/ /\ tx[job[j].hash].state = "pending"
          /\ \E hash \in {job[j].hash, "empty"} : WithdrawFails(j, hash)
    /\ UNCHANGED <<row, tx, paid, cache, submitChan>> /\ JobFrame

\* Withdraw of the chain client after the send. EVM looks for the receipt,
\* Solana for the confirmation; TON, and EVM nodes without block receipts,
\* return without having looked (Verified is then FALSE). A timeout, an RPC
\* error or a revert returns the hash (EVM, Solana) or none (TON).
FinalizeWithdrawal(j) ==
    /\ job[j].pc = "finalize"
    /\ \/ /\ Verified => tx[job[j].hash].state = "success"
          /\ JobStep(j, "details")
       \/ /\ tx[job[j].hash].state # "success" \/ "rpc" \in Faults
          /\ \E hash \in {job[j].hash, "empty"} : WithdrawFails(j, hash)
    /\ UNCHANGED <<row, tx, paid, cache, submitChan>> /\ JobFrame

\* Withdraw failed: status FAILED, then the details; errors are logged.
WithdrawFailedStatus(j) ==
    /\ job[j].pc = "wfStatus"
    /\ \/ row' = UpdateStatus(row, job[j].d, job[j].st)
       \/ "db" \in Faults /\ row' = row
    /\ JobStep(j, "wfDetails")
    /\ UNCHANGED <<tx, paid, cache, submitChan>> /\ JobFrame

\* Faulty variant of WithdrawFailedDetails: the failed deposit goes to core.
WithdrawFailedSubmits(j) ==
    /\ job[j].pc = "wfDetails"
    /\ \/ row' = UpdateWithdrawalDetails(row, job[j].d, job[j].hash, job[j].st)
       \/ "db" \in Faults /\ row' = row
    /\ JobStep(j, "submit")
    /\ UNCHANGED <<tx, paid, cache, submitChan>> /\ JobFrame

WithdrawFailedDetails(j) ==
    /\ job[j].pc = "wfDetails"
    /\ \/ row' = UpdateWithdrawalDetails(row, job[j].d, job[j].hash, job[j].st)
       \/ "db" \in Faults /\ row' = row
    /\ JobStep(j, "evict")
    /\ UNCHANGED <<tx, paid, cache, submitChan>> /\ JobFrame

\* Withdraw succeeded: the details, still in status PROCESSING.
WithdrawalDetails(j) ==
    /\ job[j].pc = "details"
    /\ \/ /\ row' = UpdateWithdrawalDetails(row, job[j].d, job[j].hash, job[j].st)
          /\ JobStep(j, "submitting")
       \/ /\ "db" \in Faults
          /\ row' = row
          /\ JobStepAs(j, "failStatus", "FAILED")
    /\ UNCHANGED <<tx, paid, cache, submitChan>> /\ JobFrame

\* The status SUBMITTING_TO_CORE. On a failed write the broadcast container
\* returns no deposit, the catch-up container returns it with the error.
SubmittingStatus(j) ==
    /\ job[j].pc = "submitting"
    /\ \/ /\ row' = UpdateStatus(row, job[j].d, "SUBMITTING_TO_CORE")
          /\ JobStepAs(j, "submit", "SUBMITTING_TO_CORE")
       \/ /\ "db" \in Faults
          /\ row' = row
          /\ JobStep(j, IF job[j].kind = "broadcast" THEN "panic" ELSE "evict")
    /\ UNCHANGED <<tx, paid, cache, submitChan>> /\ JobFrame

\* Faulty variant of FailedStatus: Run returns without recording the failure.
FailedStatusForgotten(j) ==
    /\ job[j].pc = "failStatus"
    /\ row' = row
    /\ JobStep(j, "evict")
    /\ UNCHANGED <<tx, paid, cache, submitChan>> /\ JobFrame

\* A failed check or a failed write of the details: status FAILED.
FailedStatus(j) ==
    /\ job[j].pc = "failStatus"
    /\ \/ row' = UpdateStatus(row, job[j].d, job[j].st)
       \/ "db" \in Faults /\ row' = row
    /\ JobStep(j, "evict")
    /\ UNCHANGED <<tx, paid, cache, submitChan>> /\ JobFrame

-----------------------------------------------------------------------------
(* The network worker after Run *)

\* Faulty variant of EvictDeposit: the cache entry survives the error.
EvictDepositForgotten(j) ==
    /\ job[j].pc = "evict"
    /\ cache' = cache
    /\ job' = [job EXCEPT ![j] = Free]
    /\ UNCHANGED <<row, tx, paid, submitChan>> /\ JobFrame

\* Faulty variant of EvictDeposit: the worker does not continue with the next
\* container, and hands over the deposit all the same.
EvictDepositFallsThrough(j) ==
    /\ job[j].pc = "evict"
    /\ cache' = cache \ {job[j].d}
    /\ submitChan' = Append(submitChan, [d |-> job[j].d, st |-> job[j].st,
                                         hash |-> job[j].hash])
    /\ job' = [job EXCEPT ![j] = Free]
    /\ UNCHANGED <<row, tx, paid>> /\ JobFrame

\* Run returned an error with the deposit: its cache entry is deleted.
EvictDeposit(j) ==
    /\ job[j].pc = "evict"
    /\ cache' = cache \ {job[j].d}
    /\ job' = [job EXCEPT ![j] = Free]
    /\ UNCHANGED <<row, tx, paid, submitChan>> /\ JobFrame

\* Run returned an error without the deposit: deposit.String() panics.
WorkerPanics(j) ==
    /\ job[j].pc = "panic"
    /\ ProcessDies
    /\ UNCHANGED durable

\* Faulty variant of SendToSubmitter: the channel is taken to be unbounded.
SendToSubmitterUnbounded(j) ==
    /\ job[j].pc = "submit"
    /\ submitChan' = Append(submitChan, [d |-> job[j].d, st |-> job[j].st,
                                         hash |-> job[j].hash])
    /\ job' = [job EXCEPT ![j] = Free]
    /\ UNCHANGED <<row, tx, paid, cache>> /\ JobFrame

\* Run succeeded: the worker waits for room in submitChan.
SendToSubmitter(j) ==
    /\ job[j].pc = "submit"
    /\ Len(submitChan) < SubmitPoolSize
    /\ submitChan' = Append(submitChan, [d |-> job[j].d, st |-> job[j].st,
                                         hash |-> job[j].hash])
    /\ job' = [job EXCEPT ![j] = Free]
    /\ UNCHANGED <<row, tx, paid, cache>> /\ JobFrame

ContainerStep(j) ==
    \/ TakeContainer(j)
    \/ BroadcastIsProcessed(j) \/ AlreadyWithdrawnStatus(j)
    \/ AlreadyWithdrawnDetails(j) \/ BroadcastProcessing(j)
    \/ CatchUpIsSubmitted(j) \/ CatchUpAlreadySubmitted(j)
    \/ CatchUpProcessing(j) \/ CatchUpIsProcessed(j)
    \/ CatchUpSkipStatus(j) \/ CatchUpSkipDetails(j)
    \/ SendWithdrawal(j) \/ FinalizeWithdrawal(j)
    \/ WithdrawFailedStatus(j) \/ WithdrawFailedDetails(j)
    \/ WithdrawalDetails(j) \/ SubmittingStatus(j) \/ FailedStatus(j)
    \/ EvictDeposit(j) \/ WorkerPanics(j) \/ SendToSubmitter(j)

ContainersNext == \E j \in Jobs : ContainerStep(j)

=============================================================================
