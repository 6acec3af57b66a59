----------------------------- MODULE PromiseProofs -----------------------------
(***************************************************************************)
(* The relayer implements its promise, for every set of deposits, number   *)
(* of goroutines, size of channels and combination of faults. Seen from    *)
(* outside a step does one of three things, and the payment invariant says *)
(* that it does it to deposits that are paid.                              *)
(***************************************************************************)
EXTENDS RelayerProofs

\* A step that writes at most the row of d; one that writes at most core; one
\* that pays d.
RowStep(d) == (\A e \in Deposits \ {d} : row'[e] = row[e]) /\ UNCHANGED <<paid, core>>
CoreStep == UNCHANGED <<row, paid>>
PayStep(d) == d \notin paid /\ paid' = paid \cup {d} /\ UNCHANGED <<row, core>>

Visible == \/ \E d \in Deposits : RowStep(d) \/ PayStep(d)
           \/ CoreStep

\* The statements of DepositsQ write one row.
LEMMA StatementsWriteOneRow ==
    ASSUME DurableOK, NEW d \in Deposits, NEW status, NEW hash, NEW attempts,
           \/ row' = UpdateStatus(row, d, status)
           \/ row' = UpdateWithdrawalDetails(row, d, hash, status)
           \/ row' = Insert(row, d, attempts)
    PROVE  \A e \in Deposits \ {d} : row'[e] = row[e]
BY DEF DurableOK, UpdateStatus, UpdateWithdrawalDetails, Insert, UpdateRecoveryData

\* A step of Run writes at most the row of the container's deposit.
LEMMA RunStepVisible ==
    ASSUME TypeOK, NEW j \in Jobs, RunStep(j)
    PROVE  Visible
<1> USE DEF JobFrame
<1>1. job[j].pc # "free"
  BY RunStepFrame
<1>2. job[j].d \in Deposits /\ DurableOK
  BY <1>1 DEF TypeOK, JobsOK
<1>3. UNCHANGED <<paid, core>>
  BY DEF RunStep, TakeContainer, BroadcastIsProcessed, CatchUpIsSubmitted,
     CatchUpIsProcessed, FinalizeWithdrawal, SendWithdrawal, AlreadyWithdrawnStatus,
     AlreadyWithdrawnDetails, BroadcastProcessing, CatchUpAlreadySubmitted,
     CatchUpProcessing, CatchUpSkipStatus, CatchUpSkipDetails, WithdrawFailedStatus,
     WithdrawFailedDetails, WithdrawalDetails, SubmittingStatus, FailedStatus
<1>4. CASE row' = row
  BY <1>3, <1>4 DEF Visible, CoreStep
<1>5. CASE \E status : row' = UpdateStatus(row, job[j].d, status)
  BY <1>2, <1>3, <1>5, StatementsWriteOneRow DEF Visible, RowStep
<1>6. CASE \E hash, status : row' = UpdateWithdrawalDetails(row, job[j].d, hash, status)
  BY <1>2, <1>3, <1>6, StatementsWriteOneRow DEF Visible, RowStep
<1>7. \/ row' = row
      \/ \E status : row' = UpdateStatus(row, job[j].d, status)
      \/ \E hash, status : row' = UpdateWithdrawalDetails(row, job[j].d, hash, status)
  BY DEF RunStep, TakeContainer, BroadcastIsProcessed, CatchUpIsSubmitted,
     CatchUpIsProcessed, FinalizeWithdrawal, SendWithdrawal, AlreadyWithdrawnStatus,
     AlreadyWithdrawnDetails, BroadcastProcessing, CatchUpAlreadySubmitted,
     CatchUpProcessing, CatchUpSkipStatus, CatchUpSkipDetails, WithdrawFailedStatus,
     WithdrawFailedDetails, WithdrawalDetails, SubmittingStatus, FailedStatus
<1> QED
  BY <1>4, <1>5, <1>6, <1>7

\* No step does two things at once that can be seen from outside.
LEMMA NextVisible ==
    ASSUME TypeOK, [Next]_vars
    PROVE  Visible
<1>1. CASE UNCHANGED durable \/ UNCHANGED vars
  BY <1>1 DEF durable, vars, Visible, CoreStep
<1>2. CASE BroadcasterNext
  <2>1. PICK r \in Requesters : UNCHANGED durable \/ InsertDeposit(r)
    BY <1>2 DEF BroadcasterNext, SubmitWithdrawal, ObserveDeposit, CheckCache, CheckChain,
       CheckRow, StartBroadcast
  <2>2. CASE InsertDeposit(r)
    <3>1. req[r].d \in Deposits /\ DurableOK
      BY <2>2 DEF InsertDeposit, TypeOK, RequestsOK
    <3>2. UNCHANGED <<paid, core>>
      BY <2>2 DEF InsertDeposit
    <3>3. row' = row \/ row' = Insert(row, req[r].d, 0)
      BY <2>2 DEF InsertDeposit
    <3> QED
      BY <3>1, <3>2, <3>3, StatementsWriteOneRow DEF Visible, RowStep, CoreStep
  <2> QED
    BY <1>1, <2>1, <2>2
<1>3. CASE CatchUpperNext
  <2>1. CASE CatchUpUpdate
    <3>1. cu.cur.d \in Deposits /\ DurableOK
      BY <2>1 DEF CatchUpUpdate, TypeOK, CatchUpOK, Entries
    <3>2. UNCHANGED <<paid, core>>
      BY <2>1 DEF CatchUpUpdate
    <3>3. row' = row \/ row' = UpdateStatus(row, cu.cur.d, "PENDING")
      BY <2>1 DEF CatchUpUpdate
    <3> QED
      BY <3>1, <3>2, <3>3, StatementsWriteOneRow DEF Visible, RowStep, CoreStep
  <2> QED
    BY <1>1, <1>3, <2>1 DEF CatchUpperNext, LoadPhase, CatchUpCheck, CatchUpEnqueue,
       EndPhase
<1>4. CASE ContainersNext
  <2>1. PICK j \in Jobs : RunStep(j) \/ LastStep(j)
    BY <1>4 DEF ContainersNext, ContainerStep, RunStep, LastStep
  <2>2. CASE LastStep(j)
    BY <2>2 DEF LastStep, EvictDeposit, WorkerPanics, SendToSubmitter, JobFrame, durable,
       Visible, CoreStep
  <2> QED
    BY <2>1, <2>2, RunStepVisible
<1>5. CASE CoreSubmitterNext
  <2>1. CASE MarkProcessed
    <3>1. sub.i \in 1..Len(pool) /\ pool \in Seq(Reports) /\ DurableOK
      BY <2>1 DEF MarkProcessed, TypeOK, SubmitterOK
    <3>2. pool[sub.i] \in Reports
      BY <3>1
    <3>3. pool[sub.i].d \in Deposits
      BY <3>2 DEF Reports
    <3>4. UNCHANGED <<paid, core>>
      BY <2>1 DEF MarkProcessed, SubmitterFrame
    <3>5. row' = row \/ row' = UpdateStatus(row, pool[sub.i].d, "PROCESSED")
      BY <2>1 DEF MarkProcessed
    <3> QED
      BY <3>1, <3>3, <3>4, <3>5, StatementsWriteOneRow DEF Visible, RowStep, CoreStep
  <2> QED
    BY <1>5, <2>1 DEF CoreSubmitterNext, ReceiveDeposit, QueryCore, BroadcastBatch,
       ClearPool, SubmitterFrame, Visible, CoreStep
<1>6. CASE ChainNext
  BY <1>6 DEF ChainNext, MineWithdrawal, ForeignPay, ForeignReport, Visible, CoreStep,
     PayStep, TypeOK, DurableOK
<1> QED
  BY <1>1, <1>2, <1>3, <1>4, <1>5, <1>6 DEF Next, Start, Crash

\* What can be seen of a step is a step of the promise, if claims and reports are
\* of paid deposits before and after it.
LEMMA VisibleIsPromised ==
    ASSUME RowsPaid, CorePaid, RowsPaid', CorePaid', Visible
    PROVE  [PromiseOf!PromiseNext]_(PromiseOf!promiseVars)
<1> USE DEF PromiseOf!PromiseNext, PromiseOf!promiseVars
<1>1. ASSUME NEW d \in Deposits, RowStep(d)
      PROVE  PromiseOf!PromiseNext
  <2>1. Reported' = Reported /\ paid' = paid
    BY <1>1 DEF RowStep, Reported
  <2>2. CASE row'[d].status \in Settled
    <3>1. Claimed' = Claimed \cup {d}
      BY <1>1, <2>2 DEF RowStep, Claimed
    <3>2. d \in paid
      BY <2>1, <2>2 DEF RowsPaid
    <3> QED
      BY <2>1, <3>1, <3>2 DEF PromiseOf!Claim
  <2>3. CASE row'[d].status \notin Settled
    <3>1. Claimed' = Claimed \ {d}
      BY <1>1, <2>3 DEF RowStep, Claimed
    <3> QED
      BY <2>1, <3>1 DEF PromiseOf!Retract
  <2> QED
    BY <2>2, <2>3
<1>2. ASSUME NEW d \in Deposits, PayStep(d)
      PROVE  PromiseOf!PromiseNext
  BY <1>2 DEF PayStep, Claimed, Reported, PromiseOf!Pay
<1>3. CASE CoreStep
  <2> DEFINE batch == Reported \cup Reported'
  <2>1. Claimed' = Claimed /\ paid' = paid
    BY <1>3 DEF CoreStep, Claimed
  <2>2. batch \in SUBSET Deposits /\ batch \subseteq paid
    BY <2>1 DEF Reported, CorePaid
  <2>3. Reported' \in SUBSET Deposits /\ Reported' \ batch = Reported \ batch
    BY DEF Reported
  <2>4. PromiseOf!Report(batch)
    BY <2>1, <2>2, <2>3 DEF PromiseOf!Report
  <2> QED
    BY <2>2, <2>4
<1> QED
  BY <1>1, <1>2, <1>3 DEF Visible

\* Where Withdraw verifies its transaction the relayer implements its promise.
THEOREM PromiseIsKept ==
    ASSUME Verified
    PROVE  Spec => PromiseKept
<1>1. Init => PromiseOf!PromiseInit
  BY DEF Init, NoRow, Settled, Claimed, Reported, PromiseOf!PromiseInit
<1>2. TypeOK /\ (Verified => PaymentInv) /\ (Verified => PaymentInv)' /\ [Next]_vars
        => [PromiseOf!PromiseNext]_(PromiseOf!promiseVars)
  BY NextVisible, VisibleIsPromised DEF PaymentInv
<1> QED
  BY <1>1, <1>2, TypeCorrect, PaymentInvariant, PTL DEF Spec, PromiseKept,
     PromiseOf!PromiseSpec

=============================================================================
