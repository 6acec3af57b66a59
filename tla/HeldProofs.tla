------------------------------ MODULE HeldProofs ------------------------------
(***************************************************************************)
(* Proofs that no deposit is left behind: a row that says PENDING or       *)
(* PROCESSING has a goroutine that will write something else, or the       *)
(* catch-upper still has to read it, and a cached deposit is paid or has a *)
(* container. With catch-up, both are about chains that are configured.    *)
(***************************************************************************)
EXTENDS RelayerProofs

-----------------------------------------------------------------------------
(* Who owes a row its final status *)

\* Where a container stands that has yet to write the status it ends with, or is
\* about to end the process without it.
OwesPcs == JobPcs \ {"free", "evict", "submit"}

\* The places of Run that only a catch-up container gets to.
CatchUpPcs == {"cuProcessing", "cuChain", "cuSkipStatus", "cuSkipDetails",
               "cuCheck", "cuSubmitted"}

\* The container has yet to write, or the submitter has to for its report.
Owes(j) ==
    \/ job[j].pc \in OwesPcs
    \/ job[j].pc = "submit" /\ job[j].st = "SUBMITTING_TO_CORE"

\* A report from the n-th on is of the deposit and will mark it PROCESSED.
ToMark(d, reports, n) ==
    \E i \in n..Len(reports) :
        reports[i].d = d /\ reports[i].st = "SUBMITTING_TO_CORE"

\* The submitter has yet to mark the deposit.
ReportOwed(d) ==
    \/ ToMark(d, submitChan, 1)
    \/ ToMark(d, pool, IF sub.pc = "mark" THEN sub.i ELSE 1)

\* Somebody will write the status of the deposit: a container, a request that is
\* about to start one, the catch-upper with the same in mind, or the submitter.
\* That a deposit is held is not inductive: a container that is about to end, or
\* a report that is marked already, holds it as well.
Owed(d) ==
    \/ \E j \in Jobs : Owes(j) /\ job[j].d = d
    \/ \E r \in Requesters : req[r].pc = "store" /\ req[r].d = d
    \/ cu.pc = "enqueue" /\ cu.cur.d = d
    \/ ReportOwed(d)

\* The status in memory while a container is about to write it.
JobStatus ==
    \A j \in Jobs :
        /\ job[j].pc \in {"failStatus", "wfStatus", "wfDetails"} => job[j].st = "FAILED"
        /\ job[j].pc \in {"bcAwStatus", "bcAwDetails"} => job[j].st = "ALREADY_WITHDRAWN"
        /\ job[j].pc \in {"cuSkipStatus", "cuSkipDetails"} => job[j].st = "PROCESSED"
        /\ job[j].pc \in {"cuChain", "withdraw", "finalize", "details", "submitting"} =>
              job[j].st = "PROCESSING"
        /\ job[j].pc = "cuCheck" => job[j].st = "SUBMITTING_TO_CORE"

\* Without catch-up every container is a broadcast container.
BroadcastInv ==
    /\ cu.pc = "off"
    /\ \A j \in Jobs : job[j].pc # "free" =>
          job[j].kind = "broadcast" /\ job[j].pc \notin CatchUpPcs

NoPanicInv == \A j \in Jobs : job[j].pc # "panic"

UnsettledInv ==
    \A d \in Deposits : row[d].status \in Unsettled => Owed(d)

\* A process that is down does nothing.
DownInv == ~up => cache = {} /\ job = AllFree /\ req = AllIdle /\ cu.pc = "off"

\* The catch-upper has yet to take the deposit up.
ToCatchUp(d) ==
    /\ cu.phase # "SUBMITTING_TO_CORE" /\ cu.pc # "done"
    /\ \/ cu.pc = "load" /\ row[d].status \in {cu.phase, "PROCESSING"}
       \/ cu.phase = "PENDING" /\ row[d].status = "PROCESSING"
       \/ cu.pc # "load" /\ \E e \in cu.todo : e.d = d
       \/ cu.pc = "update" /\ cu.cur.d = d

UnpaidInv ==
    up /\ cu.pc # "off" =>
        \A d \in served \ paid : row[d].status \in Unsettled =>
            Owed(d) \/ (d \notin cache /\ ToCatchUp(d))

-----------------------------------------------------------------------------
(* Steps of Run *)

\* A step of Run writes only to the row of its deposit. Without database errors
\* a container that has nothing more to write has written a status that is final.
LEMMA RunStepRow ==
    ASSUME TypeOK, JobStatus, NEW j \in Jobs, RunStep(j)
    PROVE  /\ \A d \in Deposits : d # job[j].d => row'[d] = row[d]
           /\ \/ "db" \in Faults \/ Owes(j)'
              \/ row'[job[j].d].status \notin Unsettled
<1> USE DEF JobFrame, Owes
<1>1. /\ job \in [Jobs -> ContainerRecords]
      /\ job[j].pc # "free" => job[j].d \in Deposits
      /\ job[j].pc \in {"failStatus", "wfStatus", "wfDetails"} => job[j].st = "FAILED"
      /\ job[j].pc \in {"bcAwStatus", "bcAwDetails"} => job[j].st = "ALREADY_WITHDRAWN"
      /\ job[j].pc \in {"cuSkipStatus", "cuSkipDetails"} => job[j].st = "PROCESSED"
      /\ job[j].pc = "cuCheck" => job[j].st = "SUBMITTING_TO_CORE"
  BY DEF TypeOK, JobsOK, JobStatus
<1>2. row \in [Deposits -> Rows]
  BY DEF TypeOK, DurableOK
<1>4. CASE TakeContainer(j)
  BY <1>4, <1>1, <1>2 DEF TakeContainer, JobStep, JobStepAs, ContainerRecords,
     UpdateStatus, UpdateWithdrawalDetails, Rows, OwesPcs, JobPcs, Unsettled
<1>5. CASE BroadcastIsProcessed(j)
  BY <1>5, <1>1, <1>2 DEF BroadcastIsProcessed, IsProcessed, JobStep, JobStepAs,
     ContainerRecords, UpdateStatus, UpdateWithdrawalDetails, Rows, OwesPcs, JobPcs,
     Unsettled
<1>6. CASE CatchUpIsSubmitted(j)
  BY <1>6, <1>1, <1>2 DEF CatchUpIsSubmitted, JobStep, JobStepAs, ContainerRecords,
     UpdateStatus, UpdateWithdrawalDetails, Rows, OwesPcs, JobPcs, Unsettled
<1>7. CASE CatchUpIsProcessed(j)
  BY <1>7, <1>1, <1>2 DEF CatchUpIsProcessed, IsProcessed, JobStep, JobStepAs,
     ContainerRecords, UpdateStatus, UpdateWithdrawalDetails, Rows, OwesPcs, JobPcs,
     Unsettled
<1>8. CASE FinalizeWithdrawal(j)
  BY <1>8, <1>1, <1>2 DEF FinalizeWithdrawal, WithdrawFails, JobStep, JobStepAs,
     ContainerRecords, UpdateStatus, UpdateWithdrawalDetails, Rows, OwesPcs, JobPcs,
     Unsettled
<1>9. CASE SendWithdrawal(j)
  BY <1>9, <1>1, <1>2 DEF SendWithdrawal, WithdrawFails, JobStep, JobStepAs,
     ContainerRecords, UpdateStatus, UpdateWithdrawalDetails, Rows, OwesPcs, JobPcs,
     Unsettled
<1>10. CASE AlreadyWithdrawnStatus(j)
  BY <1>10, <1>1, <1>2 DEF AlreadyWithdrawnStatus, JobStep, JobStepAs,
     ContainerRecords, UpdateStatus, UpdateWithdrawalDetails, Rows, OwesPcs, JobPcs,
     Unsettled
<1>11. CASE AlreadyWithdrawnDetails(j)
  BY <1>11, <1>1, <1>2 DEF AlreadyWithdrawnDetails, JobStep, JobStepAs,
     ContainerRecords, UpdateStatus, UpdateWithdrawalDetails, Rows, OwesPcs, JobPcs,
     Unsettled
<1>12. CASE BroadcastProcessing(j)
  BY <1>12, <1>1, <1>2 DEF BroadcastProcessing, JobStep, JobStepAs, ContainerRecords,
     UpdateStatus, UpdateWithdrawalDetails, Rows, OwesPcs, JobPcs, Unsettled
<1>13. CASE CatchUpAlreadySubmitted(j)
  BY <1>13, <1>1, <1>2 DEF CatchUpAlreadySubmitted, JobStep, JobStepAs,
     ContainerRecords, UpdateStatus, UpdateWithdrawalDetails, Rows, OwesPcs, JobPcs,
     Unsettled
<1>14. CASE CatchUpProcessing(j)
  BY <1>14, <1>1, <1>2 DEF CatchUpProcessing, JobStep, JobStepAs, ContainerRecords,
     UpdateStatus, UpdateWithdrawalDetails, Rows, OwesPcs, JobPcs, Unsettled
<1>15. CASE CatchUpSkipStatus(j)
  BY <1>15, <1>1, <1>2 DEF CatchUpSkipStatus, JobStep, JobStepAs, ContainerRecords,
     UpdateStatus, UpdateWithdrawalDetails, Rows, OwesPcs, JobPcs, Unsettled
<1>16. CASE CatchUpSkipDetails(j)
  BY <1>16, <1>1, <1>2 DEF CatchUpSkipDetails, JobStep, JobStepAs, ContainerRecords,
     UpdateStatus, UpdateWithdrawalDetails, Rows, OwesPcs, JobPcs, Unsettled
<1>17. CASE WithdrawFailedStatus(j)
  BY <1>17, <1>1, <1>2 DEF WithdrawFailedStatus, JobStep, JobStepAs, ContainerRecords,
     UpdateStatus, UpdateWithdrawalDetails, Rows, OwesPcs, JobPcs, Unsettled
<1>18. CASE WithdrawFailedDetails(j)
  BY <1>18, <1>1, <1>2 DEF WithdrawFailedDetails, JobStep, JobStepAs,
     ContainerRecords, UpdateStatus, UpdateWithdrawalDetails, Rows, OwesPcs, JobPcs,
     Unsettled
<1>19. CASE WithdrawalDetails(j)
  BY <1>19, <1>1, <1>2 DEF WithdrawalDetails, JobStep, JobStepAs, ContainerRecords,
     UpdateStatus, UpdateWithdrawalDetails, Rows, OwesPcs, JobPcs, Unsettled
<1>20. CASE SubmittingStatus(j)
  BY <1>20, <1>1, <1>2 DEF SubmittingStatus, JobStep, JobStepAs, ContainerRecords,
     UpdateStatus, UpdateWithdrawalDetails, Rows, OwesPcs, JobPcs, Unsettled
<1>21. CASE FailedStatus(j)
  BY <1>21, <1>1, <1>2 DEF FailedStatus, JobStep, JobStepAs, ContainerRecords,
     UpdateStatus, UpdateWithdrawalDetails, Rows, OwesPcs, JobPcs, Unsettled
<1> QED
  BY <1>4, <1>5, <1>6, <1>7, <1>8, <1>9, <1>10, <1>11, <1>12, <1>13, <1>14, <1>15,
     <1>16, <1>17, <1>18, <1>19, <1>20, <1>21 DEF RunStep

\* A step of Run keeps JobStatus: the status in memory is assigned together with
\* the decision to write it.
LEMMA RunStepStatus ==
    ASSUME TypeOK, JobStatus, NEW j \in Jobs, RunStep(j)
    PROVE  JobStatus'
<1> USE DEF JobStatus
<1>1. job \in [Jobs -> ContainerRecords]
  BY DEF TypeOK, JobsOK
<1>2. CASE TakeContainer(j)
  BY <1>2, <1>1 DEF TakeContainer, JobStep, JobStepAs, ContainerRecords
<1>3. CASE BroadcastIsProcessed(j)
  BY <1>3, <1>1 DEF BroadcastIsProcessed, IsProcessed, JobStep, JobStepAs,
     ContainerRecords
<1>4. CASE CatchUpIsSubmitted(j)
  BY <1>4, <1>1 DEF CatchUpIsSubmitted, JobStep, JobStepAs, ContainerRecords
<1>5. CASE CatchUpIsProcessed(j)
  BY <1>5, <1>1 DEF CatchUpIsProcessed, IsProcessed, JobStep, JobStepAs,
     ContainerRecords
<1>6. CASE FinalizeWithdrawal(j)
  BY <1>6, <1>1 DEF FinalizeWithdrawal, WithdrawFails, JobStep, JobStepAs,
     ContainerRecords
<1>7. CASE SendWithdrawal(j)
  BY <1>7, <1>1 DEF SendWithdrawal, WithdrawFails, JobStep, JobStepAs,
     ContainerRecords
<1>8. CASE AlreadyWithdrawnStatus(j)
  BY <1>8, <1>1 DEF AlreadyWithdrawnStatus, JobStep, JobStepAs, ContainerRecords
<1>9. CASE AlreadyWithdrawnDetails(j)
  BY <1>9, <1>1 DEF AlreadyWithdrawnDetails, JobStep, JobStepAs, ContainerRecords
<1>10. CASE BroadcastProcessing(j)
  BY <1>10, <1>1 DEF BroadcastProcessing, JobStep, JobStepAs, ContainerRecords
<1>11. CASE CatchUpAlreadySubmitted(j)
  BY <1>11, <1>1 DEF CatchUpAlreadySubmitted, JobStep, JobStepAs, ContainerRecords
<1>12. CASE CatchUpProcessing(j)
  BY <1>12, <1>1 DEF CatchUpProcessing, JobStep, JobStepAs, ContainerRecords
<1>13. CASE CatchUpSkipStatus(j)
  BY <1>13, <1>1 DEF CatchUpSkipStatus, JobStep, JobStepAs, ContainerRecords
<1>14. CASE CatchUpSkipDetails(j)
  BY <1>14, <1>1 DEF CatchUpSkipDetails, JobStep, JobStepAs, ContainerRecords
<1>15. CASE WithdrawFailedStatus(j)
  BY <1>15, <1>1 DEF WithdrawFailedStatus, JobStep, JobStepAs, ContainerRecords
<1>16. CASE WithdrawFailedDetails(j)
  BY <1>16, <1>1 DEF WithdrawFailedDetails, JobStep, JobStepAs, ContainerRecords
<1>17. CASE WithdrawalDetails(j)
  BY <1>17, <1>1 DEF WithdrawalDetails, JobStep, JobStepAs, ContainerRecords
<1>18. CASE SubmittingStatus(j)
  BY <1>18, <1>1 DEF SubmittingStatus, JobStep, JobStepAs, ContainerRecords
<1>19. CASE FailedStatus(j)
  BY <1>19, <1>1 DEF FailedStatus, JobStep, JobStepAs, ContainerRecords
<1> QED
  BY <1>2, <1>3, <1>4, <1>5, <1>6, <1>7, <1>8, <1>9, <1>10, <1>11, <1>12, <1>13,
     <1>14, <1>15, <1>16, <1>17, <1>18, <1>19 DEF RunStep

\* A broadcast container never gets to the places of a catch-up container, and
\* only a database error makes it panic.
LEMMA RunStepBroadcast ==
    ASSUME TypeOK, NEW j \in Jobs, RunStep(j),
           job[j].kind = "broadcast", job[j].pc \notin CatchUpPcs
    PROVE  /\ job'[j].kind = "broadcast" /\ job'[j].pc \notin CatchUpPcs
           /\ job'[j].pc = "panic" => "db" \in Faults
<1>1. job \in [Jobs -> ContainerRecords]
  BY DEF TypeOK, JobsOK
<1>2. CASE TakeContainer(j)
  BY <1>2, <1>1 DEF TakeContainer, JobStep, ContainerRecords, CatchUpPcs
<1>3. CASE BroadcastIsProcessed(j)
  BY <1>3, <1>1 DEF BroadcastIsProcessed, IsProcessed, JobStep, JobStepAs,
     ContainerRecords, CatchUpPcs
<1>4. CASE CatchUpIsSubmitted(j)
  BY <1>4, <1>1 DEF CatchUpIsSubmitted, JobStep, JobStepAs, ContainerRecords,
     CatchUpPcs
<1>5. CASE CatchUpIsProcessed(j)
  BY <1>5, <1>1 DEF CatchUpIsProcessed, IsProcessed, JobStep, JobStepAs,
     ContainerRecords, CatchUpPcs
<1>6. CASE FinalizeWithdrawal(j)
  BY <1>6, <1>1 DEF FinalizeWithdrawal, WithdrawFails, JobStep, JobStepAs,
     ContainerRecords, CatchUpPcs
<1>7. CASE SendWithdrawal(j)
  BY <1>7, <1>1 DEF SendWithdrawal, WithdrawFails, JobStep, JobStepAs,
     ContainerRecords, CatchUpPcs
<1>8. CASE AlreadyWithdrawnStatus(j)
  BY <1>8, <1>1 DEF AlreadyWithdrawnStatus, JobStep, JobStepAs, ContainerRecords,
     CatchUpPcs
<1>9. CASE AlreadyWithdrawnDetails(j)
  BY <1>9, <1>1 DEF AlreadyWithdrawnDetails, JobStep, JobStepAs, ContainerRecords,
     CatchUpPcs
<1>10. CASE BroadcastProcessing(j)
  BY <1>10, <1>1 DEF BroadcastProcessing, JobStep, JobStepAs, ContainerRecords,
     CatchUpPcs
<1>11. CASE CatchUpAlreadySubmitted(j)
  BY <1>11, <1>1 DEF CatchUpAlreadySubmitted, JobStep, JobStepAs, ContainerRecords,
     CatchUpPcs
<1>12. CASE CatchUpProcessing(j)
  BY <1>12, <1>1 DEF CatchUpProcessing, JobStep, JobStepAs, ContainerRecords,
     CatchUpPcs
<1>13. CASE CatchUpSkipStatus(j)
  BY <1>13, <1>1 DEF CatchUpSkipStatus, JobStep, JobStepAs, ContainerRecords,
     CatchUpPcs
<1>14. CASE CatchUpSkipDetails(j)
  BY <1>14, <1>1 DEF CatchUpSkipDetails, JobStep, JobStepAs, ContainerRecords,
     CatchUpPcs
<1>15. CASE WithdrawFailedStatus(j)
  BY <1>15, <1>1 DEF WithdrawFailedStatus, JobStep, JobStepAs, ContainerRecords,
     CatchUpPcs
<1>16. CASE WithdrawFailedDetails(j)
  BY <1>16, <1>1 DEF WithdrawFailedDetails, JobStep, JobStepAs, ContainerRecords,
     CatchUpPcs
<1>17. CASE WithdrawalDetails(j)
  BY <1>17, <1>1 DEF WithdrawalDetails, JobStep, JobStepAs, ContainerRecords,
     CatchUpPcs
<1>18. CASE SubmittingStatus(j)
  BY <1>18, <1>1 DEF SubmittingStatus, JobStep, JobStepAs, ContainerRecords,
     CatchUpPcs
<1>19. CASE FailedStatus(j)
  BY <1>19, <1>1 DEF FailedStatus, JobStep, JobStepAs, ContainerRecords, CatchUpPcs
<1> QED
  BY <1>2, <1>3, <1>4, <1>5, <1>6, <1>7, <1>8, <1>9, <1>10, <1>11, <1>12, <1>13,
     <1>14, <1>15, <1>16, <1>17, <1>18, <1>19 DEF RunStep

-----------------------------------------------------------------------------
(* Steps of the relayer *)

\* Every step keeps JobStatus.
LEMMA NextStatus == ASSUME TypeOK, JobStatus, [Next]_vars PROVE JobStatus'
<1>1. job \in [Jobs -> ContainerRecords]
  BY DEF TypeOK, JobsOK
<1>2. CASE job' = job
  BY <1>2 DEF JobStatus
<1>3. CASE ProcessDies
  BY <1>3 DEF ProcessDies, AllFree, Free, JobStatus
<1>4. ASSUME NEW j \in Jobs, NEW kind, NEW d, NEW st, NEW hash, Spawn(j, kind, d, st, hash)
      PROVE  JobStatus'
  BY <1>1, <1>4 DEF Spawn, JobStatus
<1>5. CASE BroadcasterNext
  BY <1>2, <1>4, <1>5 DEF BroadcasterNext, SubmitWithdrawal, ObserveDeposit, CheckCache,
     CheckChain, CheckRow, InsertDeposit, StartBroadcast
<1>6. CASE CatchUpperNext
  BY <1>2, <1>3, <1>4, <1>6 DEF CatchUpperNext, LoadPhase, CatchUpCheck, CatchUpUpdate,
     CatchUpEnqueue, EndPhase
<1>7. CASE ContainersNext
  <2>1. PICK j \in Jobs : RunStep(j) \/ LastStep(j)
    BY <1>7 DEF ContainersNext, ContainerStep, RunStep, LastStep
  <2>2. CASE RunStep(j)
    BY <2>2, RunStepStatus
  <2>3. CASE EvictDeposit(j) \/ SendToSubmitter(j)
    BY <2>3, <1>1 DEF EvictDeposit, SendToSubmitter, Free, JobStatus
  <2> QED
    BY <2>1, <2>2, <2>3, <1>3 DEF LastStep, WorkerPanics
<1>8. CASE CoreSubmitterNext \/ ChainNext \/ Start \/ UNCHANGED vars
  BY <1>2, <1>8 DEF CoreSubmitterNext, ReceiveDeposit, QueryCore, BroadcastBatch,
     MarkProcessed, ClearPool, SubmitterFrame, ChainNext, MineWithdrawal, ForeignPay,
     ForeignReport, Memory, Start, vars
<1> QED
  BY <1>3, <1>5, <1>6, <1>7, <1>8 DEF Next, Crash

\* A process that is down is started or does nothing.
LEMMA StaysDown ==
    ASSUME TypeOK, DownInv, [Next]_vars, ~up
    PROVE  Start \/ UNCHANGED <<up, cache, job, req, cu>>
<1>1. /\ \A j \in Jobs : job[j].pc = "free"
      /\ \A r \in Requesters : req[r].pc = "idle"
      /\ cu.pc = "off" /\ DownInv
  BY DEF DownInv, AllFree, Free, AllIdle, Idle
<1>2. ~BroadcasterNext /\ ~CatchUpperNext
  BY <1>1 DEF BroadcasterNext, SubmitWithdrawal, ObserveDeposit, CheckCache,
     CheckChain, CheckRow, InsertDeposit, StartBroadcast, CatchUpperNext, LoadPhase,
     CatchUpCheck, CatchUpUpdate, CatchUpEnqueue, EndPhase
<1>3. ~ContainersNext
  <2> SUFFICES ASSUME NEW j \in Jobs, ContainerStep(j) PROVE FALSE
    BY DEF ContainersNext
  <2>1. RunStep(j) \/ LastStep(j)
    BY DEF ContainerStep, RunStep, LastStep
  <2> QED
    BY <2>1, <1>1, RunStepFrame DEF LastStep, EvictDeposit, WorkerPanics, SendToSubmitter
<1> QED
  BY <1>2, <1>3 DEF Next, Start, Crash, CoreSubmitterNext, ReceiveDeposit, QueryCore,
     BroadcastBatch, MarkProcessed, ClearPool, SubmitterFrame, ChainNext, MineWithdrawal,
     ForeignPay, ForeignReport, Memory, vars

\* A process that is down stays inactive until it is started.
LEMMA NextDown == ASSUME TypeOK, DownInv, [Next]_vars PROVE DownInv'
<1>1. CASE ProcessDies
  BY <1>1 DEF ProcessDies, DownInv, CatchUpAt
<1>2. CASE up' = TRUE
  BY <1>2 DEF DownInv
<1>3. CASE up
  <2>1. ProcessDies \/ up' = up
    BY <1>3 DEF Next, Start, Crash, BroadcasterNext, SubmitWithdrawal, ObserveDeposit,
       CheckCache, CheckChain, CheckRow, InsertDeposit, StartBroadcast, CatchUpperNext,
       LoadPhase, CatchUpCheck, CatchUpUpdate, CatchUpEnqueue, EndPhase, CoreSubmitterNext,
       ReceiveDeposit, QueryCore, BroadcastBatch, MarkProcessed, ClearPool, SubmitterFrame,
       ChainNext, MineWithdrawal, ForeignPay, ForeignReport, Memory, vars, ContainersNext,
       ContainerStep, TakeContainer, BroadcastIsProcessed, AlreadyWithdrawnStatus,
       AlreadyWithdrawnDetails, BroadcastProcessing, CatchUpIsSubmitted,
       CatchUpAlreadySubmitted, CatchUpProcessing, CatchUpIsProcessed, CatchUpSkipStatus,
       CatchUpSkipDetails, SendWithdrawal, FinalizeWithdrawal, WithdrawFailedStatus,
       WithdrawFailedDetails, WithdrawalDetails, SubmittingStatus, FailedStatus,
       EvictDeposit, WorkerPanics, SendToSubmitter, JobFrame
  <2> QED
    BY <1>1, <1>2, <1>3, <2>1
<1>4. CASE ~up
  BY <1>2, <1>4, StaysDown DEF DownInv, Start
<1> QED
  BY <1>3, <1>4 DEF TypeOK, ProcessOK

-----------------------------------------------------------------------------
(* The cache *)

\* A step of Run leaves the clients of the process alone.
LEMMA RunStepServed == ASSUME NEW j, RunStep(j) PROVE served' = served /\ up' = up
BY DEF RunStep, TakeContainer, BroadcastIsProcessed, AlreadyWithdrawnStatus,
   AlreadyWithdrawnDetails, BroadcastProcessing, CatchUpIsSubmitted,
   CatchUpAlreadySubmitted, CatchUpProcessing, CatchUpIsProcessed, CatchUpSkipStatus,
   CatchUpSkipDetails, SendWithdrawal, FinalizeWithdrawal, WithdrawFailedStatus,
   WithdrawFailedDetails, WithdrawalDetails, SubmittingStatus, FailedStatus, JobFrame

\* What NoStrandedCache says, with the container named.
CacheInv ==
    \A d \in cache \cap served : d \in paid \/ \E j \in Jobs : job[j].pc # "free" /\ job[j].d = d

\* Caching a deposit together with a new container for it keeps the cache invariant.
LEMMA SpawnCache ==
    ASSUME TypeOK, CacheInv, NEW d, NEW j \in Jobs, NEW kind, NEW st, NEW hash,
           Spawn(j, kind, d, st, hash), cache' = cache \cup {d},
           paid' = paid, served' = served
    PROVE  CacheInv'
<1>1. job'[j].pc # "free" /\ job'[j].d = d
  BY DEF Spawn, TypeOK, JobsOK
<1>2. \A k \in Jobs : job[k].pc # "free" => job'[k] = job[k]
  BY DEF Spawn, TypeOK, JobsOK
<1> QED
  BY <1>1, <1>2 DEF CacheInv

\* The cache invariant is inductive, given the payment invariant: a container that
\* hands its deposit to the submitter ends, and its deposit stays cached as paid. A
\* new process, with the clients it has, starts with an empty cache.
LEMMA NextCache ==
    ASSUME TypeOK, PaymentInv, DownInv, CacheInv, [Next]_vars
    PROVE  CacheInv'
<1>1. CASE ProcessDies
  BY <1>1 DEF ProcessDies, CacheInv
<1>2. CASE BroadcasterNext
  <2>1. PICK r \in Requesters :
              \/ \E d \in Deposits : SubmitWithdrawal(r, d) \/ ObserveDeposit(r, d)
              \/ CheckCache(r) \/ CheckChain(r) \/ CheckRow(r)
              \/ InsertDeposit(r) \/ StartBroadcast(r)
    BY <1>2 DEF BroadcasterNext
  <2>2. CASE StartBroadcast(r)
    BY <2>2, SpawnCache DEF StartBroadcast, durable
  <2>3. CASE CheckChain(r)
    BY <2>3 DEF CheckChain, IsProcessed, durable, CacheInv
  <2> QED
    BY <2>1, <2>2, <2>3 DEF SubmitWithdrawal, ObserveDeposit, CheckCache, CheckRow,
       InsertDeposit, durable, CacheInv
<1>3. CASE CatchUpperNext
  <2>1. CASE CatchUpEnqueue
    <3>1. CASE cu.cur.d \in served
      BY <2>1, <3>1, SpawnCache DEF CatchUpEnqueue, durable
    <3>2. CASE cu.cur.d \notin served
      BY <2>1, <3>2 DEF CatchUpEnqueue, durable, CacheInv
    <3> QED
      BY <3>1, <3>2
  <2> QED
    BY <1>1, <1>3, <2>1 DEF CatchUpperNext, LoadPhase, CatchUpCheck, CatchUpUpdate,
       EndPhase, durable, CacheInv
<1>4. CASE ContainersNext
  <2>1. PICK j \in Jobs : RunStep(j) \/ LastStep(j)
    BY <1>4 DEF ContainersNext, ContainerStep, RunStep, LastStep
  <2>2. CASE RunStep(j)
    BY <2>2, RunStepFrame, RunStepServed DEF CacheInv
  <2>3. CASE EvictDeposit(j)
    BY <2>3 DEF EvictDeposit, JobFrame, CacheInv, TypeOK, JobsOK
  <2>4. CASE SendToSubmitter(j)
    <3>1. job[j].d \in paid
      BY <2>4 DEF SendToSubmitter, PaymentInv, JobsPaid, PaidPcs
    <3> QED
      BY <2>4, <3>1 DEF SendToSubmitter, JobFrame, CacheInv, TypeOK, JobsOK
  <2>5. CASE WorkerPanics(j)
    BY <1>1, <2>5 DEF WorkerPanics
  <2> QED
    BY <2>1, <2>2, <2>3, <2>4, <2>5 DEF LastStep
<1>5. CASE CoreSubmitterNext
  BY <1>5 DEF CoreSubmitterNext, ReceiveDeposit, QueryCore, BroadcastBatch, MarkProcessed,
              ClearPool, SubmitterFrame, CacheInv
<1>6. CASE ChainNext
  BY <1>6 DEF ChainNext, MineWithdrawal, ForeignPay, ForeignReport, Memory, CacheInv
<1>7. CASE Start
  BY <1>7 DEF Start, DownInv, CacheInv
<1>8. CASE Crash
  BY <1>1, <1>8 DEF Crash
<1>9. CASE UNCHANGED vars
  BY <1>9 DEF vars, CacheInv
<1> QED
  BY <1>2, <1>3, <1>4, <1>5, <1>6, <1>7, <1>8, <1>9 DEF Next

\* Whatever fails, crashes and is caught up, a deposit in the cache, where it is
\* refused for as long as the process lives, is paid or worked on, unless its chain
\* has no client in this process (the early return of CatchUp).
THEOREM CacheIsNotStranded == Spec => []NoStrandedCache
<1>1. Init => CacheInv /\ DownInv
  BY DEF Init, CacheInv, DownInv, CatchUpAt
<1>2. TypeOK /\ DownInv /\ (Verified => PaymentInv) /\ (Verified => CacheInv) /\ [Next]_vars
        => DownInv' /\ (Verified => CacheInv)'
  BY NextCache, NextDown
<1>3. (Verified => CacheInv) => NoStrandedCache
  BY DEF CacheInv, NoStrandedCache, Live
<1> QED
  BY <1>1, <1>2, <1>3, TypeCorrect, PaymentInvariant, PTL DEF Spec

-----------------------------------------------------------------------------
(* Who goes on to owe a row its status *)

\* The reports to mark, with one more behind them.
LEMMA AppendToMark ==
    ASSUME NEW s \in Seq(Reports), NEW x \in Reports, NEW d
    PROVE  ToMark(d, Append(s, x), 1)
              <=> ToMark(d, s, 1) \/ (x.d = d /\ x.st = "SUBMITTING_TO_CORE")
<1>1. /\ Len(Append(s, x)) = Len(s) + 1 /\ Append(s, x)[Len(s) + 1] = x
      /\ \A i \in 1..Len(s) : Append(s, x)[i] = s[i]
      /\ Len(s) \in Nat
  OBVIOUS
<1> HIDE DEF Reports
<1> QED
  BY <1>1 DEF ToMark

\* The reports to mark, without the one that is received.
LEMMA TailToMark ==
    ASSUME NEW s \in Seq(Reports), s # <<>>, NEW d, ToMark(d, s, 1),
           ~ToMark(d, Tail(s), 1)
    PROVE  Head(s).d = d /\ Head(s).st = "SUBMITTING_TO_CORE"
<1>1. /\ Head(s) = s[1] /\ Len(s) >= 1 /\ Len(Tail(s)) = Len(s) - 1
      /\ \A i \in 1..Len(Tail(s)) : Tail(s)[i] = s[i + 1]
  OBVIOUS
<1>2. PICK i \in 1..Len(s) : s[i].d = d /\ s[i].st = "SUBMITTING_TO_CORE"
  BY DEF ToMark
<1>3. CASE i # 1
  <2>1. i - 1 \in 1..Len(Tail(s)) /\ Tail(s)[i - 1] = s[i]
    BY <1>1, <1>3
  <2> QED
    BY <1>2, <2>1 DEF ToMark
<1> QED
  BY <1>1, <1>2, <1>3

\* The submitter drops no report before it has marked the deposit, as long as the
\* write does not fail.
LEMMA SubmitterOwes ==
    ASSUME TypeOK, "db" \notin Faults, NEW d \in Deposits, CoreSubmitterNext,
           row'[d].status \in Unsettled
    PROVE  ReportOwed(d) => ReportOwed(d)'
<1>1. /\ submitChan \in Seq(Reports) /\ pool \in Seq(Reports)
      /\ sub \in [pc : {"recv", "query", "broadcast", "mark"},
                  tries : 0..(Retries - 1), i : Nat]
      /\ row \in [Deposits -> Rows]
  BY DEF TypeOK, SubmitterOK, DurableOK
<1>2. CASE ReceiveDeposit
  <2>1. /\ submitChan # <<>> /\ Head(submitChan) \in Reports
        /\ pool' = Append(pool, Head(submitChan)) /\ submitChan' = Tail(submitChan)
        /\ sub.pc = "recv" /\ sub'.pc # "mark"
    BY <1>1, <1>2 DEF ReceiveDeposit
  <2>2. ToMark(d, submitChan, 1) => ToMark(d, submitChan, 1)' \/ ToMark(d, pool, 1)'
    BY <1>1, <2>1, TailToMark, AppendToMark
  <2>3. ToMark(d, pool, 1) => ToMark(d, pool, 1)'
    BY <1>1, <2>1, AppendToMark
  <2> QED
    BY <2>1, <2>2, <2>3 DEF ReportOwed
<1>3. CASE QueryCore \/ BroadcastBatch
  <2>1. /\ UNCHANGED <<submitChan, pool>> /\ sub.pc # "mark"
        /\ sub'.pc = "mark" => sub'.i = 1
    <3>1. AttemptFails => sub'.pc # "mark"
      BY <1>1 DEF AttemptFails, Receiving
    <3>2. CASE QueryCore
      <4>1. [sub EXCEPT !.pc = "broadcast"].pc = "broadcast"
        BY <1>1
      <4> QED
        BY <3>1, <3>2, <4>1 DEF QueryCore
    <3>3. CASE BroadcastBatch
      BY <3>1, <3>3 DEF BroadcastBatch
    <3> QED
      BY <1>3, <3>2, <3>3
  <2> QED
    BY <2>1 DEF ReportOwed, ToMark
<1>4. CASE MarkProcessed
  <2>1. /\ UNCHANGED <<submitChan, pool>> /\ sub.pc = "mark" /\ sub'.pc = "mark"
        /\ sub'.i = sub.i + 1 /\ sub.i \in 1..Len(pool)
    BY <1>1, <1>4 DEF MarkProcessed, TypeOK, SubmitterOK
  <2>2. ~(pool[sub.i].d = d /\ pool[sub.i].st = "SUBMITTING_TO_CORE")
    BY <1>1, <1>4 DEF MarkProcessed, UpdateStatus, Rows, Unsettled
  <2>3. ToMark(d, pool, sub.i) => ToMark(d, pool, sub.i + 1)
    <3> SUFFICES ASSUME NEW i \in sub.i..Len(pool), pool[i].d = d,
                        pool[i].st = "SUBMITTING_TO_CORE"
                 PROVE  i \in (sub.i + 1)..Len(pool)
      BY DEF ToMark
    <3>1. i # sub.i
      BY <2>2
    <3> QED
      BY <1>1, <2>1, <3>1
  <2> QED
    BY <2>1, <2>3 DEF ReportOwed
<1>5. CASE ClearPool
  <2>1. submitChan' = submitChan /\ sub.pc = "mark" /\ sub.i > Len(pool)
    BY <1>5 DEF ClearPool
  <2>2. ~ToMark(d, pool, sub.i)
    BY <1>1, <2>1 DEF ToMark
  <2> QED
    BY <2>1, <2>2 DEF ReportOwed
<1> QED
  BY <1>2, <1>3, <1>4, <1>5 DEF CoreSubmitterNext

\* A container that ends leaves a row that is not open, or a report that will close
\* it; so a row that is still open after a step of a container has somebody who owes
\* it a status, or the step did not touch it.
LEMMA ContainerOwes ==
    ASSUME TypeOK, JobStatus, "db" \notin Faults, NEW d \in Deposits,
           ContainersNext, up => up', DownInv, row'[d].status \in Unsettled
    PROVE  /\ Owed(d) => Owed(d)'
           /\ row'[d] = row[d] \/ Owed(d)'
<1>1. /\ job \in [Jobs -> ContainerRecords]
      /\ \A j \in Jobs : job[j].pc # "free" => job[j].d \in Deposits
  BY DEF TypeOK, JobsOK
<1>2. PICK j \in Jobs : RunStep(j) \/ LastStep(j)
  BY DEF ContainersNext, ContainerStep, RunStep, LastStep
<1>3. CASE RunStep(j)
  <2>1. /\ job'[j].d = job[j].d /\ \A k \in Jobs \ {j} : job'[k] = job[k]
        /\ UNCHANGED <<req, cu, submitChan, pool, sub>>
    BY <1>3, RunStepFrame
  <2>2. CASE job[j].d = d
    <3>1. Owes(j)'
      BY <1>3, <2>2, RunStepRow
    <3> QED
      BY <3>1, <2>1, <2>2 DEF Owed
  <2>3. CASE job[j].d # d
    <3>1. row'[d] = row[d]
      BY <1>3, <2>3, RunStepRow
    <3>2. \A k \in Jobs : Owes(k) /\ job[k].d = d => Owes(k)' /\ job'[k].d = d
      BY <2>1, <2>3 DEF Owes
    <3> QED
      BY <3>1, <3>2, <2>1 DEF Owed, ReportOwed
  <2> QED
    BY <2>2, <2>3
<1>4. CASE EvictDeposit(j) \/ SendToSubmitter(j)
  <2>1. /\ \A k \in Jobs \ {j} : job'[k] = job[k]
        /\ UNCHANGED <<row, req, cu, pool, sub>>
    BY <1>1, <1>4 DEF EvictDeposit, SendToSubmitter, JobFrame
  <2>2. CASE EvictDeposit(j)
    <3>1. ~Owes(j) /\ submitChan' = submitChan
      BY <2>2 DEF EvictDeposit, Owes, OwesPcs
    <3> QED
      BY <2>1, <3>1 DEF ReportOwed, Owed, Owes
  <2>3. CASE SendToSubmitter(j)
    <3>1. PICK x \in Reports :
            /\ submitChan' = Append(submitChan, x)
            /\ x = [d |-> job[j].d, st |-> job[j].st, hash |-> job[j].hash]
      BY <1>1, <2>3 DEF SendToSubmitter, Reports, ContainerRecords
    <3>2. ToMark(d, submitChan, 1) \/ (x.d = d /\ x.st = "SUBMITTING_TO_CORE")
            => ToMark(d, submitChan, 1)'
      BY <3>1, AppendToMark DEF TypeOK, SubmitterOK
    <3>3. Owes(j) => job[j].st = "SUBMITTING_TO_CORE"
      BY <2>3 DEF SendToSubmitter, Owes, OwesPcs
    <3> QED
      BY <2>1, <3>1, <3>2, <3>3 DEF ReportOwed, Owed, Owes
  <2> QED
    BY <1>4, <2>2, <2>3
<1>5. ~WorkerPanics(j)
  BY DEF WorkerPanics, ProcessDies, DownInv, AllFree, Free
<1> QED
  BY <1>2, <1>3, <1>4, <1>5 DEF LastStep

\* A request that inserts a row goes on to start a container for it.
LEMMA RequestOwes ==
    ASSUME TypeOK, "db" \notin Faults, NEW d \in Deposits, BroadcasterNext
    PROVE  /\ Owed(d) => Owed(d)'
           /\ row'[d] = row[d] \/ Owed(d)'
<1>1. /\ req \in [Requesters -> Requests] /\ job \in [Jobs -> ContainerRecords]
      /\ row \in [Deposits -> Rows]
      /\ \A r \in Requesters : req[r].pc # "idle" => req[r].d \in Deposits
  BY DEF TypeOK, RequestsOK, JobsOK, DurableOK
<1>2. PICK r \in Requesters :
            \/ \E e \in Deposits : SubmitWithdrawal(r, e) \/ ObserveDeposit(r, e)
            \/ CheckCache(r) \/ CheckChain(r) \/ CheckRow(r)
            \/ InsertDeposit(r) \/ StartBroadcast(r)
  BY DEF BroadcasterNext
<1>3. cu' = cu /\ \A q \in Requesters \ {r} : req'[q] = req[q]
  BY <1>1, <1>2 DEF SubmitWithdrawal, ObserveDeposit, CheckCache, CheckChain, CheckRow,
     InsertDeposit, StartBroadcast, RequestGoto, RequestReturn
<1>4. CASE StartBroadcast(r)
  <2>1. PICK j \in Jobs : Spawn(j, "broadcast", req[r].d, "PENDING", "nil")
    BY <1>4 DEF StartBroadcast
  <2>2. /\ Owes(j)' /\ job'[j].d = req[r].d /\ ~Owes(j)
        /\ \A k \in Jobs \ {j} : job'[k] = job[k]
    BY <1>1, <2>1 DEF Spawn, OwesPcs, JobPcs, Owes
  <2>3. UNCHANGED <<row, submitChan, pool, sub>>
    BY <1>4 DEF StartBroadcast, durable
  <2> QED
    BY <1>3, <2>2, <2>3 DEF Owes, Owed, ReportOwed
<1>5. CASE InsertDeposit(r)
  <2>1. /\ req[r].pc = "insert" /\ row' = Insert(row, req[r].d, 0)
        /\ req'[r].pc = "store" /\ req'[r].d = req[r].d
        /\ UNCHANGED <<job, submitChan, pool, sub>>
    BY <1>1, <1>5 DEF InsertDeposit, RequestGoto, Requests
  <2>2. d # req[r].d => row'[d] = row[d]
    BY <1>1, <2>1 DEF Insert, UpdateRecoveryData
  <2> QED
    BY <1>3, <2>1, <2>2 DEF Owes, Owed, ReportOwed
<1>6. CASE ~StartBroadcast(r) /\ ~InsertDeposit(r)
  <2>1. req[r].pc # "store" /\ UNCHANGED <<row, job, submitChan, pool, sub>>
    BY <1>2, <1>6 DEF SubmitWithdrawal, ObserveDeposit, CheckCache, CheckChain, CheckRow,
       durable
  <2> QED
    BY <1>3, <2>1 DEF Owes, Owed, ReportOwed
<1> QED
  BY <1>4, <1>5, <1>6

\* The catch-upper opens a row only to start a container for it, if there is a
\* client for its chain.
LEMMA CatchUpOwes ==
    ASSUME TypeOK, "db" \notin Faults, NEW d \in served, CatchUpperNext
    PROVE  /\ Owed(d) => Owed(d)'
           /\ row'[d] = row[d] \/ Owed(d)'
<1>1. /\ job \in [Jobs -> ContainerRecords] /\ row \in [Deposits -> Rows]
      /\ cu.pc \in {"update", "enqueue"} => cu.cur \in Entries
  BY DEF TypeOK, JobsOK, DurableOK, CatchUpOK
<1> d \in Deposits
  BY DEF TypeOK, ProcessOK
<1>2. CASE CatchUpUpdate
  <2>1. /\ row' = UpdateStatus(row, cu.cur.d, "PENDING")
        /\ UNCHANGED <<job, req, submitChan, pool, sub>>
        /\ cu.pc = "update" /\ cu' = [cu EXCEPT !.pc = "enqueue"]
    BY <1>2 DEF CatchUpUpdate
  <2>2. cu'.pc = "enqueue" /\ cu'.cur = cu.cur
    BY <2>1 DEF TypeOK, CatchUpOK
  <2>3. d # cu.cur.d => row'[d] = row[d]
    BY <1>1, <2>1 DEF UpdateStatus
  <2> QED
    BY <2>1, <2>2, <2>3 DEF Owes, Owed, ReportOwed
<1>3. CASE CatchUpEnqueue /\ cu.cur.d # d
  <2>1. /\ \A j \in Jobs : job[j].pc # "free" => job'[j] = job[j]
        /\ UNCHANGED <<row, req, submitChan, pool, sub>>
    BY <1>1, <1>3 DEF CatchUpEnqueue, Spawn, durable
  <2> QED
    BY <1>3, <2>1 DEF Owes, OwesPcs, Owed, ReportOwed
<1>4. CASE CatchUpEnqueue /\ cu.cur.d = d
  <2>1. PICK j \in Jobs : Spawn(j, "catchup", cu.cur.d, cu.phase, cu.cur.hash)
    BY <1>4 DEF CatchUpEnqueue
  <2>2. /\ Owes(j)' /\ job'[j].d = cu.cur.d /\ ~Owes(j)
        /\ \A k \in Jobs \ {j} : job'[k] = job[k]
    BY <1>1, <2>1 DEF Spawn, OwesPcs, JobPcs, Owes
  <2>3. UNCHANGED <<row, req, submitChan, pool, sub>>
    BY <1>4 DEF CatchUpEnqueue, durable
  <2> QED
    BY <1>4, <2>2, <2>3 DEF Owes, Owed, ReportOwed
<1>5. CASE ~CatchUpUpdate /\ ~CatchUpEnqueue
  <2>1. cu.pc # "enqueue" /\ UNCHANGED <<row, job, req, submitChan, pool, sub>>
    BY <1>5 DEF CatchUpperNext, LoadPhase, ProcessDies, CatchUpCheck, EndPhase, durable
  <2> QED
    BY <2>1 DEF Owes, Owed, ReportOwed
<1> QED
  BY <1>2, <1>3, <1>4, <1>5

\* Over any step that the process survives: who owes an open row its status
\* goes on to owe it, and a row is opened only by somebody who then owes it. The
\* catch-upper keeps to this for the deposits whose chain has a client.
LEMMA OwedStep ==
    ASSUME TypeOK, JobStatus, DownInv, "db" \notin Faults, [Next]_vars, up => up',
           NEW d \in Deposits, row'[d].status \in Unsettled,
           d \in served \/ cu.pc = "off"
    PROVE  /\ Owed(d) => Owed(d)'
           /\ row'[d] = row[d] \/ Owed(d)'
<1>1. CASE CoreSubmitterNext
  <2>1. UNCHANGED <<job, req, cu>>
    BY <1>1 DEF CoreSubmitterNext, ReceiveDeposit, QueryCore, BroadcastBatch, MarkProcessed,
       ClearPool, SubmitterFrame
  <2>2. row'[d] = row[d]
    BY <1>1 DEF CoreSubmitterNext, ReceiveDeposit, QueryCore, BroadcastBatch, MarkProcessed,
       ClearPool, UpdateStatus, Unsettled, TypeOK, DurableOK, Rows
  <2> QED
    BY <1>1, <2>1, <2>2, SubmitterOwes DEF Owes, Owed
<1>2. CASE ChainNext \/ UNCHANGED vars
  BY <1>2 DEF ChainNext, MineWithdrawal, ForeignPay, ForeignReport, Memory, vars, Owes, Owed,
     ReportOwed
<1>3. CASE Start
  BY <1>3 DEF Start, DownInv, durable, Owes, Owed, ReportOwed
<1>4. CASE Crash
  BY <1>4 DEF Crash, ProcessDies
<1>5. CatchUpperNext => cu.pc # "off"
  BY DEF CatchUpperNext, LoadPhase, CatchUpCheck, CatchUpUpdate, CatchUpEnqueue, EndPhase
<1> QED
  BY <1>1, <1>2, <1>3, <1>4, <1>5, RequestOwes, CatchUpOwes, ContainerOwes DEF Next

-----------------------------------------------------------------------------
(* One process, without catch-up and without database errors *)

\* What a relayer must be spared for checkExistence to rely on its rows: the
\* process is not killed and not started over an earlier database, and its
\* queries do not fail.
Spared == CatchUpFlag = {FALSE} /\ Faults \cap {"db", "crash"} = {}

\* Without the flag the catch-upper never runs, and only broadcast containers are
\* started.
LEMMA NextBroadcast ==
    ASSUME TypeOK, BroadcastInv, CatchUpFlag = {FALSE}, [Next]_vars
    PROVE  BroadcastInv'
<1>1. job \in [Jobs -> ContainerRecords]
  BY DEF TypeOK, JobsOK
<1>2. UNCHANGED <<job, cu>> => BroadcastInv'
  BY DEF BroadcastInv
<1>3. CASE ProcessDies
  BY <1>3 DEF ProcessDies, AllFree, Free, CatchUpAt, BroadcastInv
<1>4. CASE BroadcasterNext
  <2>1. PICK r \in Requesters :
              \/ \E e \in Deposits : SubmitWithdrawal(r, e) \/ ObserveDeposit(r, e)
              \/ CheckCache(r) \/ CheckChain(r) \/ CheckRow(r)
              \/ InsertDeposit(r) \/ StartBroadcast(r)
    BY <1>4 DEF BroadcasterNext
  <2>2. CASE StartBroadcast(r)
    <3>1. PICK j \in Jobs : Spawn(j, "broadcast", req[r].d, "PENDING", "nil")
      BY <2>2 DEF StartBroadcast
    <3> QED
      BY <1>1, <2>2, <3>1 DEF StartBroadcast, Spawn, BroadcastInv, CatchUpPcs
  <2> QED
    BY <1>2, <2>1, <2>2 DEF SubmitWithdrawal, ObserveDeposit, CheckCache, CheckChain,
       CheckRow, InsertDeposit
<1>5. CASE ContainersNext
  <2>1. PICK j \in Jobs : RunStep(j) \/ LastStep(j)
    BY <1>5 DEF ContainersNext, ContainerStep, RunStep, LastStep
  <2>2. CASE RunStep(j)
    <3>1. /\ job'[j].kind = "broadcast" /\ job'[j].pc \notin CatchUpPcs
          /\ \A k \in Jobs \ {j} : job'[k] = job[k]
          /\ cu' = cu
      BY <2>2, RunStepFrame, RunStepBroadcast DEF BroadcastInv
    <3> QED
      BY <3>1 DEF BroadcastInv
  <2>3. CASE EvictDeposit(j) \/ SendToSubmitter(j)
    BY <1>1, <2>3 DEF EvictDeposit, SendToSubmitter, JobFrame, Free, BroadcastInv
  <2> QED
    BY <1>3, <2>1, <2>2, <2>3 DEF LastStep, WorkerPanics
<1>6. CASE Start
  <2>1. cu' = CatchUpAt("off") /\ job' = job
    BY <1>6 DEF Start
  <2> QED
    BY <2>1 DEF CatchUpAt, BroadcastInv
<1>7. ~CatchUpperNext
  BY DEF BroadcastInv, CatchUpperNext, LoadPhase, CatchUpCheck, CatchUpUpdate,
     CatchUpEnqueue, EndPhase
<1>8. CASE CoreSubmitterNext \/ ChainNext \/ UNCHANGED vars
  BY <1>2, <1>8 DEF CoreSubmitterNext, ReceiveDeposit, QueryCore, BroadcastBatch,
     MarkProcessed, ClearPool, SubmitterFrame, ChainNext, MineWithdrawal, ForeignPay,
     ForeignReport, Memory, vars
<1> QED
  BY <1>3, <1>4, <1>5, <1>6, <1>7, <1>8 DEF Next, Crash

\* A spared process neither panics nor dies.
LEMMA NextSpared ==
    ASSUME TypeOK, BroadcastInv, NoPanicInv, Spared, [Next]_vars
    PROVE  NoPanicInv' /\ (up => up')
<1>1. /\ job \in [Jobs -> ContainerRecords]
      /\ "db" \notin Faults /\ "crash" \notin Faults
  BY DEF TypeOK, JobsOK, Spared
<1>2. UNCHANGED <<job, up>> => NoPanicInv' /\ (up => up')
  BY DEF NoPanicInv
<1>3. CASE BroadcasterNext
  BY <1>1, <1>2, <1>3 DEF BroadcasterNext, SubmitWithdrawal, ObserveDeposit, CheckCache,
     CheckChain, CheckRow, InsertDeposit, StartBroadcast, Spawn, NoPanicInv
<1>4. CASE ContainersNext
  <2>1. PICK j \in Jobs : RunStep(j) \/ LastStep(j)
    BY <1>4 DEF ContainersNext, ContainerStep, RunStep, LastStep
  <2>2. CASE RunStep(j)
    <3>1. job'[j].pc # "panic" /\ \A k \in Jobs \ {j} : job'[k] = job[k]
      BY <1>1, <2>2, RunStepFrame, RunStepBroadcast DEF BroadcastInv
    <3>2. up' = up
      BY <2>2 DEF RunStep, TakeContainer, BroadcastIsProcessed, AlreadyWithdrawnStatus,
         AlreadyWithdrawnDetails, BroadcastProcessing, CatchUpIsSubmitted,
         CatchUpAlreadySubmitted, CatchUpProcessing, CatchUpIsProcessed, CatchUpSkipStatus,
         CatchUpSkipDetails, SendWithdrawal, FinalizeWithdrawal, WithdrawFailedStatus,
         WithdrawFailedDetails, WithdrawalDetails, SubmittingStatus, FailedStatus, JobFrame
    <3> QED
      BY <3>1, <3>2 DEF NoPanicInv
  <2>3. CASE EvictDeposit(j) \/ SendToSubmitter(j)
    BY <1>1, <2>3 DEF EvictDeposit, SendToSubmitter, JobFrame, Free, NoPanicInv
  <2> QED
    BY <2>1, <2>2, <2>3 DEF LastStep, WorkerPanics, NoPanicInv
<1>5. ~CatchUpperNext /\ ~Crash
  BY <1>1 DEF BroadcastInv, CatchUpperNext, LoadPhase, CatchUpCheck, CatchUpUpdate,
     CatchUpEnqueue, EndPhase, Crash
<1>6. CASE CoreSubmitterNext \/ ChainNext \/ Start \/ UNCHANGED vars
  BY <1>2, <1>6 DEF CoreSubmitterNext, ReceiveDeposit, QueryCore, BroadcastBatch,
     MarkProcessed, ClearPool, SubmitterFrame, ChainNext, MineWithdrawal, ForeignPay,
     ForeignReport, Memory, Start, vars, NoPanicInv
<1> QED
  BY <1>3, <1>4, <1>5, <1>6 DEF Next

\* Whoever owes a deposit its status holds it.
LEMMA OwedIsHeld == ASSUME TypeOK, NEW d \in Deposits, Owed(d) PROVE Held(d)
<1>1. ASSUME NEW r \in Requesters, req[r].pc = "store", req[r].d = d
      PROVE  req[r] = [pc |-> "store", d |-> d]
  BY <1>1 DEF TypeOK, RequestsOK, Requests
<1>2. ReportOwed(d) => InReports(d, submitChan) \/ InReports(d, pool)
  BY DEF TypeOK, SubmitterOK, ReportOwed, ToMark, InReports
<1> QED
  BY <1>1, <1>2 DEF Owed, Held, Live, Owes, OwesPcs

HoldInv == JobStatus /\ DownInv /\ BroadcastInv /\ NoPanicInv /\ UnsettledInv

\* In a process that is spared kills, database errors and catch-up, a deposit whose
\* row says PENDING or PROCESSING is in somebody's hands, for every number of
\* handlers, workers, containers and deposits and every failure of the chain and of
\* core: checkExistence may refuse such a deposit, it "is still processing".
THEOREM UnsettledAreHeld == Spared => (Spec => []UnsettledIsHeld)
<1> SUFFICES ASSUME Spared PROVE Spec => []UnsettledIsHeld
  OBVIOUS
<1>1. Init => HoldInv
  BY DEF Init, HoldInv, JobStatus, DownInv, BroadcastInv, NoPanicInv, UnsettledInv,
     AllFree, Free, AllIdle, CatchUpAt, NoRow, Unsettled
<1>2. TypeOK /\ HoldInv /\ [Next]_vars => HoldInv'
  <2> SUFFICES ASSUME TypeOK, HoldInv, [Next]_vars PROVE HoldInv'
    OBVIOUS
  <2>1. JobStatus' /\ DownInv' /\ BroadcastInv' /\ NoPanicInv' /\ (up => up')
    BY NextStatus, NextDown, NextBroadcast, NextSpared DEF HoldInv, Spared
  <2>2. UnsettledInv'
    <3> SUFFICES ASSUME NEW d \in Deposits, row'[d].status \in Unsettled PROVE Owed(d)'
      BY DEF UnsettledInv
    <3> QED
      BY <2>1, OwedStep DEF HoldInv, UnsettledInv, BroadcastInv, Spared
  <2> QED
    BY <2>1, <2>2 DEF HoldInv
<1>3. TypeOK /\ HoldInv => UnsettledIsHeld
  BY OwedIsHeld DEF HoldInv, UnsettledInv, UnsettledIsHeld
<1> QED
  BY <1>1, <1>2, <1>3, TypeCorrect, PTL DEF Spec

-----------------------------------------------------------------------------
(* Crashes, restarts and catch-up *)

\* The contract never takes a payment back.
LEMMA PaidStays == ASSUME TypeOK, [Next]_vars PROVE paid \subseteq paid'
<1>1. CASE ContainersNext
  <2>1. PICK j \in Jobs : RunStep(j) \/ LastStep(j)
    BY <1>1 DEF ContainersNext, ContainerStep, RunStep, LastStep
  <2> QED
    BY <2>1, RunStepFrame DEF LastStep, EvictDeposit, WorkerPanics, SendToSubmitter, durable
<1> QED
  BY <1>1 DEF Next, Start, Crash, BroadcasterNext, SubmitWithdrawal, ObserveDeposit,
     CheckCache, CheckChain, CheckRow, InsertDeposit, StartBroadcast, CatchUpperNext,
     LoadPhase, CatchUpCheck, CatchUpUpdate, CatchUpEnqueue, EndPhase, CoreSubmitterNext,
     ReceiveDeposit, QueryCore, BroadcastBatch, MarkProcessed, ClearPool, SubmitterFrame,
     ChainNext, MineWithdrawal, ForeignPay, ForeignReport, durable, vars

\* A deposit whose chain has a client enters the cache when it is paid or together
\* with a container.
LEMMA CachedIsOwed ==
    ASSUME TypeOK, DownInv, [Next]_vars, up => up',
           NEW d \in served \ paid, d \notin cache, ~Owed(d)'
    PROVE  d \notin cache'
<1>1. job \in [Jobs -> ContainerRecords]
  BY DEF TypeOK, JobsOK
<1>2. ASSUME NEW j \in Jobs, NEW kind, NEW e, NEW st, NEW hash,
             Spawn(j, kind, e, st, hash), cache' = cache \cup {e}
      PROVE  d \notin cache'
  <2>1. Owes(j)' /\ job'[j].d = e
    BY <1>1, <1>2 DEF Spawn, OwesPcs, JobPcs, Owes
  <2> QED
    BY <1>2, <2>1 DEF Owed
<1>3. CASE BroadcasterNext
  <2>1. PICK r \in Requesters :
              \/ \E e \in Deposits : SubmitWithdrawal(r, e) \/ ObserveDeposit(r, e)
              \/ CheckCache(r) \/ CheckChain(r) \/ CheckRow(r)
              \/ InsertDeposit(r) \/ StartBroadcast(r)
    BY <1>3 DEF BroadcasterNext
  <2>2. CASE StartBroadcast(r)
    BY <1>2, <2>2 DEF StartBroadcast
  <2>3. CASE CheckChain(r)
    <3>1. cache' = cache \/ (req[r].d \in paid /\ cache' = cache \cup {req[r].d})
      BY <2>3 DEF CheckChain, IsProcessed
    <3> QED
      BY <3>1
  <2> QED
    BY <2>1, <2>2, <2>3 DEF SubmitWithdrawal, ObserveDeposit, CheckCache, CheckRow,
       InsertDeposit
<1>4. CASE CatchUpperNext
  <2>1. CASE CatchUpEnqueue /\ cu.cur.d = d
    BY <1>2, <2>1 DEF CatchUpEnqueue
  <2> QED
    BY <1>4, <2>1 DEF CatchUpperNext, LoadPhase, ProcessDies, CatchUpCheck, CatchUpUpdate,
       CatchUpEnqueue, EndPhase
<1>5. CASE ContainersNext
  <2>1. PICK j \in Jobs : RunStep(j) \/ LastStep(j)
    BY <1>5 DEF ContainersNext, ContainerStep, RunStep, LastStep
  <2> QED
    BY <2>1, RunStepFrame DEF LastStep, EvictDeposit, WorkerPanics, ProcessDies,
       SendToSubmitter
<1> QED
  BY <1>3, <1>4, <1>5 DEF Next, Start, Crash, ProcessDies, CoreSubmitterNext,
     ReceiveDeposit, QueryCore, BroadcastBatch, MarkProcessed, ClearPool, SubmitterFrame,
     ChainNext, MineWithdrawal, ForeignPay, ForeignReport, Memory, vars

\* The catch-upper passes over no row that it has yet to take up, unless the
\* deposit is cached by then: it takes the deposit on itself.
LEMMA CatchUpGoesOn ==
    ASSUME TypeOK, "db" \notin Faults, CatchUpperNext, NEW d \in Deposits,
           row'[d] = row[d], d \notin cache, ToCatchUp(d), ~Owed(d)',
           row[d].status \in Unsettled
    PROVE  ToCatchUp(d)'
<1>1. /\ cu \in [pc : {"off", "load", "check", "update", "enqueue", "done"},
                 phase : {"PENDING", "PROCESSING", "SUBMITTING_TO_CORE"},
                 todo : SUBSET Entries, cur : Entries \cup {NoEntry}]
      /\ DOMAIN row = Deposits
  BY DEF TypeOK, CatchUpOK, DurableOK
<1>2. CASE LoadPhase
  <2>1. /\ cu.pc = "load" /\ cu'.pc = "check" /\ cu'.phase = cu.phase
        /\ cu'.todo = GetWithStatus(row, cu.phase)
    BY <1>1, <1>2 DEF LoadPhase
  <2>2. ASSUME row[d].status = cu.phase
        PROVE  \E e \in GetWithStatus(row, cu.phase) : e.d = d
    <3>1. d \in {e \in DOMAIN row : row[e].status = cu.phase}
      BY <1>1, <2>2
    <3>2. [d |-> d, hash |-> row[d].hash] \in GetWithStatus(row, cu.phase)
      BY <3>1 DEF GetWithStatus
    <3> QED
      BY <3>2
  <2> QED
    BY <1>1, <2>1, <2>2 DEF ToCatchUp, Unsettled
<1>3. CASE \E e \in cu.todo : CatchUpCheck(e)
  <2>1. PICK e \in cu.todo : CatchUpCheck(e)
    BY <1>3
  <2>2. CASE e.d = d
    <3>1. cu'.pc = "update" /\ cu'.cur.d = d /\ cu'.phase = cu.phase
      BY <1>1, <2>1, <2>2 DEF CatchUpCheck
    <3> QED
      BY <3>1 DEF ToCatchUp
  <2>3. CASE e.d # d
    <3>1. /\ cu.pc = "check" /\ cu'.pc \in {"check", "update"} /\ cu'.phase = cu.phase
          /\ cu'.todo = cu.todo \ {e}
      BY <1>1, <2>1 DEF CatchUpCheck
    <3> QED
      BY <2>3, <3>1 DEF ToCatchUp
  <2> QED
    BY <2>2, <2>3
<1>4. CASE CatchUpUpdate
  <2>1. /\ cu.pc = "update" /\ cu'.pc = "enqueue" /\ cu'.phase = cu.phase
        /\ cu'.todo = cu.todo /\ cu'.cur = cu.cur
    BY <1>1, <1>4 DEF CatchUpUpdate
  <2>2. cu.cur.d # d
    BY <2>1 DEF Owed
  <2> QED
    BY <2>1, <2>2 DEF ToCatchUp
<1>5. CASE CatchUpEnqueue
  <2>1. /\ cu.pc = "enqueue" /\ cu'.pc = "check" /\ cu'.phase = cu.phase
        /\ cu'.todo = cu.todo
    BY <1>1, <1>5 DEF CatchUpEnqueue
  <2> QED
    BY <2>1 DEF ToCatchUp
<1>6. CASE EndPhase
  <2>1. cu.pc = "check" /\ cu.todo = {}
    BY <1>6 DEF EndPhase
  <2>2. cu.phase = "PENDING" /\ row[d].status = "PROCESSING"
    BY <1>1, <2>1 DEF ToCatchUp
  <2>3. cu'.pc = "load" /\ cu'.phase = "PROCESSING"
    BY <1>1, <1>6, <2>2 DEF EndPhase, NextPhase
  <2> QED
    BY <2>2, <2>3 DEF ToCatchUp
<1> QED
  BY <1>2, <1>3, <1>4, <1>5, <1>6 DEF CatchUpperNext

\* While the process runs, only the catch-upper changes its state, and nothing
\* changes the clients.
LEMMA CatchUpFrame ==
    ASSUME TypeOK, [Next]_vars, up => up', up
    PROVE  /\ CatchUpperNext \/ cu' = cu
           /\ served' = served
<1>1. CASE ContainersNext
  <2>1. PICK j \in Jobs : RunStep(j) \/ LastStep(j)
    BY <1>1 DEF ContainersNext, ContainerStep, RunStep, LastStep
  <2> QED
    BY <2>1, RunStepFrame, RunStepServed DEF LastStep, EvictDeposit, SendToSubmitter,
       JobFrame, WorkerPanics, ProcessDies
<1>2. CASE CatchUpperNext
  BY <1>2 DEF CatchUpperNext, LoadPhase, ProcessDies, CatchUpCheck, CatchUpUpdate,
     CatchUpEnqueue, EndPhase
<1> QED
  BY <1>1, <1>2 DEF Next, Start, Crash, ProcessDies, BroadcasterNext, SubmitWithdrawal,
     ObserveDeposit, CheckCache, CheckChain, CheckRow, InsertDeposit, StartBroadcast,
     CoreSubmitterNext, ReceiveDeposit, QueryCore, BroadcastBatch, MarkProcessed, ClearPool,
     SubmitterFrame, ChainNext, MineWithdrawal, ForeignPay, ForeignReport, Memory, vars

\* Every step keeps UnpaidInv.
LEMMA NextUnpaid ==
    ASSUME TypeOK, TypeOK', JobStatus, DownInv, UnpaidInv, "db" \notin Faults, [Next]_vars
    PROVE  UnpaidInv'
<1> SUFFICES ASSUME up', cu'.pc # "off", NEW d \in served' \ paid',
                    row'[d].status \in Unsettled, ~Owed(d)'
             PROVE  d \notin cache' /\ ToCatchUp(d)'
  BY DEF UnpaidInv
<1>1. d \in Deposits /\ d \notin paid /\ (up => d \in served)
  BY PaidStays, CatchUpFrame DEF TypeOK, ProcessOK
<1>2. ~Owed(d) /\ row'[d] = row[d]
  BY <1>1, OwedStep DEF DownInv, TypeOK, ProcessOK
<1>3. CASE up
  <2>1. cu.pc # "off"
    BY <1>3, CatchUpFrame DEF CatchUpperNext, LoadPhase, CatchUpCheck, CatchUpUpdate,
       CatchUpEnqueue, EndPhase
  <2>2. d \notin cache /\ ToCatchUp(d)
    BY <1>1, <1>2, <1>3, <2>1 DEF UnpaidInv
  <2>3. d \notin cache'
    BY <1>1, <1>3, <2>2, CachedIsOwed
  <2>4. CASE cu' = cu
    BY <1>2, <2>2, <2>3, <2>4 DEF ToCatchUp
  <2>5. CASE CatchUpperNext
    BY <1>1, <1>2, <2>2, <2>3, <2>5, CatchUpGoesOn
  <2> QED
    BY <1>3, <2>4, <2>5, CatchUpFrame
<1>4. CASE ~up
  <2>1. Start
    BY <1>4, StaysDown
  <2>2. cu' = CatchUpAt("load") /\ cache' = {}
    BY <1>4, <2>1 DEF Start, DownInv, CatchUpAt
  <2> QED
    BY <2>2 DEF ToCatchUp, CatchUpAt, Unsettled
<1> QED
  BY <1>3, <1>4

\* Over crashes, restarts, failures of the chain and of core and everything other
\* relayers do, once the catch-upper is done no unpaid deposit whose row says
\* PENDING or PROCESSING is left behind, as long as no database query fails and the
\* process has a client for its chain (an early return of CatchUp strands the others).
THEOREM UnpaidAreHeld == "db" \notin Faults => (Spec => []UnpaidIsHeld)
<1> SUFFICES ASSUME "db" \notin Faults PROVE Spec => []UnpaidIsHeld
  OBVIOUS
<1> DEFINE Inv == JobStatus /\ DownInv /\ UnpaidInv
<1>1. Init => Inv
  BY DEF Init, JobStatus, DownInv, UnpaidInv, AllFree, Free, AllIdle, CatchUpAt
<1>2. TypeOK /\ TypeOK' /\ Inv /\ [Next]_vars => Inv'
  BY NextStatus, NextDown, NextUnpaid
<1>3. TypeOK /\ Inv => UnpaidIsHeld
  BY OwedIsHeld DEF UnpaidInv, UnpaidIsHeld, ToCatchUp, TypeOK, ProcessOK
<1> QED
  BY <1>1, <1>2, <1>3, TypeCorrect, PTL DEF Spec

=============================================================================
