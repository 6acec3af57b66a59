----------------------------- MODULE CallerProofs -----------------------------
(***************************************************************************)
(* Proofs of what holds as long as the catch-upper does not run: what a    *)
(* report to core carries and, with one caller of BroadcastDeposit at a    *)
(* time, that a deposit has one container and a settled row stays settled. *)
(***************************************************************************)
EXTENDS HeldProofs

-----------------------------------------------------------------------------
(* One caller *)

\* All calls of BroadcastDeposit come from one goroutine.
SoleCaller == \A r, s \in Requesters : r = s

\* A deposit that was handed to the submitter, and not yet removed from its pool.
Handed(d) == InReports(d, submitChan) \/ InReports(d, pool)

\* A container or a report keeps its deposit in the cache.
CachedInv ==
    /\ \A j \in Jobs : job[j].pc # "free" => job[j].d \in cache
    /\ \A d \in Deposits : Handed(d) => d \in cache

\* A deposit is in one place: with one container, or handed over, or with the
\* call that found it uncached.
OnePlaceInv ==
    /\ \A j, k \in Jobs :
          job[j].pc # "free" /\ job[k].pc # "free" /\ job[j].d = job[k].d => j = k
    /\ \A j \in Jobs : job[j].pc # "free" => ~Handed(job[j].d)
    /\ \A r \in Requesters : req[r].pc \in {"chain", "row", "insert", "store"} =>
          /\ ~Handed(req[r].d)
          /\ \A j \in Jobs : job[j].pc # "free" => job[j].d # req[r].d

\* Where a container stands before it claims the withdrawal in its row.
UnclaimedPcs == {"queued", "bcStart", "bcProcessing", "withdraw", "finalize", "details",
                 "submitting", "failStatus", "wfStatus", "wfDetails"}

\* A row that will be written with a status that claims nothing claims nothing.
UnclaimedInv ==
    /\ \A j \in Jobs : job[j].pc \in UnclaimedPcs => row[job[j].d].status \notin Settled
    /\ \A r \in Requesters : req[r].pc \in {"insert", "store"} =>
          row[req[r].d].status \notin Settled

-----------------------------------------------------------------------------
(* Hashes *)

\* h may be reported for d: it is not one of this relayer's transactions, or it
\* is the one that paid d.
HashOf(d, h) == h \in TxIds => tx[h] = [d |-> d, state |-> "success"]

HashInv ==
    /\ \A d \in Deposits : HashOf(d, core[d])
    /\ \A j \in Jobs :
          job[j].pc \in {"bcAwDetails", "details", "submitting", "submit"} =>
              HashOf(job[j].d, job[j].hash)
    /\ \A i \in 1..Len(submitChan) : HashOf(submitChan[i].d, submitChan[i].hash)
    /\ \A i \in 1..Len(pool) : HashOf(pool[i].d, pool[i].hash)

\* A transaction that succeeded is never sent or mined again.
LEMMA SuccessStays ==
    ASSUME TypeOK, [Next]_vars, NEW d, NEW h, HashOf(d, h)
    PROVE  HashOf(d, h)'
<1>1. tx \in [TxIds -> Transactions]
  BY DEF TypeOK, DurableOK
<1>2. tx' = tx => HashOf(d, h)'
  BY DEF HashOf
<1>3. CASE ContainersNext
  <2>1. tx' = tx \/ \E j \in Jobs : SendWithdrawal(j)
    BY <1>3 DEF ContainersNext, ContainerStep, TakeContainer, BroadcastIsProcessed,
       AlreadyWithdrawnStatus, AlreadyWithdrawnDetails, BroadcastProcessing,
       CatchUpIsSubmitted, CatchUpAlreadySubmitted, CatchUpProcessing, CatchUpIsProcessed,
       CatchUpSkipStatus, CatchUpSkipDetails, FinalizeWithdrawal, WithdrawFailedStatus,
       WithdrawFailedDetails, WithdrawalDetails, SubmittingStatus, FailedStatus,
       EvictDeposit, WorkerPanics, SendToSubmitter, durable
  <2>2. ASSUME NEW j \in Jobs, SendWithdrawal(j) PROVE HashOf(d, h)'
    BY <1>1, <2>2 DEF SendWithdrawal, HashOf
  <2> QED
    BY <1>2, <2>1, <2>2
<1>4. CASE ChainNext
  BY <1>1, <1>4 DEF ChainNext, MineWithdrawal, ForeignPay, ForeignReport, HashOf
<1>5. CASE Start \/ Crash \/ BroadcasterNext \/ CatchUpperNext \/ CoreSubmitterNext
           \/ UNCHANGED vars
  BY <1>2, <1>5 DEF Start, Crash, durable, BroadcasterNext, SubmitWithdrawal,
     ObserveDeposit, CheckCache, CheckChain, CheckRow, InsertDeposit, StartBroadcast,
     CatchUpperNext, LoadPhase, CatchUpCheck, CatchUpUpdate, CatchUpEnqueue, EndPhase,
     CoreSubmitterNext, ReceiveDeposit, QueryCore, BroadcastBatch, MarkProcessed, ClearPool,
     SubmitterFrame, vars
<1> QED
  BY <1>3, <1>4, <1>5 DEF Next

\* Where a container carries a hash that it will report.
HashPcs == {"bcAwDetails", "details", "submitting", "submit"}

\* A broadcast container carries on either the null hash or the hash of the
\* transaction it saw succeed.
LEMMA RunStepHash ==
    ASSUME TypeOK, PaymentInv, Verified, NEW j \in Jobs, RunStep(j),
           job[j].pc \notin CatchUpPcs, job'[j].pc \in HashPcs
    PROVE  \/ job'[j].hash = "null"
           \/ job[j].pc \in HashPcs /\ job'[j].hash = job[j].hash
           \/ /\ job'[j].hash \in TxIds
              /\ tx[job'[j].hash] = [d |-> job[j].d, state |-> "success"]
<1> USE DEF HashPcs, CatchUpPcs
<1>1. job \in [Jobs -> ContainerRecords]
  BY DEF TypeOK, JobsOK
<1>2. CASE TakeContainer(j)
  BY <1>2, <1>1 DEF TakeContainer, JobStep, JobStepAs, ContainerRecords, SpecialHashes
<1>3. CASE BroadcastIsProcessed(j)
  BY <1>3, <1>1 DEF BroadcastIsProcessed, IsProcessed, JobStep, JobStepAs,
     ContainerRecords, SpecialHashes
<1>4. CASE CatchUpIsSubmitted(j)
  BY <1>4, <1>1 DEF CatchUpIsSubmitted, JobStep, JobStepAs, ContainerRecords,
     SpecialHashes
<1>5. CASE CatchUpIsProcessed(j)
  BY <1>5, <1>1 DEF CatchUpIsProcessed, IsProcessed, JobStep, JobStepAs,
     ContainerRecords, SpecialHashes
<1>6. CASE SendWithdrawal(j)
  BY <1>6, <1>1 DEF SendWithdrawal, WithdrawFails, JobStep, JobStepAs, ContainerRecords,
     SpecialHashes
<1>7. CASE AlreadyWithdrawnStatus(j)
  BY <1>7, <1>1 DEF AlreadyWithdrawnStatus, JobStep, JobStepAs, ContainerRecords,
     SpecialHashes
<1>8. CASE AlreadyWithdrawnDetails(j)
  BY <1>8, <1>1 DEF AlreadyWithdrawnDetails, JobStep, JobStepAs, ContainerRecords,
     SpecialHashes
<1>9. CASE BroadcastProcessing(j)
  BY <1>9, <1>1 DEF BroadcastProcessing, JobStep, JobStepAs, ContainerRecords,
     SpecialHashes
<1>10. CASE CatchUpAlreadySubmitted(j)
  BY <1>10, <1>1 DEF CatchUpAlreadySubmitted, JobStep, JobStepAs, ContainerRecords,
     SpecialHashes
<1>11. CASE CatchUpProcessing(j)
  BY <1>11, <1>1 DEF CatchUpProcessing, JobStep, JobStepAs, ContainerRecords,
     SpecialHashes
<1>12. CASE CatchUpSkipStatus(j)
  BY <1>12, <1>1 DEF CatchUpSkipStatus, JobStep, JobStepAs, ContainerRecords,
     SpecialHashes
<1>13. CASE CatchUpSkipDetails(j)
  BY <1>13, <1>1 DEF CatchUpSkipDetails, JobStep, JobStepAs, ContainerRecords,
     SpecialHashes
<1>14. CASE WithdrawFailedStatus(j)
  BY <1>14, <1>1 DEF WithdrawFailedStatus, JobStep, JobStepAs, ContainerRecords,
     SpecialHashes
<1>15. CASE WithdrawFailedDetails(j)
  BY <1>15, <1>1 DEF WithdrawFailedDetails, JobStep, JobStepAs, ContainerRecords,
     SpecialHashes
<1>16. CASE WithdrawalDetails(j)
  BY <1>16, <1>1 DEF WithdrawalDetails, JobStep, JobStepAs, ContainerRecords,
     SpecialHashes
<1>17. CASE SubmittingStatus(j)
  BY <1>17, <1>1 DEF SubmittingStatus, JobStep, JobStepAs, ContainerRecords,
     SpecialHashes
<1>18. CASE FailedStatus(j)
  BY <1>18, <1>1 DEF FailedStatus, JobStep, JobStepAs, ContainerRecords, SpecialHashes
<1>19. CASE FinalizeWithdrawal(j)
  <2>1. /\ job[j].hash \in TxIds /\ tx[job[j].hash].d = job[j].d
        /\ tx[job[j].hash] \in Transactions
    BY <1>19 DEF FinalizeWithdrawal, PaymentInv, JobsOwnTx, TypeOK, DurableOK
  <2>2. job'[j].hash = job[j].hash /\ tx[job[j].hash].state = "success"
    BY <1>19, <1>1 DEF FinalizeWithdrawal, WithdrawFails, JobStep, ContainerRecords
  <2> QED
    BY <2>1, <2>2 DEF Transactions
<1> QED
  BY <1>2, <1>3, <1>4, <1>5, <1>6, <1>7, <1>8, <1>9, <1>10, <1>11, <1>12, <1>13,
     <1>14, <1>15, <1>16, <1>17, <1>18, <1>19 DEF RunStep

\* No step of a container puts a wrong hash on its way to core.
LEMMA ContainersHash ==
    ASSUME TypeOK, PaymentInv, Verified, BroadcastInv, HashInv, ContainersNext
    PROVE  HashInv'
<1>1. /\ job \in [Jobs -> ContainerRecords] /\ submitChan \in Seq(Reports)
      /\ pool \in Seq(Reports)
  BY DEF TypeOK, JobsOK, SubmitterOK
<1>2. \A d, h : HashOf(d, h) => HashOf(d, h)'
  <2>1. [Next]_vars
    BY DEF Next
  <2> QED
    BY <2>1, SuccessStays
<1>3. PICK j \in Jobs : RunStep(j) \/ LastStep(j)
  BY DEF ContainersNext, ContainerStep, RunStep, LastStep
<1>4. CASE RunStep(j)
  <2>1. /\ job'[j].d = job[j].d /\ \A k \in Jobs \ {j} : job'[k] = job[k]
        /\ UNCHANGED <<submitChan, pool>>
    BY <1>4, RunStepFrame
  <2>2. core' = core
    BY <1>4 DEF RunStep, TakeContainer, BroadcastIsProcessed, AlreadyWithdrawnStatus,
       AlreadyWithdrawnDetails, BroadcastProcessing, CatchUpIsSubmitted,
       CatchUpAlreadySubmitted, CatchUpProcessing, CatchUpIsProcessed, CatchUpSkipStatus,
       CatchUpSkipDetails, SendWithdrawal, FinalizeWithdrawal, WithdrawFailedStatus,
       WithdrawFailedDetails, WithdrawalDetails, SubmittingStatus, FailedStatus, JobFrame
  <2>3. job[j].pc \notin CatchUpPcs
    BY <1>4, RunStepFrame DEF BroadcastInv
  <2>4. ASSUME job'[j].pc \in HashPcs PROVE HashOf(job[j].d, job[j].hash)'
    <3>1. CASE job'[j].hash = "null"
      BY <3>1, TxIdsAssumption DEF HashOf, SpecialHashes
    <3>2. CASE job'[j].hash # "null"
      <4>1. HashOf(job[j].d, job'[j].hash)
        BY <1>4, <2>3, <2>4, <3>2, RunStepHash DEF HashInv, HashPcs, HashOf
      <4>2. \A d, h : d = job[j].d /\ h = job'[j].hash => HashOf(d, h)'
        BY <1>2, <4>1
      <4> QED
        BY <2>1, <4>2 DEF HashOf
    <3> QED
      BY <3>1, <3>2
  <2> QED
    BY <1>2, <2>1, <2>2, <2>4 DEF HashInv, HashPcs
<1>5. CASE EvictDeposit(j)
  BY <1>1, <1>2, <1>5 DEF EvictDeposit, JobFrame, Free, HashInv, HashOf
<1>6. CASE SendToSubmitter(j)
  <2>1. /\ HashOf(job[j].d, job[j].hash)
        /\ submitChan' = Append(submitChan, [d |-> job[j].d, st |-> job[j].st,
                                             hash |-> job[j].hash])
        /\ UNCHANGED <<core, pool, tx>> /\ job' = [job EXCEPT ![j] = Free]
    BY <1>6 DEF SendToSubmitter, JobFrame, HashInv
  <2>2. \A i \in 1..Len(submitChan') : HashOf(submitChan'[i].d, submitChan'[i].hash)
    BY <1>1, <2>1 DEF HashInv
  <2> QED
    BY <1>1, <2>1, <2>2 DEF HashInv, Free, HashOf
<1>7. CASE WorkerPanics(j)
  BY <1>7 DEF WorkerPanics, ProcessDies, durable, AllFree, Free, HashInv, HashOf
<1> QED
  BY <1>3, <1>4, <1>5, <1>6, <1>7 DEF LastStep

\* The submitter passes the hashes on as they are; core keeps none for an empty one.
LEMMA CoreSubmitterHash ==
    ASSUME TypeOK, HashInv, CoreSubmitterNext
    PROVE  HashInv'
<1>1. submitChan \in Seq(Reports) /\ pool \in Seq(Reports) /\ tx' = tx /\ job' = job
  BY DEF TypeOK, SubmitterOK, CoreSubmitterNext, ReceiveDeposit, QueryCore, BroadcastBatch,
     MarkProcessed, ClearPool, SubmitterFrame
<1>2. CASE ReceiveDeposit
  <2>1. /\ Head(submitChan) = submitChan[1] /\ Len(submitChan) >= 1
        /\ Len(Tail(submitChan)) = Len(submitChan) - 1
        /\ \A i \in 1..Len(Tail(submitChan)) : Tail(submitChan)[i] = submitChan[i + 1]
    BY <1>1, <1>2 DEF ReceiveDeposit
  <2>2. HashOf(Head(submitChan).d, Head(submitChan).hash)
    BY <1>1, <2>1 DEF HashInv
  <2>3. \A i \in 1..Len(pool') : HashOf(pool'[i].d, pool'[i].hash)
    BY <1>1, <1>2, <2>2 DEF ReceiveDeposit, HashInv
  <2>4. \A i \in 1..Len(submitChan') : HashOf(submitChan'[i].d, submitChan'[i].hash)
    BY <1>1, <1>2, <2>1 DEF ReceiveDeposit, HashInv
  <2> QED
    BY <1>1, <1>2, <2>3, <2>4 DEF ReceiveDeposit, HashInv, HashOf
<1>3. CASE BroadcastBatch
  <2>1. UNCHANGED <<submitChan, pool>> /\ (core' = core \/ CommitBatch)
    BY <1>3 DEF BroadcastBatch
  <2>2. ASSUME CommitBatch, NEW d \in Deposits PROVE HashOf(d, core'[d])
    <3>1. \/ core'[d] = core[d]
          \/ \E i \in 1..Len(pool) : pool[i].d = d /\ core'[d] = CoreHash(pool[i].hash)
      BY <2>2 DEF CommitBatch
    <3> QED
      BY <3>1, TxIdsAssumption DEF HashInv, HashOf, CoreHash, SpecialHashes
  <2> QED
    BY <1>1, <2>1, <2>2 DEF HashInv, HashOf
<1>4. CASE ClearPool
  BY <1>1, <1>4 DEF ClearPool, HashInv, HashOf
<1>5. CASE QueryCore \/ MarkProcessed
  BY <1>1, <1>5 DEF QueryCore, MarkProcessed, HashInv, HashOf
<1> QED
  BY <1>2, <1>3, <1>4, <1>5 DEF CoreSubmitterNext

\* Every step keeps the hashes right.
LEMMA NextHash ==
    ASSUME TypeOK, PaymentInv, Verified, BroadcastInv, HashInv, [Next]_vars
    PROVE  HashInv'
<1>1. job \in [Jobs -> ContainerRecords] /\ core \in [Deposits -> Hashes]
  BY DEF TypeOK, JobsOK, DurableOK
<1>2. \A d, h : HashOf(d, h) => HashOf(d, h)'
  BY SuccessStays
<1>3. UNCHANGED <<core, job, submitChan, pool>> => HashInv'
  BY <1>2 DEF HashInv
<1>4. CASE Crash
  BY <1>2, <1>4 DEF Crash, ProcessDies, durable, AllFree, Free, HashInv
<1>5. CASE BroadcasterNext
  <2>1. PICK r \in Requesters :
              \/ \E e \in Deposits : SubmitWithdrawal(r, e) \/ ObserveDeposit(r, e)
              \/ CheckCache(r) \/ CheckChain(r) \/ CheckRow(r)
              \/ InsertDeposit(r) \/ StartBroadcast(r)
    BY <1>5 DEF BroadcasterNext
  <2>2. CASE StartBroadcast(r)
    <3>1. PICK j \in Jobs : Spawn(j, "broadcast", req[r].d, "PENDING", "nil")
      BY <2>2 DEF StartBroadcast
    <3>2. /\ \A k \in Jobs \ {j} : job'[k] = job[k]
          /\ job'[j].pc \notin HashPcs
      BY <1>1, <3>1 DEF Spawn, HashPcs
    <3> QED
      BY <2>2, <3>2 DEF StartBroadcast, durable, HashPcs, HashInv, HashOf
  <2> QED
    BY <1>3, <2>1, <2>2 DEF SubmitWithdrawal, ObserveDeposit, CheckCache, CheckChain,
       CheckRow, InsertDeposit, durable
<1>6. ~CatchUpperNext
  BY DEF BroadcastInv, CatchUpperNext, LoadPhase, CatchUpCheck, CatchUpUpdate,
     CatchUpEnqueue, EndPhase
<1>7. CASE \E d \in Deposits : ForeignReport(d)
  <2>1. PICK d \in Deposits : ForeignReport(d)
    BY <1>7
  <2>2. /\ core' = [core EXCEPT ![d] = "foreign"]
        /\ UNCHANGED <<tx, job, submitChan, pool>>
    BY <2>1 DEF ForeignReport, Memory
  <2> QED
    BY <1>1, <2>2, TxIdsAssumption DEF HashInv, HashOf, SpecialHashes
<1>8. CASE \/ Start \/ UNCHANGED vars
           \/ \E t \in TxIds : MineWithdrawal(t)
           \/ \E d \in Deposits : ForeignPay(d)
  BY <1>3, <1>8 DEF Start, durable, MineWithdrawal, ForeignPay, Memory, vars
<1> QED
  BY <1>4, <1>5, <1>6, <1>7, <1>8, ContainersHash, CoreSubmitterHash DEF Next, ChainNext

\* Without catch-up, and where Withdraw verifies its transaction, core holds a
\* hash of this relayer only for the deposit that this very transaction paid, for
\* any number of callers and containers and over crashes and all other faults.
THEOREM ReportedHashesPaid ==
    Verified /\ CatchUpFlag = {FALSE} => (Spec => []ReportedHashPaid)
<1> SUFFICES ASSUME Verified, CatchUpFlag = {FALSE} PROVE Spec => []ReportedHashPaid
  OBVIOUS
<1>1. Init => BroadcastInv /\ HashInv
  BY TxIdsAssumption DEF Init, BroadcastInv, HashInv, HashOf, AllFree, Free, CatchUpAt,
     SpecialHashes
<1>2. TypeOK /\ (Verified => PaymentInv) /\ BroadcastInv /\ HashInv /\ [Next]_vars
        => BroadcastInv' /\ HashInv'
  BY NextBroadcast, NextHash
<1>3. HashInv => ReportedHashPaid
  BY DEF HashInv, HashOf, ReportedHashPaid
<1> QED
  BY <1>1, <1>2, <1>3, TypeCorrect, PaymentInvariant, PTL DEF Spec

-----------------------------------------------------------------------------
(* One caller: a deposit is in one place *)

\* A report appended to a channel adds its deposit.
LEMMA AppendReport ==
    ASSUME NEW s \in Seq(Reports), NEW x \in Reports, NEW d
    PROVE  InReports(d, Append(s, x)) <=> InReports(d, s) \/ x.d = d
<1>1. /\ Len(Append(s, x)) = Len(s) + 1 /\ Append(s, x)[Len(s) + 1] = x
      /\ \A i \in 1..Len(s) : Append(s, x)[i] = s[i]
  OBVIOUS
<1> QED
  BY <1>1 DEF InReports

\* The report at the head of a channel, and those behind it.
LEMMA TakeReport ==
    ASSUME NEW s \in Seq(Reports), s # <<>>, NEW d
    PROVE  /\ Head(s) \in Reports /\ Tail(s) \in Seq(Reports)
           /\ InReports(d, s) <=> Head(s).d = d \/ InReports(d, Tail(s))
<1>1. /\ Head(s) = s[1] /\ Len(s) >= 1 /\ Len(Tail(s)) = Len(s) - 1
      /\ \A i \in 1..Len(Tail(s)) : Tail(s)[i] = s[i + 1]
  OBVIOUS
<1>2. ASSUME InReports(d, s) PROVE Head(s).d = d \/ InReports(d, Tail(s))
  <2>1. PICK i \in 1..Len(s) : s[i].d = d
    BY <1>2 DEF InReports
  <2>2. CASE i = 1
    BY <1>1, <2>1, <2>2
  <2>3. CASE i # 1
    <3>1. i - 1 \in 1..Len(Tail(s)) /\ Tail(s)[i - 1] = s[i]
      BY <1>1, <2>3
    <3> QED
      BY <2>1, <3>1 DEF InReports
  <2> QED
    BY <2>2, <2>3
<1>3. Head(s).d = d \/ InReports(d, Tail(s)) => InReports(d, s)
  BY <1>1 DEF InReports
<1> QED
  BY <1>1, <1>2, <1>3

\* The core submitter hands nothing over that was not handed over before.
LEMMA SubmitterHands ==
    ASSUME TypeOK, CoreSubmitterNext, NEW d, Handed(d)'
    PROVE  Handed(d)
<1>1. submitChan \in Seq(Reports) /\ pool \in Seq(Reports)
  BY DEF TypeOK, SubmitterOK
<1>2. CASE ReceiveDeposit
  <2>1. /\ submitChan # <<>> /\ pool' = Append(pool, Head(submitChan))
        /\ submitChan' = Tail(submitChan)
    BY <1>2 DEF ReceiveDeposit
  <2> QED
    BY <1>1, <2>1, TakeReport, AppendReport DEF Handed
<1>3. CASE ClearPool
  BY <1>3 DEF ClearPool, Handed, InReports
<1> QED
  BY <1>2, <1>3 DEF CoreSubmitterNext, QueryCore, BroadcastBatch, MarkProcessed, Handed

PlaceInv == CachedInv /\ OnePlaceInv

\* The death of the process empties every place.
LEMMA ProcessDiesPlace == ASSUME ProcessDies PROVE PlaceInv'
  BY DEF ProcessDies, PlaceInv, CachedInv, OnePlaceInv, Handed, InReports, AllFree, Free,
     AllIdle, Idle

\* The call that starts a container is the only one that had the deposit.
LEMMA RequestsPlace ==
    ASSUME TypeOK, PlaceInv, SoleCaller, BroadcasterNext
    PROVE  PlaceInv'
<1>1. /\ job \in [Jobs -> ContainerRecords] /\ req \in [Requesters -> Requests]
      /\ \A j \in Jobs : job[j].pc # "free" => job[j].d \in Deposits
      /\ \A r \in Requesters : req[r].pc # "idle" => req[r].d \in Deposits
  BY DEF TypeOK, JobsOK, RequestsOK
<1>2. PICK r \in Requesters :
            \/ \E e \in Deposits : SubmitWithdrawal(r, e) \/ ObserveDeposit(r, e)
            \/ CheckCache(r) \/ CheckChain(r) \/ CheckRow(r)
            \/ InsertDeposit(r) \/ StartBroadcast(r)
  BY DEF BroadcasterNext
<1>3. /\ \A q \in Requesters : q = r
      /\ UNCHANGED <<submitChan, pool>> /\ cache \subseteq cache'
  BY <1>2 DEF SoleCaller, SubmitWithdrawal, ObserveDeposit, CheckCache, CheckChain,
     CheckRow, InsertDeposit, StartBroadcast
<1>4. CASE StartBroadcast(r)
  <2>1. PICK j \in Jobs : Spawn(j, "broadcast", req[r].d, "PENDING", "nil")
    BY <1>4 DEF StartBroadcast
  <2>2. /\ job[j].pc = "free" /\ job'[j].pc # "free" /\ job'[j].d = req[r].d
        /\ \A k \in Jobs \ {j} : job'[k] = job[k]
    BY <1>1, <2>1 DEF Spawn
  <2>3. req[r].pc = "store" /\ req[r].d \in cache' /\ req'[r].pc = "idle"
    BY <1>1, <1>4 DEF StartBroadcast, RequestReturn, Idle
  <2>4. CachedInv'
    BY <1>3, <2>2, <2>3 DEF PlaceInv, CachedInv, Handed
  <2>5. ~Handed(req[r].d) /\ \A k \in Jobs : job[k].pc # "free" => job[k].d # req[r].d
    BY <2>3 DEF PlaceInv, OnePlaceInv
  <2>6. OnePlaceInv'
    BY <1>3, <2>2, <2>3, <2>5 DEF PlaceInv, OnePlaceInv, Handed
  <2> QED
    BY <2>4, <2>6 DEF PlaceInv
<1>5. CASE ~StartBroadcast(r)
  <2>1. job' = job
    BY <1>2, <1>5 DEF SubmitWithdrawal, ObserveDeposit, CheckCache, CheckChain, CheckRow,
       InsertDeposit
  <2>2. CachedInv'
    BY <1>3, <2>1 DEF PlaceInv, CachedInv, Handed
  <2>3. CASE CheckCache(r)
    <3>1. CASE req[r].d \in cache
      <4>1. req'[r].pc = "idle"
        BY <1>1, <2>3, <3>1 DEF CheckCache, RequestReturn, Idle
      <4> QED
        BY <1>3, <2>1, <2>2, <4>1 DEF PlaceInv, OnePlaceInv, Handed
    <3>2. CASE req[r].d \notin cache
      <4>1. req'[r].d = req[r].d /\ req[r].d \in Deposits
        BY <1>1, <2>3, <3>2 DEF CheckCache, RequestGoto, Requests
      <4>2. ~Handed(req[r].d) /\ \A k \in Jobs : job[k].pc # "free" => job[k].d # req[r].d
        BY <3>2, <4>1 DEF PlaceInv, CachedInv
      <4> QED
        BY <1>3, <2>1, <2>2, <4>1, <4>2 DEF PlaceInv, OnePlaceInv, Handed
    <3> QED
      BY <3>1, <3>2
  <2>4. CASE ~CheckCache(r)
    <3>1. req'[r].pc \in {"chain", "row", "insert", "store"} =>
              req[r].pc \in {"chain", "row", "insert", "store"} /\ req'[r].d = req[r].d
      BY <1>1, <1>2, <1>5, <2>4 DEF SubmitWithdrawal, ObserveDeposit, CheckChain, CheckRow,
         InsertDeposit, RequestGoto, RequestReturn, Requests, Idle
    <3> QED
      BY <1>3, <2>1, <2>2, <3>1 DEF PlaceInv, OnePlaceInv, Handed
  <2> QED
    BY <2>3, <2>4
<1> QED
  BY <1>4, <1>5

\* A container hands its deposit over when it ends, or evicts it and leaves nothing.
LEMMA ContainersPlace ==
    ASSUME TypeOK, PlaceInv, ContainersNext
    PROVE  PlaceInv'
<1>1. /\ job \in [Jobs -> ContainerRecords] /\ submitChan \in Seq(Reports)
      /\ \A j \in Jobs : job[j].pc # "free" => job[j].d \in Deposits
  BY DEF TypeOK, JobsOK, SubmitterOK
<1>2. PICK j \in Jobs : RunStep(j) \/ LastStep(j)
  BY DEF ContainersNext, ContainerStep, RunStep, LastStep
<1>3. CASE RunStep(j)
  <2>1. /\ \A k \in Jobs : /\ job'[k].d = job[k].d
                           /\ job'[k].pc = "free" <=> job[k].pc = "free"
        /\ UNCHANGED <<cache, req, submitChan, pool>>
    BY <1>3, RunStepFrame
  <2> QED
    BY <2>1 DEF PlaceInv, CachedInv, OnePlaceInv, Handed
<1>4. CASE EvictDeposit(j)
  <2>1. /\ job[j].pc # "free" /\ job'[j].pc = "free"
        /\ \A k \in Jobs \ {j} : job'[k] = job[k]
        /\ cache' = cache \ {job[j].d} /\ UNCHANGED <<req, submitChan, pool>>
    BY <1>1, <1>4 DEF EvictDeposit, JobFrame, Free
  <2>2. CachedInv'
    BY <2>1 DEF PlaceInv, CachedInv, OnePlaceInv, Handed
  <2>3. OnePlaceInv'
    BY <2>1 DEF PlaceInv, OnePlaceInv, Handed
  <2> QED
    BY <2>2, <2>3 DEF PlaceInv
<1>5. CASE SendToSubmitter(j)
  <2>1. /\ job[j].pc # "free" /\ job'[j].pc = "free"
        /\ \A k \in Jobs \ {j} : job'[k] = job[k]
        /\ UNCHANGED <<cache, req, pool>>
    BY <1>1, <1>5 DEF SendToSubmitter, JobFrame, Free
  <2>2. [d |-> job[j].d, st |-> job[j].st, hash |-> job[j].hash] \in Reports
    BY <1>1, <2>1 DEF Reports, ContainerRecords
  <2>3. \A d : Handed(d)' <=> Handed(d) \/ job[j].d = d
    BY <1>1, <1>5, <2>1, <2>2, AppendReport DEF SendToSubmitter, Handed
  <2>4. CachedInv'
    BY <2>1, <2>3 DEF PlaceInv, CachedInv
  <2>5. OnePlaceInv'
    BY <1>1, <2>1, <2>3 DEF PlaceInv, OnePlaceInv
  <2> QED
    BY <2>4, <2>5 DEF PlaceInv
<1>6. CASE WorkerPanics(j)
  BY <1>6, ProcessDiesPlace DEF WorkerPanics
<1> QED
  BY <1>2, <1>3, <1>4, <1>5, <1>6 DEF LastStep

\* Every step keeps PlaceInv.
LEMMA NextPlace ==
    ASSUME TypeOK, BroadcastInv, PlaceInv, SoleCaller, [Next]_vars
    PROVE  PlaceInv'
<1>1. UNCHANGED <<cache, req, job, submitChan, pool>> => PlaceInv'
  BY DEF PlaceInv, CachedInv, OnePlaceInv, Handed
<1>2. CASE CoreSubmitterNext
  <2>1. UNCHANGED <<cache, req, job>>
    BY <1>2 DEF CoreSubmitterNext, ReceiveDeposit, QueryCore, BroadcastBatch,
       MarkProcessed, ClearPool, SubmitterFrame
  <2>2. \A d : Handed(d)' => Handed(d)
    BY <1>2, SubmitterHands
  <2> QED
    BY <2>1, <2>2 DEF PlaceInv, CachedInv, OnePlaceInv
<1>3. ~CatchUpperNext
  BY DEF BroadcastInv, CatchUpperNext, LoadPhase, CatchUpCheck, CatchUpUpdate,
     CatchUpEnqueue, EndPhase
<1>4. CASE ChainNext \/ Start \/ UNCHANGED vars
  BY <1>1, <1>4 DEF ChainNext, MineWithdrawal, ForeignPay, ForeignReport, Memory, Start,
     vars
<1>5. CASE Crash
  BY <1>5, ProcessDiesPlace DEF Crash
<1> QED
  BY <1>2, <1>3, <1>4, <1>5, RequestsPlace, ContainersPlace DEF Next

\* Nothing is in any place at first.
LEMMA InitPlace == Init => BroadcastInv /\ PlaceInv
  BY DEF Init, BroadcastInv, PlaceInv, CachedInv, OnePlaceInv, Handed, InReports, AllFree,
     Free, AllIdle, Idle, CatchUpAt

\* With one caller of BroadcastDeposit at a time and without catch-up, the cache
\* keeps a deposit to one container, over every fault, eviction and restart.
THEOREM OneContainerAtATime ==
    SoleCaller /\ CatchUpFlag = {FALSE} => (Spec => []OneContainer)
<1> SUFFICES ASSUME SoleCaller, CatchUpFlag = {FALSE} PROVE Spec => []OneContainer
  OBVIOUS
<1>1. TypeOK /\ BroadcastInv /\ PlaceInv /\ [Next]_vars => BroadcastInv' /\ PlaceInv'
  BY NextBroadcast, NextPlace
<1>2. PlaceInv => OneContainer
  BY DEF PlaceInv, OnePlaceInv, OneContainer, Live
<1> QED
  BY <1>1, <1>2, InitPlace, TypeCorrect, PTL DEF Spec

-----------------------------------------------------------------------------
(* One caller: what is settled stays settled *)

\* A broadcast container whose row claims nothing before it has got to its claim
\* never takes a claim back.
LEMMA RunStepClaims ==
    ASSUME TypeOK, JobStatus, NEW j \in Jobs, RunStep(j),
           job[j].kind = "broadcast", job[j].pc \notin CatchUpPcs,
           job[j].pc \in UnclaimedPcs => row[job[j].d].status \notin Settled
    PROVE  /\ job'[j].pc \in UnclaimedPcs => row'[job[j].d].status \notin Settled
           /\ row[job[j].d].status \in Settled => row'[job[j].d].status \in Settled
<1> USE DEF UnclaimedPcs, CatchUpPcs, Settled
<1>1. /\ job \in [Jobs -> ContainerRecords]
      /\ job[j].pc # "free" => job[j].d \in Deposits
      /\ job[j].pc \in {"failStatus", "wfStatus", "wfDetails"} => job[j].st = "FAILED"
      /\ job[j].pc \in {"bcAwStatus", "bcAwDetails"} => job[j].st = "ALREADY_WITHDRAWN"
      /\ job[j].pc \in {"withdraw", "finalize", "details", "submitting"} =>
            job[j].st = "PROCESSING"
  BY DEF TypeOK, JobsOK, JobStatus
<1>2. row \in [Deposits -> Rows]
  BY DEF TypeOK, DurableOK
<1>3. job[j].pc \in UnclaimedPcs => row[job[j].d].status \notin Settled
  OBVIOUS
<1>4. CASE TakeContainer(j)
  BY <1>4, <1>1, <1>2, <1>3 DEF TakeContainer, JobStep, JobStepAs, ContainerRecords,
     UpdateStatus, UpdateWithdrawalDetails, Rows
<1>5. CASE BroadcastIsProcessed(j)
  BY <1>5, <1>1, <1>2, <1>3 DEF BroadcastIsProcessed, IsProcessed, JobStep, JobStepAs,
     ContainerRecords, UpdateStatus, UpdateWithdrawalDetails, Rows
<1>6. CASE CatchUpIsSubmitted(j)
  BY <1>6, <1>1, <1>2, <1>3 DEF CatchUpIsSubmitted, JobStep, JobStepAs,
     ContainerRecords, UpdateStatus, UpdateWithdrawalDetails, Rows
<1>7. CASE CatchUpIsProcessed(j)
  BY <1>7, <1>1, <1>2, <1>3 DEF CatchUpIsProcessed, IsProcessed, JobStep, JobStepAs,
     ContainerRecords, UpdateStatus, UpdateWithdrawalDetails, Rows
<1>8. CASE FinalizeWithdrawal(j)
  BY <1>8, <1>1, <1>2, <1>3 DEF FinalizeWithdrawal, WithdrawFails, JobStep, JobStepAs,
     ContainerRecords, UpdateStatus, UpdateWithdrawalDetails, Rows
<1>9. CASE SendWithdrawal(j)
  BY <1>9, <1>1, <1>2, <1>3 DEF SendWithdrawal, WithdrawFails, JobStep, JobStepAs,
     ContainerRecords, UpdateStatus, UpdateWithdrawalDetails, Rows
<1>10. CASE AlreadyWithdrawnStatus(j)
  BY <1>10, <1>1, <1>2, <1>3 DEF AlreadyWithdrawnStatus, JobStep, JobStepAs,
     ContainerRecords, UpdateStatus, UpdateWithdrawalDetails, Rows
<1>11. CASE AlreadyWithdrawnDetails(j)
  BY <1>11, <1>1, <1>2, <1>3 DEF AlreadyWithdrawnDetails, JobStep, JobStepAs,
     ContainerRecords, UpdateStatus, UpdateWithdrawalDetails, Rows
<1>12. CASE BroadcastProcessing(j)
  BY <1>12, <1>1, <1>2, <1>3 DEF BroadcastProcessing, JobStep, JobStepAs,
     ContainerRecords, UpdateStatus, UpdateWithdrawalDetails, Rows
<1>13. CASE CatchUpAlreadySubmitted(j)
  BY <1>13, <1>1, <1>2, <1>3 DEF CatchUpAlreadySubmitted, JobStep, JobStepAs,
     ContainerRecords, UpdateStatus, UpdateWithdrawalDetails, Rows
<1>14. CASE CatchUpProcessing(j)
  BY <1>14, <1>1, <1>2, <1>3 DEF CatchUpProcessing, JobStep, JobStepAs,
     ContainerRecords, UpdateStatus, UpdateWithdrawalDetails, Rows
<1>15. CASE CatchUpSkipStatus(j)
  BY <1>15, <1>1, <1>2, <1>3 DEF CatchUpSkipStatus, JobStep, JobStepAs,
     ContainerRecords, UpdateStatus, UpdateWithdrawalDetails, Rows
<1>16. CASE CatchUpSkipDetails(j)
  BY <1>16, <1>1, <1>2, <1>3 DEF CatchUpSkipDetails, JobStep, JobStepAs,
     ContainerRecords, UpdateStatus, UpdateWithdrawalDetails, Rows
<1>17. CASE WithdrawFailedStatus(j)
  BY <1>17, <1>1, <1>2, <1>3 DEF WithdrawFailedStatus, JobStep, JobStepAs,
     ContainerRecords, UpdateStatus, UpdateWithdrawalDetails, Rows
<1>18. CASE WithdrawFailedDetails(j)
  BY <1>18, <1>1, <1>2, <1>3 DEF WithdrawFailedDetails, JobStep, JobStepAs,
     ContainerRecords, UpdateStatus, UpdateWithdrawalDetails, Rows
<1>19. CASE WithdrawalDetails(j)
  BY <1>19, <1>1, <1>2, <1>3 DEF WithdrawalDetails, JobStep, JobStepAs,
     ContainerRecords, UpdateStatus, UpdateWithdrawalDetails, Rows
<1>20. CASE SubmittingStatus(j)
  BY <1>20, <1>1, <1>2, <1>3 DEF SubmittingStatus, JobStep, JobStepAs, ContainerRecords,
     UpdateStatus, UpdateWithdrawalDetails, Rows
<1>21. CASE FailedStatus(j)
  BY <1>21, <1>1, <1>2, <1>3 DEF FailedStatus, JobStep, JobStepAs, ContainerRecords,
     UpdateStatus, UpdateWithdrawalDetails, Rows
<1> QED
  BY <1>4, <1>5, <1>6, <1>7, <1>8, <1>9, <1>10, <1>11, <1>12, <1>13, <1>14, <1>15,
     <1>16, <1>17, <1>18, <1>19, <1>20, <1>21 DEF RunStep


ClaimInv == JobStatus /\ BroadcastInv /\ PlaceInv /\ UnclaimedInv

\* No step of a call of BroadcastDeposit takes a claim back: it opens only rows that
\* were absent or FAILED, and nobody else has the deposit in the meantime.
LEMMA RequestsClaim ==
    ASSUME TypeOK, PlaceInv, UnclaimedInv, SoleCaller, BroadcasterNext
    PROVE  /\ UnclaimedInv'
           /\ \A d \in Deposits : row[d].status \in Settled => row'[d].status \in Settled
<1>1. /\ job \in [Jobs -> ContainerRecords] /\ req \in [Requesters -> Requests]
      /\ row \in [Deposits -> Rows]
      /\ \A j \in Jobs : job[j].pc # "free" => job[j].d \in Deposits
      /\ \A r \in Requesters : req[r].pc # "idle" => req[r].d \in Deposits
  BY DEF TypeOK, JobsOK, RequestsOK, DurableOK
<1>2. PICK r \in Requesters :
            \/ \E e \in Deposits : SubmitWithdrawal(r, e) \/ ObserveDeposit(r, e)
            \/ CheckCache(r) \/ CheckChain(r) \/ CheckRow(r)
            \/ InsertDeposit(r) \/ StartBroadcast(r)
  BY DEF BroadcasterNext
<1>3. \A q \in Requesters : q = r
  BY DEF SoleCaller
<1>4. CASE StartBroadcast(r)
  <2>1. PICK j \in Jobs : Spawn(j, "broadcast", req[r].d, "PENDING", "nil")
    BY <1>4 DEF StartBroadcast
  <2>2. /\ job'[j].d = req[r].d /\ \A k \in Jobs \ {j} : job'[k] = job[k]
        /\ row' = row /\ req[r].pc = "store" /\ req'[r].pc = "idle"
    BY <1>1, <1>4, <2>1 DEF Spawn, StartBroadcast, durable, RequestReturn, Idle
  <2> QED
    BY <1>3, <2>2 DEF UnclaimedInv
<1>5. CASE InsertDeposit(r)
  <2>1. /\ req[r].pc = "insert" /\ job' = job
        /\ \/ row' = row /\ req'[r].pc = "idle"
           \/ row' = Insert(row, req[r].d, 0) /\ req'[r].d = req[r].d
    BY <1>1, <1>5 DEF InsertDeposit, RequestGoto, RequestReturn, Idle, Requests
  <2>2. row[req[r].d].status \notin Settled /\ req[r].d \in Deposits
    BY <1>1, <2>1 DEF UnclaimedInv
  <2>3. \A j \in Jobs : job[j].pc # "free" => job[j].d # req[r].d
    BY <2>1 DEF PlaceInv, OnePlaceInv
  <2>4. CASE row' = row /\ req'[r].pc = "idle"
    BY <1>3, <2>1, <2>4 DEF UnclaimedInv
  <2>5. CASE row' = Insert(row, req[r].d, 0) /\ req'[r].d = req[r].d
    <3>1. /\ row'[req[r].d].status = "PENDING"
          /\ \A d \in Deposits : d # req[r].d => row'[d] = row[d]
      BY <1>1, <2>2, <2>5 DEF Insert, UpdateRecoveryData, Rows
    <3>2. row'[req[r].d].status \notin Settled
      BY <3>1 DEF Settled
    <3>3. \A j \in Jobs : job[j].pc \in UnclaimedPcs => row'[job[j].d].status \notin Settled
      BY <1>1, <2>3, <3>1 DEF UnclaimedInv, UnclaimedPcs
    <3> QED
      BY <1>3, <2>1, <2>2, <2>5, <3>1, <3>2, <3>3 DEF UnclaimedInv
  <2> QED
    BY <2>1, <2>4, <2>5
<1>6. CASE ~StartBroadcast(r) /\ ~InsertDeposit(r)
  <2>1. job' = job /\ row' = row
    BY <1>2, <1>6 DEF SubmitWithdrawal, ObserveDeposit, CheckCache, CheckChain, CheckRow,
       durable
  <2>2. req'[r].pc \in {"insert", "store"} =>
            row[req[r].d].status \notin Settled /\ req'[r].d = req[r].d
    BY <1>1, <1>2, <1>6 DEF SubmitWithdrawal, ObserveDeposit, CheckCache, CheckChain,
       CheckRow, Recoverable, RequestGoto, RequestReturn, Idle, Requests, Settled
  <2> QED
    BY <1>3, <2>1, <2>2 DEF UnclaimedInv
<1> QED
  BY <1>4, <1>5, <1>6

\* No step of a container takes a claim back, its own or that of another one.
LEMMA ContainersClaim ==
    ASSUME TypeOK, ClaimInv, ContainersNext
    PROVE  /\ UnclaimedInv'
           /\ \A d \in Deposits : row[d].status \in Settled => row'[d].status \in Settled
<1>1. /\ job \in [Jobs -> ContainerRecords]
      /\ \A j \in Jobs : job[j].pc # "free" => job[j].d \in Deposits
      /\ \A r \in Requesters : req[r].pc # "idle" => req[r].d \in Deposits
  BY DEF TypeOK, JobsOK, RequestsOK
<1>2. PICK j \in Jobs : RunStep(j) \/ LastStep(j)
  BY DEF ContainersNext, ContainerStep, RunStep, LastStep
<1>3. CASE RunStep(j)
  <2>1. /\ job[j].pc # "free" /\ job'[j].d = job[j].d
        /\ \A k \in Jobs \ {j} : job'[k] = job[k]
        /\ req' = req
    BY <1>3, RunStepFrame
  <2>2. \A d \in Deposits : d # job[j].d => row'[d] = row[d]
    BY <1>3, RunStepRow DEF ClaimInv
  <2>3. /\ job'[j].pc \in UnclaimedPcs => row'[job[j].d].status \notin Settled
        /\ row[job[j].d].status \in Settled => row'[job[j].d].status \in Settled
    BY <1>3, <2>1, RunStepClaims DEF ClaimInv, BroadcastInv, UnclaimedInv
  <2>4. ASSUME NEW k \in Jobs \ {j}, job[k].pc \in UnclaimedPcs
        PROVE  row'[job[k].d].status \notin Settled
    <3>1. job[k].pc # "free" /\ job[k].d # job[j].d
      BY <2>1, <2>4 DEF ClaimInv, PlaceInv, OnePlaceInv, UnclaimedPcs
    <3> QED
      BY <1>1, <2>2, <2>4, <3>1 DEF ClaimInv, UnclaimedInv
  <2>5. ASSUME NEW r \in Requesters, req[r].pc \in {"insert", "store"}
        PROVE  row'[req[r].d].status \notin Settled
    <3>1. req[r].d # job[j].d /\ req[r].d \in Deposits
      BY <1>1, <2>1, <2>5 DEF ClaimInv, PlaceInv, OnePlaceInv
    <3> QED
      BY <2>2, <2>5, <3>1 DEF ClaimInv, UnclaimedInv
  <2> QED
    BY <2>1, <2>2, <2>3, <2>4, <2>5 DEF UnclaimedInv
<1>4. CASE EvictDeposit(j) \/ SendToSubmitter(j)
  <2>1. /\ job'[j].pc \notin UnclaimedPcs /\ \A k \in Jobs \ {j} : job'[k] = job[k]
        /\ UNCHANGED <<row, req>>
    BY <1>1, <1>4 DEF EvictDeposit, SendToSubmitter, JobFrame, Free, UnclaimedPcs
  <2> QED
    BY <2>1 DEF ClaimInv, UnclaimedInv
<1>5. CASE WorkerPanics(j)
  BY <1>5 DEF WorkerPanics, ProcessDies, durable, AllFree, Free, AllIdle, Idle,
     UnclaimedPcs, UnclaimedInv
<1> QED
  BY <1>2, <1>3, <1>4, <1>5 DEF LastStep

\* The submitter marks PROCESSED what was handed to it, which nobody else has.
LEMMA SubmitterClaims ==
    ASSUME TypeOK, ClaimInv, CoreSubmitterNext
    PROVE  /\ UnclaimedInv'
           /\ \A d \in Deposits : row[d].status \in Settled => row'[d].status \in Settled
<1>1. UNCHANGED <<job, req>>
  BY DEF CoreSubmitterNext, ReceiveDeposit, QueryCore, BroadcastBatch, MarkProcessed,
     ClearPool, SubmitterFrame
<1>2. CASE row' = row
  BY <1>1, <1>2 DEF ClaimInv, UnclaimedInv
<1>3. CASE row' # row
  <2>1. sub.i <= Len(pool) /\ row' = UpdateStatus(row, pool[sub.i].d, "PROCESSED")
    BY <1>3 DEF CoreSubmitterNext, ReceiveDeposit, QueryCore, BroadcastBatch, MarkProcessed,
       ClearPool
  <2> DEFINE e == pool[sub.i].d
  <2>2. sub.i \in 1..Len(pool) /\ pool[sub.i] \in Reports
    BY <2>1 DEF TypeOK, SubmitterOK
  <2>3. e \in Deposits /\ Handed(e)
    BY <2>2 DEF Reports, Handed, InReports
  <2>4. row'[e].status = "PROCESSED" /\ \A d \in Deposits : d # e => row'[d] = row[d]
    BY <2>1, <2>3 DEF UpdateStatus, TypeOK, DurableOK, Rows
  <2> HIDE DEF e
  <2>5. /\ \A j \in Jobs : job[j].pc # "free" => job[j].d # e /\ job[j].d \in Deposits
        /\ \A r \in Requesters : req[r].pc \in {"insert", "store"} =>
              req[r].d # e /\ req[r].d \in Deposits
    BY <2>3 DEF ClaimInv, PlaceInv, OnePlaceInv, TypeOK, JobsOK, RequestsOK
  <2>6. UnclaimedInv'
    BY <1>1, <2>4, <2>5 DEF ClaimInv, UnclaimedInv, UnclaimedPcs
  <2> QED
    BY <2>4, <2>6 DEF Settled
<1> QED
  BY <1>2, <1>3

\* Every step keeps ClaimInv and takes no claim back.
LEMMA NextClaim ==
    ASSUME TypeOK, ClaimInv, SoleCaller, CatchUpFlag = {FALSE}, [Next]_vars
    PROVE  /\ ClaimInv'
           /\ \A d \in Deposits : row[d].status \in Settled => row'[d].status \in Settled
<1>1. JobStatus' /\ BroadcastInv' /\ PlaceInv'
  BY NextStatus, NextBroadcast, NextPlace DEF ClaimInv
<1>2. ~CatchUpperNext
  BY DEF ClaimInv, BroadcastInv, CatchUpperNext, LoadPhase, CatchUpCheck, CatchUpUpdate,
     CatchUpEnqueue, EndPhase
<1>3. CASE Crash
  BY <1>1, <1>3 DEF Crash, ProcessDies, durable, AllFree, Free, AllIdle, Idle, UnclaimedPcs,
     UnclaimedInv, ClaimInv
<1>4. CASE ChainNext \/ Start \/ UNCHANGED vars
  BY <1>1, <1>4 DEF ChainNext, MineWithdrawal, ForeignPay, ForeignReport, Memory, Start,
     durable, vars, UnclaimedInv, ClaimInv
<1> QED
  BY <1>1, <1>2, <1>3, <1>4, RequestsClaim, ContainersClaim, SubmitterClaims
     DEF ClaimInv, Next

\* With one caller of BroadcastDeposit at a time and without catch-up, a withdrawal
\* that took place is never reopened, over every fault, retry and restart.
THEOREM SettledStays ==
    SoleCaller /\ CatchUpFlag = {FALSE} => (Spec => SettledStaysSettled)
<1> SUFFICES ASSUME SoleCaller, CatchUpFlag = {FALSE} PROVE Spec => SettledStaysSettled
  OBVIOUS
<1>1. Init => ClaimInv
  BY InitPlace DEF Init, ClaimInv, JobStatus, UnclaimedInv, AllFree, Free, AllIdle, Idle,
     UnclaimedPcs
<1>2. TypeOK /\ ClaimInv /\ [Next]_vars => ClaimInv'
  BY NextClaim
<1>3. TypeOK /\ ClaimInv /\ [Next]_vars =>
        [\A d \in Deposits : row[d].status \in Settled => row'[d].status \in Settled]_vars
  BY NextClaim
<1> QED
  BY <1>1, <1>2, <1>3, TypeCorrect, PTL DEF Spec, SettledStaysSettled

=============================================================================
