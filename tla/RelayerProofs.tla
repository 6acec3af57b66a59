----------------------------- MODULE RelayerProofs -----------------------------
(***************************************************************************)
(* Proofs, for every value of the constants, of what the runs check on     *)
(* small instances.                                                        *)
(***************************************************************************)
EXTENDS Relayer, TLAPS

-----------------------------------------------------------------------------
(* Types *)

\* The state before the first start of the service is well typed.
LEMMA InitType == Init => TypeOK
<1> SUFFICES ASSUME Init PROVE TypeOK
  OBVIOUS
<1> USE DEF Init, Hashes, SpecialHashes
<1>1. DurableOK
  BY DEF DurableOK, NoRow, Rows, RowStatus, Transactions, TxStates
<1>2. ProcessOK
  BY DEF ProcessOK
<1>3. RequestsOK
  BY DEF RequestsOK, AllIdle, Idle, Requests, RequestPcs
<1>4. JobsOK
  BY DEF JobsOK, AllFree, Free, ContainerRecords, JobPcs, WithdrawalStatus
<1>5. SubmitterOK
  BY BoundsAssumption DEF SubmitterOK, Receiving
<1>6. CatchUpOK
  BY DEF CatchUpOK, CatchUpAt
<1> QED
  BY <1>1, <1>2, <1>3, <1>4, <1>5, <1>6 DEF TypeOK

\* INSERT, or the UPDATE it turns into on a duplicate key, gives a table of rows.
LEMMA InsertType ==
    ASSUME NEW table \in [Deposits -> Rows], NEW d \in Deposits
    PROVE  Insert(table, d, 0) \in [Deposits -> Rows]
BY DEF Insert, UpdateRecoveryData, Rows, RowStatus, WithdrawalStatus, Hashes, SpecialHashes

\* UpdateStatus with one of the statuses gives a table of rows.
LEMMA UpdateStatusType ==
    ASSUME NEW table \in [Deposits -> Rows], NEW d \in Deposits,
           NEW status \in WithdrawalStatus
    PROVE  UpdateStatus(table, d, status) \in [Deposits -> Rows]
BY DEF UpdateStatus, Rows, RowStatus

\* UpdateWithdrawalDetails with a status and a hash gives a table of rows.
LEMMA UpdateDetailsType ==
    ASSUME NEW table \in [Deposits -> Rows], NEW d \in Deposits,
           NEW hash \in Hashes, NEW status \in WithdrawalStatus
    PROVE  UpdateWithdrawalDetails(table, d, hash, status) \in [Deposits -> Rows]
BY DEF UpdateWithdrawalDetails, Rows, RowStatus

\* The statuses and hashes the code writes as constants.
LEMMA Literals ==
    /\ {"PENDING", "PROCESSING", "SUBMITTING_TO_CORE", "PROCESSED", "FAILED",
        "ALREADY_WITHDRAWN"} \subseteq WithdrawalStatus
    /\ {"nil", "empty", "null", "foreign"} \subseteq Hashes
BY DEF WithdrawalStatus, Hashes, SpecialHashes

\* A container that a sender goroutine offers is well typed.
LEMMA SpawnType ==
    ASSUME JobsOK, NEW j \in Jobs, NEW kind \in {"broadcast", "catchup"},
           NEW d \in Deposits, NEW st \in WithdrawalStatus, NEW hash \in Hashes,
           Spawn(j, kind, d, st, hash)
    PROVE  JobsOK'
BY DEF JobsOK, Spawn, ContainerRecords, JobPcs

\* The memory after the death of the process is well typed; the durable state is
\* the caller's to keep.
LEMMA ProcessDiesType ==
    ASSUME ProcessDies, UNCHANGED durable, TypeOK
    PROVE  TypeOK'
<1> USE DEF ProcessDies, Hashes, SpecialHashes
<1>1. DurableOK'
  BY DEF TypeOK, DurableOK, durable
<1>2. ProcessOK'
  BY DEF ProcessOK
<1>3. RequestsOK'
  BY DEF RequestsOK, AllIdle, Idle, Requests, RequestPcs
<1>4. JobsOK'
  BY DEF JobsOK, AllFree, Free, ContainerRecords, JobPcs, WithdrawalStatus
<1>5. SubmitterOK'
  BY BoundsAssumption DEF SubmitterOK, Receiving
<1>6. CatchUpOK'
  BY DEF CatchUpOK, CatchUpAt
<1> QED
  BY <1>1, <1>2, <1>3, <1>4, <1>5, <1>6 DEF TypeOK

\* No step of SubmitWithdrawal, the observer or BroadcastDeposit breaks the types.
LEMMA BroadcasterType == TypeOK /\ BroadcasterNext => TypeOK'
<1> SUFFICES ASSUME TypeOK, NEW r \in Requesters,
                    \/ \E d \in Deposits : SubmitWithdrawal(r, d) \/ ObserveDeposit(r, d)
                    \/ CheckCache(r) \/ CheckChain(r) \/ CheckRow(r)
                    \/ InsertDeposit(r) \/ StartBroadcast(r)
             PROVE  TypeOK'
  BY DEF BroadcasterNext
<1> USE DEF TypeOK
<1>1. SubmitterOK' /\ CatchUpOK'
  BY DEF SubmitWithdrawal, ObserveDeposit, CheckCache, CheckChain, IsProcessed, CheckRow,
         InsertDeposit, StartBroadcast, SubmitterOK, CatchUpOK
<1>2. RequestsOK'
  BY DEF SubmitWithdrawal, ObserveDeposit, CheckCache, CheckChain, IsProcessed, CheckRow,
     InsertDeposit, StartBroadcast, RequestGoto, RequestReturn, RequestsOK, Requests,
     RequestPcs, Idle
<1>3. req[r].pc # "idle" => req[r].d \in Deposits
  BY DEF RequestsOK
<1>4. ProcessOK'
  BY <1>3, BoundsAssumption DEF SubmitWithdrawal, ObserveDeposit, CheckCache, CheckChain,
     IsProcessed, CheckRow, InsertDeposit, StartBroadcast, ProcessOK
<1>5. JobsOK'
  <2>1. CASE StartBroadcast(r)
    <3>1. PICK j \in Jobs : Spawn(j, "broadcast", req[r].d, "PENDING", "nil")
      BY <2>1 DEF StartBroadcast
    <3> QED
      BY <3>1, <2>1, <1>3, SpawnType
         DEF StartBroadcast, WithdrawalStatus, Hashes, SpecialHashes
  <2> QED
    BY <2>1 DEF SubmitWithdrawal, ObserveDeposit, CheckCache, CheckChain, IsProcessed,
       CheckRow, InsertDeposit, JobsOK
<1>6. DurableOK'
  <2>1. CASE InsertDeposit(r)
    BY <2>1, <1>3, InsertType DEF InsertDeposit, DurableOK
  <2> QED
    BY <2>1 DEF SubmitWithdrawal, ObserveDeposit, CheckCache, CheckChain, IsProcessed,
       CheckRow, StartBroadcast, DurableOK, durable
<1> QED
  BY <1>1, <1>2, <1>4, <1>5, <1>6

\* No step of the catch-upper breaks the types; its current entry is a deposit
\* whenever it writes to a row.
LEMMA CatchUpperType == TypeOK /\ CatchUpperNext => TypeOK'
<1> SUFFICES ASSUME TypeOK, CatchUpperNext PROVE TypeOK'
  OBVIOUS
<1> USE DEF TypeOK
<1>1. CASE LoadPhase
  <2>1. CASE ProcessDies /\ UNCHANGED durable
    BY <2>1, ProcessDiesType
  <2>2. CASE cu' = [cu EXCEPT !.pc = "check", !.todo = GetWithStatus(row, cu.phase)]
    <3>1. GetWithStatus(row, cu.phase) \subseteq Entries
      BY DEF GetWithStatus, DurableOK, Rows, Entries
    <3>2. CatchUpOK'
      BY <2>2, <3>1 DEF CatchUpOK, Entries
    <3> QED
      BY <1>1, <2>1, <3>2 DEF LoadPhase, durable, DurableOK, ProcessOK, RequestsOK, JobsOK,
                        SubmitterOK
  <2> QED
    BY <1>1, <2>1, <2>2 DEF LoadPhase
<1>2. CASE \E e \in cu.todo : CatchUpCheck(e)
  <2>1. PICK e \in cu.todo : CatchUpCheck(e)
    BY <1>2
  <2>2. e \in Entries /\ cu.todo \ {e} \subseteq Entries
    BY DEF CatchUpOK
  <2>3. CatchUpOK'
    BY <2>1, <2>2 DEF CatchUpCheck, CatchUpOK
  <2> QED
    BY <2>1, <2>3 DEF CatchUpCheck, durable, DurableOK, ProcessOK, RequestsOK, JobsOK,
       SubmitterOK
<1>3. CASE CatchUpUpdate
  <2>1. cu.cur.d \in Deposits
    BY <1>3 DEF CatchUpUpdate, CatchUpOK, Entries
  <2>2. DurableOK'
    BY <1>3, <2>1, UpdateStatusType, Literals DEF CatchUpUpdate, DurableOK
  <2>3. CatchUpOK'
    BY <1>3 DEF CatchUpUpdate, CatchUpOK
  <2> QED
    BY <1>3, <2>2, <2>3 DEF CatchUpUpdate, ProcessOK, RequestsOK, JobsOK, SubmitterOK
<1>4. CASE CatchUpEnqueue
  <2>1. cu.cur.d \in Deposits /\ cu.cur.hash \in Hashes /\ cu.phase \in WithdrawalStatus
    BY <1>4 DEF CatchUpEnqueue, CatchUpOK, Entries, WithdrawalStatus
  <2>2. CASE job' = job
    BY <1>4, <2>1, <2>2 DEF CatchUpEnqueue, CatchUpOK, ProcessOK, durable, DurableOK,
       RequestsOK, JobsOK, SubmitterOK
  <2>3. ASSUME NEW j \in Jobs, Spawn(j, "catchup", cu.cur.d, cu.phase, cu.cur.hash)
        PROVE  JobsOK'
    BY <2>1, <2>3, SpawnType
  <2>4. CatchUpOK' /\ ProcessOK'
    BY <1>4, <2>1 DEF CatchUpEnqueue, CatchUpOK, ProcessOK
  <2> QED
    BY <1>4, <2>2, <2>3, <2>4 DEF CatchUpEnqueue, durable, DurableOK, RequestsOK,
       SubmitterOK
<1>5. CASE EndPhase
  BY <1>5 DEF EndPhase, NextPhase, durable, DurableOK, ProcessOK, RequestsOK, JobsOK,
              SubmitterOK, CatchUpOK
<1> QED
  BY <1>1, <1>2, <1>3, <1>4, <1>5 DEF CatchUpperNext

\* No step of a container or of its worker breaks the types; a send respects the
\* capacity of submitChan.
LEMMA ContainersType == TypeOK /\ ContainersNext => TypeOK'
<1> SUFFICES ASSUME TypeOK, NEW j \in Jobs, ContainerStep(j) PROVE TypeOK'
  BY DEF ContainersNext
<1> USE DEF TypeOK
<1> DEFINE Quiet == UNCHANGED <<tx, paid, cache, submitChan>> /\ JobFrame
<1>1. /\ job \in [Jobs -> ContainerRecords]
      /\ job[j].pc # "free" => job[j].d \in Deposits
      /\ job[j].st \in WithdrawalStatus /\ job[j].hash \in Hashes
  BY DEF JobsOK, ContainerRecords
<1>2. Quiet => ProcessOK' /\ RequestsOK' /\ SubmitterOK' /\ CatchUpOK'
  BY DEF JobFrame, ProcessOK, RequestsOK, SubmitterOK, CatchUpOK
<1>3. Quiet /\ row' \in [Deposits -> Rows] => DurableOK'
  BY DEF JobFrame, DurableOK
<1>4. row \in [Deposits -> Rows]
  BY DEF DurableOK
<1>5. CASE TakeContainer(j)
  <2>1. Quiet /\ row' = row
    BY <1>5 DEF TakeContainer
  <2>2. JobsOK'
    BY <1>5, <1>1 DEF TakeContainer, JobStep, JobStepAs, JobsOK, ContainerRecords, JobPcs,
       WithdrawalStatus, Hashes, SpecialHashes
  <2> QED
    BY <2>1, <2>2, <1>2, <1>3, <1>4
<1>6. CASE BroadcastIsProcessed(j)
  <2>1. Quiet /\ row' = row
    BY <1>6 DEF BroadcastIsProcessed, IsProcessed
  <2>2. JobsOK'
    BY <1>6, <1>1 DEF BroadcastIsProcessed, IsProcessed, JobStep, JobStepAs, JobsOK,
       ContainerRecords, JobPcs, WithdrawalStatus, Hashes, SpecialHashes
  <2> QED
    BY <2>1, <2>2, <1>2, <1>3, <1>4
<1>7. CASE CatchUpIsSubmitted(j)
  <2>1. Quiet /\ row' = row
    BY <1>7 DEF CatchUpIsSubmitted
  <2>2. JobsOK'
    BY <1>7, <1>1 DEF CatchUpIsSubmitted, JobStep, JobStepAs, JobsOK, ContainerRecords,
       JobPcs, WithdrawalStatus, Hashes, SpecialHashes
  <2> QED
    BY <2>1, <2>2, <1>2, <1>3, <1>4
<1>8. CASE CatchUpIsProcessed(j)
  <2>1. Quiet /\ row' = row
    BY <1>8 DEF CatchUpIsProcessed, IsProcessed
  <2>2. JobsOK'
    BY <1>8, <1>1 DEF CatchUpIsProcessed, IsProcessed, JobStep, JobStepAs, JobsOK,
       ContainerRecords, JobPcs, WithdrawalStatus, Hashes, SpecialHashes
  <2> QED
    BY <2>1, <2>2, <1>2, <1>3, <1>4
<1>9. CASE FinalizeWithdrawal(j)
  <2>1. Quiet /\ row' = row
    BY <1>9 DEF FinalizeWithdrawal, WithdrawFails
  <2>2. JobsOK'
    BY <1>9, <1>1 DEF FinalizeWithdrawal, WithdrawFails, JobStep, JobStepAs, JobsOK,
       ContainerRecords, JobPcs, WithdrawalStatus, Hashes, SpecialHashes
  <2> QED
    BY <2>1, <2>2, <1>2, <1>3, <1>4
<1>10. CASE AlreadyWithdrawnStatus(j)
  <2>1. Quiet
    BY <1>10 DEF AlreadyWithdrawnStatus
  <2>2. JobsOK'
    <3> DEFINE h == "null"
    <3>1. job' = [job EXCEPT ![j].pc = "bcAwDetails", ![j].hash = h] /\ job[j].pc # "free"
      BY <1>10 DEF AlreadyWithdrawnStatus
    <3>2. h \in Hashes
      BY <1>1, Literals
    <3> HIDE DEF h
    <3> QED
      BY <3>1, <3>2, <1>1 DEF JobsOK, ContainerRecords, JobPcs
  <2>3. row' \in [Deposits -> Rows]
    BY <1>10, <1>1, <1>4, UpdateStatusType, Literals DEF AlreadyWithdrawnStatus
  <2> QED
    BY <2>1, <2>2, <2>3, <1>2, <1>3
<1>11. CASE AlreadyWithdrawnDetails(j)
  <2>1. Quiet
    BY <1>11 DEF AlreadyWithdrawnDetails
  <2>2. JobsOK'
    BY <1>11, <1>1 DEF AlreadyWithdrawnDetails, JobStep, JobStepAs, JobsOK,
       ContainerRecords, JobPcs, WithdrawalStatus, Hashes, SpecialHashes
  <2>3. row' \in [Deposits -> Rows]
    BY <1>11, <1>1, <1>4, UpdateDetailsType, Literals DEF AlreadyWithdrawnDetails
  <2> QED
    BY <2>1, <2>2, <2>3, <1>2, <1>3
<1>12. CASE BroadcastProcessing(j)
  <2>1. Quiet
    BY <1>12 DEF BroadcastProcessing
  <2>2. JobsOK'
    BY <1>12, <1>1 DEF BroadcastProcessing, JobStep, JobStepAs, JobsOK, ContainerRecords,
       JobPcs, WithdrawalStatus, Hashes, SpecialHashes
  <2>3. row' \in [Deposits -> Rows]
    BY <1>12, <1>1, <1>4, UpdateStatusType, Literals DEF BroadcastProcessing
  <2> QED
    BY <2>1, <2>2, <2>3, <1>2, <1>3
<1>13. CASE CatchUpAlreadySubmitted(j)
  <2>1. Quiet
    BY <1>13 DEF CatchUpAlreadySubmitted
  <2>2. JobsOK'
    BY <1>13, <1>1 DEF CatchUpAlreadySubmitted, JobStep, JobStepAs, JobsOK,
       ContainerRecords, JobPcs, WithdrawalStatus, Hashes, SpecialHashes
  <2>3. row' \in [Deposits -> Rows]
    BY <1>13, <1>1, <1>4, UpdateStatusType, Literals DEF CatchUpAlreadySubmitted
  <2> QED
    BY <2>1, <2>2, <2>3, <1>2, <1>3
<1>14. CASE CatchUpProcessing(j)
  <2>1. Quiet
    BY <1>14 DEF CatchUpProcessing
  <2>2. JobsOK'
    BY <1>14, <1>1 DEF CatchUpProcessing, JobStep, JobStepAs, JobsOK, ContainerRecords,
       JobPcs, WithdrawalStatus, Hashes, SpecialHashes
  <2>3. row' \in [Deposits -> Rows]
    BY <1>14, <1>1, <1>4, UpdateStatusType, Literals DEF CatchUpProcessing
  <2> QED
    BY <2>1, <2>2, <2>3, <1>2, <1>3
<1>15. CASE CatchUpSkipStatus(j)
  <2>1. Quiet
    BY <1>15 DEF CatchUpSkipStatus
  <2>2. JobsOK'
    <3> DEFINE h == IF job[j].hash = "nil" THEN "null" ELSE job[j].hash
    <3>1. job' = [job EXCEPT ![j].pc = "cuSkipDetails", ![j].hash = h] /\ job[j].pc # "free"
      BY <1>15 DEF CatchUpSkipStatus
    <3>2. h \in Hashes
      BY <1>1, Literals
    <3> HIDE DEF h
    <3> QED
      BY <3>1, <3>2, <1>1 DEF JobsOK, ContainerRecords, JobPcs
  <2>3. row' \in [Deposits -> Rows]
    BY <1>15, <1>1, <1>4, UpdateStatusType, Literals DEF CatchUpSkipStatus
  <2> QED
    BY <2>1, <2>2, <2>3, <1>2, <1>3
<1>16. CASE CatchUpSkipDetails(j)
  <2>1. Quiet
    BY <1>16 DEF CatchUpSkipDetails
  <2>2. JobsOK'
    BY <1>16, <1>1 DEF CatchUpSkipDetails, JobStep, JobStepAs, JobsOK, ContainerRecords,
       JobPcs, WithdrawalStatus, Hashes, SpecialHashes
  <2>3. row' \in [Deposits -> Rows]
    BY <1>16, <1>1, <1>4, UpdateDetailsType, Literals DEF CatchUpSkipDetails
  <2> QED
    BY <2>1, <2>2, <2>3, <1>2, <1>3
<1>17. CASE WithdrawFailedStatus(j)
  <2>1. Quiet
    BY <1>17 DEF WithdrawFailedStatus
  <2>2. JobsOK'
    BY <1>17, <1>1 DEF WithdrawFailedStatus, JobStep, JobStepAs, JobsOK, ContainerRecords,
       JobPcs, WithdrawalStatus, Hashes, SpecialHashes
  <2>3. row' \in [Deposits -> Rows]
    BY <1>17, <1>1, <1>4, UpdateStatusType, Literals DEF WithdrawFailedStatus
  <2> QED
    BY <2>1, <2>2, <2>3, <1>2, <1>3
<1>18. CASE WithdrawFailedDetails(j)
  <2>1. Quiet
    BY <1>18 DEF WithdrawFailedDetails
  <2>2. JobsOK'
    BY <1>18, <1>1 DEF WithdrawFailedDetails, JobStep, JobStepAs, JobsOK,
       ContainerRecords, JobPcs, WithdrawalStatus, Hashes, SpecialHashes
  <2>3. row' \in [Deposits -> Rows]
    BY <1>18, <1>1, <1>4, UpdateDetailsType, Literals DEF WithdrawFailedDetails
  <2> QED
    BY <2>1, <2>2, <2>3, <1>2, <1>3
<1>19. CASE WithdrawalDetails(j)
  <2>1. Quiet
    BY <1>19 DEF WithdrawalDetails
  <2>2. JobsOK'
    BY <1>19, <1>1 DEF WithdrawalDetails, JobStep, JobStepAs, JobsOK, ContainerRecords,
       JobPcs, WithdrawalStatus, Hashes, SpecialHashes
  <2>3. row' \in [Deposits -> Rows]
    BY <1>19, <1>1, <1>4, UpdateDetailsType, Literals DEF WithdrawalDetails
  <2> QED
    BY <2>1, <2>2, <2>3, <1>2, <1>3
<1>20. CASE SubmittingStatus(j)
  <2>1. Quiet
    BY <1>20 DEF SubmittingStatus
  <2>2. JobsOK'
    BY <1>20, <1>1 DEF SubmittingStatus, JobStep, JobStepAs, JobsOK, ContainerRecords,
       JobPcs, WithdrawalStatus, Hashes, SpecialHashes
  <2>3. row' \in [Deposits -> Rows]
    BY <1>20, <1>1, <1>4, UpdateStatusType, Literals DEF SubmittingStatus
  <2> QED
    BY <2>1, <2>2, <2>3, <1>2, <1>3
<1>21. CASE FailedStatus(j)
  <2>1. Quiet
    BY <1>21 DEF FailedStatus
  <2>2. JobsOK'
    BY <1>21, <1>1 DEF FailedStatus, JobStep, JobStepAs, JobsOK, ContainerRecords, JobPcs,
       WithdrawalStatus, Hashes, SpecialHashes
  <2>3. row' \in [Deposits -> Rows]
    BY <1>21, <1>1, <1>4, UpdateStatusType, Literals DEF FailedStatus
  <2> QED
    BY <2>1, <2>2, <2>3, <1>2, <1>3
<1>22. CASE SendWithdrawal(j)
  <2>1. JobsOK'
    BY <1>22, <1>1 DEF SendWithdrawal, WithdrawFails, JobsOK, ContainerRecords, JobPcs,
       WithdrawalStatus, Hashes, SpecialHashes
  <2>2. DurableOK'
    BY <1>22, <1>1 DEF SendWithdrawal, WithdrawFails, JobFrame, DurableOK, Transactions,
       TxStates
  <2> QED
    BY <1>22, <2>1, <2>2 DEF SendWithdrawal, WithdrawFails, JobFrame, ProcessOK,
       RequestsOK, SubmitterOK, CatchUpOK
<1>23. CASE EvictDeposit(j)
  <2>1. JobsOK'
    BY <1>23, <1>1 DEF EvictDeposit, Free, JobsOK, ContainerRecords, JobPcs,
       WithdrawalStatus, Hashes, SpecialHashes
  <2> QED
    BY <1>23, <2>1 DEF EvictDeposit, JobFrame, DurableOK, ProcessOK, RequestsOK,
       SubmitterOK, CatchUpOK
<1>24. CASE WorkerPanics(j)
  BY <1>24, ProcessDiesType DEF WorkerPanics
<1>25. CASE SendToSubmitter(j)
  <2>1. JobsOK'
    BY <1>25, <1>1 DEF SendToSubmitter, Free, JobsOK, ContainerRecords, JobPcs,
       WithdrawalStatus, Hashes, SpecialHashes
  <2>2. [d |-> job[j].d, st |-> job[j].st, hash |-> job[j].hash] \in Reports
    BY <1>25, <1>1 DEF SendToSubmitter, Reports, ContainerRecords
  <2>3. SubmitterOK'
    BY <1>25, <2>2, BoundsAssumption DEF SendToSubmitter, JobFrame, SubmitterOK
  <2> QED
    BY <1>25, <2>1, <2>3 DEF SendToSubmitter, JobFrame, DurableOK, ProcessOK, RequestsOK,
       CatchUpOK
<1> QED
  BY <1>5, <1>6, <1>7, <1>8, <1>9, <1>10, <1>11, <1>12, <1>13, <1>14, <1>15, <1>16, <1>17,
     <1>18, <1>19, <1>20, <1>21, <1>22, <1>23, <1>24, <1>25 DEF ContainerStep

\* No step of the core submitter breaks the types; its index stays in the pool.
LEMMA CoreSubmitterType == TypeOK /\ CoreSubmitterNext => TypeOK'
<1> SUFFICES ASSUME TypeOK, CoreSubmitterNext PROVE TypeOK'
  OBVIOUS
<1> USE DEF TypeOK
<1>1. ProcessOK' /\ RequestsOK' /\ JobsOK' /\ CatchUpOK'
  BY DEF CoreSubmitterNext, ReceiveDeposit, QueryCore, BroadcastBatch, MarkProcessed,
     ClearPool, SubmitterFrame, ProcessOK, RequestsOK, JobsOK, CatchUpOK
<1>2. AttemptFails => sub' \in [pc : {"recv", "query", "broadcast", "mark"},
                               tries : 0..(Retries - 1), i : Nat]
                     /\ (sub'.i = sub.i \/ sub'.i = 1)
  <2>1. CASE sub.tries + 1 < Retries
    <3>1. sub.tries + 1 \in 0..(Retries - 1)
      BY <2>1, BoundsAssumption DEF SubmitterOK
    <3> QED
      BY <2>1, <3>1 DEF AttemptFails, SubmitterOK
  <2>2. CASE ~(sub.tries + 1 < Retries)
    BY <2>2, BoundsAssumption DEF AttemptFails, Receiving
  <2> QED
    BY <2>1, <2>2
<1>3. CommitBatch => core' \in [Deposits -> Hashes]
  BY DEF CommitBatch
<1>4. CASE ReceiveDeposit
  <2>1. Head(submitChan) \in Reports /\ Tail(submitChan) \in Seq(Reports)
        /\ Len(Tail(submitChan)) <= SubmitPoolSize
    BY <1>4, BoundsAssumption DEF ReceiveDeposit, SubmitterOK
  <2>2. SubmitterOK'
    BY <1>4, <2>1 DEF ReceiveDeposit, SubmitterOK
  <2> QED
    BY <1>1, <1>4, <2>2 DEF ReceiveDeposit, SubmitterFrame, DurableOK
<1>5. CASE QueryCore
  <2>1. SubmitterOK'
    BY <1>2, <1>5 DEF QueryCore, SubmitterOK
  <2> QED
    BY <1>1, <1>5, <2>1 DEF QueryCore, SubmitterFrame, DurableOK
<1>6. CASE BroadcastBatch
  <2>1. SubmitterOK'
    BY <1>2, <1>6, BoundsAssumption DEF BroadcastBatch, SubmitterOK
  <2>2. DurableOK'
    BY <1>3, <1>6 DEF BroadcastBatch, SubmitterFrame, DurableOK
  <2> QED
    BY <1>1, <2>1, <2>2
<1>7. CASE MarkProcessed
  <2>1. SubmitterOK'
    BY <1>7 DEF MarkProcessed, SubmitterOK
  <2>2. pool[sub.i] \in Reports
    BY <1>7 DEF MarkProcessed, SubmitterOK
  <2>3. DurableOK'
    BY <1>7, <2>2, UpdateStatusType, Literals
       DEF MarkProcessed, SubmitterFrame, DurableOK, Reports
  <2> QED
    BY <1>1, <2>1, <2>3
<1>8. CASE ClearPool
  <2>1. SubmitterOK'
    BY <1>8, BoundsAssumption DEF ClearPool, Receiving, SubmitterOK
  <2> QED
    BY <1>1, <1>8, <2>1 DEF ClearPool, SubmitterFrame, DurableOK
<1> QED
  BY <1>4, <1>5, <1>6, <1>7, <1>8 DEF CoreSubmitterNext

\* No step of the chain or of another relayer breaks the types.
LEMMA ChainType == TypeOK /\ ChainNext => TypeOK'
<1> SUFFICES ASSUME TypeOK, ChainNext PROVE TypeOK'
  OBVIOUS
<1> USE DEF TypeOK
<1>1. UNCHANGED Memory
  BY DEF ChainNext, MineWithdrawal, ForeignPay, ForeignReport
<1>2. CASE \E t \in TxIds : MineWithdrawal(t)
  <2>1. PICK t \in TxIds : MineWithdrawal(t)
    BY <1>2
  <2>2. DurableOK'
    BY <2>1 DEF MineWithdrawal, DurableOK, Transactions, TxStates
  <2> QED
    BY <1>1, <2>2 DEF Memory, ProcessOK, RequestsOK, JobsOK, SubmitterOK, CatchUpOK
<1>3. CASE \E d \in Deposits : ForeignPay(d) \/ ForeignReport(d)
  <2>1. DurableOK'
    BY <1>3 DEF ForeignPay, ForeignReport, DurableOK, Hashes, SpecialHashes
  <2> QED
    BY <1>1, <2>1 DEF Memory, ProcessOK, RequestsOK, JobsOK, SubmitterOK, CatchUpOK
<1> QED
  BY <1>2, <1>3 DEF ChainNext

\* The type invariant is inductive.
LEMMA NextType == TypeOK /\ [Next]_vars => TypeOK'
<1> SUFFICES ASSUME TypeOK, [Next]_vars PROVE TypeOK'
  OBVIOUS
<1>1. CASE Start
  BY <1>1 DEF Start, TypeOK, durable, DurableOK, ProcessOK, RequestsOK, JobsOK, SubmitterOK,
              CatchUpOK, CatchUpAt
<1>2. CASE Crash
  BY <1>2, ProcessDiesType DEF Crash
<1>3. CASE UNCHANGED vars
  BY <1>3 DEF vars, TypeOK, DurableOK, ProcessOK, RequestsOK, JobsOK, SubmitterOK, CatchUpOK
<1> QED
  BY <1>1, <1>2, <1>3, BroadcasterType, CatchUpperType, ContainersType, CoreSubmitterType,
     ChainType DEF Next

\* The type invariant holds in every reachable state of the relayer, whatever
\* the sets of deposits, handlers and workers and whatever faults occur.
THEOREM TypeCorrect == Spec => []TypeOK
BY InitType, NextType, PTL DEF Spec

-----------------------------------------------------------------------------
(* Payments. That a settled row or a hash on core belongs to a paid deposit is
   not inductive: the claim travels through containers, channels, the pool and
   the snapshots of the catch-upper, and each of them must only carry it for a
   deposit that is paid. *)

\* Where a container stands once it knows that its deposit is paid.
PaidPcs == {"bcAwStatus", "bcAwDetails", "cuSkipStatus", "cuSkipDetails", "cuCheck",
            "cuSubmitted", "details", "submitting", "submit"}

RowsPaid == \A d \in Deposits : row[d].status \in Settled => d \in paid
CorePaid == \A d \in Deposits : core[d] # "nil" => d \in paid
TxPaid == \A t \in TxIds : tx[t].state = "success" => tx[t].d \in paid

JobsPaid ==
    \A j \in Jobs : job[j].pc \in PaidPcs \/ job[j].st \in Settled => job[j].d \in paid

\* A container that waits for its transaction waits for one it sent.
JobsOwnTx ==
    \A j \in Jobs : job[j].pc = "finalize" =>
        /\ job[j].hash \in TxIds
        /\ tx[job[j].hash].state # "unused" /\ tx[job[j].hash].d = job[j].d

ReportsPaid ==
    /\ \A i \in 1..Len(submitChan) : submitChan[i].d \in paid
    /\ \A i \in 1..Len(pool) : pool[i].d \in paid

CatchUpPaid ==
    cu.phase = "SUBMITTING_TO_CORE" =>
        /\ \A e \in cu.todo : e.d \in paid
        /\ cu.pc \in {"update", "enqueue"} => cu.cur.d \in paid

PaymentInv ==
    /\ RowsPaid /\ CorePaid /\ TxPaid /\ JobsPaid /\ JobsOwnTx
    /\ ReportsPaid /\ CatchUpPaid

\* Before the first start nothing claims a payment.
LEMMA InitPayment == Init => PaymentInv
BY DEF Init, PaymentInv, RowsPaid, CorePaid, TxPaid, JobsPaid, JobsOwnTx, ReportsPaid,
       CatchUpPaid, NoRow, Settled, PaidPcs, AllFree, Free, CatchUpAt

\* A status may be written when it claims no payment or the deposit is paid.
LEMMA StatusPaid ==
    ASSUME DurableOK, RowsPaid, NEW d \in Deposits, NEW status,
           status \in Settled => d \in paid,
           row' = UpdateStatus(row, d, status), paid' = paid
    PROVE  RowsPaid'
BY DEF DurableOK, Rows, RowsPaid, UpdateStatus

\* The same for UpdateWithdrawalDetails.
LEMMA DetailsPaid ==
    ASSUME DurableOK, RowsPaid, NEW d \in Deposits, NEW hash, NEW status,
           status \in Settled => d \in paid,
           row' = UpdateWithdrawalDetails(row, d, hash, status), paid' = paid
    PROVE  RowsPaid'
BY DEF DurableOK, Rows, RowsPaid, UpdateWithdrawalDetails

\* The death of the process leaves only the claims of the database and of core.
LEMMA ProcessDiesPayment ==
    ASSUME PaymentInv, ProcessDies, UNCHANGED durable
    PROVE  PaymentInv'
BY DEF ProcessDies, durable, PaymentInv, RowsPaid, CorePaid, TxPaid, JobsPaid, JobsOwnTx,
       ReportsPaid, CatchUpPaid, Settled, PaidPcs, AllFree, Free, CatchUpAt

\* BroadcastDeposit writes PENDING and starts containers that claim nothing.
LEMMA BroadcasterPayment == TypeOK /\ PaymentInv /\ BroadcasterNext => PaymentInv'
<1> SUFFICES ASSUME TypeOK, PaymentInv, NEW r \in Requesters,
                    \/ \E d \in Deposits : SubmitWithdrawal(r, d) \/ ObserveDeposit(r, d)
                    \/ CheckCache(r) \/ CheckChain(r) \/ CheckRow(r)
                    \/ InsertDeposit(r) \/ StartBroadcast(r)
             PROVE  PaymentInv'
  BY DEF BroadcasterNext
<1> USE DEF TypeOK, PaymentInv
<1>1. CorePaid' /\ TxPaid' /\ ReportsPaid' /\ CatchUpPaid'
  BY DEF SubmitWithdrawal, ObserveDeposit, CheckCache, CheckChain, IsProcessed, CheckRow,
     InsertDeposit, StartBroadcast, durable, CorePaid, TxPaid, ReportsPaid, CatchUpPaid
<1>2. JobsPaid' /\ JobsOwnTx'
  BY DEF SubmitWithdrawal, ObserveDeposit, CheckCache, CheckChain, IsProcessed, CheckRow,
     InsertDeposit, StartBroadcast, Spawn, durable, JobsPaid, JobsOwnTx, JobsOK, PaidPcs,
     Settled
<1>3. RowsPaid'
  <2>1. CASE InsertDeposit(r)
    BY <2>1 DEF InsertDeposit, Insert, UpdateRecoveryData, RowsPaid, DurableOK, Rows,
       RequestsOK, Settled
  <2> QED
    BY <2>1 DEF SubmitWithdrawal, ObserveDeposit, CheckCache, CheckChain, IsProcessed,
       CheckRow, StartBroadcast, durable, RowsPaid
<1> QED
  BY <1>1, <1>2, <1>3

\* A snapshot of SUBMITTING_TO_CORE rows holds paid deposits, and its containers
\* carry that claim on.
LEMMA CatchUpperPayment == TypeOK /\ PaymentInv /\ CatchUpperNext => PaymentInv'
<1> SUFFICES ASSUME TypeOK, PaymentInv, CatchUpperNext PROVE PaymentInv'
  OBVIOUS
<1> USE DEF TypeOK, PaymentInv
<1>1. CASE LoadPhase
  <2>1. CASE ProcessDies /\ UNCHANGED durable
    BY <2>1, ProcessDiesPayment
  <2>2. CASE ~ProcessDies
    <3>1. \A e \in GetWithStatus(row, "SUBMITTING_TO_CORE") : e.d \in paid
      BY DEF GetWithStatus, RowsPaid, DurableOK, Settled
    <3>2. cu' = [cu EXCEPT !.pc = "check", !.todo = GetWithStatus(row, cu.phase)]
      BY <1>1, <2>2 DEF LoadPhase
    <3>3. CatchUpPaid'
      BY <1>1, <2>2, <3>1, <3>2 DEF LoadPhase, CatchUpPaid, CatchUpOK, durable
    <3> QED
      BY <1>1, <2>2, <3>3 DEF LoadPhase, durable, RowsPaid, CorePaid, TxPaid, JobsPaid,
                              JobsOwnTx, ReportsPaid
  <2> QED
    BY <1>1, <2>1, <2>2 DEF LoadPhase
<1>2. CASE \E e \in cu.todo : CatchUpCheck(e)
  <2>1. CatchUpPaid'
    BY <1>2 DEF CatchUpCheck, CatchUpPaid, CatchUpOK, durable
  <2> QED
    BY <1>2, <2>1 DEF CatchUpCheck, durable, RowsPaid, CorePaid, TxPaid, JobsPaid,
       JobsOwnTx, ReportsPaid
<1>3. CASE CatchUpUpdate
  <2>1. CatchUpPaid'
    BY <1>3 DEF CatchUpUpdate, CatchUpPaid, CatchUpOK
  <2>2. RowsPaid'
    <3>1. CASE row' = row
      BY <1>3, <3>1 DEF CatchUpUpdate, RowsPaid
    <3>2. CASE row' = UpdateStatus(row, cu.cur.d, "PENDING")
      BY <1>3, <3>2, StatusPaid DEF CatchUpUpdate, CatchUpOK, Entries, Settled
    <3> QED
      BY <1>3, <3>1, <3>2 DEF CatchUpUpdate
  <2> QED
    BY <1>3, <2>1, <2>2 DEF CatchUpUpdate, CorePaid, TxPaid, JobsPaid, JobsOwnTx,
       ReportsPaid
<1>4. CASE CatchUpEnqueue
  <2>1. \/ job' = job
        \/ \E j \in Jobs : Spawn(j, "catchup", cu.cur.d, cu.phase, cu.cur.hash)
    BY <1>4 DEF CatchUpEnqueue
  <2>2. cu.phase \in Settled => cu.cur.d \in paid
    BY <1>4 DEF CatchUpEnqueue, CatchUpPaid, CatchUpOK, Settled
  <2>3. JobsPaid' /\ JobsOwnTx'
    BY <1>4, <2>1, <2>2 DEF CatchUpEnqueue, Spawn, durable, JobsPaid, JobsOwnTx, JobsOK,
       PaidPcs
  <2>4. CatchUpPaid'
    BY <1>4 DEF CatchUpEnqueue, CatchUpPaid, CatchUpOK, durable
  <2> QED
    BY <1>4, <2>3, <2>4 DEF CatchUpEnqueue, durable, RowsPaid, CorePaid, TxPaid, ReportsPaid
<1>5. CASE EndPhase
  <2>1. CatchUpPaid'
    BY <1>5 DEF EndPhase, NextPhase, CatchUpPaid, CatchUpOK, durable
  <2> QED
    BY <1>5, <2>1 DEF EndPhase, durable, RowsPaid, CorePaid, TxPaid, JobsPaid, JobsOwnTx,
       ReportsPaid
<1> QED
  BY <1>1, <1>2, <1>3, <1>4, <1>5 DEF CatchUpperNext

\* The step of a container carries a claim of payment only for a paid deposit.
LEMMA ContainersPayment ==
    ASSUME TypeOK, PaymentInv, Verified, ContainersNext
    PROVE  PaymentInv'
<1> SUFFICES ASSUME NEW j \in Jobs, ContainerStep(j) PROVE PaymentInv'
  BY DEF ContainersNext
<1> USE DEF TypeOK, PaymentInv
<1> DEFINE Quiet == UNCHANGED <<tx, paid, cache, submitChan>> /\ JobFrame
<1>1. /\ job \in [Jobs -> ContainerRecords]
      /\ job[j].pc # "free" => job[j].d \in Deposits
      /\ job[j].pc \in PaidPcs \/ job[j].st \in Settled => job[j].d \in paid
      /\ job[j].pc = "finalize" => /\ job[j].hash \in TxIds
                                   /\ tx[job[j].hash].state # "unused"
                                   /\ tx[job[j].hash].d = job[j].d
  BY DEF JobsOK, JobsPaid, JobsOwnTx
<1>2. Quiet => CorePaid' /\ TxPaid' /\ ReportsPaid' /\ CatchUpPaid'
  BY DEF JobFrame, CorePaid, TxPaid, ReportsPaid, CatchUpPaid
<1>3. Quiet /\ row' = row => RowsPaid'
  BY DEF RowsPaid
<1>4. CASE TakeContainer(j)
  <2>1. Quiet /\ row' = row
    BY <1>4 DEF TakeContainer
  <2>2. JobsPaid' /\ JobsOwnTx'
    BY <1>4, <1>1 DEF TakeContainer, JobStep, JobStepAs, JobsPaid, JobsOwnTx,
       ContainerRecords, PaidPcs, Settled
  <2> QED
    BY <2>1, <2>2, <1>2, <1>3
<1>5. CASE BroadcastIsProcessed(j)
  <2>1. Quiet /\ row' = row
    BY <1>5 DEF BroadcastIsProcessed, IsProcessed
  <2>2. JobsPaid' /\ JobsOwnTx'
    BY <1>5, <1>1 DEF BroadcastIsProcessed, IsProcessed, JobStep, JobStepAs, JobsPaid,
       JobsOwnTx, ContainerRecords, PaidPcs, Settled
  <2> QED
    BY <2>1, <2>2, <1>2, <1>3
<1>6. CASE CatchUpIsSubmitted(j)
  <2>1. Quiet /\ row' = row
    BY <1>6 DEF CatchUpIsSubmitted
  <2>2. JobsPaid' /\ JobsOwnTx'
    BY <1>6, <1>1 DEF CatchUpIsSubmitted, JobStep, JobStepAs, JobsPaid, JobsOwnTx,
       ContainerRecords, PaidPcs, Settled, CorePaid
  <2> QED
    BY <2>1, <2>2, <1>2, <1>3
<1>7. CASE CatchUpIsProcessed(j)
  <2>1. Quiet /\ row' = row
    BY <1>7 DEF CatchUpIsProcessed, IsProcessed
  <2>2. JobsPaid' /\ JobsOwnTx'
    BY <1>7, <1>1 DEF CatchUpIsProcessed, IsProcessed, JobStep, JobStepAs, JobsPaid,
       JobsOwnTx, ContainerRecords, PaidPcs, Settled
  <2> QED
    BY <2>1, <2>2, <1>2, <1>3
<1>8. CASE FinalizeWithdrawal(j)
  <2>1. Quiet /\ row' = row
    BY <1>8 DEF FinalizeWithdrawal, WithdrawFails
  <2>2. JobsPaid' /\ JobsOwnTx'
    BY <1>8, <1>1 DEF FinalizeWithdrawal, WithdrawFails, JobStep, JobStepAs, JobsPaid,
       JobsOwnTx, ContainerRecords, PaidPcs, Settled, TxPaid, Transactions
  <2> QED
    BY <2>1, <2>2, <1>2, <1>3
<1>9. CASE AlreadyWithdrawnStatus(j)
  <2>1. Quiet
    BY <1>9 DEF AlreadyWithdrawnStatus
  <2>2. JobsPaid' /\ JobsOwnTx'
    BY <1>9, <1>1 DEF AlreadyWithdrawnStatus, JobStep, JobStepAs, JobsPaid, JobsOwnTx,
       ContainerRecords, PaidPcs, Settled
  <2>3. CASE row' = UpdateStatus(row, job[j].d, job[j].st)
    <3>1. RowsPaid'
      BY <1>9, <2>1, <2>3, <1>1, StatusPaid DEF AlreadyWithdrawnStatus, PaidPcs, Settled
    <3> QED
      BY <2>1, <2>2, <3>1, <1>2
  <2> QED
    BY <1>9, <2>1, <2>2, <2>3, <1>2, <1>3 DEF AlreadyWithdrawnStatus
<1>10. CASE AlreadyWithdrawnDetails(j)
  <2>1. Quiet
    BY <1>10 DEF AlreadyWithdrawnDetails
  <2>2. JobsPaid' /\ JobsOwnTx'
    BY <1>10, <1>1 DEF AlreadyWithdrawnDetails, JobStep, JobStepAs, JobsPaid, JobsOwnTx,
       ContainerRecords, PaidPcs, Settled
  <2>3. CASE row' = UpdateWithdrawalDetails(row, job[j].d, job[j].hash, job[j].st)
    <3>1. RowsPaid'
      BY <1>10, <2>1, <2>3, <1>1, DetailsPaid DEF AlreadyWithdrawnDetails, PaidPcs, Settled
    <3> QED
      BY <2>1, <2>2, <3>1, <1>2
  <2> QED
    BY <1>10, <2>1, <2>2, <2>3, <1>2, <1>3 DEF AlreadyWithdrawnDetails
<1>11. CASE BroadcastProcessing(j)
  <2>1. Quiet
    BY <1>11 DEF BroadcastProcessing
  <2>2. JobsPaid' /\ JobsOwnTx'
    BY <1>11, <1>1 DEF BroadcastProcessing, JobStep, JobStepAs, JobsPaid, JobsOwnTx,
       ContainerRecords, PaidPcs, Settled
  <2>3. CASE row' = UpdateStatus(row, job[j].d, "PROCESSING")
    <3>1. RowsPaid'
      BY <1>11, <2>1, <2>3, <1>1, StatusPaid DEF BroadcastProcessing, PaidPcs, Settled
    <3> QED
      BY <2>1, <2>2, <3>1, <1>2
  <2> QED
    BY <1>11, <2>1, <2>2, <2>3, <1>2, <1>3 DEF BroadcastProcessing
<1>12. CASE CatchUpAlreadySubmitted(j)
  <2>1. Quiet
    BY <1>12 DEF CatchUpAlreadySubmitted
  <2>2. JobsPaid' /\ JobsOwnTx'
    BY <1>12, <1>1 DEF CatchUpAlreadySubmitted, JobStep, JobStepAs, JobsPaid, JobsOwnTx,
       ContainerRecords, PaidPcs, Settled
  <2>3. CASE row' = UpdateStatus(row, job[j].d, "PROCESSED")
    <3>1. RowsPaid'
      BY <1>12, <2>1, <2>3, <1>1, StatusPaid DEF CatchUpAlreadySubmitted, PaidPcs, Settled
    <3> QED
      BY <2>1, <2>2, <3>1, <1>2
  <2> QED
    BY <1>12, <2>1, <2>2, <2>3, <1>2, <1>3 DEF CatchUpAlreadySubmitted
<1>13. CASE CatchUpProcessing(j)
  <2>1. Quiet
    BY <1>13 DEF CatchUpProcessing
  <2>2. JobsPaid' /\ JobsOwnTx'
    BY <1>13, <1>1 DEF CatchUpProcessing, JobStep, JobStepAs, JobsPaid, JobsOwnTx,
       ContainerRecords, PaidPcs, Settled
  <2>3. CASE row' = UpdateStatus(row, job[j].d, "PROCESSING")
    <3>1. RowsPaid'
      BY <1>13, <2>1, <2>3, <1>1, StatusPaid DEF CatchUpProcessing, PaidPcs, Settled
    <3> QED
      BY <2>1, <2>2, <3>1, <1>2
  <2> QED
    BY <1>13, <2>1, <2>2, <2>3, <1>2, <1>3 DEF CatchUpProcessing
<1>14. CASE CatchUpSkipStatus(j)
  <2>1. Quiet
    BY <1>14 DEF CatchUpSkipStatus
  <2>2. JobsPaid' /\ JobsOwnTx'
    BY <1>14, <1>1 DEF CatchUpSkipStatus, JobStep, JobStepAs, JobsPaid, JobsOwnTx,
       ContainerRecords, PaidPcs, Settled
  <2>3. CASE row' = UpdateStatus(row, job[j].d, job[j].st)
    <3>1. RowsPaid'
      BY <1>14, <2>1, <2>3, <1>1, StatusPaid DEF CatchUpSkipStatus, PaidPcs, Settled
    <3> QED
      BY <2>1, <2>2, <3>1, <1>2
  <2> QED
    BY <1>14, <2>1, <2>2, <2>3, <1>2, <1>3 DEF CatchUpSkipStatus
<1>15. CASE CatchUpSkipDetails(j)
  <2>1. Quiet
    BY <1>15 DEF CatchUpSkipDetails
  <2>2. JobsPaid' /\ JobsOwnTx'
    BY <1>15, <1>1 DEF CatchUpSkipDetails, JobStep, JobStepAs, JobsPaid, JobsOwnTx,
       ContainerRecords, PaidPcs, Settled
  <2>3. CASE row' = UpdateWithdrawalDetails(row, job[j].d, job[j].hash, job[j].st)
    <3>1. RowsPaid'
      BY <1>15, <2>1, <2>3, <1>1, DetailsPaid DEF CatchUpSkipDetails, PaidPcs, Settled
    <3> QED
      BY <2>1, <2>2, <3>1, <1>2
  <2> QED
    BY <1>15, <2>1, <2>2, <2>3, <1>2, <1>3 DEF CatchUpSkipDetails
<1>16. CASE WithdrawFailedStatus(j)
  <2>1. Quiet
    BY <1>16 DEF WithdrawFailedStatus
  <2>2. JobsPaid' /\ JobsOwnTx'
    BY <1>16, <1>1 DEF WithdrawFailedStatus, JobStep, JobStepAs, JobsPaid, JobsOwnTx,
       ContainerRecords, PaidPcs, Settled
  <2>3. CASE row' = UpdateStatus(row, job[j].d, job[j].st)
    <3>1. RowsPaid'
      BY <1>16, <2>1, <2>3, <1>1, StatusPaid DEF WithdrawFailedStatus, PaidPcs, Settled
    <3> QED
      BY <2>1, <2>2, <3>1, <1>2
  <2> QED
    BY <1>16, <2>1, <2>2, <2>3, <1>2, <1>3 DEF WithdrawFailedStatus
<1>17. CASE WithdrawFailedDetails(j)
  <2>1. Quiet
    BY <1>17 DEF WithdrawFailedDetails
  <2>2. JobsPaid' /\ JobsOwnTx'
    BY <1>17, <1>1 DEF WithdrawFailedDetails, JobStep, JobStepAs, JobsPaid, JobsOwnTx,
       ContainerRecords, PaidPcs, Settled
  <2>3. CASE row' = UpdateWithdrawalDetails(row, job[j].d, job[j].hash, job[j].st)
    <3>1. RowsPaid'
      BY <1>17, <2>1, <2>3, <1>1, DetailsPaid DEF WithdrawFailedDetails, PaidPcs, Settled
    <3> QED
      BY <2>1, <2>2, <3>1, <1>2
  <2> QED
    BY <1>17, <2>1, <2>2, <2>3, <1>2, <1>3 DEF WithdrawFailedDetails
<1>18. CASE WithdrawalDetails(j)
  <2>1. Quiet
    BY <1>18 DEF WithdrawalDetails
  <2>2. JobsPaid' /\ JobsOwnTx'
    BY <1>18, <1>1 DEF WithdrawalDetails, JobStep, JobStepAs, JobsPaid, JobsOwnTx,
       ContainerRecords, PaidPcs, Settled
  <2>3. CASE row' = UpdateWithdrawalDetails(row, job[j].d, job[j].hash, job[j].st)
    <3>1. RowsPaid'
      BY <1>18, <2>1, <2>3, <1>1, DetailsPaid DEF WithdrawalDetails, PaidPcs, Settled
    <3> QED
      BY <2>1, <2>2, <3>1, <1>2
  <2> QED
    BY <1>18, <2>1, <2>2, <2>3, <1>2, <1>3 DEF WithdrawalDetails
<1>19. CASE SubmittingStatus(j)
  <2>1. Quiet
    BY <1>19 DEF SubmittingStatus
  <2>2. JobsPaid' /\ JobsOwnTx'
    BY <1>19, <1>1 DEF SubmittingStatus, JobStep, JobStepAs, JobsPaid, JobsOwnTx,
       ContainerRecords, PaidPcs, Settled
  <2>3. CASE row' = UpdateStatus(row, job[j].d, "SUBMITTING_TO_CORE")
    <3>1. RowsPaid'
      BY <1>19, <2>1, <2>3, <1>1, StatusPaid DEF SubmittingStatus, PaidPcs, Settled
    <3> QED
      BY <2>1, <2>2, <3>1, <1>2
  <2> QED
    BY <1>19, <2>1, <2>2, <2>3, <1>2, <1>3 DEF SubmittingStatus
<1>20. CASE FailedStatus(j)
  <2>1. Quiet
    BY <1>20 DEF FailedStatus
  <2>2. JobsPaid' /\ JobsOwnTx'
    BY <1>20, <1>1 DEF FailedStatus, JobStep, JobStepAs, JobsPaid, JobsOwnTx,
       ContainerRecords, PaidPcs, Settled
  <2>3. CASE row' = UpdateStatus(row, job[j].d, job[j].st)
    <3>1. RowsPaid'
      BY <1>20, <2>1, <2>3, <1>1, StatusPaid DEF FailedStatus, PaidPcs, Settled
    <3> QED
      BY <2>1, <2>2, <3>1, <1>2
  <2> QED
    BY <1>20, <2>1, <2>2, <2>3, <1>2, <1>3 DEF FailedStatus
<1>21. CASE SendWithdrawal(j)
  <2>1. TxPaid' /\ JobsOwnTx'
    <3>1. CASE job' = [job EXCEPT ![j].pc = "wfStatus", ![j].st = "FAILED",
                                  ![j].hash = "empty"] /\ tx' = tx
      <4>1. paid' = paid
        BY <1>21 DEF SendWithdrawal, WithdrawFails
      <4> QED
        BY <4>1, <1>1, <3>1 DEF TxPaid, JobsOwnTx
    <3>2. CASE ~(job' = [job EXCEPT ![j].pc = "wfStatus", ![j].st = "FAILED",
                                    ![j].hash = "empty"] /\ tx' = tx)
      <4>1. PICK t \in TxIds :
              /\ tx[t].state = "unused"
              /\ tx' = [tx EXCEPT ![t] = [d |-> job[j].d, state |-> "pending"]]
              /\ job' = [job EXCEPT ![j].pc = "finalize", ![j].hash = t]
        BY <1>21, <3>2 DEF SendWithdrawal, WithdrawFails
      <4>2. TxPaid'
        BY <1>21, <4>1 DEF SendWithdrawal, WithdrawFails, TxPaid, DurableOK
      <4>3. JobsOwnTx'
        <5> SUFFICES ASSUME NEW k \in Jobs, job'[k].pc = "finalize"
                     PROVE  /\ job'[k].hash \in TxIds
                            /\ tx'[job'[k].hash].state # "unused"
                            /\ tx'[job'[k].hash].d = job'[k].d
          BY DEF JobsOwnTx
        <5>1. CASE k = j
          BY <4>1, <5>1, <1>1 DEF DurableOK, ContainerRecords
        <5>2. CASE k # j
          BY <4>1, <5>2, <1>1 DEF DurableOK, JobsOwnTx
        <5> QED
          BY <5>1, <5>2
      <4> QED
        BY <4>2, <4>3
    <3> QED
      BY <3>1, <3>2
  <2>2. JobsPaid'
    BY <1>21, <1>1 DEF SendWithdrawal, WithdrawFails, JobsPaid, ContainerRecords, PaidPcs,
       Settled
  <2> QED
    BY <1>21, <2>1, <2>2 DEF SendWithdrawal, WithdrawFails, JobFrame, RowsPaid, CorePaid,
       ReportsPaid, CatchUpPaid
<1>22. CASE EvictDeposit(j)
  <2>1. JobsPaid' /\ JobsOwnTx'
    BY <1>22, <1>1 DEF EvictDeposit, Free, JobsPaid, JobsOwnTx, PaidPcs, Settled
  <2> QED
    BY <1>22, <2>1 DEF EvictDeposit, JobFrame, RowsPaid, CorePaid, TxPaid, ReportsPaid,
       CatchUpPaid
<1>23. CASE WorkerPanics(j)
  BY <1>23, ProcessDiesPayment DEF WorkerPanics
<1>24. CASE SendToSubmitter(j)
  <2>1. JobsPaid' /\ JobsOwnTx'
    BY <1>24, <1>1 DEF SendToSubmitter, Free, JobsPaid, JobsOwnTx, PaidPcs, Settled
  <2>2. job[j].d \in paid
    BY <1>24, <1>1 DEF SendToSubmitter, PaidPcs
  <2>3. ReportsPaid'
    BY <1>24, <2>2 DEF SendToSubmitter, JobFrame, ReportsPaid, SubmitterOK
  <2> QED
    BY <1>24, <2>1, <2>3 DEF SendToSubmitter, JobFrame, RowsPaid, CorePaid, TxPaid,
       CatchUpPaid
<1> QED
  BY <1>4, <1>5, <1>6, <1>7, <1>8, <1>9, <1>10, <1>11, <1>12, <1>13, <1>14, <1>15, <1>16,
     <1>17, <1>18, <1>19, <1>20, <1>21, <1>22, <1>23, <1>24 DEF ContainerStep

\* What the submitter reports to core and marks PROCESSED is paid.
LEMMA CoreSubmitterPayment == TypeOK /\ PaymentInv /\ CoreSubmitterNext => PaymentInv'
<1> SUFFICES ASSUME TypeOK, PaymentInv, CoreSubmitterNext PROVE PaymentInv'
  OBVIOUS
<1> USE DEF TypeOK, PaymentInv
<1>1. TxPaid' /\ JobsPaid' /\ JobsOwnTx' /\ CatchUpPaid' /\ paid' = paid
  BY DEF CoreSubmitterNext, ReceiveDeposit, QueryCore, BroadcastBatch, MarkProcessed,
     ClearPool, SubmitterFrame, TxPaid, JobsPaid, JobsOwnTx, CatchUpPaid
<1>2. CASE ReceiveDeposit
  <2>1. Head(submitChan) = submitChan[1] /\ Len(submitChan) >= 1
        /\ Len(Tail(submitChan)) = Len(submitChan) - 1
        /\ \A i \in 1..Len(Tail(submitChan)) : Tail(submitChan)[i] = submitChan[i + 1]
    BY <1>2 DEF ReceiveDeposit, SubmitterOK
  <2>2. Head(submitChan) \in Reports /\ Head(submitChan).d \in paid
    BY <2>1 DEF ReportsPaid, SubmitterOK
  <2>3. \A i \in 1..Len(pool') : pool'[i].d \in paid
    BY <1>2, <2>2 DEF ReceiveDeposit, ReportsPaid, SubmitterOK
  <2>4. \A i \in 1..Len(submitChan') : submitChan'[i].d \in paid
    BY <1>2, <2>1 DEF ReceiveDeposit, ReportsPaid, SubmitterOK
  <2>5. ReportsPaid'
    BY <1>1, <2>3, <2>4 DEF ReportsPaid
  <2> QED
    BY <1>1, <1>2, <2>5 DEF ReceiveDeposit, RowsPaid, CorePaid
<1>3. CASE QueryCore
  BY <1>1, <1>3 DEF QueryCore, RowsPaid, CorePaid, ReportsPaid
<1>4. CASE BroadcastBatch
  <2>1. CommitBatch => CorePaid'
    BY <1>1 DEF CommitBatch, CorePaid, ReportsPaid
  <2>2. CorePaid'
    BY <1>1, <1>4, <2>1 DEF BroadcastBatch, CorePaid
  <2> QED
    BY <1>1, <1>4, <2>2 DEF BroadcastBatch, RowsPaid, ReportsPaid
<1>5. CASE MarkProcessed
  <2>1. pool[sub.i].d \in Deposits /\ pool[sub.i].d \in paid
    <3>1. sub.i \in 1..Len(pool) /\ pool \in Seq(Reports)
      BY <1>5 DEF MarkProcessed, SubmitterOK
    <3>2. pool[sub.i] \in Reports
      BY <3>1
    <3> QED
      BY <3>1, <3>2 DEF Reports, ReportsPaid
  <2>2. RowsPaid'
    BY <1>1, <1>5, <2>1, StatusPaid DEF MarkProcessed, RowsPaid
  <2> QED
    BY <1>1, <1>5, <2>2 DEF MarkProcessed, CorePaid, ReportsPaid
<1>6. CASE ClearPool
  BY <1>1, <1>6 DEF ClearPool, RowsPaid, CorePaid, ReportsPaid
<1> QED
  BY <1>2, <1>3, <1>4, <1>5, <1>6 DEF CoreSubmitterNext

\* A payment is never taken back, and other relayers report only paid deposits.
LEMMA ChainPayment == TypeOK /\ PaymentInv /\ ChainNext => PaymentInv'
<1> SUFFICES ASSUME TypeOK, PaymentInv, ChainNext PROVE PaymentInv'
  OBVIOUS
<1> USE DEF TypeOK, PaymentInv
<1>1. UNCHANGED Memory /\ row' = row /\ paid \subseteq paid'
  BY DEF ChainNext, MineWithdrawal, ForeignPay, ForeignReport
<1>2. RowsPaid' /\ JobsPaid' /\ ReportsPaid' /\ CatchUpPaid'
  BY <1>1 DEF Memory, RowsPaid, JobsPaid, ReportsPaid, CatchUpPaid
<1>3. CASE \E t \in TxIds : MineWithdrawal(t)
  <2>1. PICK t \in TxIds : MineWithdrawal(t)
    BY <1>3
  <2>2. TxPaid' /\ CorePaid'
    BY <2>1, <1>1 DEF MineWithdrawal, TxPaid, CorePaid, DurableOK, Transactions
  <2>3. JobsOwnTx'
    BY <2>1, <1>1 DEF MineWithdrawal, Memory, JobsOwnTx, DurableOK, Transactions
  <2> QED
    BY <1>2, <2>2, <2>3
<1>4. CASE \E d \in Deposits : ForeignPay(d) \/ ForeignReport(d)
  BY <1>1, <1>2, <1>4 DEF ForeignPay, ForeignReport, Memory, TxPaid, CorePaid, JobsOwnTx,
     DurableOK
<1> QED
  BY <1>3, <1>4 DEF ChainNext

\* The payment invariant is inductive where Withdraw verifies its transaction.
LEMMA NextPayment ==
    ASSUME TypeOK, PaymentInv, Verified, [Next]_vars
    PROVE  PaymentInv'
<1>1. CASE Start
  BY <1>1 DEF Start, PaymentInv, durable, RowsPaid, CorePaid, TxPaid, JobsPaid, JobsOwnTx,
              ReportsPaid, CatchUpPaid, CatchUpAt
<1>2. CASE Crash
  BY <1>2, ProcessDiesPayment DEF Crash
<1>3. CASE UNCHANGED vars
  BY <1>3 DEF vars, PaymentInv, RowsPaid, CorePaid, TxPaid, JobsPaid, JobsOwnTx,
     ReportsPaid, CatchUpPaid
<1> QED
  BY <1>1, <1>2, <1>3, BroadcasterPayment, CatchUpperPayment, ContainersPayment,
     CoreSubmitterPayment, ChainPayment DEF Next

\* With verifying chain clients the claims of payment are all true, in every
\* reachable state.
LEMMA PaymentInvariant == Spec => [](Verified => PaymentInv)
<1>1. Init => (Verified => PaymentInv)
  BY InitPayment
<1>2. TypeOK /\ (Verified => PaymentInv) /\ [Next]_vars => (Verified => PaymentInv)'
  BY NextPayment
<1> QED
  BY <1>1, <1>2, TypeCorrect, PTL DEF Spec

\* No error path, retry, duplicate container, stale catch-up or crash lets the
\* database claim a withdrawal that the contract did not pay.
THEOREM SettledArePaid == Spec => []SettledIsPaid
<1>1. (Verified => PaymentInv) => SettledIsPaid
  BY DEF PaymentInv, RowsPaid, SettledIsPaid
<1> QED
  BY <1>1, PaymentInvariant, PTL

\* Core never learns of a withdrawal that was not paid out.
THEOREM ReportedArePaid == Spec => []ReportedIsPaid
<1>1. (Verified => PaymentInv) => ReportedIsPaid
  BY DEF PaymentInv, CorePaid, ReportedIsPaid
<1> QED
  BY <1>1, PaymentInvariant, PTL

-----------------------------------------------------------------------------
(* The cache and the table *)

\* The steps of Run, as opposed to what the worker does with its result.
RunStep(j) ==
    \/ TakeContainer(j) \/ BroadcastIsProcessed(j)
    \/ CatchUpIsSubmitted(j) \/ CatchUpIsProcessed(j)
    \/ FinalizeWithdrawal(j) \/ SendWithdrawal(j)
    \/ AlreadyWithdrawnStatus(j) \/ AlreadyWithdrawnDetails(j)
    \/ BroadcastProcessing(j) \/ CatchUpAlreadySubmitted(j)
    \/ CatchUpProcessing(j) \/ CatchUpSkipStatus(j)
    \/ CatchUpSkipDetails(j) \/ WithdrawFailedStatus(j)
    \/ WithdrawFailedDetails(j) \/ WithdrawalDetails(j)
    \/ SubmittingStatus(j) \/ FailedStatus(j)

\* The steps that end a container.
LastStep(j) == EvictDeposit(j) \/ WorkerPanics(j) \/ SendToSubmitter(j)

\* A step of Run keeps the container alive and on its deposit, and leaves the
\* other containers, the cache and the channels alone. It never deletes a row.
LEMMA RunStepFrame ==
    ASSUME TypeOK, NEW j \in Jobs, RunStep(j)
    PROVE  /\ job[j].pc # "free" /\ job'[j].pc # "free" /\ job'[j].d = job[j].d
           /\ \A k \in Jobs \ {j} : job'[k] = job[k]
           /\ UNCHANGED <<paid, cache, req, submitChan, pool, sub, cu>>
           /\ \A d \in Deposits : row[d].status # "NO_ROW" => row'[d].status # "NO_ROW"
<1> USE DEF TypeOK, JobsOK, JobFrame
<1>1. /\ job \in [Jobs -> ContainerRecords]
      /\ job[j].pc # "free" => job[j].d \in Deposits
      /\ job[j].st # "NO_ROW"
  BY DEF ContainerRecords, WithdrawalStatus
<1>2. row \in [Deposits -> Rows]
  BY DEF DurableOK
<1>3. CASE TakeContainer(j)
  BY <1>3, <1>1, <1>2 DEF TakeContainer, JobStep, JobStepAs, ContainerRecords, UpdateStatus,
     UpdateWithdrawalDetails, Rows
<1>4. CASE BroadcastIsProcessed(j)
  BY <1>4, <1>1, <1>2 DEF BroadcastIsProcessed, IsProcessed, JobStep, JobStepAs,
     ContainerRecords, UpdateStatus, UpdateWithdrawalDetails, Rows
<1>5. CASE CatchUpIsSubmitted(j)
  BY <1>5, <1>1, <1>2 DEF CatchUpIsSubmitted, JobStep, JobStepAs, ContainerRecords,
     UpdateStatus, UpdateWithdrawalDetails, Rows
<1>6. CASE CatchUpIsProcessed(j)
  BY <1>6, <1>1, <1>2 DEF CatchUpIsProcessed, IsProcessed, JobStep, JobStepAs,
     ContainerRecords, UpdateStatus, UpdateWithdrawalDetails, Rows
<1>7. CASE FinalizeWithdrawal(j)
  BY <1>7, <1>1, <1>2 DEF FinalizeWithdrawal, WithdrawFails, JobStep, JobStepAs,
     ContainerRecords, UpdateStatus, UpdateWithdrawalDetails, Rows
<1>8. CASE SendWithdrawal(j)
  BY <1>8, <1>1, <1>2 DEF SendWithdrawal, WithdrawFails, JobStep, JobStepAs,
     ContainerRecords, UpdateStatus, UpdateWithdrawalDetails, Rows
<1>9. CASE AlreadyWithdrawnStatus(j)
  <2>1. /\ job[j].pc # "free" /\ job'[j].pc # "free" /\ job'[j].d = job[j].d
        /\ \A k \in Jobs \ {j} : job'[k] = job[k]
    BY <1>9, <1>1 DEF AlreadyWithdrawnStatus, JobStep, JobStepAs, ContainerRecords
  <2>2. \A d \in Deposits : row[d].status # "NO_ROW" => row'[d].status # "NO_ROW"
    BY <1>9, <1>1, <1>2 DEF AlreadyWithdrawnStatus, UpdateStatus,
       UpdateWithdrawalDetails, Rows
  <2> QED
    BY <1>9, <2>1, <2>2 DEF AlreadyWithdrawnStatus
<1>10. CASE AlreadyWithdrawnDetails(j)
  <2>1. /\ job[j].pc # "free" /\ job'[j].pc # "free" /\ job'[j].d = job[j].d
        /\ \A k \in Jobs \ {j} : job'[k] = job[k]
    BY <1>10, <1>1 DEF AlreadyWithdrawnDetails, JobStep, JobStepAs, ContainerRecords
  <2>2. \A d \in Deposits : row[d].status # "NO_ROW" => row'[d].status # "NO_ROW"
    BY <1>10, <1>1, <1>2 DEF AlreadyWithdrawnDetails, UpdateStatus,
       UpdateWithdrawalDetails, Rows
  <2> QED
    BY <1>10, <2>1, <2>2 DEF AlreadyWithdrawnDetails
<1>11. CASE BroadcastProcessing(j)
  <2>1. /\ job[j].pc # "free" /\ job'[j].pc # "free" /\ job'[j].d = job[j].d
        /\ \A k \in Jobs \ {j} : job'[k] = job[k]
    BY <1>11, <1>1 DEF BroadcastProcessing, JobStep, JobStepAs, ContainerRecords
  <2>2. \A d \in Deposits : row[d].status # "NO_ROW" => row'[d].status # "NO_ROW"
    BY <1>11, <1>1, <1>2 DEF BroadcastProcessing, UpdateStatus, UpdateWithdrawalDetails,
       Rows
  <2> QED
    BY <1>11, <2>1, <2>2 DEF BroadcastProcessing
<1>12. CASE CatchUpAlreadySubmitted(j)
  BY <1>12, <1>1, <1>2 DEF CatchUpAlreadySubmitted, JobStep, JobStepAs, ContainerRecords,
     UpdateStatus, UpdateWithdrawalDetails, Rows
<1>13. CASE CatchUpProcessing(j)
  <2>1. /\ job[j].pc # "free" /\ job'[j].pc # "free" /\ job'[j].d = job[j].d
        /\ \A k \in Jobs \ {j} : job'[k] = job[k]
    BY <1>13, <1>1 DEF CatchUpProcessing, JobStep, JobStepAs, ContainerRecords
  <2>2. \A d \in Deposits : row[d].status # "NO_ROW" => row'[d].status # "NO_ROW"
    BY <1>13, <1>1, <1>2 DEF CatchUpProcessing, UpdateStatus, UpdateWithdrawalDetails, Rows
  <2> QED
    BY <1>13, <2>1, <2>2 DEF CatchUpProcessing
<1>14. CASE CatchUpSkipStatus(j)
  <2>1. /\ job[j].pc # "free" /\ job'[j].pc # "free" /\ job'[j].d = job[j].d
        /\ \A k \in Jobs \ {j} : job'[k] = job[k]
    BY <1>14, <1>1 DEF CatchUpSkipStatus, JobStep, JobStepAs, ContainerRecords
  <2>2. \A d \in Deposits : row[d].status # "NO_ROW" => row'[d].status # "NO_ROW"
    BY <1>14, <1>1, <1>2 DEF CatchUpSkipStatus, UpdateStatus,
       UpdateWithdrawalDetails, Rows
  <2> QED
    BY <1>14, <2>1, <2>2 DEF CatchUpSkipStatus
<1>15. CASE CatchUpSkipDetails(j)
  <2>1. /\ job[j].pc # "free" /\ job'[j].pc # "free" /\ job'[j].d = job[j].d
        /\ \A k \in Jobs \ {j} : job'[k] = job[k]
    BY <1>15, <1>1 DEF CatchUpSkipDetails, JobStep, JobStepAs, ContainerRecords
  <2>2. \A d \in Deposits : row[d].status # "NO_ROW" => row'[d].status # "NO_ROW"
    BY <1>15, <1>1, <1>2 DEF CatchUpSkipDetails, UpdateStatus,
       UpdateWithdrawalDetails, Rows
  <2> QED
    BY <1>15, <2>1, <2>2 DEF CatchUpSkipDetails
<1>16. CASE WithdrawFailedStatus(j)
  BY <1>16, <1>1, <1>2 DEF WithdrawFailedStatus, JobStep, JobStepAs, ContainerRecords,
     UpdateStatus, UpdateWithdrawalDetails, Rows
<1>17. CASE WithdrawFailedDetails(j)
  BY <1>17, <1>1, <1>2 DEF WithdrawFailedDetails, JobStep, JobStepAs, ContainerRecords,
     UpdateStatus, UpdateWithdrawalDetails, Rows
<1>18. CASE WithdrawalDetails(j)
  <2>1. /\ job[j].pc # "free" /\ job'[j].pc # "free" /\ job'[j].d = job[j].d
        /\ \A k \in Jobs \ {j} : job'[k] = job[k]
    BY <1>18, <1>1 DEF WithdrawalDetails, JobStep, JobStepAs, ContainerRecords
  <2>2. \A d \in Deposits : row[d].status # "NO_ROW" => row'[d].status # "NO_ROW"
    BY <1>18, <1>1, <1>2 DEF WithdrawalDetails, UpdateStatus, UpdateWithdrawalDetails, Rows
  <2> QED
    BY <1>18, <2>1, <2>2 DEF WithdrawalDetails
<1>19. CASE SubmittingStatus(j)
  BY <1>19, <1>1, <1>2 DEF SubmittingStatus, JobStep, JobStepAs, ContainerRecords,
     UpdateStatus, UpdateWithdrawalDetails, Rows
<1>20. CASE FailedStatus(j)
  BY <1>20, <1>1, <1>2 DEF FailedStatus, JobStep, JobStepAs, ContainerRecords, UpdateStatus,
     UpdateWithdrawalDetails, Rows
<1> QED
  BY <1>3, <1>4, <1>5, <1>6, <1>7, <1>8, <1>9, <1>10, <1>11, <1>12, <1>13, <1>14, <1>15,
     <1>16, <1>17, <1>18, <1>19, <1>20 DEF RunStep

\* Everything that carries a deposit, its row included. The snapshot of the
\* catch-upper and the channels are part of it: what they carry is used later.
HasRow(d) == row[d].status # "NO_ROW"

JobsHaveRow == \A j \in Jobs : job[j].pc # "free" => HasRow(job[j].d)
RequestsHaveRow == \A r \in Requesters : req[r].pc = "store" => HasRow(req[r].d)
ReportsHaveRow ==
    /\ \A i \in 1..Len(submitChan) : HasRow(submitChan[i].d)
    /\ \A i \in 1..Len(pool) : HasRow(pool[i].d)
CatchUpHasRow ==
    /\ \A e \in cu.todo : HasRow(e.d)
    /\ cu.pc \in {"update", "enqueue"} => HasRow(cu.cur.d)

RowInv == JobsHaveRow /\ RequestsHaveRow /\ ReportsHaveRow /\ CatchUpHasRow

\* Nothing deletes a row.
LEMMA RowsStay ==
    ASSUME TypeOK, [Next]_vars, NEW d \in Deposits, HasRow(d)
    PROVE  HasRow(d)'
<1> USE DEF TypeOK, DurableOK, HasRow
<1>1. CASE BroadcasterNext
  BY <1>1 DEF BroadcasterNext, SubmitWithdrawal, ObserveDeposit, CheckCache, CheckChain,
     IsProcessed, CheckRow, InsertDeposit, StartBroadcast, Insert, UpdateRecoveryData,
     Rows, RequestsOK, durable
<1>2. CASE CatchUpperNext
  BY <1>2 DEF CatchUpperNext, LoadPhase, CatchUpCheck, CatchUpUpdate, CatchUpEnqueue,
     EndPhase, UpdateStatus, Rows, durable
<1>3. CASE ContainersNext
  <2>1. PICK j \in Jobs : RunStep(j) \/ LastStep(j)
    BY <1>3 DEF ContainersNext, ContainerStep, RunStep, LastStep
  <2> QED
    BY <2>1, RunStepFrame DEF LastStep, EvictDeposit, WorkerPanics, SendToSubmitter, durable
<1>4. CASE CoreSubmitterNext
  BY <1>4 DEF CoreSubmitterNext, ReceiveDeposit, QueryCore, BroadcastBatch, MarkProcessed,
     ClearPool, UpdateStatus, Rows
<1> QED
  BY <1>1, <1>2, <1>3, <1>4 DEF Next, Start, Crash, ChainNext, MineWithdrawal, ForeignPay,
     ForeignReport, durable, vars

\* After the death of the process nothing is held.
LEMMA ProcessDiesRows == ASSUME ProcessDies PROVE RowInv'
BY DEF ProcessDies, RowInv, JobsHaveRow, RequestsHaveRow, ReportsHaveRow, CatchUpHasRow,
       AllFree, Free, AllIdle, Idle, CatchUpAt

\* A container offered for a deposit that has a row keeps the row invariant.
LEMMA SpawnRows ==
    ASSUME TypeOK, JobsHaveRow, NEW j \in Jobs, NEW kind, NEW d \in Deposits, NEW st, NEW hash,
           HasRow(d), Spawn(j, kind, d, st, hash), row' = row
    PROVE  JobsHaveRow'
BY DEF JobsHaveRow, HasRow, Spawn, TypeOK, JobsOK

\* The row invariant is inductive.
LEMMA NextRows ==
    ASSUME TypeOK, RowInv, [Next]_vars
    PROVE  RowInv'
<1> USE DEF RowInv
<1>1. \A d \in Deposits : HasRow(d) => HasRow(d)'
  BY RowsStay
<1>2. UNCHANGED job => JobsHaveRow'
  BY <1>1 DEF JobsHaveRow, HasRow, TypeOK, JobsOK
<1>3. UNCHANGED req => RequestsHaveRow'
  BY <1>1 DEF RequestsHaveRow, HasRow, TypeOK, RequestsOK
<1>4. UNCHANGED <<submitChan, pool>> => ReportsHaveRow'
  <2>1. submitChan \in Seq(Reports) /\ pool \in Seq(Reports)
    BY DEF TypeOK, SubmitterOK
  <2>2. \A e \in Reports : e.d \in Deposits
    BY DEF Reports
  <2>3. /\ \A i \in 1..Len(submitChan) : submitChan[i] \in Reports
        /\ \A i \in 1..Len(pool) : pool[i] \in Reports
    BY <2>1
  <2> QED
    BY <1>1, <2>2, <2>3 DEF ReportsHaveRow, HasRow
<1>5. UNCHANGED cu => CatchUpHasRow'
  BY <1>1 DEF CatchUpHasRow, HasRow, TypeOK, CatchUpOK, Entries
<1>6. CASE BroadcasterNext
  <2>1. PICK r \in Requesters :
              \/ \E d \in Deposits : SubmitWithdrawal(r, d) \/ ObserveDeposit(r, d)
              \/ CheckCache(r) \/ CheckChain(r) \/ CheckRow(r)
              \/ InsertDeposit(r) \/ StartBroadcast(r)
    BY <1>6 DEF BroadcasterNext
  <2>2. UNCHANGED <<submitChan, pool, cu>>
    BY <2>1 DEF SubmitWithdrawal, ObserveDeposit, CheckCache, CheckChain, IsProcessed,
       CheckRow, InsertDeposit, StartBroadcast
  <2>3. RequestsHaveRow'
    <3>1. CASE InsertDeposit(r)
      <4>1. req[r].d \in Deposits
        BY <3>1 DEF InsertDeposit, TypeOK, RequestsOK
      <4>2. ASSUME req' = [req EXCEPT ![r].pc = "store"], row' = Insert(row, req[r].d, 0)
            PROVE  row'[req'[r].d].status # "NO_ROW"
        <5>1. row'[req[r].d].status # "NO_ROW"
          BY <4>1, <4>2 DEF Insert, UpdateRecoveryData, TypeOK, DurableOK, Rows
        <5>2. req'[r].d = req[r].d
          BY <4>2 DEF TypeOK, RequestsOK, Requests
        <5> QED
          BY <5>1, <5>2
      <4>3. ASSUME req' = [req EXCEPT ![r] = Idle] PROVE req'[r].pc # "store"
        BY <4>3 DEF Idle, TypeOK, RequestsOK
      <4>4. req'[r].pc = "store" => row'[req'[r].d].status # "NO_ROW"
        BY <3>1, <4>2, <4>3 DEF InsertDeposit, RequestGoto, RequestReturn
      <4>5. \A q \in Requesters \ {r} : req'[q] = req[q]
        BY <3>1 DEF InsertDeposit, RequestGoto, RequestReturn, TypeOK, RequestsOK
      <4> QED
        BY <4>4, <4>5, <1>1 DEF RequestsHaveRow, HasRow, TypeOK, RequestsOK
    <3>2. CASE ~InsertDeposit(r)
      BY <2>1, <3>2 DEF SubmitWithdrawal, ObserveDeposit, CheckCache, CheckChain,
         IsProcessed, CheckRow, StartBroadcast, RequestGoto, RequestReturn, Idle,
         RequestsHaveRow, HasRow, TypeOK, RequestsOK, Requests, durable
    <3> QED
      BY <3>1, <3>2
  <2>4. JobsHaveRow'
    <3>1. CASE StartBroadcast(r)
      <4>1. HasRow(req[r].d) /\ req[r].d \in Deposits /\ row' = row
        BY <3>1 DEF StartBroadcast, RequestsHaveRow, TypeOK, RequestsOK, durable
      <4> QED
        BY <3>1, <4>1, SpawnRows DEF StartBroadcast
    <3> QED
      BY <1>2, <2>1, <3>1 DEF SubmitWithdrawal, ObserveDeposit, CheckCache, CheckChain,
         IsProcessed, CheckRow, InsertDeposit
  <2> QED
    BY <1>4, <1>5, <2>2, <2>3, <2>4
<1>7. CASE CatchUpperNext
  <2>1. CASE LoadPhase
    <3>1. CASE ProcessDies
      BY <3>1, ProcessDiesRows
    <3>2. CASE ~ProcessDies
      <4>1. \A e \in GetWithStatus(row, cu.phase) : HasRow(e.d)
        BY DEF GetWithStatus, HasRow, TypeOK, CatchUpOK, DurableOK
      <4>2. /\ cu' = [cu EXCEPT !.pc = "check", !.todo = GetWithStatus(row, cu.phase)]
            /\ row' = row
        BY <2>1, <3>2 DEF LoadPhase, durable
      <4>3. CatchUpHasRow'
        BY <4>1, <4>2 DEF CatchUpHasRow, HasRow, TypeOK, CatchUpOK
      <4> QED
        BY <1>2, <1>3, <1>4, <2>1, <3>2, <4>3 DEF LoadPhase
    <3> QED
      BY <3>1, <3>2
  <2>2. CASE \E e \in cu.todo : CatchUpCheck(e)
    <3>1. CatchUpHasRow'
      BY <2>2 DEF CatchUpCheck, CatchUpHasRow, HasRow, TypeOK, CatchUpOK, durable
    <3> QED
      BY <1>2, <1>3, <1>4, <2>2, <3>1 DEF CatchUpCheck
  <2>3. CASE CatchUpUpdate
    <3>1. cu'.todo = cu.todo /\ (cu'.pc = "enqueue" => cu'.cur = cu.cur)
          /\ cu'.pc # "update" /\ cu.pc = "update"
      BY <2>3 DEF CatchUpUpdate, TypeOK, CatchUpOK
    <3>2. CatchUpHasRow'
      BY <1>1, <3>1 DEF CatchUpHasRow, HasRow, TypeOK, CatchUpOK, Entries
    <3> QED
      BY <1>2, <1>3, <1>4, <2>3, <3>2 DEF CatchUpUpdate
  <2>4. CASE CatchUpEnqueue
    <3>1. HasRow(cu.cur.d) /\ cu.cur.d \in Deposits /\ row' = row
      BY <2>4 DEF CatchUpEnqueue, CatchUpHasRow, TypeOK, CatchUpOK, Entries, durable
    <3>2. JobsHaveRow'
      BY <1>2, <2>4, <3>1, SpawnRows DEF CatchUpEnqueue
    <3>3. CatchUpHasRow'
      BY <2>4 DEF CatchUpEnqueue, CatchUpHasRow, HasRow, TypeOK, CatchUpOK, durable
    <3> QED
      BY <1>3, <1>4, <2>4, <3>2, <3>3 DEF CatchUpEnqueue
  <2>5. CASE EndPhase
    <3>1. CatchUpHasRow'
      BY <2>5 DEF EndPhase, CatchUpHasRow, HasRow, TypeOK, CatchUpOK, durable
    <3> QED
      BY <1>2, <1>3, <1>4, <2>5, <3>1 DEF EndPhase
  <2> QED
    BY <1>7, <2>1, <2>2, <2>3, <2>4, <2>5 DEF CatchUpperNext
<1>8. CASE ContainersNext
  <2>1. PICK j \in Jobs : RunStep(j) \/ LastStep(j)
    BY <1>8 DEF ContainersNext, ContainerStep, RunStep, LastStep
  <2>2. CASE RunStep(j)
    <3>1. JobsHaveRow'
      BY <1>1, <2>2, RunStepFrame DEF JobsHaveRow, HasRow, TypeOK, JobsOK
    <3> QED
      BY <1>3, <1>4, <1>5, <2>2, <3>1, RunStepFrame
  <2>3. CASE EvictDeposit(j)
    <3>1. JobsHaveRow'
      BY <2>3 DEF EvictDeposit, JobsHaveRow, HasRow, Free, TypeOK, JobsOK
    <3> QED
      BY <1>3, <1>4, <1>5, <2>3, <3>1 DEF EvictDeposit, JobFrame
  <2>4. CASE SendToSubmitter(j)
    <3>1. JobsHaveRow'
      BY <2>4 DEF SendToSubmitter, JobsHaveRow, HasRow, Free, TypeOK, JobsOK
    <3>2. HasRow(job[j].d) /\ row' = row /\ pool' = pool
      BY <2>4 DEF SendToSubmitter, JobFrame, JobsHaveRow
    <3>3. ReportsHaveRow'
      BY <2>4, <3>2 DEF SendToSubmitter, ReportsHaveRow, HasRow, TypeOK, SubmitterOK
    <3> QED
      BY <1>3, <1>5, <2>4, <3>1, <3>3 DEF SendToSubmitter, JobFrame
  <2>5. CASE WorkerPanics(j)
    BY <2>5, ProcessDiesRows DEF WorkerPanics
  <2> QED
    BY <2>1, <2>2, <2>3, <2>4, <2>5 DEF LastStep
<1>9. CASE CoreSubmitterNext
  <2>1. JobsHaveRow' /\ RequestsHaveRow' /\ CatchUpHasRow'
    BY <1>2, <1>3, <1>5, <1>9 DEF CoreSubmitterNext, ReceiveDeposit, QueryCore,
       BroadcastBatch, MarkProcessed, ClearPool, SubmitterFrame
  <2>2. CASE ReceiveDeposit
    <3>1. Head(submitChan) = submitChan[1] /\ Len(submitChan) >= 1
          /\ Len(Tail(submitChan)) = Len(submitChan) - 1
          /\ \A i \in 1..Len(Tail(submitChan)) : Tail(submitChan)[i] = submitChan[i + 1]
      BY <2>2 DEF ReceiveDeposit, TypeOK, SubmitterOK
    <3>2. HasRow(Head(submitChan).d)
      BY <3>1 DEF ReportsHaveRow, TypeOK, SubmitterOK
    <3>3. \A i \in 1..Len(pool') : HasRow(pool'[i].d)
      BY <2>2, <3>2 DEF ReceiveDeposit, ReportsHaveRow, TypeOK, SubmitterOK
    <3>4. \A i \in 1..Len(submitChan') : HasRow(submitChan'[i].d)
      BY <2>2, <3>1 DEF ReceiveDeposit, ReportsHaveRow, TypeOK, SubmitterOK
    <3> QED
      BY <2>1, <2>2, <3>3, <3>4 DEF ReceiveDeposit, ReportsHaveRow, HasRow
  <2>3. CASE ClearPool
    BY <2>1, <2>3 DEF ClearPool, ReportsHaveRow, HasRow
  <2> QED
    BY <1>4, <1>9, <2>1, <2>2, <2>3 DEF CoreSubmitterNext, QueryCore, BroadcastBatch,
       MarkProcessed
<1>10. CASE ChainNext \/ UNCHANGED vars
  BY <1>2, <1>3, <1>4, <1>5, <1>10 DEF ChainNext, MineWithdrawal, ForeignPay, ForeignReport,
     Memory, vars
<1>11. CASE Start
  <2>1. CatchUpHasRow'
    BY <1>11 DEF Start, CatchUpAt, CatchUpHasRow
  <2> QED
    BY <1>2, <1>3, <1>4, <1>11, <2>1 DEF Start
<1>12. CASE Crash
  BY <1>12, ProcessDiesRows DEF Crash
<1> QED
  BY <1>6, <1>7, <1>8, <1>9, <1>10, <1>11, <1>12 DEF Next

\* Every deposit that a goroutine holds has a row, so every UPDATE that is
\* issued for it finds one.
THEOREM HeldDepositsHaveRows == Spec => []HeldHasRow
<1>1. Init => RowInv
  BY DEF Init, RowInv, JobsHaveRow, RequestsHaveRow, ReportsHaveRow, CatchUpHasRow,
     AllFree, Free, AllIdle, Idle, CatchUpAt
<1>2. TypeOK /\ RowInv /\ [Next]_vars => RowInv'
  BY NextRows
<1>3. RowInv => HeldHasRow
  BY DEF RowInv, JobsHaveRow, RequestsHaveRow, ReportsHaveRow, CatchUpHasRow, HasRow,
     HeldHasRow, Held, Live, InReports
<1> QED
  BY <1>1, <1>2, <1>3, TypeCorrect, PTL DEF Spec

=============================================================================
