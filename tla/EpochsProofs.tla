---------------------------- MODULE EpochsProofs ----------------------------
(***************************************************************************)
(* Proofs about the update-signers pipeline, for any blocks, chains, slots *)
(* and faults. Each property rests on an inductive invariant of its own    *)
(* above the same shape of the state.                                      *)
(***************************************************************************)
EXTENDS Epochs, TLAPS

Statuses == {"NO_ROW", "PENDING", "PROCESSED", "FAILED"}
JobPcs == {"free", "offer", "queued", "stuck", "send", "wait", "done", "failed"}

\* The shape of the variables.
EpochField == Epochs \cup {NoEpoch}

TableOK ==
    /\ sig \in [Epochs -> Statuses] /\ offers \in [Epochs -> Nat]
    /\ applied \in SUBSET Epochs /\ logged \in SUBSET Epochs
    /\ running \in BOOLEAN /\ filled \in SUBSET EpochChains

TxsOK ==
    /\ etx \in [EpochTxs -> [e : EpochField,
                             state : {"unused", "pending", "success", "reverted"}]]
    /\ \A t \in EpochTxs : etx[t].state # "unused" => etx[t].e \in Epochs

ObserverOK ==
    /\ obs \in [pc : {"get", "insert", "client"}, todo : Seq(Epochs)]
    /\ obs.pc # "get" => obs.todo # <<>>

SlotsOK ==
    /\ ejob \in [EpochJobs -> [pc : JobPcs, e : EpochField, t : EpochTxs \cup {"none"}]]
    /\ \A j \in EpochJobs : /\ ejob[j].pc # "free" => ejob[j].e \in Epochs
                            /\ ejob[j].pc = "wait" => ejob[j].t \in EpochTxs

PassOK ==
    ecu \in [pc : {"off", "load", "offer", "done"}, phase : {"PENDING", "FAILED"},
             todo : SUBSET Epochs]

EShape == TableOK /\ TxsOK /\ ObserverOK /\ SlotsOK /\ PassOK

-----------------------------------------------------------------------------
(* The shape *)

\* What the observer takes from a block that parses is a list of epochs.
LEMMA BlockEpochsType ==
    ASSUME NEW b \in ParsedBlocks
    PROVE  BlockEpochs(b) \in Seq(Epochs)
<1> DEFINE n == Len(EpochEvents(b.begin))
           s == BlockEpochs(b)
<1>1. n \in Nat
  BY BlocksAssumption DEF ParsedBlocks
<1>2. s = [i \in 1..n |-> ParseUpdatedEpochs(EpochEvents(b.begin)[i].attributes)]
  BY DEF BlockEpochs
<1> HIDE DEF n, s
<1>3. DOMAIN s = 1..n /\ Len(s) = n
  BY <1>1, <1>2
<1>4. Elements(s) \subseteq Epochs
  BY DEF Epochs, s
<1>5. \A i \in 1..n : s[i] \in Epochs
  BY <1>3, <1>4 DEF Elements
<1>6. s \in [1..n -> Epochs]
  BY <1>2, <1>5
<1> QED
  BY <1>1, <1>6 DEF s

\* A started container takes a free slot.
LEMMA SpawnTakesSlot ==
    ASSUME NEW e, SpawnUpdate(e)
    PROVE  \E j \in EpochJobs :
              /\ ejob[j].pc = "free"
              /\ ejob' = [ejob EXCEPT ![j] = [pc |-> "offer", e |-> e, t |-> "none"]]
              /\ offers' = [offers EXCEPT ![e] = @ + 1]
<1> DEFINE j == CHOOSE k \in EpochJobs : ejob[k].pc = "free"
<1>1. j \in EpochJobs /\ ejob[j].pc = "free"
  BY DEF SpawnUpdate
<1>2. /\ ejob' = [ejob EXCEPT ![j] = [pc |-> "offer", e |-> e, t |-> "none"]]
      /\ offers' = [offers EXCEPT ![e] = @ + 1]
  BY DEF SpawnUpdate
<1> HIDE DEF j
<1> QED
  BY <1>1, <1>2

\* The initial state has the shape.
LEMMA EpochsInitShape == EpochsInit => EShape
<1> SUFFICES ASSUME EpochsInit PROVE EShape
  OBVIOUS
<1> USE DEF EpochsInit
<1>1. TableOK
  BY DEF TableOK, Statuses
<1>2. TxsOK
  BY DEF TxsOK, NoTx, EpochField
<1>3. ObserverOK
  BY DEF ObserverOK, ObserverIdle
<1>4. SlotsOK
  BY DEF SlotsOK, FreeJob, JobPcs, EpochField
<1>5. PassOK
  BY DEF PassOK, EpochCatchUpAt
<1> QED
  BY <1>1, <1>2, <1>3, <1>4, <1>5 DEF EShape

\* A step of the observer or of the catch-upper that starts a container or logs
\* that it cannot.
Starts(e) ==
    \/ e.chain \in EpochChains /\ SpawnUpdate(e) /\ UNCHANGED logged
    \/ e.chain \notin EpochChains /\ Log(e) /\ UNCHANGED <<ejob, offers>>

\* What StartEpoch and OfferEpoch do to the containers, the offers and the log.
LEMMA StartsShape ==
    ASSUME EShape, NEW e \in Epochs, Starts(e)
    PROVE  /\ SlotsOK' /\ offers' \in [Epochs -> Nat] /\ logged' \in SUBSET Epochs
           /\ \/ /\ logged' = logged
                 /\ offers' = [offers EXCEPT ![e] = @ + 1]
                 /\ \E j \in EpochJobs :
                       /\ ejob[j].pc = "free"
                       /\ ejob' = [ejob EXCEPT ![j] = [pc |-> "offer", e |-> e, t |-> "none"]]
              \/ logged' = logged \cup {e} /\ ejob' = ejob /\ offers' = offers
<1>1. CASE SpawnUpdate(e) /\ UNCHANGED logged
  <2>1. PICK j \in EpochJobs :
              /\ ejob[j].pc = "free"
              /\ ejob' = [ejob EXCEPT ![j] = [pc |-> "offer", e |-> e, t |-> "none"]]
              /\ offers' = [offers EXCEPT ![e] = @ + 1]
    BY <1>1, SpawnTakesSlot
  <2>2. SlotsOK'
    BY <2>1 DEF EShape, SlotsOK, JobPcs, EpochField
  <2>3. offers' \in [Epochs -> Nat] /\ logged' \in SUBSET Epochs
    BY <1>1, <2>1 DEF EShape, TableOK
  <2> QED
    BY <1>1, <2>1, <2>2, <2>3
<1>2. CASE Log(e) /\ UNCHANGED <<ejob, offers>>
  BY <1>2 DEF Log, EShape, SlotsOK, TableOK
<1> QED
  BY <1>1, <1>2 DEF Starts

\* StartEpoch starts the epoch the observer has in hand.
LEMMA StartEpochStarts ==
    ASSUME EShape, StartEpoch
    PROVE  /\ obs.pc = "client" /\ obs.todo # <<>>
           /\ Head(obs.todo) \in Epochs /\ Starts(Head(obs.todo))
           /\ obs' = [pc |-> "get", todo |-> Tail(obs.todo)]
           /\ UNCHANGED <<sig, etx, applied, running, filled, ecu>>
<1>1. obs.pc = "client" /\ obs.todo # <<>> /\ Starts(Head(obs.todo))
  BY DEF StartEpoch, Starts
<1>2. Head(obs.todo) \in Epochs
  BY <1>1 DEF EShape, ObserverOK
<1> QED
  BY <1>1, <1>2 DEF StartEpoch, NextEpoch

\* SendUpdate uses a transaction that was not used before, or fails.
LEMMA SendUpdateCases ==
    ASSUME NEW j \in EpochJobs, SendUpdate(j)
    PROVE  /\ ejob[j].pc = "send"
           /\ UNCHANGED <<sig, applied, running, filled, obs, ecu, offers, logged>>
           /\ \/ \E t \in EpochTxs :
                    /\ etx[t].state = "unused"
                    /\ etx' = [etx EXCEPT ![t] = [e |-> ejob[j].e, state |-> "pending"]]
                    /\ ejob' = [ejob EXCEPT ![j].pc = "wait", ![j].t = t]
              \/ etx' = etx /\ ejob' = [ejob EXCEPT ![j].pc = "failed"]
<1> DEFINE t == CHOOSE u \in EpochTxs : etx[u].state = "unused"
<1>1. CASE /\ \E u \in EpochTxs : etx[u].state = "unused"
           /\ etx' = [etx EXCEPT ![t] = [e |-> ejob[j].e, state |-> "pending"]]
           /\ ejob' = [ejob EXCEPT ![j].pc = "wait", ![j].t = t]
  <2>1. t \in EpochTxs /\ etx[t].state = "unused"
    BY <1>1
  <2> HIDE DEF t
  <2> QED
    BY <1>1, <2>1 DEF SendUpdate
<1>2. CASE etx' = etx /\ ejob' = [ejob EXCEPT ![j].pc = "failed"]
  BY <1>2 DEF SendUpdate
<1>3. \/ /\ \E u \in EpochTxs : etx[u].state = "unused"
         /\ etx' = [etx EXCEPT ![t] = [e |-> ejob[j].e, state |-> "pending"]]
         /\ ejob' = [ejob EXCEPT ![j].pc = "wait", ![j].t = t]
      \/ etx' = etx /\ ejob' = [ejob EXCEPT ![j].pc = "failed"]
  BY DEF SendUpdate
<1> HIDE DEF t
<1> QED
  BY <1>1, <1>2, <1>3

\* No step breaks the shape.
LEMMA EpochsNextShape == EShape /\ [EpochsNext]_epochVars => EShape'
<1> SUFFICES ASSUME EShape, [EpochsNext]_epochVars PROVE EShape'
  OBVIOUS
<1> USE DEF EShape
<1>0. obs.todo # <<>> => Head(obs.todo) \in Epochs /\ Tail(obs.todo) \in Seq(Epochs)
  BY DEF ObserverOK
<1>1. CASE ObserveBlock
  BY <1>1, BlockEpochsType DEF ObserveBlock, TableOK, TxsOK, ObserverOK, SlotsOK, PassOK
<1>2. CASE GetEpoch
  <2>1. ObserverOK'
    BY <1>2, <1>0 DEF GetEpoch, NextEpoch, ObserverOK
  <2> QED
    BY <1>2, <2>1 DEF GetEpoch, TableOK, TxsOK, SlotsOK, PassOK
<1>3. CASE InsertEpoch
  <2>1. TableOK'
    BY <1>3, <1>0 DEF InsertEpoch, UpdateEpochStatus, TableOK, Statuses
  <2>2. ObserverOK'
    BY <1>3, <1>0 DEF InsertEpoch, NextEpoch, ObserverOK
  <2> QED
    BY <1>3, <2>1, <2>2 DEF InsertEpoch, TxsOK, SlotsOK, PassOK
<1>4. CASE StartEpoch
  <2>1. SlotsOK' /\ TableOK'
    BY <1>4, StartEpochStarts, StartsShape DEF TableOK
  <2>2. TxsOK' /\ PassOK'
    BY <1>4 DEF StartEpoch, TxsOK, PassOK
  <2>3. obs' = [pc |-> "get", todo |-> Tail(obs.todo)] /\ Tail(obs.todo) \in Seq(Epochs)
    BY <1>4, <1>0, StartEpochStarts
  <2>4. ObserverOK'
    BY <2>3 DEF ObserverOK
  <2> QED
    BY <2>1, <2>2, <2>4
<1>5. CASE LoadEpochs
  BY <1>5 DEF LoadEpochs, EpochsWithStatus, TableOK, TxsOK, ObserverOK, SlotsOK, PassOK
<1>6. CASE OfferEpoch
  <2>1. PICK e \in ecu.todo : Starts(e) /\ ecu' = [ecu EXCEPT !.todo = @ \ {e}]
    BY <1>6 DEF OfferEpoch, Starts
  <2>2. e \in Epochs /\ PassOK'
    BY <2>1 DEF PassOK
  <2>3. SlotsOK' /\ TableOK'
    BY <1>6, <2>1, <2>2, StartsShape DEF OfferEpoch, TableOK
  <2> QED
    BY <1>6, <2>2, <2>3 DEF OfferEpoch, TxsOK, ObserverOK
<1>7. CASE EndPass
  BY <1>7 DEF EndPass, TableOK, TxsOK, ObserverOK, SlotsOK, PassOK
<1>8. ASSUME NEW j \in EpochJobs, OfferUpdate(j) \/ TakeUpdate(j) PROVE EShape'
  <2>1. SlotsOK'
    BY <1>8 DEF OfferUpdate, TakeUpdate, SlotsOK, JobPcs
  <2> QED
    BY <1>8, <2>1 DEF OfferUpdate, TakeUpdate, TableOK, TxsOK, ObserverOK, PassOK
<1>9. ASSUME NEW j \in EpochJobs, SendUpdate(j) PROVE EShape'
  <2>1. ejob[j].pc = "send" /\ ejob[j].e \in Epochs
    BY <1>9, SendUpdateCases DEF SlotsOK
  <2>2. ASSUME etx' = etx, ejob' = [ejob EXCEPT ![j].pc = "failed"]
        PROVE  TxsOK' /\ SlotsOK'
    BY <2>1, <2>2 DEF TxsOK, SlotsOK, JobPcs
  <2>3. ASSUME NEW t \in EpochTxs,
               etx' = [etx EXCEPT ![t] = [e |-> ejob[j].e, state |-> "pending"]],
               ejob' = [ejob EXCEPT ![j].pc = "wait", ![j].t = t]
        PROVE  TxsOK' /\ SlotsOK'
    BY <2>1, <2>3 DEF TxsOK, SlotsOK, JobPcs, EpochField
  <2>4. TxsOK' /\ SlotsOK'
    BY <1>9, <2>2, <2>3, SendUpdateCases
  <2> QED
    BY <1>9, <2>4 DEF SendUpdate, TableOK, ObserverOK, PassOK
<1>10. ASSUME NEW j \in EpochJobs, AwaitUpdate(j) PROVE EShape'
  <2>1. SlotsOK'
    BY <1>10 DEF AwaitUpdate, Ends, SlotsOK, JobPcs
  <2> QED
    BY <1>10, <2>1 DEF AwaitUpdate, TableOK, TxsOK, ObserverOK, PassOK
<1>11. ASSUME NEW j \in EpochJobs, WriteResult(j) PROVE EShape'
  <2>1. SlotsOK'
    BY <1>11 DEF WriteResult, FreeJob, SlotsOK, JobPcs, EpochField
  <2>2. ejob[j].e \in Epochs /\ StatusOf[ejob[j].pc] \in Statuses
    BY <1>11 DEF WriteResult, SlotsOK, StatusOf, Statuses
  <2>3. TableOK'
    BY <1>11, <2>2 DEF WriteResult, UpdateEpochStatus, Log, TableOK
  <2> QED
    BY <1>11, <2>1, <2>3 DEF WriteResult, TxsOK, ObserverOK, PassOK
<1>12. ASSUME NEW t \in EpochTxs, MineUpdate(t) PROVE EShape'
  <2>1. TxsOK' /\ etx[t].e \in Epochs
    BY <1>12 DEF MineUpdate, TxsOK
  <2> QED
    BY <1>12, <2>1 DEF MineUpdate, TableOK, ObserverOK, SlotsOK, PassOK
<1>13. CASE ForeignUpdate \/ RunFills
  BY <1>13 DEF ForeignUpdate, RunFills, TableOK, TxsOK, ObserverOK, SlotsOK, PassOK
<1>14. CASE StartProcess
  BY <1>14 DEF StartProcess, EpochCatchUpAt, TableOK, TxsOK, ObserverOK, SlotsOK, PassOK
<1>15. CASE EpochsCrash
  <2>1. SlotsOK'
    BY <1>15 DEF EpochsCrash, FreeJob, SlotsOK, JobPcs, EpochField
  <2>2. ObserverOK' /\ PassOK'
    BY <1>15 DEF EpochsCrash, ObserverOK, ObserverIdle, PassOK, EpochCatchUpAt
  <2> QED
    BY <1>15, <2>1, <2>2 DEF EpochsCrash, TableOK, TxsOK
<1>16. CASE UNCHANGED epochVars
  BY <1>16 DEF epochVars, TableOK, TxsOK, ObserverOK, SlotsOK, PassOK
<1> QED
  BY <1>1, <1>2, <1>3, <1>4, <1>5, <1>6, <1>7, <1>8, <1>9, <1>10, <1>11, <1>12, <1>13,
     <1>14, <1>15, <1>16
     DEF EpochsNext, ObserverStep, CatchUpStep, EpochContainerStep

-----------------------------------------------------------------------------
(* The invariants *)

Live(j) == ejob[j].pc # "free"
InHand(e) == obs.pc = "client" /\ Head(obs.todo) = e

\* Whoever has an epoch in hand has inserted or read its row.
RowsInv ==
    /\ \A e, f \in Epochs : e # f /\ SameKey(e, f) => "NO_ROW" \in {sig[e], sig[f]}
    /\ \A j \in EpochJobs : Live(j) => sig[ejob[j].e] # "NO_ROW"
    /\ \A e \in Epochs : InHand(e) \/ e \in ecu.todo => sig[e] # "NO_ROW"

\* A container waits for a transaction of its own epoch that was sent; what
\* succeeded was applied, and so was the epoch of a container that is done.
AppliedInv ==
    /\ \A t \in EpochTxs : etx[t].state = "success" => etx[t].e \in applied
    /\ \A j \in EpochJobs :
          /\ ejob[j].pc = "wait" =>
                etx[ejob[j].t].state # "unused" /\ etx[ejob[j].t].e = ejob[j].e
          /\ ejob[j].pc = "done" => ejob[j].e \in applied
    /\ ProcessedIsApplied

\* From the end of its query on, the first pass of the catch-upper has seen every
\* PENDING row that nobody holds.
PassedPending == ecu.pc # "off" /\ ~(ecu.pc = "load" /\ ecu.phase = "PENDING")
HeldInv ==
    /\ ecu.pc = "load" => ecu.todo = {}
    /\ PassedPending =>
          \A e \in Epochs : sig[e] = "PENDING" => HeldEpoch(e) \/ e \in logged

\* offers counts at least the containers that are alive; and whoever still has an
\* epoch that is PROCESSED by now came second.
OffersInv ==
    /\ \A j \in EpochJobs : Live(j) =>
          /\ offers[ejob[j].e] >= 1
          /\ sig[ejob[j].e] = "PROCESSED" => offers[ejob[j].e] >= 2
          /\ \A k \in EpochJobs \ {j} : Live(k) /\ ejob[k].e = ejob[j].e =>
                offers[ejob[j].e] >= 2
    /\ \A e \in Epochs :
          (InHand(e) \/ e \in ecu.todo) /\ sig[e] = "PROCESSED" => offers[e] >= 1

\* A container that is taken, sends or ends its wait keeps its epoch, and its
\* step leaves the other containers alone.
LEMMA JobGoesOn ==
    ASSUME EShape, NEW j \in EpochJobs,
           OfferUpdate(j) \/ TakeUpdate(j) \/ SendUpdate(j) \/ AwaitUpdate(j)
    PROVE  /\ Live(j) /\ Live(j)' /\ ejob'[j].e = ejob[j].e
           /\ \A k \in EpochJobs : k # j => ejob'[k] = ejob[k]
           /\ \A k \in EpochJobs : Live(k)' => Live(k) /\ ejob'[k].e = ejob[k].e
<1> USE DEF EShape, SlotsOK, Live
<1>1. CASE OfferUpdate(j) \/ TakeUpdate(j)
  <2>1. ejob[j].pc # "free" /\ \E pc \in JobPcs \ {"free"} : ejob' = [ejob EXCEPT ![j].pc = pc]
    BY <1>1 DEF OfferUpdate, TakeUpdate, JobPcs
  <2> QED
    BY <2>1
<1>2. CASE SendUpdate(j)
  <2>1. ejob[j].pc = "send"
    BY <1>2, SendUpdateCases
  <2>2. CASE ejob' = [ejob EXCEPT ![j].pc = "failed"]
    BY <2>1, <2>2
  <2>3. ASSUME NEW t, ejob' = [ejob EXCEPT ![j].pc = "wait", ![j].t = t]
        PROVE  /\ Live(j)' /\ ejob'[j].e = ejob[j].e
               /\ \A k \in EpochJobs : k # j => ejob'[k] = ejob[k]
    BY <2>3
  <2> QED
    BY <1>2, <2>1, <2>2, <2>3, SendUpdateCases
<1>3. CASE AwaitUpdate(j)
  BY <1>3 DEF AwaitUpdate, Ends
<1> QED
  BY <1>1, <1>2, <1>3

\* A container that is started is one more; all others stay as they are.
LEMMA StartsJobs ==
    ASSUME EShape, NEW e \in Epochs, Starts(e)
    PROVE  \/ /\ logged' = logged
              /\ offers' = [offers EXCEPT ![e] = @ + 1]
              /\ \E j \in EpochJobs :
                    /\ ~Live(j) /\ ejob'[j].pc = "offer" /\ ejob'[j].e = e
                    /\ \A k \in EpochJobs : k # j => ejob'[k] = ejob[k]
           \/ logged' = logged \cup {e} /\ ejob' = ejob /\ offers' = offers
<1>1. ASSUME NEW j \in EpochJobs,
             ejob' = [ejob EXCEPT ![j] = [pc |-> "offer", e |-> e, t |-> "none"]]
      PROVE  /\ ejob'[j].pc = "offer" /\ ejob'[j].e = e
             /\ \A k \in EpochJobs : k # j => ejob'[k] = ejob[k]
  BY <1>1 DEF EShape, SlotsOK
<1> QED
  BY <1>1, StartsShape DEF Live

-----------------------------------------------------------------------------
(* Rows *)

LEMMA RowsInit == EpochsInit => RowsInv
  BY DEF EpochsInit, RowsInv, InHand, Live, FreeJob, ObserverIdle, EpochCatchUpAt

\* A step that keeps the table, offers nothing new and puts no other epoch into
\* anybody's hands.
LEMMA RowsKept ==
    ASSUME EShape, EShape', RowsInv, sig' = sig,
           \A j \in EpochJobs : Live(j)' => Live(j) /\ ejob'[j].e = ejob[j].e,
           \A e \in Epochs : (InHand(e) \/ e \in ecu.todo)' => InHand(e) \/ e \in ecu.todo
    PROVE  RowsInv'
  BY DEF RowsInv

\* Every step of the process and of the chain keeps the rows in agreement with the
\* jobs that still owe them a status.
LEMMA RowsNext == EShape /\ EShape' /\ RowsInv /\ [EpochsNext]_epochVars => RowsInv'
<1> SUFFICES ASSUME EShape, EShape', RowsInv, [EpochsNext]_epochVars PROVE RowsInv'
  OBVIOUS
<1>1. CASE ObserveBlock \/ GetEpoch
  <2>1. obs'.pc # "client"
    BY <1>1 DEF ObserveBlock, GetEpoch, NextEpoch, EShape, ObserverOK
  <2> QED
    BY <1>1, <2>1, RowsKept DEF ObserveBlock, GetEpoch, Live, InHand
<1>2. CASE InsertEpoch
  <2> DEFINE e == Head(obs.todo)
  <2>1. e \in Epochs
    BY <1>2 DEF InsertEpoch, EShape, ObserverOK
  <2>2. CASE InsertSucceeds(e) /\ sig' = [sig EXCEPT ![e] = "PENDING"]
             /\ obs' = [obs EXCEPT !.pc = "client"]
    <3>1. \A f, g \in Epochs : f # g /\ SameKey(f, g) => "NO_ROW" \in {sig'[f], sig'[g]}
      BY <2>1, <2>2 DEF RowsInv, InsertSucceeds, SameKey, EShape, TableOK
    <3>2. \A f \in Epochs : sig[f] # "NO_ROW" => sig'[f] # "NO_ROW"
      BY <2>1, <2>2 DEF EShape, TableOK
    <3>3. sig'[e] # "NO_ROW" /\ \A f \in Epochs : InHand(f)' => f = e
      BY <2>1, <2>2 DEF EShape, TableOK, ObserverOK, InHand
    <3>4. ejob' = ejob /\ ecu' = ecu
      BY <1>2 DEF InsertEpoch
    <3> QED
      BY <3>1, <3>2, <3>3, <3>4 DEF RowsInv, Live, EShape, SlotsOK
  <2>3. CASE sig' = sig /\ obs' = [pc |-> "get", todo |-> Tail(obs.todo)]
    BY <1>2, <2>3, RowsKept DEF InsertEpoch, Live, InHand
  <2> QED
    BY <1>2, <2>2, <2>3 DEF InsertEpoch, UpdateEpochStatus, NextEpoch
<1>3. ASSUME NEW e \in Epochs, Starts(e), sig' = sig, InHand(e) \/ e \in ecu.todo,
             \A f \in Epochs : (InHand(f) \/ f \in ecu.todo)' => InHand(f) \/ f \in ecu.todo
      PROVE  RowsInv'
  <2>1. \A k \in EpochJobs : Live(k)' => ejob'[k].e = e \/ (Live(k) /\ ejob'[k].e = ejob[k].e)
    BY <1>3, StartsJobs DEF Live
  <2> QED
    BY <1>3, <2>1 DEF RowsInv
<1>4. CASE StartEpoch
  <2>1. InHand(Head(obs.todo)) /\ Head(obs.todo) \in Epochs /\ Starts(Head(obs.todo))
    BY <1>4, StartEpochStarts DEF InHand
  <2>2. obs'.pc = "get" /\ sig' = sig /\ ecu' = ecu
    BY <1>4, StartEpochStarts
  <2> QED
    BY <1>3, <2>1, <2>2 DEF InHand
<1>5. CASE LoadEpochs
  <2>1. \A e \in ecu'.todo : sig[e] # "NO_ROW"
    BY <1>5 DEF LoadEpochs, EpochsWithStatus, EShape, PassOK
  <2> QED
    BY <1>5, <2>1 DEF LoadEpochs, RowsInv, InHand, Live
<1>6. CASE OfferEpoch
  <2>1. PICK e \in ecu.todo : Starts(e) /\ ecu' = [ecu EXCEPT !.todo = @ \ {e}]
    BY <1>6 DEF OfferEpoch, Starts
  <2>2. e \in Epochs /\ ecu'.todo \subseteq ecu.todo
    BY <2>1 DEF EShape, PassOK
  <2> QED
    BY <1>3, <1>6, <2>1, <2>2 DEF OfferEpoch, InHand
<1>7. CASE EndPass
  <2>1. ecu'.todo = ecu.todo
    BY <1>7 DEF EndPass, EShape, PassOK
  <2> QED
    BY <1>7, <2>1, RowsKept DEF EndPass, Live, InHand
<1>8. ASSUME NEW j \in EpochJobs, OfferUpdate(j) \/ TakeUpdate(j) \/ SendUpdate(j) \/ AwaitUpdate(j)
      PROVE  RowsInv'
  <2>1. Live(j) /\ \A k \in EpochJobs : Live(k)' => Live(k) /\ ejob'[k].e = ejob[k].e
    BY <1>8, JobGoesOn
  <2> QED
    BY <1>8, <2>1, RowsKept DEF OfferUpdate, TakeUpdate, SendUpdate, AwaitUpdate, InHand
<1>9. ASSUME NEW j \in EpochJobs, WriteResult(j) PROVE RowsInv'
  <2>1. \A k \in EpochJobs : Live(k)' => Live(k) /\ ejob'[k].e = ejob[k].e
    BY <1>9 DEF WriteResult, EShape, SlotsOK, Live, FreeJob
  <2>2. ejob[j].e \in Epochs /\ sig[ejob[j].e] # "NO_ROW" /\ Live(j)
    BY <1>9 DEF WriteResult, EShape, SlotsOK, RowsInv, Live
  <2>3. \A f \in Epochs : sig'[f] = "NO_ROW" <=> sig[f] = "NO_ROW"
    BY <1>9, <2>2 DEF WriteResult, UpdateEpochStatus, StatusOf, EShape, TableOK
  <2>4. UNCHANGED <<obs, ecu>>
    BY <1>9 DEF WriteResult
  <2> QED
    BY <2>1, <2>3, <2>4 DEF RowsInv, InHand, Live, EShape, SlotsOK
<1>10. CASE \E t \in EpochTxs : MineUpdate(t)
  BY <1>10, RowsKept DEF MineUpdate, Live, InHand
<1>11. CASE ForeignUpdate \/ RunFills
  BY <1>11, RowsKept DEF ForeignUpdate, RunFills, Live, InHand
<1>12. CASE StartProcess
  BY <1>12, RowsKept DEF StartProcess, EpochCatchUpAt, Live, InHand
<1>13. CASE EpochsCrash
  BY <1>13, RowsKept DEF EpochsCrash, FreeJob, ObserverIdle, EpochCatchUpAt, Live, InHand
<1>14. CASE UNCHANGED epochVars
  BY <1>14, RowsKept DEF epochVars, Live, InHand
<1> QED
  BY <1>1, <1>2, <1>4, <1>5, <1>6, <1>7, <1>8, <1>9, <1>10, <1>11, <1>12, <1>13, <1>14
     DEF EpochsNext, ObserverStep, CatchUpStep, EpochContainerStep

-----------------------------------------------------------------------------
(* Applied *)

LEMMA AppliedInit == EpochsInit => AppliedInv
  BY DEF EpochsInit, AppliedInv, ProcessedIsApplied, FreeJob, NoTx

\* Every step keeps AppliedInv: only a successful transaction lets a container write
\* PROCESSED, and a transaction on the chain is never taken back.
LEMMA AppliedNext ==
    EShape /\ EShape' /\ AppliedInv /\ [EpochsNext]_epochVars => AppliedInv'
<1> SUFFICES ASSUME EShape, EShape', AppliedInv, [EpochsNext]_epochVars PROVE AppliedInv'
  OBVIOUS
<1>0. ASSUME applied' = applied, etx' = etx,
             \A e \in Epochs : sig'[e] = "PROCESSED" => sig[e] = "PROCESSED",
             \A j \in EpochJobs : ejob'[j].pc \in {"wait", "done"} => ejob'[j] = ejob[j]
      PROVE  AppliedInv'
  BY <1>0 DEF AppliedInv, ProcessedIsApplied
<1>1. CASE ObserveBlock \/ GetEpoch \/ LoadEpochs \/ EndPass \/ StartProcess
           \/ RunFills \/ UNCHANGED epochVars
  BY <1>0, <1>1 DEF ObserveBlock, GetEpoch, LoadEpochs, EndPass, StartProcess, RunFills,
                    epochVars
<1>2. CASE InsertEpoch
  BY <1>0, <1>2 DEF InsertEpoch, UpdateEpochStatus, EShape, TableOK
<1>3. ASSUME NEW e \in Epochs, Starts(e), UNCHANGED <<sig, etx, applied>>
      PROVE  AppliedInv'
  BY <1>0, <1>3, StartsJobs
<1>4. CASE StartEpoch
  BY <1>3, <1>4, StartEpochStarts
<1>5. CASE OfferEpoch
  <2>1. PICK e \in ecu.todo : Starts(e)
    BY <1>5 DEF OfferEpoch, Starts
  <2> QED
    BY <1>3, <1>5, <2>1 DEF OfferEpoch, EShape, PassOK
<1>6. ASSUME NEW j \in EpochJobs, OfferUpdate(j) \/ TakeUpdate(j) PROVE AppliedInv'
  BY <1>0, <1>6 DEF OfferUpdate, TakeUpdate, EShape, SlotsOK
<1>7. ASSUME NEW j \in EpochJobs, SendUpdate(j) PROVE AppliedInv'
  <2>1. CASE etx' = etx /\ ejob' = [ejob EXCEPT ![j].pc = "failed"]
    BY <1>0, <1>7, <2>1 DEF SendUpdate, EShape, SlotsOK
  <2>2. ASSUME NEW t \in EpochTxs, etx[t].state = "unused",
               etx' = [etx EXCEPT ![t] = [e |-> ejob[j].e, state |-> "pending"]],
               ejob' = [ejob EXCEPT ![j].pc = "wait", ![j].t = t]
        PROVE  AppliedInv'
    <3>1. /\ etx'[t].e = ejob[j].e /\ etx'[t].state = "pending"
          /\ \A u \in EpochTxs : u # t => etx'[u] = etx[u]
      BY <2>2 DEF EShape, TxsOK
    <3>2. /\ ejob'[j].pc = "wait" /\ ejob'[j].t = t /\ ejob'[j].e = ejob[j].e
          /\ \A k \in EpochJobs : k # j => ejob'[k] = ejob[k]
      BY <2>2 DEF EShape, SlotsOK
    <3>3. \A k \in EpochJobs : k # j /\ ejob[k].pc = "wait" =>
             ejob[k].t \in EpochTxs /\ ejob[k].t # t
      BY <2>2 DEF AppliedInv, EShape, SlotsOK
    <3>4. UNCHANGED <<sig, applied>>
      BY <1>7 DEF SendUpdate
    <3> QED
      BY <3>1, <3>2, <3>3, <3>4 DEF AppliedInv, ProcessedIsApplied
  <2> QED
    BY <1>7, <2>1, <2>2, SendUpdateCases
<1>8. ASSUME NEW j \in EpochJobs, AwaitUpdate(j) PROVE AppliedInv'
  <2>1. PICK pc \in Ends(etx[ejob[j].t].state) : ejob' = [ejob EXCEPT ![j].pc = pc]
    BY <1>8 DEF AwaitUpdate
  <2>2. /\ ejob[j].pc = "wait" /\ ejob[j].t \in EpochTxs
        /\ pc = "failed" \/ (pc = "done" /\ etx[ejob[j].t].state = "success")
    BY <1>8, <2>1 DEF AwaitUpdate, Ends, EShape, SlotsOK
  <2>3. pc = "done" => ejob[j].e \in applied
    BY <2>2 DEF AppliedInv
  <2>4. /\ ejob'[j].pc = pc /\ ejob'[j].e = ejob[j].e
        /\ \A k \in EpochJobs : k # j => ejob'[k] = ejob[k]
    BY <2>1 DEF EShape, SlotsOK
  <2> QED
    BY <1>8, <2>2, <2>3, <2>4 DEF AwaitUpdate, AppliedInv, ProcessedIsApplied
<1>9. ASSUME NEW j \in EpochJobs, WriteResult(j) PROVE AppliedInv'
  <2>1. \A k \in EpochJobs : ejob'[k].pc \in {"wait", "done"} => ejob'[k] = ejob[k]
    BY <1>9 DEF WriteResult, EShape, SlotsOK, FreeJob
  <2>2. \A e \in Epochs : sig'[e] = "PROCESSED" => e \in applied
    BY <1>9 DEF WriteResult, UpdateEpochStatus, StatusOf, AppliedInv, ProcessedIsApplied,
                EShape, TableOK
  <2> QED
    BY <1>9, <2>1, <2>2 DEF WriteResult, AppliedInv, ProcessedIsApplied
<1>10. ASSUME NEW t \in EpochTxs, MineUpdate(t) PROVE AppliedInv'
  <2>1. /\ applied \subseteq applied'
        /\ \A u \in EpochTxs : etx'[u].e = etx[u].e
        /\ \A u \in EpochTxs : u # t => etx'[u] = etx[u]
        /\ etx'[t].state # "unused"
        /\ etx'[t].state = "success" => etx[t].e \in applied'
    BY <1>10 DEF MineUpdate, EShape, TxsOK
  <2>2. UNCHANGED <<sig, ejob>>
    BY <1>10 DEF MineUpdate
  <2> QED
    BY <2>1, <2>2 DEF AppliedInv, ProcessedIsApplied, EShape, SlotsOK
<1>11. CASE ForeignUpdate
  BY <1>11 DEF ForeignUpdate, AppliedInv, ProcessedIsApplied
<1>12. CASE EpochsCrash
  BY <1>0, <1>12 DEF EpochsCrash, FreeJob
<1> QED
  BY <1>1, <1>2, <1>4, <1>5, <1>6, <1>7, <1>8, <1>9, <1>10, <1>11, <1>12
     DEF EpochsNext, ObserverStep, CatchUpStep, EpochContainerStep

\* An epoch is PROCESSED in the table only if the bridge contract took it, whatever
\* is retried, fails, crashes or comes from another relayer.
THEOREM ProcessedEpochsApplied == EpochsSpec => []ProcessedIsApplied
<1>1. EpochsInit => EShape /\ AppliedInv
  BY EpochsInitShape, AppliedInit
<1>2. EShape /\ AppliedInv /\ [EpochsNext]_epochVars => EShape' /\ AppliedInv'
  BY EpochsNextShape, AppliedNext
<1>3. AppliedInv => ProcessedIsApplied
  BY DEF AppliedInv
<1> QED
  BY <1>1, <1>2, <1>3, PTL DEF EpochsSpec

\* The variables of the pipeline have their types, no two rows share a chain and a
\* nonce, and whoever has an epoch in hand - a container, BroadcastEpoch, the
\* catch-upper - has its row: no update of a status misses.
THEOREM EpochsTypeCorrect == EpochsSpec => []EpochsTypeOK
<1>1. EpochsInit => EShape /\ RowsInv /\ AppliedInv
  BY EpochsInitShape, RowsInit, AppliedInit
<1>2. EShape /\ RowsInv /\ AppliedInv /\ [EpochsNext]_epochVars
      => EShape' /\ RowsInv' /\ AppliedInv'
  BY EpochsNextShape, RowsNext, AppliedNext
<1>3. EShape /\ RowsInv /\ AppliedInv => EpochsTypeOK
  <2> SUFFICES ASSUME EShape, RowsInv, AppliedInv PROVE EpochsTypeOK
    OBVIOUS
  <2>1. \A j \in EpochJobs : ejob[j].pc # "free" =>
           /\ sig[ejob[j].e] # "NO_ROW"
           /\ ejob[j].pc = "wait" => etx[ejob[j].t].e = ejob[j].e
    BY DEF RowsInv, AppliedInv, Live
  <2>2. obs.pc = "client" => sig[Head(obs.todo)] # "NO_ROW"
    BY DEF EShape, ObserverOK, RowsInv, InHand
  <2>3. \A e \in ecu.todo : sig[e] # "NO_ROW"
    BY DEF EShape, PassOK, RowsInv
  <2> QED
    BY <2>1, <2>2, <2>3 DEF EShape, TableOK, Statuses, RowsInv, EpochsTypeOK
<1> QED
  BY <1>1, <1>2, <1>3, PTL DEF EpochsSpec

-----------------------------------------------------------------------------
(* Nothing is dropped *)

LEMMA HeldInit == EpochsInit => HeldInv
  BY DEF EpochsInit, HeldInv, PassedPending, EpochCatchUpAt

\* A step after which the catch-upper is where it was and every epoch that is
\* PENDING was PENDING and is still held or logged.
LEMMA HeldKept ==
    ASSUME HeldInv, ecu'.pc = "load" => ecu'.todo = {}, PassedPending' => PassedPending,
           \A e \in Epochs : sig'[e] = "PENDING" /\ PassedPending =>
              \/ sig[e] = "PENDING" /\ (HeldEpoch(e) \/ e \in logged =>
                                           HeldEpoch(e)' \/ e \in logged')
              \/ HeldEpoch(e)' \/ e \in logged'
    PROVE  HeldInv'
  BY DEF HeldInv

\* Every step keeps HeldInv: an open row is in the hands of a job or of the catch-up
\* pass, or the log has an error.
LEMMA HeldNext == EShape /\ EShape' /\ HeldInv /\ [EpochsNext]_epochVars => HeldInv'
<1> SUFFICES ASSUME EShape, EShape', HeldInv, [EpochsNext]_epochVars PROVE HeldInv'
  OBVIOUS
<1>0. ecu.pc = "load" => ecu.todo = {}
  BY DEF HeldInv
<1>1. CASE ObserveBlock \/ GetEpoch
  <2>1. obs.pc # "client"
    BY <1>1 DEF ObserveBlock, GetEpoch, EShape, ObserverOK
  <2>2. UNCHANGED <<sig, ejob, ecu, logged>>
    BY <1>1 DEF ObserveBlock, GetEpoch
  <2> QED
    BY <1>0, <2>1, <2>2, HeldKept DEF HeldEpoch, PassedPending
<1>2. CASE InsertEpoch
  <2> DEFINE e == Head(obs.todo)
  <2>1. UNCHANGED <<ejob, ecu, logged>> /\ e \in Epochs /\ obs.pc # "client"
    BY <1>2 DEF InsertEpoch, EShape, ObserverOK
  <2>2. CASE sig' = [sig EXCEPT ![e] = "PENDING"] /\ obs' = [obs EXCEPT !.pc = "client"]
    <3>1. \A f \in Epochs : f = e => HeldEpoch(f)'
      BY <2>1, <2>2 DEF HeldEpoch, EShape, ObserverOK
    <3>2. \A f \in Epochs : f # e => sig'[f] = sig[f] /\ (HeldEpoch(f) => HeldEpoch(f)')
      BY <2>1, <2>2 DEF HeldEpoch, EShape, TableOK, ObserverOK
    <3> QED
      BY <1>0, <2>1, <3>1, <3>2, HeldKept DEF PassedPending
  <2>3. CASE sig' = sig
    BY <1>0, <2>1, <2>3, HeldKept DEF PassedPending, HeldEpoch
  <2> QED
    BY <1>2, <2>2, <2>3 DEF InsertEpoch, UpdateEpochStatus
<1>3. ASSUME NEW e \in Epochs, Starts(e)
      PROVE  /\ HeldEpoch(e)' \/ e \in logged'
             /\ \A f \in Epochs, j \in EpochJobs :
                   ejob[j].pc # "free" /\ ejob[j].e = f => ejob'[j].pc # "free" /\ ejob'[j].e = f
             /\ logged \subseteq logged'
  BY <1>3, StartsJobs DEF HeldEpoch, Live
<1>4. CASE StartEpoch
  <2> DEFINE e == Head(obs.todo)
  <2>1. e \in Epochs /\ Starts(e) /\ UNCHANGED <<sig, ecu>>
    BY <1>4, StartEpochStarts
  <2>2. \A f \in Epochs : HeldEpoch(f) /\ f # e => HeldEpoch(f)'
    BY <1>3, <2>1 DEF HeldEpoch
  <2> QED
    BY <1>0, <1>3, <2>1, <2>2, HeldKept DEF PassedPending
<1>5. CASE LoadEpochs
  <2>1. UNCHANGED <<sig, obs, ejob, logged>> /\ ecu.pc = "load" /\ ecu'.pc = "offer"
    BY <1>5 DEF LoadEpochs, EShape, PassOK
  <2>2. CASE ecu.phase = "PENDING"
    <3>1. \A e \in Epochs : sig[e] = "PENDING" => e \in ecu'.todo
      BY <1>5, <2>2 DEF LoadEpochs, EpochsWithStatus, EShape, PassOK
    <3> QED
      BY <2>1, <3>1 DEF HeldInv, HeldEpoch
  <2>3. CASE ecu.phase # "PENDING"
    BY <1>0, <2>1, <2>3, HeldKept DEF PassedPending, HeldEpoch
  <2> QED
    BY <2>2, <2>3
<1>6. CASE OfferEpoch
  <2>1. PICK e \in ecu.todo : Starts(e) /\ ecu' = [ecu EXCEPT !.todo = @ \ {e}]
    BY <1>6 DEF OfferEpoch, Starts
  <2>2. /\ e \in Epochs /\ UNCHANGED <<sig, obs>> /\ ecu.pc = "offer" /\ ecu'.pc = "offer"
        /\ \A f \in ecu.todo : f # e => f \in ecu'.todo
    BY <1>6, <2>1 DEF OfferEpoch, EShape, PassOK
  <2>3. \A f \in Epochs : HeldEpoch(f) /\ f # e => HeldEpoch(f)'
    BY <1>3, <2>1, <2>2 DEF HeldEpoch
  <2> QED
    BY <1>3, <2>1, <2>2, <2>3, HeldKept DEF PassedPending
<1>7. CASE EndPass
  <2>1. UNCHANGED <<sig, obs, ejob, logged>> /\ ecu'.todo = {} /\ ecu.todo = {}
    BY <1>7 DEF EndPass, EShape, PassOK
  <2>2. PassedPending
    BY <1>7 DEF EndPass, PassedPending
  <2> QED
    BY <2>1, <2>2, HeldKept DEF HeldEpoch
<1>8. ASSUME NEW j \in EpochJobs, OfferUpdate(j) \/ TakeUpdate(j) \/ SendUpdate(j) \/ AwaitUpdate(j)
      PROVE  HeldInv'
  <2>1. UNCHANGED <<sig, obs, ecu, logged>>
    BY <1>8 DEF OfferUpdate, TakeUpdate, SendUpdate, AwaitUpdate
  <2>3. \A k \in EpochJobs : ejob[k].pc # "free" => ejob'[k].pc # "free" /\ ejob'[k].e = ejob[k].e
    BY <1>8, JobGoesOn DEF Live
  <2> QED
    BY <1>0, <2>1, <2>3, HeldKept DEF PassedPending, HeldEpoch
<1>9. ASSUME NEW j \in EpochJobs, WriteResult(j) PROVE HeldInv'
  <2> DEFINE e == ejob[j].e
  <2>1. UNCHANGED <<obs, ecu>> /\ \A k \in EpochJobs : k # j => ejob'[k] = ejob[k]
    BY <1>9 DEF WriteResult, EShape, SlotsOK
  <2>2. \A f \in Epochs : f # e /\ HeldEpoch(f) => HeldEpoch(f)'
    BY <2>1 DEF HeldEpoch
  <2>3. \A f \in Epochs : f # e => sig'[f] = sig[f]
    BY <1>9 DEF WriteResult, UpdateEpochStatus, EShape, TableOK
  <2>4. (e \in Epochs => sig'[e] # "PENDING" \/ e \in logged') /\ logged \subseteq logged'
    BY <1>9 DEF WriteResult, UpdateEpochStatus, StatusOf, Log, EShape, TableOK
  <2> QED
    BY <1>0, <2>1, <2>2, <2>3, <2>4, HeldKept DEF PassedPending
<1>10. CASE \/ \E t \in EpochTxs : MineUpdate(t)
            \/ ForeignUpdate \/ RunFills \/ UNCHANGED epochVars
  <2>1. UNCHANGED <<sig, obs, ejob, ecu, logged>>
    BY <1>10 DEF MineUpdate, ForeignUpdate, RunFills, epochVars
  <2> QED
    BY <1>0, <2>1, HeldKept DEF PassedPending, HeldEpoch
<1>11. CASE StartProcess
  <2>1. CASE ecu' = EpochCatchUpAt("load")
    BY <2>1 DEF HeldInv, PassedPending, EpochCatchUpAt
  <2>2. CASE ecu' = ecu
    BY <1>0, <1>11, <2>2, HeldKept DEF StartProcess, PassedPending, HeldEpoch
  <2> QED
    BY <1>11, <2>1, <2>2 DEF StartProcess
<1>12. CASE EpochsCrash
  BY <1>12 DEF EpochsCrash, EpochCatchUpAt, HeldInv, PassedPending
<1> QED
  BY <1>1, <1>2, <1>4, <1>5, <1>6, <1>7, <1>8, <1>9, <1>10, <1>11, <1>12
     DEF EpochsNext, ObserverStep, CatchUpStep, EpochContainerStep

\* Once the catch-upper is done, a PENDING epoch is in somebody's hands or its
\* failure was logged, over crashes and failed queries.
THEOREM EpochsNotDropped == EpochsSpec => []NoEpochDropped
<1>1. EpochsInit => EShape /\ HeldInv
  BY EpochsInitShape, HeldInit
<1>2. EShape /\ HeldInv /\ [EpochsNext]_epochVars => EShape' /\ HeldInv'
  BY EpochsNextShape, HeldNext
<1>3. HeldInv => NoEpochDropped
  BY DEF HeldInv, NoEpochDropped, PassedPending
<1> QED
  BY <1>1, <1>2, <1>3, PTL DEF EpochsSpec

-----------------------------------------------------------------------------
(* Reopened epochs *)

LEMMA OffersInit == EpochsInit => OffersInv
  BY DEF EpochsInit, OffersInv, InHand, Live, FreeJob, ObserverIdle, EpochCatchUpAt

\* A step that starts nothing, finishes nothing and puts no other epoch into
\* anybody's hands.
LEMMA OffersKept ==
    ASSUME EShape, EShape', OffersInv, offers' = offers,
           \A e \in Epochs : sig'[e] = "PROCESSED" => sig[e] = "PROCESSED",
           \A j \in EpochJobs : Live(j)' => Live(j) /\ ejob'[j].e = ejob[j].e,
           \A e \in Epochs : (InHand(e) \/ e \in ecu.todo)' =>
                                InHand(e) \/ e \in ecu.todo \/ sig'[e] # "PROCESSED"
    PROVE  OffersInv'
<1>1. \A j \in EpochJobs : Live(j) => ejob[j].e \in Epochs
  BY DEF EShape, SlotsOK, Live
<1>2. \A j \in EpochJobs : Live(j)' =>
          /\ offers'[ejob'[j].e] >= 1
          /\ sig'[ejob'[j].e] = "PROCESSED" => offers'[ejob'[j].e] >= 2
          /\ \A k \in EpochJobs \ {j} : Live(k)' /\ ejob'[k].e = ejob'[j].e =>
                offers'[ejob'[j].e] >= 2
  BY <1>1 DEF OffersInv
<1>3. \A e \in Epochs :
          (InHand(e)' \/ e \in ecu'.todo) /\ sig'[e] = "PROCESSED" => offers'[e] >= 1
  BY DEF OffersInv
<1> QED
  BY <1>2, <1>3 DEF OffersInv

\* A container that is started for an epoch that is PROCESSED by now, or that has a
\* container, is at least the second one.
LEMMA OffersStarted ==
    ASSUME EShape, EShape', OffersInv, NEW e \in Epochs, Starts(e), sig' = sig,
           InHand(e) \/ e \in ecu.todo,
           \A f \in Epochs : (InHand(f) \/ f \in ecu.todo)' => InHand(f) \/ f \in ecu.todo
    PROVE  OffersInv'
<1>1. CASE ejob' = ejob /\ offers' = offers
  BY <1>1, OffersKept DEF Live
<1>2. ASSUME offers' = [offers EXCEPT ![e] = @ + 1],
             NEW j \in EpochJobs, ~Live(j), ejob'[j].e = e, ejob'[j].pc = "offer",
             \A k \in EpochJobs : k # j => ejob'[k] = ejob[k]
      PROVE  OffersInv'
  <2>1. /\ \A f \in Epochs : offers[f] \in Nat /\ offers'[f] \in Nat /\ offers'[f] >= offers[f]
        /\ offers'[e] = offers[e] + 1
    BY <1>2 DEF EShape, TableOK
  <2>2. sig[e] = "PROCESSED" => offers'[e] >= 2
    BY <2>1 DEF OffersInv
  <2>3. \A k \in EpochJobs : k # j /\ Live(k)' => Live(k) /\ ejob'[k].e = ejob[k].e /\ ejob[k].e \in Epochs
    BY <1>2 DEF EShape, SlotsOK, Live
  <2>4. \A k \in EpochJobs : k # j /\ Live(k)' /\ ejob'[k].e = e => offers'[e] >= 2
    BY <2>1, <2>3 DEF OffersInv
  <2>5. offers'[e] >= 1
    BY <2>1
  <2>6. \A i \in EpochJobs : Live(i)' =>
          /\ offers'[ejob'[i].e] >= 1
          /\ sig'[ejob'[i].e] = "PROCESSED" => offers'[ejob'[i].e] >= 2
          /\ \A k \in EpochJobs \ {i} : Live(k)' /\ ejob'[k].e = ejob'[i].e =>
                offers'[ejob'[i].e] >= 2
    <3> TAKE i \in EpochJobs
    <3> HAVE Live(i)'
    <3>1. CASE i = j
      BY <1>2, <2>2, <2>4, <2>5, <3>1
    <3>2. CASE i # j
      <4>1. Live(i) /\ ejob'[i].e = ejob[i].e /\ ejob[i].e \in Epochs
        BY <2>3, <3>2
      <4>2. offers'[ejob'[i].e] >= 1 /\ (sig'[ejob'[i].e] = "PROCESSED" => offers'[ejob'[i].e] >= 2)
        BY <2>1, <4>1 DEF OffersInv
      <4>3. ASSUME NEW k \in EpochJobs \ {i}, Live(k)', ejob'[k].e = ejob'[i].e
            PROVE  offers'[ejob'[i].e] >= 2
        <5>1. CASE k = j
          BY <1>2, <2>4, <3>2, <4>3, <5>1
        <5>2. CASE k # j
          BY <2>1, <2>3, <4>1, <4>3, <5>2 DEF OffersInv
        <5> QED
          BY <5>1, <5>2
      <4> QED
        BY <4>2, <4>3
    <3> QED
      BY <3>1, <3>2
  <2>7. \A f \in Epochs :
          (InHand(f)' \/ f \in ecu'.todo) /\ sig'[f] = "PROCESSED" => offers'[f] >= 1
    BY <2>1 DEF OffersInv
  <2> QED
    BY <2>6, <2>7 DEF OffersInv
<1> QED
  BY <1>1, <1>2, StartsJobs

\* Every step keeps OffersInv.
LEMMA OffersNext == EShape /\ EShape' /\ OffersInv /\ [EpochsNext]_epochVars => OffersInv'
<1> SUFFICES ASSUME EShape, EShape', OffersInv, [EpochsNext]_epochVars PROVE OffersInv'
  OBVIOUS
<1>1. CASE ObserveBlock \/ GetEpoch
  <2>1. obs'.pc # "client"
    BY <1>1 DEF ObserveBlock, GetEpoch, NextEpoch, EShape, ObserverOK
  <2> QED
    BY <1>1, <2>1, OffersKept DEF ObserveBlock, GetEpoch, Live, InHand
<1>2. CASE InsertEpoch
  <2> DEFINE e == Head(obs.todo)
  <2>1. e \in Epochs /\ UNCHANGED <<ejob, ecu, offers>>
    BY <1>2 DEF InsertEpoch, EShape, ObserverOK
  <2>2. CASE sig' = [sig EXCEPT ![e] = "PENDING"] /\ obs' = [obs EXCEPT !.pc = "client"]
    <3>1. \A f \in Epochs : /\ sig'[f] = "PROCESSED" => sig[f] = "PROCESSED"
                            /\ InHand(f)' => sig'[f] # "PROCESSED"
      BY <2>1, <2>2 DEF EShape, TableOK, ObserverOK, InHand
    <3> QED
      BY <2>1, <3>1, OffersKept DEF Live
  <2>3. CASE sig' = sig /\ obs' = [pc |-> "get", todo |-> Tail(obs.todo)]
    BY <2>1, <2>3, OffersKept DEF Live, InHand
  <2> QED
    BY <1>2, <2>2, <2>3 DEF InsertEpoch, UpdateEpochStatus, NextEpoch
<1>3. CASE StartEpoch
  <2>1. InHand(Head(obs.todo)) /\ Head(obs.todo) \in Epochs /\ Starts(Head(obs.todo))
    BY <1>3, StartEpochStarts DEF InHand
  <2>2. obs'.pc = "get" /\ sig' = sig /\ ecu' = ecu
    BY <1>3, StartEpochStarts
  <2> QED
    BY <2>1, <2>2, OffersStarted DEF InHand
<1>4. CASE LoadEpochs
  <2>1. \A e \in ecu'.todo : sig'[e] # "PROCESSED"
    BY <1>4 DEF LoadEpochs, EpochsWithStatus, EShape, PassOK
  <2> QED
    BY <1>4, <2>1, OffersKept DEF LoadEpochs, Live, InHand
<1>5. CASE OfferEpoch
  <2>1. PICK e \in ecu.todo : Starts(e) /\ ecu' = [ecu EXCEPT !.todo = @ \ {e}]
    BY <1>5 DEF OfferEpoch, Starts
  <2>2. e \in Epochs /\ ecu'.todo \subseteq ecu.todo
    BY <2>1 DEF EShape, PassOK
  <2> QED
    BY <1>5, <2>1, <2>2, OffersStarted DEF OfferEpoch, InHand
<1>6. CASE EndPass
  <2>1. ecu'.todo = ecu.todo
    BY <1>6 DEF EndPass, EShape, PassOK
  <2> QED
    BY <1>6, <2>1, OffersKept DEF EndPass, Live, InHand
<1>7. ASSUME NEW j \in EpochJobs, OfferUpdate(j) \/ TakeUpdate(j) \/ SendUpdate(j) \/ AwaitUpdate(j)
      PROVE  OffersInv'
  <2>1. \A k \in EpochJobs : Live(k)' => Live(k) /\ ejob'[k].e = ejob[k].e
    BY <1>7, JobGoesOn
  <2> QED
    BY <1>7, <2>1, OffersKept DEF OfferUpdate, TakeUpdate, SendUpdate, AwaitUpdate, InHand
<1>8. ASSUME NEW j \in EpochJobs, WriteResult(j) PROVE OffersInv'
  <2>1. /\ UNCHANGED <<obs, ecu, offers>> /\ Live(j) /\ ~Live(j)'
        /\ \A k \in EpochJobs : k # j => ejob'[k] = ejob[k]
    BY <1>8 DEF WriteResult, EShape, SlotsOK, Live, FreeJob
  <2>2. \A f \in Epochs : f # ejob[j].e => sig'[f] = sig[f]
    BY <1>8 DEF WriteResult, UpdateEpochStatus, EShape, TableOK
  <2>3. \A k \in EpochJobs : Live(k)' =>
           k # j /\ Live(k) /\ ejob'[k].e = ejob[k].e /\ ejob[k].e \in Epochs
    BY <2>1 DEF Live, EShape, SlotsOK
  <2>4. \A k \in EpochJobs : Live(k)' /\ ejob[k].e = ejob[j].e => offers[ejob[k].e] >= 2
    BY <2>1, <2>3 DEF OffersInv
  <2>5. \A k \in EpochJobs : Live(k)' =>
          /\ offers'[ejob'[k].e] >= 1
          /\ sig'[ejob'[k].e] = "PROCESSED" => offers'[ejob'[k].e] >= 2
          /\ \A i \in EpochJobs \ {k} : Live(i)' /\ ejob'[i].e = ejob'[k].e =>
                offers'[ejob'[k].e] >= 2
    BY <2>1, <2>2, <2>3, <2>4 DEF OffersInv
  <2>6. \A f \in Epochs :
          (InHand(f)' \/ f \in ecu'.todo) /\ sig'[f] = "PROCESSED" => offers'[f] >= 1
    BY <2>1, <2>2 DEF OffersInv, InHand
  <2> QED
    BY <2>5, <2>6 DEF OffersInv
<1>9. CASE \/ \E t \in EpochTxs : MineUpdate(t)
           \/ ForeignUpdate \/ RunFills \/ UNCHANGED epochVars
  BY <1>9, OffersKept DEF MineUpdate, ForeignUpdate, RunFills, epochVars, Live, InHand
<1>10. CASE StartProcess
  BY <1>10, OffersKept DEF StartProcess, EpochCatchUpAt, Live, InHand
<1>11. CASE EpochsCrash
  <2>1. (\A j \in EpochJobs : ~Live(j)') /\ ecu'.todo = {} /\ obs'.pc = "get"
    BY <1>11 DEF EpochsCrash, FreeJob, ObserverIdle, EpochCatchUpAt, Live
  <2> QED
    BY <2>1 DEF OffersInv, InHand
<1> QED
  BY <1>1, <1>2, <1>3, <1>4, <1>5, <1>6, <1>7, <1>8, <1>9, <1>10, <1>11
     DEF EpochsNext, ObserverStep, CatchUpStep, EpochContainerStep

\* A step that takes PROCESSED from a row is the write of a second container.
LEMMA ReopenedStep ==
    ASSUME EShape, OffersInv, [EpochsNext]_epochVars, NEW e \in Epochs,
           sig[e] = "PROCESSED", sig'[e] # "PROCESSED"
    PROVE  offers[e] >= 2
<1>1. CASE sig' = sig
  BY <1>1
<1>2. CASE InsertEpoch
  <2>1. ~InsertSucceeds(e)
    BY DEF InsertSucceeds, SameKey
  <2> QED
    BY <1>2, <2>1 DEF InsertEpoch, UpdateEpochStatus, EShape, TableOK
<1>3. ASSUME NEW j \in EpochJobs, WriteResult(j) PROVE offers[e] >= 2
  <2>1. ejob[j].e = e /\ Live(j)
    BY <1>3 DEF WriteResult, UpdateEpochStatus, Live, EShape, TableOK
  <2> QED
    BY <2>1 DEF OffersInv
<1>4. CASE ObserveBlock \/ GetEpoch \/ StartEpoch \/ CatchUpStep
  BY <1>1, <1>4 DEF ObserveBlock, GetEpoch, StartEpoch, CatchUpStep, LoadEpochs, OfferEpoch,
     EndPass
<1>5. ASSUME NEW j \in EpochJobs, OfferUpdate(j) \/ TakeUpdate(j) \/ SendUpdate(j) \/ AwaitUpdate(j)
      PROVE  offers[e] >= 2
  BY <1>1, <1>5 DEF OfferUpdate, TakeUpdate, SendUpdate, AwaitUpdate
<1>6. CASE \/ \E t \in EpochTxs : MineUpdate(t)
           \/ ForeignUpdate \/ StartProcess \/ RunFills \/ EpochsCrash \/ UNCHANGED epochVars
  BY <1>1, <1>6 DEF MineUpdate, ForeignUpdate, StartProcess, RunFills, EpochsCrash, epochVars
<1> QED
  BY <1>2, <1>3, <1>4, <1>5, <1>6
     DEF EpochsNext, ObserverStep, EpochContainerStep

\* A PROCESSED epoch is reopened only by a second container that the same process
\* started for it, over any number of crashes, epochs and containers.
THEOREM ReopenedByDuplicate == EpochsSpec => ReopenedOnlyByDuplicate
<1>1. EpochsInit => EShape /\ OffersInv
  BY EpochsInitShape, OffersInit
<1>2. EShape /\ OffersInv /\ [EpochsNext]_epochVars => EShape' /\ OffersInv'
  BY EpochsNextShape, OffersNext
<1>3. EShape /\ OffersInv /\ [EpochsNext]_epochVars =>
         [\A e \in Epochs :
             sig[e] = "PROCESSED" /\ sig'[e] # "PROCESSED" => offers[e] >= 2]_epochVars
  BY ReopenedStep
<1> QED
  BY <1>1, <1>2, <1>3, PTL DEF EpochsSpec, ReopenedOnlyByDuplicate

=============================================================================
