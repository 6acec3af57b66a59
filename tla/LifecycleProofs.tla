--------------------------- MODULE LifecycleProofs ---------------------------
(***************************************************************************)
(* Proofs about start and shutdown, for any number of callers' goroutines, *)
(* workers and containers: the wait group counts the goroutines that are   *)
(* alive, and what follows from that when the channels are closed.         *)
(***************************************************************************)
EXTENDS Lifecycle, FiniteSetTheorems, TLAPS

SenderRecords == [pc : {"free", "new", "send", "nil"}, kind : Kinds, late : BOOLEAN]
BeforeWorkers == {"new", "clients", "pools", "maps"}
BeforeWait == BeforeWorkers \cup {"insert"}

ProcOK ==
    /\ proc \in {"boot", "clients", "retry", "core", "account", "tendermint", "listeners",
                 "up", "exited", "dead"}
    /\ ctx \in {"live", "cancelled"}
    /\ returned \in SUBSET Members
    /\ brun \in BeforeWait \cup {"waiting", "closing", "returned"}

PoolOK ==
    /\ buf \in [Kinds -> 0..ChainPool]
    /\ worker \in [PoolWorker -> {"off", "idle", "running", "sending", "left"}]
    /\ submit \in 0..SubmitPool
    /\ submitter \in {"off", "idle", "busy", "left"}

SendersOK == sender \in [SenderSlots -> SenderRecords]

\* The wait group counts the goroutines that are alive.
Counted == wg = LiveGoroutines

\* What has been started at each point of Run; and once its wait is over, only
\* senders that came later are alive.
Phases ==
    /\ brun \in BeforeWorkers => \A w \in PoolWorker : worker[w] = "off"
    /\ brun \in BeforeWait <=> submitter = "off"
    /\ WaitIsOver => /\ \A s \in LiveSenders : sender[s].late
                     /\ LiveWorkers = {} /\ submitter = "left"
    /\ PanicOnlyLate

LifeInv == ProcOK /\ PoolOK /\ SendersOK /\ Counted /\ Phases

-----------------------------------------------------------------------------
(* Counting *)

LEMMA PoolWorkerFinite == IsFiniteSet(PoolWorker) /\ Cardinality(PoolWorker) \in Nat
<1>1. IsFiniteSet(Kinds)
  <2>1. IsFiniteSet({"withdraw"}) /\ IsFiniteSet({"update"})
    BY FS_Singleton
  <2>2. Kinds = {"withdraw"} \cup {"update"}
    BY DEF Kinds
  <2> QED
    BY <2>1, <2>2, FS_Union
<1>2. IsFiniteSet(1..PoolWorkers)
  BY FS_Interval, LifecycleAssumption
<1>3. IsFiniteSet(PoolWorker)
  BY <1>1, <1>2, FS_Product DEF PoolWorker
<1> QED
  BY <1>3, FS_CardinalityType

\* The live goroutines are finitely many, so they can be counted.
LEMMA LiveFinite ==
    /\ IsFiniteSet(LiveSenders) /\ Cardinality(LiveSenders) \in Nat
    /\ IsFiniteSet(LiveWorkers) /\ Cardinality(LiveWorkers) \in Nat
<1>1. LiveSenders \in SUBSET SenderSlots /\ LiveWorkers \in SUBSET PoolWorker
  BY DEF LiveSenders, LiveWorkers
<1>2. IsFiniteSet(LiveSenders) /\ IsFiniteSet(LiveWorkers)
  BY <1>1, FS_Subset, PoolWorkerFinite, LifecycleAssumption
<1> QED
  BY <1>2, FS_CardinalityType

\* Nobody is alive exactly when the counter is zero.
LEMMA ZeroIsNobody ==
    ASSUME Counted
    PROVE  /\ wg \in Nat
           /\ wg = 0 <=> LiveSenders = {} /\ LiveWorkers = {} /\ submitter \in {"off", "left"}
  BY LiveFinite, FS_EmptySet DEF Counted, LiveGoroutines

\* A step that starts and ends no goroutine.
LEMMA CountKept ==
    ASSUME Counted, wg' = wg, LiveSenders' = LiveSenders, LiveWorkers' = LiveWorkers,
           submitter' \in {"off", "left"} <=> submitter \in {"off", "left"}
    PROVE  Counted'
  BY DEF Counted, LiveGoroutines

\* A goroutine that offers a container starts.
LEMMA CountSpawn ==
    ASSUME Counted, wg' = wg + 1, NEW s, s \notin LiveSenders,
           LiveSenders' = LiveSenders \cup {s}, LiveWorkers' = LiveWorkers,
           submitter' = submitter
    PROVE  Counted'
<1>1. Cardinality(LiveSenders \cup {s}) = Cardinality(LiveSenders) + 1
  BY LiveFinite, FS_AddElement
<1> QED
  BY <1>1, LiveFinite DEF Counted, LiveGoroutines

\* It ends: the counter was positive, and goes down by one.
LEMMA CountSenderEnds ==
    ASSUME Counted, wg' = IF wg = 0 THEN 0 ELSE wg - 1, NEW s \in LiveSenders,
           LiveSenders' = LiveSenders \ {s}, LiveWorkers' = LiveWorkers,
           submitter' = submitter
    PROVE  Counted'
<1>1. Cardinality(LiveSenders \ {s}) = Cardinality(LiveSenders) - 1
  BY LiveFinite, FS_RemoveElement
<1>2. wg # 0
  BY ZeroIsNobody
<1> QED
  BY <1>1, <1>2, LiveFinite DEF Counted, LiveGoroutines

\* A network worker leaves.
LEMMA CountWorkerLeaves ==
    ASSUME Counted, wg' = wg - 1, NEW w \in LiveWorkers, LiveSenders' = LiveSenders,
           LiveWorkers' = LiveWorkers \ {w}, submitter' = submitter
    PROVE  Counted'
<1>1. Cardinality(LiveWorkers \ {w}) = Cardinality(LiveWorkers) - 1
  BY LiveFinite, FS_RemoveElement
<1> QED
  BY <1>1, LiveFinite DEF Counted, LiveGoroutines

-----------------------------------------------------------------------------
(* The invariant *)

\* The state of a process that has not started, or that died.
Fresh ==
    /\ proc \in {"boot", "dead"} /\ PanicOnlyLate
    /\ ctx = "live" /\ returned = {} /\ brun = "new" /\ wg = 0 /\ sender = NoSenders
    /\ buf = NoContainers /\ worker = NoWorkers /\ submit = 0 /\ submitter = "off"

\* Such a process has no goroutines.
LEMMA FreshLife == Fresh => LifeInv
<1> SUFFICES ASSUME Fresh PROVE LifeInv
  OBVIOUS
<1> USE DEF Fresh
<1>1. LiveSenders = {} /\ LiveWorkers = {}
  BY DEF LiveSenders, LiveWorkers, NoSenders, NoWorkers, FreeSender
<1>2. ProcOK
  BY DEF ProcOK, BeforeWait, BeforeWorkers
<1>3. PoolOK
  BY LifecycleAssumption DEF PoolOK, NoContainers, NoWorkers
<1>4. SendersOK
  BY DEF SendersOK, SenderRecords, NoSenders, FreeSender, Kinds
<1>5. Counted
  BY <1>1, FS_EmptySet DEF Counted, LiveGoroutines
<1>6. Phases
  BY DEF Phases, WaitIsOver, NoWorkers, BeforeWait, BeforeWorkers
<1> QED
  BY <1>2, <1>3, <1>4, <1>5, <1>6 DEF LifeInv

\* The process starts fresh.
LEMMA LifeInit == LifecycleInit => LifeInv
  BY FreshLife DEF LifecycleInit, Fresh, PanicOnlyLate, Alive

\* A panic leaves no goroutine behind; only the one on a closed channel needs the
\* invariant.
LEMMA LifeDies ==
    ASSUME NEW why, NEW late, why = "closed channel" => late, Die(why, late)
    PROVE  LifeInv'
<1>1. Fresh' => LifeInv'
  BY FreshLife, PTL
<1>2. Fresh'
  BY DEF Die, Fresh, PanicOnlyLate
<1> QED
  BY <1>1, <1>2

\* A step of the process or of a caller that leaves the goroutines alone.
LEMMA LifeKept ==
    ASSUME LifeInv, ProcOK',
           UNCHANGED <<death, brun, wg, sender, buf, worker, submit, submitter>>
    PROVE  LifeInv'
<1>1. LiveSenders' = LiveSenders /\ LiveWorkers' = LiveWorkers
  BY DEF LiveSenders, LiveWorkers
<1>2. Counted'
  BY <1>1, CountKept DEF LifeInv
<1>3. Phases'
  BY <1>1 DEF LifeInv, Phases, WaitIsOver, PanicOnlyLate
<1> QED
  BY <1>2, <1>3 DEF LifeInv, PoolOK, SendersOK

\* runService, the signal and the end of the members.
LEMMA LifeProcess ==
    ASSUME LifeInv, Boot \/ Signal \/ Exit \/ \E c \in Callers : EndMember(c)
    PROVE  LifeInv'
<1>1. ASSUME NEW at, NEW next, BootStep(at, next),
             next \in {"clients", "retry", "core", "account", "tendermint", "listeners",
                       "up", "exited"},
             returned' \in SUBSET Members
      PROVE  LifeInv'
  <2>1. ProcOK'
    BY <1>1 DEF BootStep, bcastVars, LifeInv, ProcOK
  <2> QED
    BY <1>1, <2>1, LifeKept DEF BootStep, bcastVars
<1>2. ASSUME NEW at, NEW sections, NEW next, ReadsSections(at, sections, next),
             next \in {"retry", "core", "account", "listeners"}
      PROVE  LifeInv'
  <2>1. CASE BootStep(at, next) /\ UNCHANGED returned
    BY <1>1, <1>2, <2>1 DEF LifeInv, ProcOK
  <2>2. CASE Die("config", FALSE)
    BY <2>2, LifeDies
  <2> QED
    BY <1>2, <2>1, <2>2 DEF ReadsSections
<1>3. CASE ConfigFromFlags \/ NewConnector
  BY <1>1, <1>3 DEF ConfigFromFlags, NewConnector, LifeInv, ProcOK
<1>4. CASE ReadClients \/ ReadRetry \/ CoreConnectorConfig \/ TendermintHttpClient
  BY <1>2, <1>4 DEF ReadClients, ReadRetry, CoreConnectorConfig, TendermintHttpClient
<1>5. CASE StartMembers
  <2>1. CASE Die("config", FALSE)
    BY <2>1, LifeDies
  <2>2. CASE /\ BootStep("listeners", "up")
             /\ \E off \in SUBSET {"observer", "catchup"} : returned' = off
    BY <1>1, <2>2 DEF Members, Callers
  <2> QED
    BY <1>5, <2>1, <2>2 DEF StartMembers
<1>6. CASE Signal \/ Exit
  <2>1. ProcOK'
    BY <1>6 DEF Signal, Exit, bcastVars, LifeInv, ProcOK
  <2> QED
    BY <1>6, <2>1, LifeKept DEF Signal, Exit, bcastVars
<1>7. ASSUME NEW c \in Callers, EndMember(c) PROVE LifeInv'
  <2>1. ProcOK'
    BY <1>7 DEF EndMember, bcastVars, LifeInv, ProcOK, Members
  <2> QED
    BY <1>7, <2>1, LifeKept DEF EndMember, bcastVars
<1> QED
  BY <1>3, <1>4, <1>5, <1>6, <1>7 DEF Boot

\* The observer's configuration and the calls into the broadcaster.
LEMMA LifeCallers ==
    ASSUME LifeInv,
           ObserverPollingInterval \/ BlockDelay \/ \E c \in Callers : Call(c)
    PROVE  LifeInv'
<1>1. ASSUME OnlyCaller, UNCHANGED <<wg, sender>> PROVE LifeInv'
  BY <1>1, LifeKept DEF OnlyCaller, LifeInv, ProcOK
<1>2. CASE ObserverPollingInterval \/ BlockDelay
  BY <1>1, <1>2, LifeDies DEF ObserverPollingInterval, BlockDelay, ObserverReads
<1>3. CASE \E c \in Callers : Call(c)
  BY <1>1, <1>3, LifeDies DEF Call
<1> QED
  BY <1>2, <1>3

\* A goroutine that offers a container starts: late if the wait is over.
LEMMA LifeSpawn ==
    ASSUME LifeInv, NEW c \in Callers, NEW k \in Kinds, Spawn(c, k)
    PROVE  LifeInv'
<1> DEFINE s == FreeSlot
<1>1. s \in SenderSlots /\ sender[s].pc = "free"
  BY DEF Spawn, Offer, FreeSlot
<1>2. /\ sender' = [sender EXCEPT ![s] = [pc |-> "new", kind |-> k, late |-> WaitIsOver]]
      /\ UNCHANGED <<proc, death, ctx, returned, brun, buf, worker, submit, submitter>>
      /\ wg' = wg + 1
  BY DEF Spawn, Offer, OnlyCaller
<1> HIDE DEF s
<1>3. SendersOK'
  BY <1>1, <1>2 DEF LifeInv, SendersOK, SenderRecords, WaitIsOver
<1>4. /\ LiveSenders' = LiveSenders \cup {s} /\ s \notin LiveSenders
      /\ LiveWorkers' = LiveWorkers
  BY <1>1, <1>2 DEF LifeInv, SendersOK, SenderRecords, LiveSenders, LiveWorkers
<1>5. Counted'
  BY <1>2, <1>4, CountSpawn DEF LifeInv
<1>6. WaitIsOver => \A r \in LiveSenders' : sender'[r].late
  BY <1>1, <1>2, <1>4 DEF LifeInv, SendersOK, Phases, LiveSenders
<1>7. Phases'
  BY <1>2, <1>4, <1>6 DEF LifeInv, Phases, WaitIsOver, PanicOnlyLate
<1> QED
  BY <1>2, <1>3, <1>5, <1>7 DEF LifeInv, ProcOK, PoolOK

\* The goroutine that offers a container ends.
LEMMA LifeSenderEnds ==
    ASSUME LifeInv, NEW s \in SenderSlots, sender[s].pc # "free", SenderEnds(s),
           buf' \in [Kinds -> 0..ChainPool],
           UNCHANGED <<proc, death, ctx, returned, brun, worker, submit, submitter>>
    PROVE  LifeInv'
<1>1. SendersOK'
  BY DEF LifeInv, SenderEnds, SendersOK, SenderRecords, FreeSender, Kinds
<1>2. /\ LiveSenders' = LiveSenders \ {s} /\ s \in LiveSenders
      /\ LiveWorkers' = LiveWorkers
      /\ \A r \in LiveSenders' : sender'[r] = sender[r]
  BY DEF LifeInv, SenderEnds, SendersOK, SenderRecords, FreeSender, LiveSenders, LiveWorkers
<1>3. Counted'
  BY <1>2, CountSenderEnds DEF LifeInv, SenderEnds
<1>4. Phases'
  BY <1>2 DEF LifeInv, Phases, WaitIsOver, PanicOnlyLate
<1> QED
  BY <1>1, <1>3, <1>4 DEF LifeInv, ProcOK, PoolOK

\* Steps of the goroutine that offers a container. When it meets a closed channel,
\* Run has returned, and the goroutine was started after the wait.
LEMMA LifeSender ==
    ASSUME LifeInv, NEW s \in SenderSlots, SenderStep(s)
    PROVE  LifeInv'
<1>1. CASE Select(s)
  <2>1. CASE Die("map race", FALSE)
    BY <2>1, LifeDies
  <2>2. ASSUME NEW pc \in {"send", "nil"}, sender' = [sender EXCEPT ![s].pc = pc],
               sender[s].pc = "new",
               UNCHANGED <<proc, death, ctx, returned, brun, wg, buf, worker, submit, submitter>>
        PROVE  LifeInv'
    <3>1. /\ SendersOK' /\ LiveSenders' = LiveSenders /\ LiveWorkers' = LiveWorkers
          /\ \A r \in SenderSlots : sender'[r].late = sender[r].late
      BY <2>2 DEF LifeInv, SendersOK, SenderRecords, LiveSenders, LiveWorkers
    <3>2. Counted'
      BY <2>2, <3>1, CountKept DEF LifeInv
    <3>3. Phases'
      BY <2>2, <3>1 DEF LifeInv, Phases, WaitIsOver, PanicOnlyLate, LiveSenders
    <3> QED
      BY <2>2, <3>1, <3>2, <3>3 DEF LifeInv, ProcOK, PoolOK
  <2> QED
    BY <1>1, <2>1, <2>2 DEF Select
<1>2. CASE Send(s)
  <2>1. buf' \in [Kinds -> 0..ChainPool] /\ sender[s].pc # "free"
    BY <1>2, LifecycleAssumption DEF Send, LifeInv, PoolOK, SendersOK, SenderRecords
  <2> QED
    BY <1>2, <2>1, LifeSenderEnds DEF Send
<1>3. CASE StopSending(s)
  <2>1. buf' \in [Kinds -> 0..ChainPool] /\ sender[s].pc # "free"
    BY <1>3 DEF StopSending, LifeInv, PoolOK
  <2> QED
    BY <1>3, <2>1, LifeSenderEnds DEF StopSending
<1>4. CASE SendOnClosed(s)
  <2>1. sender[s].late
    BY <1>4 DEF SendOnClosed, LifeInv, Phases, WaitIsOver, LiveSenders
  <2> QED
    BY <1>4, <2>1, LifeDies DEF SendOnClosed
<1> QED
  BY <1>1, <1>2, <1>3, <1>4 DEF SenderStep

\* Steps of Run that start and end no goroutine.
LEMMA LifeRunGoesOn ==
    ASSUME LifeInv, brun' \in BeforeWait \cup {"waiting", "closing", "returned"},
           brun' \in BeforeWorkers => brun \in BeforeWorkers,
           brun' \in BeforeWait <=> brun \in BeforeWait,
           WaitIsOver' => WaitIsOver \/ wg = 0,
           returned' \in SUBSET Members,
           UNCHANGED <<proc, death, ctx, wg, sender, buf, worker, submit, submitter>>
    PROVE  LifeInv'
<1>1. LiveSenders' = LiveSenders /\ LiveWorkers' = LiveWorkers
  BY DEF LiveSenders, LiveWorkers
<1>2. Counted'
  BY <1>1, CountKept DEF LifeInv
<1>3. WaitIsOver' => /\ \A s \in LiveSenders : sender[s].late
                     /\ LiveWorkers = {} /\ submitter = "left"
  <2>1. WaitIsOver' => submitter # "off"
    BY DEF WaitIsOver, LifeInv, Phases, BeforeWait, BeforeWorkers
  <2>2. wg = 0 => LiveSenders = {} /\ LiveWorkers = {} /\ submitter \in {"off", "left"}
    BY ZeroIsNobody DEF LifeInv
  <2> QED
    BY <2>1, <2>2 DEF LifeInv, Phases
<1>4. Phases'
  BY <1>1, <1>3 DEF LifeInv, Phases, PanicOnlyLate
<1> QED
  BY <1>2, <1>4 DEF LifeInv, ProcOK, PoolOK, SendersOK

\* Broadcaster.Run.
LEMMA LifeRun ==
    ASSUME LifeInv, BroadcasterStep
    PROVE  LifeInv'
<1> USE DEF BeforeWait, BeforeWorkers
<1>0. returned \in SUBSET Members
  BY DEF LifeInv, ProcOK
<1>1. CASE WithClients \/ MakeMaps
  BY <1>0, <1>1, LifeRunGoesOn DEF WithClients, MakeMaps, OnlyRun, WaitIsOver
<1>2. CASE WithPools
  BY <1>0, <1>2, LifeRunGoesOn, LifeDies DEF WithPools, OnlyRun, WaitIsOver
<1>3. CASE StartWorkers
  <2>1. LiveWorkers = {} /\ LiveWorkers' = PoolWorker /\ LiveSenders' = LiveSenders
    BY <1>3 DEF StartWorkers, LifeInv, Phases, LiveWorkers, LiveSenders
  <2>2. Counted'
    BY <1>3, <2>1, LiveFinite, PoolWorkerFinite, FS_EmptySet
       DEF StartWorkers, LifeInv, Counted, LiveGoroutines
  <2>3. PoolOK'
    BY <1>3 DEF StartWorkers, LifeInv, PoolOK
  <2>4. Phases'
    BY <1>3, <2>1 DEF StartWorkers, LifeInv, Phases, WaitIsOver, PanicOnlyLate
  <2> QED
    BY <1>3, <2>2, <2>3, <2>4 DEF StartWorkers, LifeInv, ProcOK, SendersOK
<1>4. CASE StartSubmitter
  <2>1. /\ LiveWorkers' = LiveWorkers /\ LiveSenders' = LiveSenders
        /\ submitter = "off" /\ submitter' = "idle"
    BY <1>4 DEF StartSubmitter, LifeInv, Phases, LiveWorkers, LiveSenders
  <2>2. Counted'
    BY <1>4, <2>1, LiveFinite DEF StartSubmitter, LifeInv, Counted, LiveGoroutines
  <2>3. Phases'
    BY <1>4, <2>1 DEF StartSubmitter, LifeInv, Phases, WaitIsOver, PanicOnlyLate
  <2> QED
    BY <1>4, <2>2, <2>3 DEF StartSubmitter, LifeInv, ProcOK, PoolOK, SendersOK
<1>5. CASE WaitWorkers
  BY <1>0, <1>5, LifeRunGoesOn DEF WaitWorkers, OnlyRun, WaitIsOver
<1>6. CASE CloseChannels
  BY <1>0, <1>6, LifeRunGoesOn DEF CloseChannels, OnlyRun, WaitIsOver, Members
<1> QED
  BY <1>1, <1>2, <1>3, <1>4, <1>5, <1>6 DEF BroadcasterStep

\* Network workers and the core submitter at work: nobody starts or ends.
LEMMA LifeWorks ==
    ASSUME LifeInv, PoolOK', OnlyWorker, wg' = wg, LiveWorkers' = LiveWorkers,
           \A w \in PoolWorker : worker[w] = "off" => worker'[w] = "off",
           \/ submitter' = submitter
           \/ submitter \in {"idle", "busy"} /\ submitter' \in {"idle", "busy"}
    PROVE  LifeInv'
<1>1. LiveSenders' = LiveSenders
  BY DEF OnlyWorker, LiveSenders
<1>2. Counted'
  BY <1>1, CountKept DEF LifeInv
<1>3. /\ submitter' = "off" <=> submitter = "off"
      /\ submitter = "left" => submitter' = "left"
  OBVIOUS
<1>4. UNCHANGED <<death, brun, sender>>
  BY DEF OnlyWorker
<1>5. Phases'
  BY <1>1, <1>3, <1>4 DEF LifeInv, Phases, WaitIsOver, PanicOnlyLate
<1> QED
  BY <1>2, <1>5 DEF OnlyWorker, LifeInv, ProcOK, SendersOK

\* Every step of a worker keeps LifeInv.
LEMMA LifeWorker ==
    ASSUME LifeInv, NEW w \in PoolWorker, WorkerStep(w)
    PROVE  LifeInv'
<1>0. w[1] \in Kinds
  BY DEF PoolWorker
<1> DEFINE Busy == {"idle", "running", "sending"}
<1>1. ASSUME NEW pc \in Busy, worker[w] \in Busy, worker' = [worker EXCEPT ![w] = pc],
             buf' \in [Kinds -> 0..ChainPool], submit' \in 0..SubmitPool,
             submitter' = submitter, wg' = wg, OnlyWorker
      PROVE  LifeInv'
  <2>1. PoolOK'
    BY <1>1 DEF LifeInv, PoolOK
  <2>2. LiveWorkers' = LiveWorkers /\ \A v \in PoolWorker : worker[v] = "off" => worker'[v] = "off"
    BY <1>1 DEF LifeInv, PoolOK, LiveWorkers
  <2> QED
    BY <1>1, <2>1, <2>2, LifeWorks
<1>2. CASE TakeContainerOf(w)
  <2>1. buf' \in [Kinds -> 0..ChainPool]
    BY <1>0, <1>2, LifecycleAssumption DEF TakeContainerOf, LifeInv, PoolOK
  <2> QED
    BY <1>1, <1>2, <2>1 DEF TakeContainerOf, LifeInv, PoolOK
<1>3. CASE WorkerLeaves(w)
  <2>1. PoolOK'
    BY <1>3 DEF WorkerLeaves, LifeInv, PoolOK
  <2>2. LiveWorkers' = LiveWorkers \ {w} /\ w \in LiveWorkers /\ LiveSenders' = LiveSenders
    BY <1>3 DEF WorkerLeaves, OnlyWorker, LifeInv, PoolOK, LiveWorkers, LiveSenders
  <2>3. Counted'
    BY <1>3, <2>2, CountWorkerLeaves DEF WorkerLeaves, LifeInv
  <2>4. ~WaitIsOver /\ brun \notin BeforeWorkers
    BY <1>3, <2>2 DEF WorkerLeaves, LifeInv, Phases
  <2>5. Phases'
    BY <1>3, <2>4 DEF WorkerLeaves, OnlyWorker, LifeInv, Phases, WaitIsOver, PanicOnlyLate
  <2> QED
    BY <1>3, <2>1, <2>3, <2>5 DEF WorkerLeaves, OnlyWorker, LifeInv, ProcOK, SendersOK
<1>4. CASE EndContainer(w)
  BY <1>1, <1>4 DEF EndContainer, LifeInv, PoolOK
<1>5. CASE SendDeposit(w)
  <2>1. submit' \in 0..SubmitPool
    BY <1>5, LifecycleAssumption DEF SendDeposit, LifeInv, PoolOK
  <2> QED
    BY <1>1, <1>5, <2>1 DEF SendDeposit, LifeInv, PoolOK
<1> QED
  BY <1>2, <1>3, <1>4, <1>5 DEF WorkerStep

\* Every step of the submitter keeps LifeInv.
LEMMA LifeSubmitter ==
    ASSUME LifeInv, SubmitterStep
    PROVE  LifeInv'
<1>1. CASE ReceiveForCore \/ EndBatch
  <2>1. PoolOK'
    BY <1>1, LifecycleAssumption DEF ReceiveForCore, EndBatch, LifeInv, PoolOK
  <2>2. LiveWorkers' = LiveWorkers /\ worker' = worker
    BY <1>1 DEF ReceiveForCore, EndBatch, LiveWorkers
  <2> QED
    BY <1>1, <2>1, <2>2, LifeWorks DEF ReceiveForCore, EndBatch
<1>2. CASE SubmitterLeaves
  <2>1. LiveWorkers' = LiveWorkers /\ LiveSenders' = LiveSenders
    BY <1>2 DEF SubmitterLeaves, OnlyWorker, LiveWorkers, LiveSenders
  <2>2. Counted'
    BY <1>2, <2>1, LiveFinite DEF SubmitterLeaves, LifeInv, Counted, LiveGoroutines
  <2>3. Phases'
    BY <1>2, <2>1 DEF SubmitterLeaves, OnlyWorker, LifeInv, Phases, WaitIsOver, PanicOnlyLate
  <2> QED
    BY <1>2, <2>2, <2>3 DEF SubmitterLeaves, OnlyWorker, LifeInv, ProcOK, PoolOK, SendersOK
<1> QED
  BY <1>1, <1>2 DEF SubmitterStep

\* No step breaks the invariant.
LEMMA LifeNext == LifeInv /\ [LifecycleNext]_lifeVars => LifeInv'
<1> SUFFICES ASSUME LifeInv, [LifecycleNext]_lifeVars PROVE LifeInv'
  OBVIOUS
<1>1. CASE UNCHANGED lifeVars
  BY <1>1, LifeKept DEF lifeVars, LifeInv, ProcOK
<1> QED
  BY <1>1, LifeProcess, LifeCallers, LifeSpawn, LifeSender, LifeRun, LifeWorker, LifeSubmitter
     DEF LifecycleNext

\* LifeInv holds in every reachable state, through every restart of the process.
THEOREM LifeInvariant == LifecycleSpec => []LifeInv
  BY LifeInit, LifeNext, PTL DEF LifecycleSpec

-----------------------------------------------------------------------------
(* Theorems *)

\* Channels stay within their capacities and the wait group of Run counts exactly
\* the goroutines that are alive, through every start, shutdown and panic.
THEOREM LifecycleTypeCorrect == LifecycleSpec => []LifecycleTypeOK
<1>1. LifeInv => LifecycleTypeOK
  BY DEF LifeInv, ProcOK, PoolOK, Counted, LifecycleTypeOK
<1> QED
  BY <1>1, LifeInvariant, PTL

\* When Run closes the channels no network worker and no submitter is left that
\* could use them.
THEOREM ClosedQuietly == LifecycleSpec => []ClosedIsQuiet
<1>1. LifeInv => ClosedIsQuiet
  BY DEF LifeInv, Phases, WaitIsOver, LiveWorkers, ClosedIsQuiet
<1> QED
  BY <1>1, LifeInvariant, PTL

\* A send on a closed channel kills the process only for a container that was
\* offered after wg.Wait had returned.
THEOREM PanicsOnlyLate == LifecycleSpec => []PanicOnlyLate
<1>1. LifeInv => PanicOnlyLate
  BY DEF LifeInv, Phases
<1> QED
  BY <1>1, LifeInvariant, PTL

=============================================================================
