----------------------------- MODULE Lifecycle -----------------------------
(***************************************************************************)
(* Start and shutdown of the service. runService starts the servers, the   *)
(* broadcaster, the observer and the catch-upper as members of one         *)
(* errgroup; Broadcaster.Run creates the channels while the others may     *)
(* already call into it, waits for its goroutines and closes the channels. *)
(* What a container does is left to Containers and Epochs: here it runs    *)
(* and ends. One chain, with a channel for each kind of container.         *)
(***************************************************************************)
EXTENDS Naturals, FiniteSets

CONSTANTS
    SenderSlots,    \* goroutines that offer a container (a bound)
    PoolWorkers,    \* client.WorkersCount()
    ChainPool,      \* capacity of a chain's channels (chain_tx_pool_size)
    SubmitPool,     \* capacity of submitChan (submit_tx_pool_size)
    CallBound,      \* calls into the broadcaster (a bound)
    BadSections     \* sections of the configuration that may be broken

Kinds == {"withdraw", "update"}
Callers == {"grpc", "http", "observer", "catchup"}
Members == Callers \cup {"broadcaster"}
PoolWorker == Kinds \X (1..PoolWorkers)

\* Read by runService itself, and read by a goroutine at its first use.
BootSections == {"log", "chain", "db", "retry", "core_connector", "tendermint_connector", "listeners"}
LazySections == {"broadcaster", "observer", "block_delay", "recovery"}

ASSUME LifecycleAssumption ==
    /\ IsFiniteSet(SenderSlots)
    /\ PoolWorkers \in Nat /\ ChainPool \in Nat \ {0} /\ SubmitPool \in Nat \ {0}
    /\ BadSections \subseteq BootSections \cup LazySections

VARIABLES
    proc,       \* the process: at a step of its start, up, exited or dead
    death,      \* why it died, and whether by a container offered after wg.Wait
    calls,      \* calls into the broadcaster so far
    ctx,        \* the context all members share: live or cancelled
    returned,   \* members of the errgroup that have returned
    brun,       \* position of the broadcaster's goroutine
    wg,         \* counter of the broadcaster's wait group
    caller,     \* position of each caller of the broadcaster
    sender,     \* goroutines that offer a container
    buf,        \* containers in each channel
    worker,     \* position of each network worker
    submit,     \* deposits in submitChan
    submitter   \* position of the core submitter

lifeVars == <<proc, death, calls, ctx, returned, brun, wg, caller, sender, buf,
              worker, submit, submitter>>
bcastVars == <<brun, wg, caller, sender, buf, worker, submit, submitter>>

FreeSender == [pc |-> "free", kind |-> "withdraw", late |-> FALSE]
Alive == [why |-> "none", late |-> FALSE]

NewCallers == [c \in Callers |-> IF c = "observer" THEN "config" ELSE "idle"]
NoSenders == [s \in SenderSlots |-> FreeSender]
NoContainers == [k \in Kinds |-> 0]
NoWorkers == [w \in PoolWorker |-> "off"]

LifecycleInit ==
    /\ proc = "boot" /\ death = Alive
    /\ calls = 0 /\ ctx = "live" /\ returned = {} /\ brun = "new" /\ wg = 0
    /\ caller = NewCallers /\ sender = NoSenders /\ buf = NoContainers
    /\ worker = NoWorkers /\ submit = 0 /\ submitter = "off"

\* A panic that nobody recovers ends the process, and its memory with it.
Die(why, late) ==
    /\ proc' = "dead" /\ death' = [why |-> why, late |-> late]
    /\ calls' = 0 /\ ctx' = "live" /\ returned' = {} /\ brun' = "new" /\ wg' = 0
    /\ caller' = NewCallers /\ sender' = NoSenders /\ buf' = NoContainers
    /\ worker' = NoWorkers /\ submit' = 0 /\ submitter' = "off"

-----------------------------------------------------------------------------
(* runService *)

\* Steps of the start that touch nothing but the process itself.
BootStep(at, next) ==
    /\ proc = at /\ proc' = next
    /\ UNCHANGED <<death, calls, ctx, bcastVars>>

Broken(sections) == BadSections \cap sections # {}

\* A section of the configuration is read once. One that is broken, or that
\* names a node that does not answer, panics.
ReadsSections(at, sections, next) ==
    \/ BootStep(at, next) /\ UNCHANGED returned
    \/ proc = at /\ Broken(sections) /\ Die("config", FALSE)

\* The flags and the file of the configuration; errors are returned.
ConfigFromFlags == \E next \in {"clients", "exited"} : BootStep("boot", next) /\ UNCHANGED returned

\* What runService reads before it starts anything, in its order. Core is asked
\* for the account in between, whose error is returned.
ReadClients == ReadsSections("clients", {"log", "chain", "db"}, "retry")
ReadRetry == ReadsSections("retry", {"retry"}, "core")
CoreConnectorConfig == ReadsSections("core", {"core_connector"}, "account")
NewConnector == \E next \in {"tendermint", "exited"} : BootStep("account", next) /\ UNCHANGED returned
TendermintHttpClient == ReadsSections("tendermint", {"tendermint_connector"}, "listeners")

\* The listeners, and then the members: the observer and the catch-upper only
\* if their flags are set.
StartMembers ==
    \/ /\ BootStep("listeners", "up")
       /\ \E off \in SUBSET {"observer", "catchup"} : returned' = off
    \/ proc = "listeners" /\ Broken({"listeners"}) /\ Die("config", FALSE)

Boot == ConfigFromFlags \/ ReadClients \/ ReadRetry \/ CoreConnectorConfig \/ NewConnector
        \/ TendermintHttpClient \/ StartMembers

\* SIGTERM or SIGINT. The start goes on all the same.
Signal ==
    /\ proc \notin {"boot", "exited", "dead"} /\ ctx = "live"
    /\ ctx' = "cancelled"
    /\ UNCHANGED <<proc, death, calls, returned, bcastVars>>

\* A member returns; with an error it cancels the context of the others. The
\* gRPC server waits for its handlers, the HTTP server does not (beyond a
\* second).
EndMember(c) ==
    /\ proc = "up" /\ c \in Callers \ returned
    /\ caller[c] = "idle" \/ c = "http"
    /\ returned' = returned \cup {c}
    /\ \/ ctx = "cancelled" \/ c = "catchup"
       \/ ctx' = "cancelled"
    /\ ctx' \in {ctx, "cancelled"}
    /\ UNCHANGED <<proc, death, calls, bcastVars>>

\* eg.Wait returns and so does main.
Exit ==
    /\ proc = "up" /\ returned = Members
    /\ proc' = "exited"
    /\ UNCHANGED <<death, calls, ctx, returned, bcastVars>>

-----------------------------------------------------------------------------
(* Callers of the broadcaster *)

OnlyCaller == UNCHANGED <<proc, death, ctx, returned, brun, buf, worker, submit, submitter>>

\* The observer reads its sections in its own goroutine, one after the other.
ObserverReads(at, section, next) ==
    /\ proc = "up" /\ caller["observer"] = at /\ "observer" \notin returned
    /\ \/ Broken({section}) /\ Die("config", FALSE)
       \/ /\ caller' = [caller EXCEPT !["observer"] = next]
          /\ UNCHANGED <<calls, wg, sender>> /\ OnlyCaller

ObserverPollingInterval == ObserverReads("config", "observer", "delay")
BlockDelay == ObserverReads("delay", "block_delay", "idle")

\* RecoveryParams reads its section in the handler that needs it first.
RecoveryParamsPanics == Broken({"recovery"})

\* A request, a deposit or an epoch of a block, a row to catch up, as far as
\* b.clientsRepo.Client: a nil interface until WithClients was called. Handlers
\* of the API recover from the panic, and from that of a broken recovery
\* section.
Call(c) ==
    /\ proc = "up" /\ caller[c] = "idle" /\ c \notin returned /\ calls < CallBound
    /\ \/ /\ brun # "new"
          /\ caller' = [caller EXCEPT ![c] = "spawn"] /\ calls' = calls + 1
          /\ UNCHANGED <<wg, sender>> /\ OnlyCaller
       \/ /\ c \in {"grpc", "http"} /\ (brun = "new" \/ RecoveryParamsPanics)
          /\ UNCHANGED <<calls, caller, wg, sender>> /\ OnlyCaller
       \/ c \in {"observer", "catchup"} /\ brun = "new" /\ Die("nil client", FALSE)

WaitIsOver == brun \in {"closing", "returned"}

FreeSlot == CHOOSE s \in SenderSlots : sender[s].pc = "free"

Offer(c, k) ==
    /\ proc = "up" /\ caller[c] = "spawn"
    /\ \E s \in SenderSlots : sender[s].pc = "free"
    /\ c \in {"grpc", "http"} => k = "withdraw"
    /\ sender' = [sender EXCEPT ![FreeSlot] = [pc |-> "new", kind |-> k, late |-> WaitIsOver]]
    /\ caller' = [caller EXCEPT ![c] = "idle"]
    /\ UNCHANGED calls /\ OnlyCaller

\* Faulty variant of Spawn: the goroutine is not counted.
SpawnUncounted(c, k) == Offer(c, k) /\ UNCHANGED wg

\* b.wg.Add(1), or wg.Go, and the goroutine that offers the container.
Spawn(c, k) == Offer(c, k) /\ wg' = wg + 1

-----------------------------------------------------------------------------
(* The goroutine that offers a container *)

SenderEnds(s) ==
    /\ sender' = [sender EXCEPT ![s] = FreeSender]
    /\ wg' = IF wg = 0 THEN 0 ELSE wg - 1

HasChannels == brun \notin {"new", "clients", "pools", "maps"}
Inserted == brun \notin {"new", "clients", "pools", "maps", "insert"}

\* select evaluates the map once, when it is entered. While Run inserts, the
\* read races with the write: either outcome, or the runtime's fatal error.
Select(s) ==
    /\ proc = "up" /\ sender[s].pc = "new"
    /\ \/ /\ \/ HasChannels /\ sender' = [sender EXCEPT ![s].pc = "send"]
             \/ ~Inserted /\ sender' = [sender EXCEPT ![s].pc = "nil"]
          /\ UNCHANGED <<proc, death, calls, ctx, returned, brun, wg, caller, buf, worker, submit, submitter>>
       \/ brun = "insert" /\ Die("map race", FALSE)

Send(s) ==
    /\ proc = "up" /\ sender[s].pc = "send" /\ brun # "returned"
    /\ buf[sender[s].kind] < ChainPool
    /\ buf' = [buf EXCEPT ![sender[s].kind] = @ + 1]
    /\ SenderEnds(s)
    /\ UNCHANGED <<proc, death, calls, ctx, returned, brun, caller, worker, submit, submitter>>

\* Faulty variant of StopSending: a nil channel is not left at the cancellation.
StopSendingNilForgotten(s) ==
    /\ proc = "up" /\ sender[s].pc = "send" /\ ctx = "cancelled"
    /\ SenderEnds(s)
    /\ UNCHANGED <<proc, death, calls, ctx, returned, brun, caller, buf, worker, submit, submitter>>

\* b.ctx.Done(); the only way out for a nil channel.
StopSending(s) ==
    /\ proc = "up" /\ sender[s].pc \in {"send", "nil"} /\ ctx = "cancelled"
    /\ SenderEnds(s)
    /\ UNCHANGED <<proc, death, calls, ctx, returned, brun, caller, buf, worker, submit, submitter>>

\* select may choose the send on a closed channel, which panics.
SendOnClosed(s) ==
    /\ proc = "up" /\ sender[s].pc = "send" /\ brun = "returned"
    /\ Die("closed channel", sender[s].late)

-----------------------------------------------------------------------------
(* Broadcaster.Run *)

OnlyRun == UNCHANGED <<proc, death, calls, ctx, caller, sender, buf, worker, submit, submitter>>

\* WithClients, then the pool sizes from the configuration.
WithClients ==
    /\ proc = "up" /\ brun = "new"
    /\ brun' = "clients"
    /\ UNCHANGED <<wg, returned>> /\ OnlyRun

WithPools ==
    /\ proc = "up" /\ brun = "clients"
    /\ \/ Broken({"broadcaster"}) /\ Die("config", FALSE)
       \/ brun' = "pools" /\ UNCHANGED <<wg, returned>> /\ OnlyRun

MakeMaps ==
    /\ proc = "up" /\ brun = "pools"
    /\ brun' = "maps"
    /\ UNCHANGED <<wg, returned>> /\ OnlyRun

\* Faulty variant of StartWorkers: the loop that starts them stops one
\* short.
StartWorkersOffByOne ==
    /\ proc = "up" /\ brun = "maps"
    /\ brun' = "insert"
    /\ worker' = [w \in PoolWorker |-> IF w[2] < PoolWorkers THEN "idle" ELSE "off"]
    /\ wg' = wg + Cardinality({w \in PoolWorker : w[2] < PoolWorkers})
    /\ UNCHANGED <<proc, death, calls, ctx, returned, caller, sender, buf, submit, submitter>>

\* The workers of the chain start, then its channels go into the maps.
StartWorkers ==
    /\ proc = "up" /\ brun = "maps"
    /\ brun' = "insert"
    /\ worker' = [w \in PoolWorker |-> "idle"]
    /\ wg' = wg + Cardinality(PoolWorker)
    /\ UNCHANGED <<proc, death, calls, ctx, returned, caller, sender, buf, submit, submitter>>

StartSubmitter ==
    /\ proc = "up" /\ brun = "insert"
    /\ brun' = "waiting"
    /\ submitter' = "idle"
    /\ wg' = wg + 1
    /\ UNCHANGED <<proc, death, calls, ctx, returned, caller, sender, buf, worker, submit>>

\* Faulty variant of WaitWorkers: the channels are closed at the cancellation.
WaitWorkersSkipped ==
    /\ proc = "up" /\ brun = "waiting" /\ ctx = "cancelled"
    /\ brun' = "closing"
    /\ UNCHANGED <<wg, returned>> /\ OnlyRun

\* Faulty variant of WaitWorkers: Wait covers the workers and the submitter only.
WaitWorkersOnly ==
    /\ proc = "up" /\ brun = "waiting" /\ submitter = "left"
    /\ \A w \in PoolWorker : worker[w] = "left"
    /\ brun' = "closing"
    /\ UNCHANGED <<wg, returned>> /\ OnlyRun

WaitWorkers ==
    /\ proc = "up" /\ brun = "waiting" /\ wg = 0
    /\ brun' = "closing"
    /\ UNCHANGED <<wg, returned>> /\ OnlyRun

CloseChannels ==
    /\ proc = "up" /\ brun = "closing"
    /\ brun' = "returned"
    /\ returned' = returned \cup {"broadcaster"}
    /\ UNCHANGED wg /\ OnlyRun

BroadcasterStep == WithClients \/ WithPools \/ MakeMaps \/ StartWorkers \/ StartSubmitter
                   \/ WaitWorkers \/ CloseChannels

-----------------------------------------------------------------------------
(* Network workers and the core submitter *)

OnlyWorker == UNCHANGED <<proc, death, calls, ctx, returned, brun, caller, sender>>

TakeContainerOf(w) ==
    /\ proc = "up" /\ worker[w] = "idle" /\ buf[w[1]] > 0
    /\ buf' = [buf EXCEPT ![w[1]] = @ - 1]
    /\ worker' = [worker EXCEPT ![w] = "running"]
    /\ UNCHANGED <<wg, submit, submitter>> /\ OnlyWorker

WorkerLeaves(w) ==
    /\ proc = "up" /\ worker[w] = "idle" /\ ctx = "cancelled"
    /\ worker' = [worker EXCEPT ![w] = "left"]
    /\ wg' = wg - 1
    /\ UNCHANGED <<buf, submit, submitter>> /\ OnlyWorker

\* The container ends: with an error, or with a deposit to report to core.
EndContainer(w) ==
    /\ proc = "up" /\ worker[w] = "running"
    /\ \/ worker' = [worker EXCEPT ![w] = "idle"]
       \/ w[1] = "withdraw" /\ worker' = [worker EXCEPT ![w] = "sending"]
    /\ UNCHANGED <<wg, buf, submit, submitter>> /\ OnlyWorker

\* The send on submitChan does not look at the context.
SendDeposit(w) ==
    /\ proc = "up" /\ worker[w] = "sending" /\ submit < SubmitPool
    /\ submit' = submit + 1
    /\ worker' = [worker EXCEPT ![w] = "idle"]
    /\ UNCHANGED <<wg, buf, submitter>> /\ OnlyWorker

ReceiveForCore ==
    /\ proc = "up" /\ submitter = "idle" /\ submit > 0
    /\ submit' = submit - 1 /\ submitter' = "busy"
    /\ UNCHANGED <<wg, buf, worker>> /\ OnlyWorker

\* UpdateTxInfo with retries, which the cancellation ends, and the marking.
EndBatch ==
    /\ proc = "up" /\ submitter = "busy"
    /\ submitter' = "idle"
    /\ UNCHANGED <<wg, buf, worker, submit>> /\ OnlyWorker

SubmitterLeaves ==
    /\ proc = "up" /\ submitter = "idle" /\ ctx = "cancelled"
    /\ submitter' = "left" /\ wg' = wg - 1
    /\ UNCHANGED <<buf, worker, submit>> /\ OnlyWorker

-----------------------------------------------------------------------------
SenderStep(s) == Select(s) \/ Send(s) \/ StopSending(s) \/ SendOnClosed(s)
WorkerStep(w) == TakeContainerOf(w) \/ WorkerLeaves(w) \/ EndContainer(w) \/ SendDeposit(w)
SubmitterStep == ReceiveForCore \/ EndBatch \/ SubmitterLeaves

LifecycleNext ==
    \/ Boot \/ Signal \/ Exit \/ ObserverPollingInterval \/ BlockDelay \/ BroadcasterStep \/ SubmitterStep
    \/ \E c \in Callers : EndMember(c) \/ Call(c)
    \/ \E c \in Callers, k \in Kinds : Spawn(c, k)
    \/ \E s \in SenderSlots : SenderStep(s)
    \/ \E w \in PoolWorker : WorkerStep(w)

LifecycleSpec == LifecycleInit /\ [][LifecycleNext]_lifeVars

\* What goroutines do by themselves. The wait for an update-signers transaction
\* ends for sure only at a cancellation. Signals, requests and errors of members
\* are not among it: they promise nothing.
Progress ==
    \/ Boot \/ Exit \/ ObserverPollingInterval \/ BlockDelay \/ BroadcasterStep \/ SubmitterStep
    \/ \E c \in Callers : ctx = "cancelled" /\ EndMember(c)
    \/ \E c \in Callers, k \in Kinds : Spawn(c, k)
    \/ \E s \in SenderSlots : SenderStep(s)
    \/ \E w \in PoolWorker :
          \/ TakeContainerOf(w) \/ WorkerLeaves(w) \/ SendDeposit(w)
          \/ (w[1] = "withdraw" \/ ctx = "cancelled") /\ EndContainer(w)

\* The scheduler runs some goroutine that can run. With finitely many calls every
\* goroutine then gets its turn, so nothing stronger is needed.
LifecycleFairSpec == LifecycleSpec /\ WF_lifeVars(Progress)

-----------------------------------------------------------------------------
(* Properties *)

LiveSenders == {s \in SenderSlots : sender[s].pc # "free"}
LiveWorkers == {w \in PoolWorker : worker[w] \notin {"off", "left"}}

LiveGoroutines ==
    Cardinality(LiveSenders) + Cardinality(LiveWorkers)
    + (IF submitter \in {"off", "left"} THEN 0 ELSE 1)

\* The variables have their types, channels stay within their capacities, and
\* the wait group counts exactly the goroutines that are alive.
LifecycleTypeOK ==
    /\ proc \in {"boot", "clients", "retry", "core", "account", "tendermint", "listeners",
                "up", "exited", "dead"}
    /\ ctx \in {"live", "cancelled"}
    /\ returned \subseteq Members
    /\ \A k \in Kinds : buf[k] \in 0..ChainPool
    /\ submit \in 0..SubmitPool
    /\ wg = LiveGoroutines

\* When Run closes the channels no worker and no submitter is left that could
\* use them: no deposit paid at the last moment meets a closed submitChan.
ClosedIsQuiet ==
    brun \in {"closing", "returned"} =>
        /\ \A w \in PoolWorker : worker[w] \in {"off", "left"}
        /\ submitter = "left"

\* A send on a closed channel kills the process only for a container that was
\* offered after wg.Wait had returned, by a handler or by the catch-upper, which
\* do not look at the context: whatever was accepted before gets away.
PanicOnlyLate == death.why = "closed channel" => death.late

Stuck(w) == worker[w] = "sending" /\ submitter = "left" /\ submit = SubmitPool

\* After a signal or an error of a member the process ends, except when a worker
\* has a deposit for submitChan, the channel is full and the submitter has left:
\* the send at network_worker.go:35 has no case for the context.
ShutdownReturns ==
    ctx = "cancelled" ~> (proc \in {"exited", "dead"} \/ \E w \in PoolWorker : Stuck(w))

\* A deposit offered while Run waits for its workers is taken by one of them, or
\* the service is shutting down. Only an offer made before the channels are in
\* the map, in the race at start, waits for ever.
AcceptedIsTaken ==
    \A s \in SenderSlots :
        (brun = "waiting" /\ sender[s].pc = "new" /\ sender[s].kind = "withdraw")
            ~> (sender[s].pc = "free" \/ ctx = "cancelled" \/ proc = "dead")

=============================================================================
