----------------------------- MODULE RelayerState -----------------------------
(***************************************************************************)
(* The state the parts of the relayer share. One process (runService) runs *)
(* API handlers, the observer, the catch-upper, the network workers of a   *)
(* withdrawal chain and the core submitter as goroutines over shared       *)
(* memory. The database, the withdrawal chain and Bridgeless core outlive  *)
(* the process.                                                            *)
(***************************************************************************)
EXTENDS DepositsQ, Sequences, FiniteSets

CONSTANTS
    Deposits,           \* deposit identifiers
    Handlers,           \* concurrent SubmitWithdrawal calls of the API
    Observers,          \* the observer goroutine: one, or none without its flag
    Jobs,               \* slots for withdrawal containers (a bound)
    TxIds,              \* withdrawal transactions that can be sent (a bound)
    NoDeposit,          \* the deposit of an idle slot
    Workers,            \* network workers of the chain: client.WorkersCount()
    SubmitPoolSize,     \* capacity of submitChan
    BatchSize,          \* submitBatchSize
    Retries,            \* core.Retries: attempts of DoWithRetry
    RecoveryAttempts,   \* recovery attempts of the configuration
    CatchUpFlag,        \* the values of the --catch-up flag an operator uses
    Verified,           \* Withdraw returns no error only for a mined success
    Faults              \* what may go wrong in the surroundings

\* db: a query fails. rpc: a chain query or send fails. revert: a withdrawal
\* reverts on chain. core: a call to core fails. crash: the process is killed.
\* foreign: another relayer pays or reports a deposit. config: the process is
\* started with a configuration that lacks the chain of some deposits.
FaultKinds == {"db", "rpc", "revert", "core", "crash", "foreign", "config"}

Requesters == Handlers \cup Observers

\* WithdrawalTxHash: nil, the empty string, the default (null) hash, the
\* transaction of another relayer, or one of ours.
SpecialHashes == {"nil", "empty", "null", "foreign"}
Hashes == TxIds \cup SpecialHashes

ASSUME DepositsAssumption == NoDeposit \notin Deposits
ASSUME TxIdsAssumption == TxIds \cap SpecialHashes = {}
ASSUME BoundsAssumption ==
    /\ Workers \in Nat \ {0} /\ SubmitPoolSize \in Nat \ {0}
    /\ BatchSize \in Nat \ {0} /\ Retries \in Nat \ {0}
    /\ RecoveryAttempts \in Nat
ASSUME SwitchesAssumption ==
    /\ CatchUpFlag \subseteq BOOLEAN
    /\ Verified \in BOOLEAN
    /\ Faults \subseteq FaultKinds

VARIABLES
    row,            \* the deposits table
    tx,             \* withdrawal transactions of this relayer on the chain
    paid,           \* deposits the bridge contract has paid out
    core,           \* withdrawal tx hash of each deposit on Bridgeless core
    up,             \* whether the process runs
    served,         \* deposits whose chain the process has a client for
    cache,          \* Broadcaster.cache
    recoveryLimit,  \* Broadcaster.recoveryAttempts
    req,            \* BroadcastDeposit calls in progress
    job,            \* containers from their sender goroutine to their end
    submitChan,     \* Broadcaster.submitChan
    pool,           \* submitTxPool of the core submitter
    sub,            \* control state of the core submitter
    cu              \* control state of the catch-upper

durable == <<row, tx, paid, core>>
vars == <<row, tx, paid, core, up, served, cache, recoveryLimit, req, job,
          submitChan, pool, sub, cu>>

-----------------------------------------------------------------------------
(* Shapes *)

TxStates == {"unused", "pending", "success", "reverted"}

RequestPcs == {"idle", "cache", "chain", "row", "insert", "store"}

JobPcs == {"free", "queued",
           "bcStart", "bcAwStatus", "bcAwDetails", "bcProcessing",
           "cuProcessing", "cuChain", "cuSkipStatus", "cuSkipDetails",
           "cuCheck", "cuSubmitted",
           "withdraw", "finalize", "details", "submitting",
           "failStatus", "wfStatus", "wfDetails",
           "evict", "panic", "submit"}

\* A *db.Deposit handed over in memory: its identifier, its status, its hash.
Reports == [d : Deposits, st : WithdrawalStatus, hash : Hashes]

Idle == [pc |-> "idle", d |-> NoDeposit]
Free == [pc |-> "free", kind |-> "none", d |-> NoDeposit,
         st |-> "PENDING", hash |-> "nil"]

AllIdle == [r \in Requesters |-> Idle]
AllFree == [j \in Jobs |-> Free]
Receiving == [pc |-> "recv", tries |-> 0, i |-> 1]
NoEntry == [d |-> NoDeposit, hash |-> "nil"]
CatchUpAt(pc) == [pc |-> pc, phase |-> "PENDING", todo |-> {}, cur |-> NoEntry]

\* IsProcessed of the chain client: whether the bridge contract paid the deposit.
IsProcessed(d) == d \in paid

\* A container that has not ended, for deposit d.
Live(d) == {j \in Jobs : job[j].pc # "free" /\ job[j].d = d}

\* Containers a network worker is running, its send on submitChan included.
Running == {j \in Jobs : job[j].pc \notin {"free", "queued"}}

-----------------------------------------------------------------------------
(* The container that a sender goroutine offers to the network workers. The
   sender and the channel's buffer are one set of queued containers. *)

Spawn(j, kind, d, st, hash) ==
    /\ job[j].pc = "free"
    /\ job' = [job EXCEPT ![j] = [pc |-> "queued", kind |-> kind, d |-> d,
                                  st |-> st, hash |-> hash]]

\* The memory of the process is gone: a kill, a panic in any goroutine, or
\* the error return of one member of the errgroup.
ProcessDies ==
    /\ up' = FALSE
    /\ served' = {}
    /\ cache' = {}
    /\ recoveryLimit' = 0
    /\ req' = AllIdle
    /\ job' = AllFree
    /\ submitChan' = <<>>
    /\ pool' = <<>>
    /\ sub' = Receiving
    /\ cu' = CatchUpAt("off")

=============================================================================
