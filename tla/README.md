# Relayer service: TLA+ models, checks and proofs

The Bridgeless relayer takes deposits that Bridgeless core has signed, pays them
out through the bridge contract of the withdrawal chain, and reports the hash of
the paying transaction to core. It also passes new signers of core (epochs) on to
the bridge contracts. It keeps one database row per deposit and per epoch. The
models follow both from the API or the observer to the end, with the failures,
restarts and shutdowns on the way, and look into the clients of the three kinds
of chain. Names in the modules are those of the Go code where TLA+ allows it.
`PROJECT.json` maps each definition to its lines.

## 1. The system

| Component | State it keeps | Operations | Modelled by |
|---|---|---|---|
| `depositsQ` (`internal/db/postgres`) | table of deposits | `Insert`, `Get`, `GetWithStatus`, `UpdateStatus`, `UpdateWithdrawalDetails`, `UpdateRecoveryData` | `DepositsQ` |
| `signaturesQ` | table of epochs | `Insert`, `Get`, `GetWithStatus`, `UpdateStatus` | `Epochs` |
| API (`internal/api/grpc`) | none | `SubmitWithdrawal`; read-only `CheckWithdrawal`, `GetWithdrawalsByStatus` | `Broadcaster` (`SubmitWithdrawal`), `Lifecycle` (the servers) |
| Observer (`internal/core/observer`) | block cursor, persisted height | polls core blocks, parses them, calls `BroadcastDeposit`, `BroadcastEpoch` | `Observer` (the walk), `BlockEvents` (the parsing), `Broadcaster` (`ObserveDeposit`), `Epochs` (`ObserveBlock`) |
| Broadcaster | `cache`, `recoveryAttempts`, worker channels, `submitChan`, wait group | `BroadcastDeposit`, `checkExistence`, `CatchUp`, `BroadcastEpoch`, `CatchUpEpoch`, `Run` | `Broadcaster`, `CatchUpper`, `Epochs`, `Lifecycle` |
| Containers | one deposit or epoch in memory | `Run` of the four containers | `Containers`, `Epochs` |
| Network workers | the container at work | take, run, evict or hand over, leave | `Containers`, `Epochs`, `Lifecycle` |
| Core submitter | `submitTxPool` | batch, report with retries, mark, clear, leave | `CoreSubmitter`, `Lifecycle` |
| Connector | account sequence (read afresh) | `GetDeposit`, `UpdateTxInfo`, `NewConnector` | `CoreSubmitter`, `Lifecycle` |
| Catch-upper | snapshot of rows | three deposit passes, two epoch passes | `CatchUpper`, `Epochs` |
| Chain clients | signers, split over child clients | `IsProcessed`, `Withdraw`, `UpdateSigners` | `ChainClient`, `EvmClient`, `SolanaClient`, `TonClient` |
| Contract bindings | none | constructors, (de)serialization, layouts | `SolanaInstructions`, `EvmClient` (`AbiInputs`), `TonClient` (`nativeFields` and others) |
| Process (`cmd/service/run`), configuration | flags, sections | `runService` | `Lifecycle`; its death in `Relayer` and `Epochs` |

**Interaction.** API handlers and the observer call `BroadcastDeposit` in their
own goroutines. It starts a sender goroutine per deposit, which offers a
container on the channel of the withdrawal chain. A fixed number of workers
takes containers and runs them. `Run` writes rows and calls the chain through a
child client drawn at random. A deposit that ends well goes to `submitChan`, and
the submitter reports it. Epochs take the same way on channels and workers of
their own, without a cache and without a report. The catch-upper runs once at
start, next to everything else. The shared memory is `cache` (a `sync.Map`), the
channels and `recoveryAttempts`. No lock spans two of these steps, and no
database transaction spans two statements.

**What is hard.** The cache is checked and stored in different steps. The
catch-upper works on a snapshot that ages. Each database write in a container
may fail, and most errors are only logged. `Run` may return an error without its
deposit. A transaction may be mined after its sender gave up or died. A report
may be committed although the call failed. `submitChan` is bounded. Callers may
be faster than the start of the broadcaster and slower than its end. Workers may
share a signer and its nonce. `IsProcessed` and `Withdraw` compute the mark of a
withdrawal by different code. A chain may be gone from the configuration while
rows of its deposits are left. The process may die between any two steps.
`hazards` in `PROJECT.json` lists these at their lines.

**What makes each part correct.**
- The database and core never claim a withdrawal that was not paid
  (`SettledIsPaid`, `ReportedIsPaid`, and both as a refinement, `PromiseKept`),
  and core gets the right hash (`ReportedHashPaid`).
- The cache, which refuses a deposit for the life of the process, holds no
  deposit of a configured chain that is neither paid nor worked on
  (`NoStrandedCache`).
- An unfinished row is in somebody's hands (`UnsettledIsHeld`, `UnpaidIsHeld`),
  and whatever is held has a row (`HeldHasRow`).
- One container per deposit (`OneContainer`); a settled row stays settled
  (`SettledStaysSettled`).
- Accepted deposits are finished (`Settles`), paid ones are reported
  (`ReportsEventually`).
- The observer passes no block over in silence (`NoBlockSkipped`), resumes safely
  (`ResumeIsSafe`), keeps its distance (`DistanceKept`) and gets on
  (`EventuallyHandled`).
- An epoch is PROCESSED only if the contract took it (`ProcessedIsApplied`), none
  is dropped in silence (`NoEpochDropped`), a finished one is reopened only by a
  second container (`ReopenedOnlyByDuplicate`), and only a transaction that is not
  mined or a sender that came before `Run` holds one up (`EpochSettles`).
- Channels close after their last user (`ClosedIsQuiet`), but for offers made
  after the wait (`PanicOnlyLate`); the service stops (`ShutdownReturns`) and takes
  what it accepted (`AcceptedIsTaken`).
- Child clients share no key (`ClashWithinChild`); a result without an error means
  a payment (`OkIsPaid`); `IsProcessed` and the contract agree (`OpenIffPayable`);
  a missing vault ends the process once at most (`VaultPanicsOnce`); calls return,
  but for one wait without a deadline (`CallReturns`).
- Recovery attempts are limited (`RecoveriesBounded`) and well-formed deposits are
  sent (`WellFormedIsSent`). The code breaks both; see section 4.

## 2. Modules

```
DepositsQ            the table of deposits and its statements
  RelayerState       constants, variables, shapes, Spawn, ProcessDies
    Broadcaster      SubmitWithdrawal, ObserveDeposit, BroadcastDeposit
    CatchUpper       Start of the catch-upper, CatchUp
    Containers       the two Run methods, the withdrawal worker
    CoreSubmitter    runCoreSubmitter, UpdateTxInfo
    WithdrawalChain  the contract, other relayers (external)
      Relayer        composition, start, crash, properties, fairness
        MCRelayer      symmetry, for TLC
        MCRecovery     a history variable that counts recoveries
        RelayerProofs  theorems
          PromiseProofs  Relayer implements Promise
          HeldProofs     no deposit is left behind
            CallerProofs   without catch-up, and with one caller
Promise              what the relayer promises, seen from outside
Observer             fetchEvents, its block cursor and its saved height
  ObserverProofs     theorems
BlockEvents          what the observer reads from a block
  Epochs             the update-signers pipeline, from the block to the row
    MCEpochs           blocks, for TLC
    EpochsProofs       theorems
Lifecycle            runService, Broadcaster.Run, signals and panics
  LifecycleProofs    theorems
ChainClient          child clients, a call from start to result
  EvmClient          calldata, nonce, gas, send, finalize, WaitMined
  SolanaClient       accounts, instructions, vault, SendTx
    SolanaInstructions  the bindings of the bridge program
  TonClient          cells, wallet, bridge
    ChainClients     the three together, properties, fairness
      MCChainClients   deposits and epochs, for TLC
      ChainClientsProofs  theorems
```

Five specifications, `Relayer`, `Observer`, `Epochs`, `Lifecycle` and
`ChainClients`, each take a part of the others for granted:

- What the observer hands over is, for `Relayer`, a call of `BroadcastDeposit`
  with any deposit at any time (`ObserveDeposit`).
- `Relayer` takes `Withdraw` as a send and a wait, `IsProcessed` as a look at the
  contract, and `Verified` as a property of the client. `ChainClients` shows that
  this is right: `OkIsPaid` is `Verified`, and `OpenIffPayable` is the look.
- `Relayer` and `Epochs` have a crash between any two steps, which covers what an
  orderly shutdown leaves in the database. `Lifecycle` has the shutdown itself,
  where a container is just something that runs and ends.
- `Epochs` has the outcomes of the EVM client's `UpdateSigners`. `ChainClients` has
  that call itself, with its nonce and its rivals, and those of the other two.

A call is cut into one action per step that another goroutine can see: each
lookup, each SQL statement, each chain or core call, each channel operation.
Local computation belongs to the step before or after it.

| Code | Model |
|---|---|
| `BroadcastDeposit` in progress | `req[r]`: `cache`, `chain`, `row` (the three parts of `checkExistence`), `insert`, `store` |
| container with its sender goroutine | `job[j]`: `queued`, then the position in `Run`, then `submit`, `evict` or `panic` |
| `deposit.WithdrawalStatus`, `WithdrawalTxHash` in memory | `job[j].st`, `job[j].hash` |
| `submitTxPool`, position in the retry and marking loops | `pool`, `sub` |
| `catchupWithStatus` | `cu`: phase, rows left, row in hand |
| `clientsRepo` | `served`, the deposits whose chain this process has a client for |
| contract storage | `paid`; transactions of this relayer in `tx` |
| core | `core[d]`, the hash core has for the deposit |
| the loop of `fetchEvents` | `pc`, `cursor`, `seen` (the height of the tick), `saved`; history `first`, `handled`, `lost`, `blind` (the wait ended without a height) |
| signatures table, `BroadcastEpoch`, `catchupEpochsWithStatus` | `sig`, `obs`, `ecu`; containers in `ejob`, transactions in `etx` |
| `updateSignersWorkersMap`, the sender of an epoch | `filled`; `ejob[j]`: `offer` (has yet to look the channel up), then `queued`, or `stuck` on a nil channel |
| `runService`, `Broadcaster.Run` | `proc` (a step of the start, `up`, `exited`, `dead`), `returned`, `brun`, `wg` |
| sender goroutine, channels, workers, submitter (Lifecycle) | `sender`, `buf`, `worker`, `submit`, `submitter` |
| a call of a child client | `call[c]`: position, child, signer, nonce, message, result; its transaction is `ctx[n]` |
| withdrawal marks of a contract, Solana vaults | `used`, `vaults` |

**Abstractions.**
- A deposit is its identifier in `Relayer`. A row keeps status, hash and recovery
  attempts. In `ChainClients` a deposit has the fields that are encoded.
- Hashes are `TxIds` or `nil`, `empty` (the `""` of a failed `Withdraw`), `null`
  (`defaultWithdrawalHash`) and `foreign`. `CoreHash` is what `toTransaction`
  and `nilOrNotEmpty` make of them on the way to core and back.
- The rate limit of `checkExistence` is a choice: any time may have passed.
- In `Relayer` the sender goroutine and the buffer of the worker channel are one set
  of queued containers. `Lifecycle` has them apart, with the senders that come before
  `Run`; `Epochs` has the sender's lookup of the channel as a step.
- One set of workers in `Relayer`. Chains share the database, the cache and the
  submitter, and each deposit belongs to one of them. Of the chain of a deposit only
  one thing matters, whether this process has a client for it: `served`, chosen at
  every start with the fault `config`.
- `Withdraw` in `Relayer` is a send followed by a wait. `Verified` says whether no
  error means a mined success (EVM with block receipts, Solana) or not (TON, EVM
  nodes without block receipts). The core block number that `executeWithdrawal`
  reads has no effect on control: if that read fails, `errors.Wrap` returns nil
  exactly when the withdrawal succeeded.
- `ProcessDies` is any death of the process.
- Hashes, derived addresses and cells of the chain clients are terms over their
  inputs, so two are equal exactly when their inputs are. What is serialized by
  position is a sequence, and the contract reads it back by the names of its own
  inputs: a swapped argument shows as a rejected withdrawal. These inputs are those
  of the bindings in the repository, for all three kinds of chain; the contracts
  themselves are not in it. Numbers are cut to
  words of `WordBits` bits where the code cuts them. Signatures are `valid`, or of
  a wrong form that the code meets (`short`, `oversized`, `undecodable`).
- A broken section of the configuration panics where it is read; `Lifecycle` says
  in which goroutine that is.
- `Faults`, `EpochFaults` and `ClientFaults` switch on what may go wrong. A late or
  lost transaction needs no switch.

**Bounds.** `Jobs`, `TxIds`, `EpochJobs`, `EpochTxs` and `SenderSlots` are pools of
slots: with all slots in use nothing new starts. `CallBound` bounds the calls into
the broadcaster (`Lifecycle`) and into the clients (`ChainClients`). All other
constants are configuration values of the service.

Operators described as *faulty variants* are plausible bugs in the action that
follows them. They are not part of any specification; putting one in place of
its action makes the property named in `mutants` fail.

## 3. Runs

| Run | Instance | Shows |
|---|---|---|
| `relayer_faults` | 1 deposit, API and observer, 2 workers, retries 2; `rpc revert core foreign` | `TypeOK`, `SettledIsPaid`, `NoStrandedCache`, `UnsettledIsHeld`, `PromiseKept` |
| `relayer_crash` | 1 deposit, 2 workers, catch-up; `crash rpc config` | `ReportedIsPaid`, `UnpaidIsHeld` |
| `relayer_database` | 1 deposit, 2 workers, catch-up; `crash db rpc core config` | `HeldHasRow`, `SettledIsPaid`, `NoStrandedCache` |
| `relayer_batches` | 2 deposits, one caller, batches of 2, retries 2, no catch-up; `crash rpc core foreign` | `OneContainer`, `ReportedHashPaid`, `SettledStaysSettled` |
| `relayer_live` | 2 deposits, 1 worker, `submitChan` of 1; `rpc` | `Settles`, `ReportsEventually` |
| `observer` | heights to 6, distance 2, start heights 0, 1, 3, 9; `query db fetch crash` | `ObserverTypeOK`, `NoBlockSkipped`, `ResumeIsSafe`, `DistanceKept`, `EventuallyHandled` |
| `epochs` | 5 blocks, of which 3 cannot be parsed, 3 epochs (two with one key, one of an unknown chain), 2 containers, 1 worker, catch-up at every start; all faults | `EpochsTypeOK`, `ProcessedIsApplied`, `NoEpochDropped`, `ReopenedOnlyByDuplicate`, `EpochSettles` |
| `lifecycle` | all members, 1 worker of each kind, channels of 1, 2 senders, 2 calls, every section of the configuration that is read on its own may be broken | `LifecycleTypeOK`, `ClosedIsQuiet`, `PanicOnlyLate`, `ShutdownReturns`, `AcceptedIsTaken` |
| `chain_clients` | 17 batches of deposits and epochs for EVM, Solana and TON, 2 keys, 0 to 3 workers, 2 concurrent calls, words of 3 bits; all faults | `ClientsTypeOK`, `ClashWithinChild`, `OkIsPaid`, `OpenIffPayable`, `VaultPanicsOnce`, `CallReturns` |

*Relayer.* Two containers and two transactions are enough for every race of the
code on one deposit: a duplicate with the original, a retry with a late
transaction, a catch-up container with a request. A second deposit matters only in
the batches and for the bounded channel, and these runs have it. With one deposit,
the invariants that quantify over deposits lose nothing, because deposits meet only
in `submitChan`, `pool` and the worker count. `UnsettledIsHeld` is checked without
`db` and `crash` faults and `OneContainer` for one caller, because the code violates
them beyond that (section 4). The weaker `UnpaidIsHeld` survives crashes.
`SettledStaysSettled` is checked without catch-up: `CatchUp` reopens
SUBMITTING_TO_CORE rows on purpose.

*Observer.* Six heights are enough for a start behind, at and ahead of core and
for three blocks handled at distance 2; `Modulus` stands for 2^64 and only has to
exceed the heights, as the proof shows.

*Epochs.* Two containers of one epoch, or of two with the same key, meet at the
contract; one worker makes them queue. The other relayer is the third party. Senders
come before and after `Run` has filled the map. Without catch-up an epoch that a crash
interrupts waits for a start that has the flag, so `EpochSettles` is about processes
that have it; the theorems on the other properties need no such limit.

*Lifecycle.* Two calls and channels of one place are enough for a full channel with
a waiting sender, a worker stuck on `submitChan` after the submitter has left, and
a sender that comes after the wait.

*Chain clients.* Two calls are enough for two workers with one signer and for a
repeated call (a deposit already paid, a vault already created). The batches cover
each kind of deposit and epoch and each way a field can fail to parse; one has a
deposit and an epoch for one EVM signer, whose transactions compete for a nonce.
Words of 3 bits let an amount and the nonce of an epoch exceed a word.

**Fairness.**
- `FairSpec` (`Relayer`). Weak fairness for the catch-upper, the submitter, each
  container and each admitted request: goroutines that can run are scheduled, and
  chain and core calls have timeouts. Strong fairness for taking a container and
  for the send on `submitChan`: Go queues the goroutines that wait on a channel in
  order. Requests, miners and other relayers are not fair: transactions may stay
  pending for ever, and `Settles` still holds through the timeout of `finalize`.
  `ReportsEventually` needs core to answer (no `core` fault) and a batch size of
  one.
- `ObserverFairSpec`. Weak fairness for the observer's goroutine; core need not
  produce blocks.
- `EpochsFairSpec`. Weak fairness for the observer's calls, for the catch-upper, and
  for the senders, workers and containers together: that some of them goes on is
  enough, because a process starts finitely many containers. `Run` is not fair: it may
  be arbitrarily late. Miners promise nothing.
- `LifecycleFairSpec`. Weak fairness of `Progress`, the union of what goroutines do
  by themselves: some goroutine that can run does. With finitely many calls this is
  enough. An update container is fair only after a cancellation, because
  `WaitMined` has no deadline.
- `ClientFairSpec`. Weak fairness of each worker's steps: queries and waits have
  timeouts, but for `EvmWaitMined`, which has no step while the transaction is not
  mined. The chain owes no block.

Deadlock is checked in the four safety runs of the relayer. The other runs allow
it: with no request outstanding the service waits, the bounded chain stops growing,
and a process may have exited.

## 4. Disagreements found

Each is a run expected to fail, with the quoted claim in `findings`.

- `finding_recovery`: `checkExistence` counts the attempt on its own copy of the
  deposit, so a failing deposit is admitted again without limit.
- `finding_batch`: a deposit core knows already leaves a nil message in the
  batch. The report fails, the pool is kept, and every later report fails too.
- `finding_merkelized`: the EVM client packs a native withdrawal with a Merkle
  proof under a name the ABI of its binding does not have, so it is never sent.

More limits of the code show when a run is widened. The properties say exactly how
far they hold.

- The TON client writes an amount into a jetton withdrawal, between receiver and hash
  (`ton/jetton.go:75`); `MsgWithdrawJetton` of the generated binding
  (`ton/contract/bridge.go:40`) has none there. The repository does not hold the
  contract, so it does not say which of the two is right. The models take the bindings
  for the contracts, on TON as on EVM and Solana, and then no jetton withdrawal is
  taken: the exception in `OpenIffPayable` (`CannotRead`). The update of the signers
  differs too: the client writes a nonce and times of 64 bits (`ton/signer.go:76`),
  `MsgUpdateSignerKeyBySignature` (`bridge.go:62`) has times of 32 bits and no nonce.
  Native withdrawals agree. `Withdraw` and `UpdateSigners` on TON do not look at the
  outcome, so neither would notice.
- The catch-up container returns `nil, ErrAlreadySubmitted`, and the worker calls
  `deposit.String()` on it. A crash between report and marking is enough, and each
  restart with catch-up then panics. The models have the panic as a step
  (`WorkerPanics`); `UnpaidIsHeld` and the payment properties hold over it.
- Two concurrent calls for a new deposit both pass `checkExistence` and two
  containers start. The contract pays once; the second transaction reverts.
  `OneContainer` holds for one caller.
- A request during catch-up caches a paid deposit, `CatchUp` skips it, and its row
  stays PROCESSING. `UnsettledIsHeld` holds without catch-up, `UnpaidIsHeld` with it.
- `CatchUp` sets a deposit PENDING and caches it before it looks for the client of the
  chain (`broadcaster.go:217-226`). If the chain is no longer configured it returns
  there: the deposit is cached, PENDING and in nobody's hands, and for as long as this
  process lives it is neither paid nor admitted again. This is the exception in
  `NoStrandedCache` and `UnpaidIsHeld`, which speak of configured chains; without it
  TLC finds the case at once. A later process that has the chain takes the deposit up.
- When the write of FAILED fails after `IsProcessed` failed, the error is only
  logged. The row stays PENDING and retries are refused as "still processing",
  so `UnsettledIsHeld` holds only without `db`.
- `waitForBlockDistance` gives up when the height of core cannot be read, and
  the block is fetched at once: the exception in `DistanceKept`.
- A worker that sends on a full `submitChan` after the submitter has left waits for
  ever: the exception in `ShutdownReturns`. A handler that offers a deposit after
  the wait may send on a closed channel: the exception in `PanicOnlyLate`. An offer
  made before `Run` has inserted the channels waits until the shutdown: the
  condition of `AcceptedIsTaken`.
- A second container of an applied epoch turns its row from PROCESSED to FAILED:
  `ReopenedOnlyByDuplicate`. An update that is never mined blocks its worker, as
  `WaitMined` has no deadline (`evm/signer.go:67`): the exception in `CallReturns`, and
  the first in `EpochSettles`. The second is a sender of the epoch that looked for the
  channel before `Run` had inserted it: it waits on a nil channel until the shutdown,
  and only a restart with catch-up offers the epoch again.
- `getSPLVault` returns no vault and no error after it created one, and the process
  dies: `VaultPanicsOnce`. On TON and on EVM nodes without block receipts a result
  without an error proves nothing: the exceptions in `OkIsPaid`.
- Steps of the models that no property restricts, because the code promises nothing:
  the observer or the catch-upper calls the broadcaster before `WithClients` and the
  process dies on the nil repository; `parseTokenMetadata` panics on metadata of
  another shape; the error of `deriveJettonAddress` is overwritten and the message
  goes out without the wallet of the bridge.

## 5. Proofs

Every safety invariant and every action property of the runs of section 3 is stated by a
theorem, for every value of the constants. A theorem depends on the assumptions its
module declares for the constants, and on the hypothesis it states, if any.

| Module | Theorem | Statement | Hypothesis |
|---|---|---|---|
| `RelayerProofs` | `TypeCorrect` | `Spec => []TypeOK` | |
| | `SettledArePaid` | `Spec => []SettledIsPaid` | (`Verified`, in the property) |
| | `ReportedArePaid` | `Spec => []ReportedIsPaid` | (`Verified`, in the property) |
| | `HeldDepositsHaveRows` | `Spec => []HeldHasRow` | |
| `PromiseProofs` | `PromiseIsKept` | `Spec => PromiseKept` | `Verified` |
| `HeldProofs` | `CacheIsNotStranded` | `Spec => []NoStrandedCache` | (`Verified`, in the property) |
| | `UnsettledAreHeld` | `Spec => []UnsettledIsHeld` | `Spared` |
| | `UnpaidAreHeld` | `Spec => []UnpaidIsHeld` | no `db` fault |
| `CallerProofs` | `ReportedHashesPaid` | `Spec => []ReportedHashPaid` | `Verified`, no catch-up |
| | `OneContainerAtATime` | `Spec => []OneContainer` | `SoleCaller`, no catch-up |
| | `SettledStays` | `Spec => SettledStaysSettled` | `SoleCaller`, no catch-up |
| `ObserverProofs` | `NothingSkipped` | `ObserverSpec => []NoBlockSkipped` | |
| | `SavedHeightIsSafe` | `ObserverSpec => []ResumeIsSafe` | |
| | `DistanceIsKept` | `ObserverSpec => []DistanceKept` | |
| | `ObserverTypes` | `ObserverSpec => []ObserverTypeOK` | |
| `EpochsProofs` | `EpochsTypeCorrect` | `EpochsSpec => []EpochsTypeOK` | |
| | `ProcessedEpochsApplied` | `EpochsSpec => []ProcessedIsApplied` | |
| | `EpochsNotDropped` | `EpochsSpec => []NoEpochDropped` | |
| | `ReopenedByDuplicate` | `EpochsSpec => ReopenedOnlyByDuplicate` | |
| `LifecycleProofs` | `LifecycleTypeCorrect` | `LifecycleSpec => []LifecycleTypeOK` | |
| | `ClosedQuietly` | `LifecycleSpec => []ClosedIsQuiet` | |
| | `PanicsOnlyLate` | `LifecycleSpec => []PanicOnlyLate` | |
| `ChainClientsProofs` | `ClientsTypeCorrect` | `ClientSpec => []ClientsTypeOK` | |
| | `ClashesWithinChild` | `ClientSpec => []ClashWithinChild` | |
| | `VaultsPanicOnce` | `ClientSpec => []VaultPanicsOnce` | |
| | `OkMeansPaid` | `ClientSpec => []OkIsPaid` | |
| | `OpenMeansPayable` | `ClientSpec => []OpenIffPayable` | `FieldsFit` |

**Assumptions on the constants.** They are declared where the constants are, and TLC
evaluates them in the runs.
- `RelayerState`: `NoDeposit` is not a deposit, transaction ids are not special
  hashes, bounds are positive, switches are of their type.
- `Observer`: heights and distance below the modulus.
- `EpochsAssumption`, `BlocksAssumption`: at least one worker, faults and flag of
  their type, and the epoch events of a block are a finite list.
- `LifecycleAssumption`: channels hold at least one element, as the configuration
  has it, and there are finitely many sender goroutines at a time, so that a wait
  group can count them.
- `ChainClientAssumption`: at least one key, a word of at least one bit, and batches
  of a kind and with operations the clients have. That `2^WordBits` is a positive
  number is part of it, because the provers do not know about powers.

**Hypotheses.** Each is a fact about the deployment or the input.
- `Verified`, for what is claimed and reported: a withdrawal without an error was
  seen mined. `OkMeansPaid` proves it for the EVM client with block receipts and the
  Solana client (for `UpdateSigners`, on any EVM node); TON and EVM nodes without
  block receipts do not give it (section 4).
- `Spared`: no catch-up, no database errors, no kill of the process. Catch-up and a
  failed write each leave an unsettled row that nobody holds, and so does a crash
  (section 4). Only the chain and core may fail.
- No `db` fault in `UnpaidAreHeld`: a failed write leaves the row of an unpaid
  deposit PENDING, which TLC finds at once with `db` in `Faults`.
- No catch-up: `CatchUpFlag = {FALSE}`, the service started without its flag.
  `CatchUp` opens a second container for a deposit on purpose, and reopens settled
  rows.
- `SoleCaller`: at most one goroutine calls `BroadcastDeposit` at a time. With two,
  both may pass `checkExistence` for one deposit (section 4).
- `FieldsFit`: the amount of a deposit is a number or does not parse, and its nonce
  is not negative and fits a word. The API asks for the latter
  (`validateIdentifier`, `internal/api/common/common.go:20`); a nonce from core
  satisfies it unless it exceeds an `int64`. Nothing is said of the size of an
  amount: words of any width may overflow.

All other constants are free: the numbers of deposits, callers, containers,
transactions, workers, keys and blocks, the capacities, and the faults not named.

### The deposits

*Types.* `TypeOK` is inductive by itself: one lemma per component, one step per
action.

*Payment.* `SettledIsPaid` is not inductive, because a status is decided in
memory long before it is written. `PaymentInv` follows the claim wherever it is:
rows (`RowsPaid`), core (`CorePaid`), successful transactions (`TxPaid`),
containers at a position that is reached only after a payment or carrying a
settled status (`JobsPaid`), the transaction a waiting container owns
(`JobsOwnTx`), reports in `submitChan` and `pool` (`ReportsPaid`), and the
snapshot of SUBMITTING_TO_CORE rows (`CatchUpPaid`). It holds where `Verified`
does. The key step is `FinalizeWithdrawal`: the container's transaction
succeeded, it is a transaction for its deposit, so the deposit is paid.

*Cache.* `CacheInv` says a cached deposit of a configured chain is paid or has a
container. The one action that ends a container and leaves the cache entry is
`SendToSubmitter`, and `PaymentInv` gives that its deposit is paid. The invariant
holds with duplicate containers too: the first one to end evicts the entry of both.
`CatchUpEnqueue` caches without a container only what is not served. A start may
serve more deposits than the process before it; the invariant holds then because the
cache is empty, which is `DownInv`.

*Rows.* `RowInv` extends `HeldHasRow` to what is not held yet but will be: the
rest of the catch-up snapshot. `RowsStay` (no step deletes a row) carries it.

*Promise.* Three projections of the state are visible: what is paid, the rows that
claim it, the deposits core has a hash for. `RunStepVisible` and `NextVisible` say what
a step does to them: at most one of the three changes, by a
payment, by one row, or by a batch. `VisibleIsPromised` turns such a step into a
step of `Promise`; that a claim and a report are of paid deposits comes from
`PaymentInv` in the state after the step. The mapping is the projection itself, and
every other step stutters.

*Held.* That a deposit is held is too weak to be inductive: a container about to end
holds it and writes nothing more. `Owed` is the part of `Held` that will still
write: a container before its last write, a request about to start one, the
catch-upper about to do so, and a report that the submitter has yet to mark
(`ReportOwed`), because a catch-up container that finds nothing on core hands over a
row that is still PENDING. `RunStepRow` is the heart: without database errors a
container stops owing only together with a write of a final status, which needs
to know what status it carries at each place (`JobStatus`); `SubmitterOwes` says the
same of the submitter. `UnsettledInv` then says that an unsettled row is owed.

Over a crash nothing is owed any more, so `UnpaidInv` adds what the catch-upper has
yet to take up (`ToCatchUp`): by its phase, by its snapshot or by the row in its
hand. All of it is about configured chains: a start that serves a chain again finds
its deposits in the rows, with the catch-upper yet to come. A deposit still to be
taken up must be uncached too, or `CatchUp` would pass it over; a deposit
enters the cache only when it is paid or by somebody who then owes it
(`CachedIsOwed`). `DownInv` empties a dead process.

*Hashes.* `HashInv` follows the hash from a container that has waited for its
transaction through `submitChan` and `pool` to core: a transaction id it carries is of
a transaction that succeeded for this deposit, and such a transaction never changes
(`SuccessStays`). Catch-up would put in the hash of the row, which nobody has
looked at. Any number of callers is allowed here, although duplicates send
transactions of their own: each container reports the one it waited for.

*One caller.* `CachedInv` says that a container or a report keeps its deposit in the
cache, `OnePlaceInv` that the deposit is in one place only: with a container, or
handed to the submitter, or with the call that found it uncached. The eviction at the
end of a container breaks nothing because of the second. `UnclaimedInv` adds that a
container or call that is about to write PENDING, PROCESSING, FAILED or
SUBMITTING_TO_CORE has a row that claims nothing yet: the action property follows
from it. The call that opens a FAILED row anew has read it in an earlier step; that
nobody has settled it since is `OnePlaceInv`.

### The observer

`WalkInv` joins both walk properties: the cursor relies on the saved
height after a restart, and the saved height on the cursor before it. In
`DistanceInv` the wait says nothing about a cursor ahead of core (the gap
wrapped); the comparison with the height of the tick removes that case. The
invariant must speak of that height, not of the present one: core may catch up
with the cursor between the wait and the comparison. `DistanceInv` remembers a wait
that ended without a height, which is the exception of the property. The types
need `TypeInv`, which bounds the cursor where a block is handled or given up: it
was compared with a height that core had reached.

### The epochs

Above one shape of the state (`EShape`), each property has an invariant of its own.
`AppliedInv` is the small sister of `PaymentInv`: a container waits for a
transaction of its own epoch, what succeeded was applied, and a container that is
done has an applied epoch. `RowsInv` says that who has an epoch in hand has its row,
and that two epochs of one key never both have one. `HeldInv` bounds what the
catch-upper leaves: from the end of its first query on, each PENDING epoch is held
or logged. `OffersInv` counts the containers started: whoever still has an epoch
that is PROCESSED by now came second, because only a container writes PROCESSED, and
ends with it.

### Start and shutdown

`LifeInv` holds the wait group to the number of live goroutines (`Counted`), as a
cardinality over senders, workers and the submitter. `CountSpawn`,
`CountSenderEnds` and `CountWorkerLeaves` are the three ways it changes. Once it
reaches zero nobody is alive (`ZeroIsNobody`), and from there on only senders that
came later are (`Phases`): so the channels are closed after their last user, and a
send on a closed channel is by a late container.

### The chain clients

*Steps.* Whatever the chain, what a step does to the calls and transactions is one of
seven things (`StepKinds`): the configuration is read, a call starts, it proceeds, it
sends, the process panics, the chain runs a transaction, or somebody else acts. The
invariants are carried over these seven, not over every action of three clients.

*Children and nonces.* `BaseInv` says what a call and its transaction have: a number
of their own, a child, a signer of that child. `SignerOfOneChild` shows that the keys
are dealt without overlap for every number of workers `FromChain` takes; so two
transactions of one signer are of one child. `AcctInv` bounds the nonce of an account
by the number of its transactions in blocks.

*What is sent and what is read.* Lemmas show for each kind of message what the
contract reads back by the names of its inputs from what was written by position
(`NativeReads`, `SplReads`, `WrappedReads`, `VaultReads`, `EvmNativeReads`,
`EvmTokenReads`, `EvmProofReads`, `TonNativeReads`). On both sides of each lemma stands
code of the repository: the client that writes, and the binding that names what is
read. `MsgInv` says that a call and its transaction carry the message of the item of the call.
`OpenMeansPayable` follows from the lemmas on reading: the mark the contract sets is
the one `IsProcessed` asks for, although both are computed by different code. For
jettons `TonJettonUnread` shows the opposite: client and binding disagree (section 4).

*Results.* `PaidInv` joins two facts: a transaction that was accepted has left the mark
of its deposit, and a call that returned without an error owns an accepted
transaction. `OkMeansPaid` needs both, and `MsgInv` for Solana, where the mark is a
key in the message.

*Vaults.* A call that has created a vault and is about to end the process is the first
to do so (`VaultInv`): the panic ends every other call, and later ones find the vault.

### Only model-checked

Liveness, which the proof system does not handle: `Settles`, `ReportsEventually`,
`EventuallyHandled`, `EpochSettles`, `ShutdownReturns`, `AcceptedIsTaken` and
`CallReturns`. The properties of section 4 that the code breaks have no theorem, of
course. `AllBatches` and the other values of the MC modules are data for TLC; the
theorems hold for any.

## 6. Plan

The modules of section 2 and the theorems of section 5 are done. What could follow:

1. A weaker hypothesis for `ReportedHashesPaid`, which excludes catch-up altogether,
   while only catch-up after a duplicate is known to break the property.
2. `Verified` as a constant of `Relayer` and `OkIsPaid` of `ChainClients` are joined in
   this document only. A refinement of the `Withdraw` of `Relayer` by a call of a chain
   client would state it.
3. The safety half of the liveness properties: that a container always has a next
   step, from the invariants at hand.

## 7. Not modelled

- The read-only handlers `CheckWithdrawal` and `GetWithdrawalsByStatus`, the health
  check and the listings of the table: they change nothing.
- Migrations and the command that applies them.
- Generated protobuf and gateway code. Of the bindings, the instructions and methods
  the relayer does not call, `Validate`, `EncodeToTree` and the find-address helpers.
  No code uses the structs of the TON binding; the models take from them what the
  contract reads, for the three messages the client sends.
- Unused queries (`UpdateSignature`, `UpdateWithdrawalTx`, `UpdateRecoveryDetails`).
- `retry_attempts: 0`, which is a case of its own for the retry library; the models
  assume one attempt or more.
- Two Solana chains in one configuration, which would share the global program id of
  the binding.
- Signing, gas prices and the account sequence of transactions to core.
