-------------------------------- MODULE Relayer --------------------------------
(***************************************************************************)
(* The relayer service: all its goroutines over the shared state, its      *)
(* start and its death, and the chain and core around it.                  *)
(***************************************************************************)
EXTENDS Broadcaster, CatchUpper, Containers, CoreSubmitter, WithdrawalChain

Init ==
    /\ row = [d \in Deposits |-> NoRow]
    /\ tx = [t \in TxIds |-> [d |-> NoDeposit, state |-> "unused"]]
    /\ paid = {}
    /\ core = [d \in Deposits |-> "nil"]
    /\ up = FALSE
    /\ served = {}
    /\ cache = {}
    /\ recoveryLimit = 0
    /\ req = AllIdle
    /\ job = AllFree
    /\ submitChan = <<>>
    /\ pool = <<>>
    /\ sub = Receiving
    /\ cu = CatchUpAt("off")

\* runService, over whatever database an earlier process left. The clients are
\* built from the configuration, which an operator may have changed since. The
\* catch-upper runs only with its flag.
Start ==
    /\ ~up
    /\ up' = TRUE
    /\ served' \in IF "config" \in Faults THEN SUBSET Deposits ELSE {Deposits}
    /\ \E flag \in CatchUpFlag :
          cu' = CatchUpAt(IF flag THEN "load" ELSE "off")
    /\ UNCHANGED <<durable, cache, recoveryLimit, req, job, submitChan, pool, sub>>

\* The process is killed between any two steps.
Crash ==
    /\ "crash" \in Faults /\ up
    /\ ProcessDies
    /\ UNCHANGED durable

Next ==
    \/ Start \/ Crash
    \/ BroadcasterNext
    \/ CatchUpperNext
    \/ ContainersNext
    \/ CoreSubmitterNext
    \/ ChainNext

Spec == Init /\ [][Next]_vars

\* Goroutines that can run are scheduled in the end: the Go scheduler and the
\* timeouts of every chain and core call justify weak fairness for the steps
\* of a container, of the submitter, of the catch-upper and of a request that
\* was admitted. Go serves the goroutines that wait on a channel in the order
\* they came: a container that waits for a worker, or a worker that waits for
\* room in submitChan, is not passed over for ever (strong fairness).
\* Requests, miners and other relayers promise nothing.
Fairness ==
    /\ WF_vars(CatchUpperNext)
    /\ WF_vars(CoreSubmitterNext)
    /\ \A j \in Jobs : WF_vars(ContainerStep(j))
    /\ \A j \in Jobs : SF_vars(TakeContainer(j)) /\ SF_vars(SendToSubmitter(j))
    /\ \A r \in Requesters : WF_vars(InsertDeposit(r)) /\ WF_vars(StartBroadcast(r))

FairSpec == Spec /\ Fairness

-----------------------------------------------------------------------------
(* Types *)

Rows == [status : RowStatus, hash : Hashes, attempts : Nat]
Transactions == [d : Deposits \cup {NoDeposit}, state : TxStates]
Requests == [pc : RequestPcs, d : Deposits \cup {NoDeposit}]
ContainerRecords == [pc : JobPcs, kind : {"none", "broadcast", "catchup"},
               d : Deposits \cup {NoDeposit}, st : WithdrawalStatus, hash : Hashes]
Entries == [d : Deposits, hash : Hashes]

DurableOK ==
    /\ row \in [Deposits -> Rows]
    /\ tx \in [TxIds -> Transactions]
    /\ \A t \in TxIds : tx[t].state # "unused" => tx[t].d \in Deposits
    /\ paid \subseteq Deposits
    /\ core \in [Deposits -> Hashes]

ProcessOK ==
    /\ up \in BOOLEAN
    /\ served \subseteq Deposits /\ cache \subseteq Deposits
    /\ recoveryLimit \in Nat

\* A slot in use has a deposit.
RequestsOK ==
    /\ req \in [Requesters -> Requests]
    /\ \A r \in Requesters : req[r].pc # "idle" => req[r].d \in Deposits

JobsOK ==
    /\ job \in [Jobs -> ContainerRecords]
    /\ \A j \in Jobs : job[j].pc # "free" => job[j].d \in Deposits

\* submitChan respects its capacity, and the submitter's position stays within
\* its pool.
SubmitterOK ==
    /\ submitChan \in Seq(Reports) /\ Len(submitChan) <= SubmitPoolSize
    /\ pool \in Seq(Reports)
    /\ sub \in [pc : {"recv", "query", "broadcast", "mark"},
                tries : 0..(Retries - 1), i : Nat]
    /\ sub.i \in 1..(Len(pool) + 1)

CatchUpOK ==
    /\ cu \in [pc : {"off", "load", "check", "update", "enqueue", "done"},
               phase : {"PENDING", "PROCESSING", "SUBMITTING_TO_CORE"},
               todo : SUBSET Entries, cur : Entries \cup {NoEntry}]
    /\ cu.pc \in {"update", "enqueue"} => cu.cur \in Entries

\* The variables have their types. Beyond the types: a slot in use has a
\* deposit, submitChan never holds more than its capacity, and the submitter
\* never indexes its pool out of range.
TypeOK ==
    /\ DurableOK /\ ProcessOK /\ RequestsOK /\ JobsOK
    /\ SubmitterOK /\ CatchUpOK

-----------------------------------------------------------------------------
(* What is true of a deposit *)

InReports(d, s) == \E i \in 1..Len(s) : s[i].d = d

\* The deposits some goroutine of the process is working on.
Held(d) ==
    \/ Live(d) # {}
    \/ InReports(d, submitChan) \/ InReports(d, pool)
    \/ \E r \in Requesters : req[r] = [pc |-> "store", d |-> d]
    \/ cu.pc = "enqueue" /\ cu.cur.d = d

-----------------------------------------------------------------------------
(* Safety *)

\* Every deposit a goroutine works on has its row in the database, so that no
\* UpdateStatus or UpdateWithdrawalDetails is an UPDATE of nothing.
HeldHasRow ==
    \A d \in Deposits : Held(d) => row[d].status # "NO_ROW"

\* Where Withdraw verifies its transaction, a row that claims the withdrawal
\* took place (SUBMITTING_TO_CORE, PROCESSED, ALREADY_WITHDRAWN) belongs to a
\* deposit the bridge contract paid: no error path, retry, duplicate container
\* or crash lets the database claim a payment that was not made.
SettledIsPaid ==
    Verified => \A d \in Deposits : row[d].status \in Settled => d \in paid

\* Where Withdraw verifies its transaction, core never holds a withdrawal
\* hash for a deposit that was not paid out.
ReportedIsPaid ==
    Verified => \A d \in Deposits : core[d] # "nil" => d \in paid

\* A cached deposit is refused by BroadcastDeposit and by CatchUp for as long
\* as the process lives, so it must be paid already or have a container that
\* can still pay it or evict it. The one deposit the code does strand in the
\* cache is that of a chain this process has no client for: CatchUp caches it
\* before it looks for the client. No other error path does.
NoStrandedCache ==
    Verified => \A d \in cache \cap served : d \in paid \/ Live(d) # {}

\* While no catch-up is under way, a deposit whose row is PENDING or PROCESSING
\* is in somebody's hands. checkExistence relies on it: it refuses such a
\* deposit because it "is still processing".
UnsettledIsHeld ==
    up /\ cu.pc \in {"off", "done"} =>
        \A d \in Deposits : row[d].status \in Unsettled => Held(d)

\* The same for the deposits that are not paid yet, which is what survives
\* crashes: once the catch-upper is done, no early return of a container, of
\* CatchUp or of BroadcastDeposit has left an unpaid deposit behind, whichever
\* process left it. The exception is again a deposit whose chain this process
\* has no client for; a later process that has one takes it up.
UnpaidIsHeld ==
    up /\ cu.pc = "done" =>
        \A d \in served \ paid : row[d].status \in Unsettled => Held(d)

\* At most one container works on a deposit at a time.
OneContainer ==
    \A d \in Deposits : \A j, k \in Live(d) : j = k

\* The hash core keeps for a deposit, when it is one of this relayer's
\* transactions, is that of the transaction that paid this very deposit.
ReportedHashPaid ==
    \A d \in Deposits :
        core[d] \in TxIds => tx[core[d]] = [d |-> d, state |-> "success"]

-----------------------------------------------------------------------------
(* Action properties *)

\* A withdrawal that took place is never reopened: no request, retry or
\* container moves its row back to PENDING, PROCESSING or FAILED.
SettledStaysSettled ==
    [][\A d \in Deposits : row[d].status \in Settled => row'[d].status \in Settled]_vars

-----------------------------------------------------------------------------
(* Liveness *)

\* A deposit that was accepted (PENDING, PROCESSING) is settled or failed in
\* the end: no container waits for ever on a full channel, a transaction that
\* is never mined or a pool the submitter cannot empty.
Settles ==
    \A d \in Deposits :
        row[d].status \in Unsettled ~> row[d].status \notin Unsettled

\* A withdrawal that waits in SUBMITTING_TO_CORE reaches core in the end,
\* reported by this relayer or by another one.
ReportsEventually ==
    \A d \in Deposits :
        row[d].status = "SUBMITTING_TO_CORE" ~> core[d] # "nil"

-----------------------------------------------------------------------------
(* Refinement *)

Claimed == {d \in Deposits : row[d].status \in Settled}
Reported == {d \in Deposits : core[d] # "nil"}

PromiseOf == INSTANCE Promise WITH claimed <- Claimed, reported <- Reported

\* Where Withdraw verifies its transaction, the relayer implements its promise:
\* every step of a goroutine pays one deposit, claims or retracts one row, or
\* reports one batch to core, of deposits that are paid at that moment; or it
\* changes nothing that can be seen from outside.
PromiseKept == PromiseOf!PromiseSpec

=============================================================================
