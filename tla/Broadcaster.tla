------------------------------ MODULE Broadcaster ------------------------------
(***************************************************************************)
(* How a deposit enters the service: SubmitWithdrawal of the API and the   *)
(* observer both call BroadcastDeposit, which checks the cache, the chain  *)
(* and the database one after the other (checkExistence), inserts the row, *)
(* stores the cache entry and starts the sender goroutine. Nothing holds a *)
(* lock across these steps, so each of them is an action.                  *)
(***************************************************************************)
EXTENDS RelayerState

\* The call goes on at pc, or returns to its caller.
RequestGoto(r, pc) == req' = [req EXCEPT ![r].pc = pc]
RequestReturn(r) == req' = [req EXCEPT ![r] = Idle]

\* SubmitWithdrawal: the deposit is read from core and must carry no
\* withdrawal hash there. Only this call installs the configured number of
\* recovery attempts in the broadcaster; until then it is zero.
SubmitWithdrawal(r, d) ==
    /\ up /\ r \in Handlers /\ req[r].pc = "idle"
    /\ core[d] = "nil"
    /\ recoveryLimit' = RecoveryAttempts
    /\ req' = [req EXCEPT ![r] = [pc |-> "cache", d |-> d]]
    /\ UNCHANGED <<durable, up, served, cache, job, submitChan, pool, sub, cu>>

\* The observer finds the deposit in the events of a core block. The event
\* itself carries no withdrawal hash; core is not asked again.
ObserveDeposit(r, d) ==
    /\ up /\ r \in Observers /\ req[r].pc = "idle"
    /\ req' = [req EXCEPT ![r] = [pc |-> "cache", d |-> d]]
    /\ UNCHANGED <<durable, up, served, cache, recoveryLimit, job, submitChan, pool, sub, cu>>

\* Faulty variant of CheckCache: the cache is not consulted.
CheckCacheSkipped(r) ==
    /\ req[r].pc = "cache"
    /\ RequestGoto(r, "chain")
    /\ UNCHANGED <<durable, up, served, cache, recoveryLimit, job, submitChan, pool, sub, cu>>

\* checkExistence, the cache.
CheckCache(r) ==
    /\ req[r].pc = "cache"
    /\ IF req[r].d \in cache THEN RequestReturn(r) ELSE RequestGoto(r, "chain")
    /\ UNCHANGED <<durable, up, served, cache, recoveryLimit, job, submitChan, pool, sub, cu>>

\* Faulty variant of CheckChain: the deposit is cached although IsProcessed failed.
CheckChainCachesEarly(r) ==
    /\ req[r].pc = "chain"
    /\ \/ /\ req[r].d \notin served \/ "rpc" \in Faults
          /\ cache' = cache \cup {req[r].d}
          /\ RequestReturn(r)
       \/ /\ req[r].d \in served /\ IsProcessed(req[r].d)
          /\ cache' = cache \cup {req[r].d}
          /\ RequestReturn(r)
       \/ /\ req[r].d \in served /\ ~IsProcessed(req[r].d)
          /\ cache' = cache
          /\ RequestGoto(r, "row")
    /\ UNCHANGED <<durable, up, served, recoveryLimit, job, submitChan, pool, sub, cu>>

\* checkExistence, the chain. Without a client for the chain the call ends. A
\* deposit paid by anyone is cached for good.
CheckChain(r) ==
    /\ req[r].pc = "chain"
    /\ \/ /\ req[r].d \notin served \/ "rpc" \in Faults
          /\ cache' = cache
          /\ RequestReturn(r)
       \/ /\ req[r].d \in served /\ IsProcessed(req[r].d)
          /\ cache' = cache \cup {req[r].d}
          /\ RequestReturn(r)
       \/ /\ req[r].d \in served /\ ~IsProcessed(req[r].d)
          /\ cache' = cache
          /\ RequestGoto(r, "row")
    /\ UNCHANGED <<durable, up, served, recoveryLimit, job, submitChan, pool, sub, cu>>

\* The retry rule of checkExistence: a failed deposit with attempts left.
Recoverable(d) ==
    /\ row[d].status = "FAILED"
    /\ row[d].attempts < recoveryLimit

\* checkExistence, the database. The call ends here when the query fails,
\* when the row is not recoverable, or when its last attempt is too recent
\* (any time may have passed since, so the rate limit is a choice).
CheckRow(r) ==
    /\ req[r].pc = "row"
    /\ \/ /\ row[req[r].d].status # "NO_ROW" \/ "db" \in Faults
          /\ RequestReturn(r)
       \/ /\ row[req[r].d].status = "NO_ROW" \/ Recoverable(req[r].d)
          /\ RequestGoto(r, "insert")
    /\ UNCHANGED <<durable, up, served, cache, recoveryLimit, job, submitChan, pool, sub, cu>>

\* Faulty variant of InsertDeposit: the error of the insert is ignored.
InsertDepositUnchecked(r) ==
    /\ req[r].pc = "insert"
    /\ \/ row' = Insert(row, req[r].d, 0)
       \/ "db" \in Faults /\ row' = row
    /\ RequestGoto(r, "store")
    /\ UNCHANGED <<tx, paid, core, up, served, cache, recoveryLimit, job, submitChan, pool, sub, cu>>

\* BroadcastDeposit inserts the deposit as PENDING. checkExistence received
\* it by value, so the attempt it counted is lost: attempts is always zero.
InsertDeposit(r) ==
    /\ req[r].pc = "insert"
    /\ \/ /\ row' = Insert(row, req[r].d, 0)
          /\ RequestGoto(r, "store")
       \/ /\ "db" \in Faults
          /\ row' = row
          /\ RequestReturn(r)
    /\ UNCHANGED <<tx, paid, core, up, served, cache, recoveryLimit, job, submitChan, pool, sub, cu>>

\* The cache entry, then the goroutine that offers the container.
StartBroadcast(r) ==
    /\ req[r].pc = "store"
    /\ cache' = cache \cup {req[r].d}
    /\ \E j \in Jobs : Spawn(j, "broadcast", req[r].d, "PENDING", "nil")
    /\ RequestReturn(r)
    /\ UNCHANGED <<durable, up, served, recoveryLimit, submitChan, pool, sub, cu>>

BroadcasterNext ==
    \E r \in Requesters :
        \/ \E d \in Deposits : SubmitWithdrawal(r, d) \/ ObserveDeposit(r, d)
        \/ CheckCache(r) \/ CheckChain(r) \/ CheckRow(r)
        \/ InsertDeposit(r) \/ StartBroadcast(r)

=============================================================================
