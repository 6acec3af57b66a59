------------------------------- MODULE Epochs -------------------------------
(***************************************************************************)
(* The update-signers pipeline. The observer hands the epochs of a block   *)
(* to BroadcastEpoch, which inserts a row and starts a container; a        *)
(* network worker of the chain runs it: UpdateSigners, then the status of  *)
(* the row. The catch-upper offers PENDING and FAILED rows again at start. *)
(* There is no cache and no lookup on the chain, so only the contract's    *)
(* nonce tells a second container that the first one was there.            *)
(***************************************************************************)
EXTENDS BlockEvents, FiniteSets

CONSTANTS
    Blocks,         \* blocks of core the observer may come across
    EpochChains,    \* the configured chains
    EpochJobs,      \* slots for update-signers containers (a bound)
    EpochTxs,       \* transactions that can be sent (a bound)
    UpdateWorkers,  \* update-signers workers of a chain
    EpochCatchUp,   \* the values of the --catch-up flag an operator uses
    EpochFaults     \* what may go wrong

\* db: a query fails. rpc: a chain query or send fails. revert: a transaction
\* reverts. crash: the process dies. foreign: another relayer updates first.
EpochFaultKinds == {"db", "rpc", "revert", "crash", "foreign"}

\* The blocks that can be parsed, and their epochs.
ParsedBlocks == {b \in Blocks : BlockParses(b)}
Epochs == UNION {Elements(BlockEpochs(b)) : b \in ParsedBlocks}

ASSUME EpochsAssumption ==
    /\ UpdateWorkers \in Nat \ {0}
    /\ EpochFaults \subseteq EpochFaultKinds
    /\ EpochCatchUp \subseteq BOOLEAN

\* The begin-block events of a block are a list.
ASSUME BlocksAssumption == \A b \in Blocks : Len(EpochEvents(b.begin)) \in Nat

VARIABLES
    sig,        \* status of each epoch in the signatures table
    etx,        \* update-signers transactions of this relayer
    applied,    \* epochs the bridge contracts have accepted
    running,    \* whether the process runs
    filled,     \* the chains whose workers' channel Run has put into the map
    obs,        \* the observer: epochs of the block in hand, position in BroadcastEpoch
    ejob,       \* containers from their sender goroutine to their end
    ecu,        \* the epoch passes of the catch-upper
    offers,     \* history: containers started for each epoch by this process
    logged      \* history: epochs left unfinished with an error in the log

epochVars == <<sig, etx, applied, running, filled, obs, ejob, ecu, offers, logged>>

NoEpoch == [id |-> 0, chain |-> "none", nonce |-> 0, sig |-> "undecodable"]
FreeJob == [pc |-> "free", e |-> NoEpoch, t |-> "none"]
NoTx == [e |-> NoEpoch, state |-> "unused"]
ObserverIdle == [pc |-> "get", todo |-> <<>>]
EpochCatchUpAt(pc) == [pc |-> pc, phase |-> "PENDING", todo |-> {}]

EpochsInit ==
    /\ sig = [e \in Epochs |-> "NO_ROW"]
    /\ etx = [t \in EpochTxs |-> NoTx]
    /\ applied = {}
    /\ running = FALSE
    /\ filled = {}
    /\ obs = ObserverIdle
    /\ ejob = [j \in EpochJobs |-> FreeJob]
    /\ ecu = EpochCatchUpAt("off")
    /\ offers = [e \in Epochs |-> 0]
    /\ logged = {}

-----------------------------------------------------------------------------
(* The signatures table *)

SameKey(e, f) == e.chain = f.chain /\ e.nonce = f.nonce

\* A plain INSERT under the primary key (chain_id, nonce).
InsertSucceeds(e) == \A f \in Epochs : SameKey(e, f) => sig[f] = "NO_ROW"

\* UpdateStatus of an epoch's row.
UpdateEpochStatus(e, status) == sig' = [sig EXCEPT ![e] = status]

EpochsWithStatus(status) == {e \in Epochs : sig[e] = status}

-----------------------------------------------------------------------------
(* The observer and BroadcastEpoch *)

Log(e) == logged' = logged \cup {e}

\* The sender goroutine of a container. Its select has yet to look up the channel.
SpawnUpdate(e) ==
    /\ \E j \in EpochJobs : ejob[j].pc = "free"
    /\ LET j == CHOOSE k \in EpochJobs : ejob[k].pc = "free"
       IN  ejob' = [ejob EXCEPT ![j] = [pc |-> "offer", e |-> e, t |-> "none"]]
    /\ offers' = [offers EXCEPT ![e] = @ + 1]

NextEpoch == obs' = [pc |-> "get", todo |-> Tail(obs.todo)]

\* The observer fetches a block. A block that cannot be parsed is lost as a
\* whole, with an error in the log.
ObserveBlock ==
    /\ running /\ obs.todo = <<>>
    /\ \E b \in ParsedBlocks : obs' = [pc |-> "get", todo |-> BlockEpochs(b)]
    /\ UNCHANGED <<sig, etx, applied, running, filled, ejob, ecu, offers, logged>>

\* BroadcastEpoch looks the row up by id, chain and nonce.
GetEpoch ==
    /\ obs.todo # <<>> /\ obs.pc = "get"
    /\ LET e == Head(obs.todo) IN
          \/ sig[e] = "NO_ROW" /\ obs' = [obs EXCEPT !.pc = "insert"]
          \/ sig[e] # "NO_ROW" /\ NextEpoch
          \/ "db" \in EpochFaults /\ NextEpoch
    /\ UNCHANGED <<sig, etx, applied, running, filled, ejob, ecu, offers, logged>>

\* Faulty variant of InsertEpoch: the error of Insert is not returned.
InsertEpochUnchecked ==
    /\ obs.todo # <<>> /\ obs.pc = "insert"
    /\ LET e == Head(obs.todo) IN
          \/ /\ InsertSucceeds(e)
             /\ UpdateEpochStatus(e, "PENDING")
             /\ obs' = [obs EXCEPT !.pc = "client"]
          \/ /\ ~InsertSucceeds(e)
             /\ obs' = [obs EXCEPT !.pc = "client"]
             /\ UNCHANGED sig
    /\ UNCHANGED <<etx, applied, running, filled, ejob, ecu, offers, logged>>

\* ... inserts it as PENDING; a row with the same chain and nonce and another
\* id makes the insert fail.
InsertEpoch ==
    /\ obs.todo # <<>> /\ obs.pc = "insert"
    /\ LET e == Head(obs.todo) IN
          \/ /\ InsertSucceeds(e)
             /\ UpdateEpochStatus(e, "PENDING")
             /\ obs' = [obs EXCEPT !.pc = "client"]
          \/ /\ ~InsertSucceeds(e) \/ "db" \in EpochFaults
             /\ NextEpoch
             /\ UNCHANGED sig
    /\ UNCHANGED <<etx, applied, running, filled, ejob, ecu, offers, logged>>

\* ... and only then asks for the client of the chain: the row of an epoch for
\* a chain that is not configured stays, and the error is logged.
StartEpoch ==
    /\ obs.todo # <<>> /\ obs.pc = "client"
    /\ LET e == Head(obs.todo) IN
          \/ e.chain \in EpochChains /\ SpawnUpdate(e) /\ UNCHANGED logged
          \/ e.chain \notin EpochChains /\ Log(e) /\ UNCHANGED <<ejob, offers>>
    /\ NextEpoch
    /\ UNCHANGED <<sig, etx, applied, running, filled, ecu>>

ObserverStep == ObserveBlock \/ GetEpoch \/ InsertEpoch \/ StartEpoch

-----------------------------------------------------------------------------
(* The catch-upper *)

\* Faulty variant of LoadEpochs: the second pass reads PROCESSED rows.
LoadEpochsOfWrongStatus ==
    /\ ecu.pc = "load"
    /\ ecu' = [ecu EXCEPT !.pc = "offer",
                          !.todo = EpochsWithStatus(IF ecu.phase = "PENDING" THEN "PENDING"
                                                    ELSE "PROCESSED")]
    /\ UNCHANGED <<sig, etx, applied, running, filled, obs, ejob, offers, logged>>

\* GetWithStatus.
LoadEpochs ==
    /\ ecu.pc = "load"
    /\ ecu' = [ecu EXCEPT !.pc = "offer", !.todo = EpochsWithStatus(ecu.phase)]
    /\ UNCHANGED <<sig, etx, applied, running, filled, obs, ejob, offers, logged>>

\* Faulty variant of OfferEpoch: the pass ends at the first epoch that fails.
OfferEpochReturns ==
    /\ ecu.pc = "offer"
    /\ \E e \in ecu.todo :
          \/ /\ e.chain \in EpochChains /\ SpawnUpdate(e) /\ UNCHANGED logged
             /\ ecu' = [ecu EXCEPT !.todo = @ \ {e}]
          \/ /\ e.chain \notin EpochChains /\ Log(e) /\ UNCHANGED <<ejob, offers>>
             /\ ecu' = [ecu EXCEPT !.todo = {}]
    /\ UNCHANGED <<sig, etx, applied, running, filled, obs>>

\* CatchUpEpoch starts a container whatever the row's status is by now.
OfferEpoch ==
    /\ ecu.pc = "offer"
    /\ \E e \in ecu.todo :
          /\ \/ e.chain \in EpochChains /\ SpawnUpdate(e) /\ UNCHANGED logged
             \/ e.chain \notin EpochChains /\ Log(e) /\ UNCHANGED <<ejob, offers>>
          /\ ecu' = [ecu EXCEPT !.todo = @ \ {e}]
    /\ UNCHANGED <<sig, etx, applied, running, filled, obs>>

\* PENDING first, then FAILED.
EndPass ==
    /\ ecu.pc = "offer" /\ ecu.todo = {}
    /\ ecu' = IF ecu.phase = "PENDING" THEN [ecu EXCEPT !.pc = "load", !.phase = "FAILED"]
              ELSE [ecu EXCEPT !.pc = "done"]
    /\ UNCHANGED <<sig, etx, applied, running, filled, obs, ejob, offers, logged>>

CatchUpStep == LoadEpochs \/ OfferEpoch \/ EndPass

-----------------------------------------------------------------------------
(* The contract *)

Used(e) == \E f \in applied : SameKey(e, f)

\* The contract takes a valid signature over a nonce it has not seen.
WouldRevert(e) == e.sig # "valid" \/ Used(e)

MineUpdate(t) ==
    /\ etx[t].state = "pending"
    /\ LET e == etx[t].e IN
          \/ /\ ~WouldRevert(e)
             /\ etx' = [etx EXCEPT ![t].state = "success"]
             /\ applied' = applied \cup {e}
          \/ /\ WouldRevert(e) \/ "revert" \in EpochFaults
             /\ etx' = [etx EXCEPT ![t].state = "reverted"]
             /\ UNCHANGED applied
    /\ UNCHANGED <<sig, running, filled, obs, ejob, ecu, offers, logged>>

\* Another relayer updates the signers with this epoch.
ForeignUpdate ==
    /\ "foreign" \in EpochFaults
    /\ \E e \in Epochs : ~WouldRevert(e) /\ applied' = applied \cup {e}
    /\ UNCHANGED <<sig, etx, running, filled, obs, ejob, ecu, offers, logged>>

-----------------------------------------------------------------------------
(* The senders, the network worker and the containers *)

\* The sender evaluates the channel of the chain once: before Run has inserted it
\* this is nil, and the sender waits for the shutdown. Otherwise the container is
\* in the buffer of the workers' channel, or its sender waits for room in it.
OfferUpdate(j) ==
    /\ ejob[j].pc = "offer"
    /\ ejob' = [ejob EXCEPT ![j].pc = IF ejob[j].e.chain \in filled THEN "queued" ELSE "stuck"]
    /\ UNCHANGED <<sig, etx, applied, running, filled, obs, ecu, offers, logged>>

\* The containers that a worker of the chain runs.
Running(c) == {j \in EpochJobs : ejob[j].pc \in {"send", "wait", "done", "failed"}
                                  /\ ejob[j].e.chain = c}

\* Faulty variant of TakeUpdate: one worker too few is started.
TakeUpdateOffByOne(j) ==
    /\ ejob[j].pc = "queued"
    /\ Cardinality(Running(ejob[j].e.chain)) < UpdateWorkers - 1
    /\ ejob' = [ejob EXCEPT ![j].pc = "send"]
    /\ UNCHANGED <<sig, etx, applied, running, filled, obs, ecu, offers, logged>>

\* runUpdateSignersNetworkWorker receives a container and runs it to its end.
TakeUpdate(j) ==
    /\ ejob[j].pc = "queued"
    /\ Cardinality(Running(ejob[j].e.chain)) < UpdateWorkers
    /\ ejob' = [ejob EXCEPT ![j].pc = "send"]
    /\ UNCHANGED <<sig, etx, applied, running, filled, obs, ecu, offers, logged>>

\* What UpdateSigners checks before it sends, for the EVM client: it decodes the
\* signature and estimates gas, so that a call that would revert fails here. The
\* checks of each client are in ChainClients.
Accepts(e) == e.sig # "undecodable" /\ ~WouldRevert(e)

\* UpdateSigners up to the transaction.
SendUpdate(j) ==
    /\ ejob[j].pc = "send"
    /\ LET e == ejob[j].e IN
          \/ /\ Accepts(e)
             /\ \E t \in EpochTxs : etx[t].state = "unused"
             /\ LET t == CHOOSE u \in EpochTxs : etx[u].state = "unused"
                IN  /\ etx' = [etx EXCEPT ![t] = [e |-> e, state |-> "pending"]]
                    /\ ejob' = [ejob EXCEPT ![j].pc = "wait", ![j].t = t]
          \/ /\ ~Accepts(e) \/ "rpc" \in EpochFaults
             /\ ejob' = [ejob EXCEPT ![j].pc = "failed"]
             /\ UNCHANGED etx
    /\ UNCHANGED <<sig, applied, running, filled, obs, ecu, offers, logged>>

\* Faulty variant of Ends: the status of the receipt is not looked at.
EndsAtAnyReceipt(state) == IF state = "pending" THEN {} ELSE {"done"}

\* How the wait for a transaction in this state may end. EVM waits for the
\* receipt without a deadline.
Ends(state) == CASE state = "success" -> {"done"}
                 [] state = "reverted" -> {"failed"}
                 [] OTHER -> {}

\* UpdateSigners from the transaction to its result.
AwaitUpdate(j) ==
    /\ ejob[j].pc = "wait"
    /\ \E pc \in Ends(etx[ejob[j].t].state) :
          ejob' = [ejob EXCEPT ![j].pc = pc]
    /\ UNCHANGED <<sig, etx, applied, running, filled, obs, ecu, offers, logged>>

StatusOf == [done |-> "PROCESSED", failed |-> "FAILED"]

\* The container writes its result. The worker logs an error and takes the next
\* container.
WriteResult(j) ==
    /\ ejob[j].pc \in {"done", "failed"}
    /\ LET e == ejob[j].e IN
          \/ UpdateEpochStatus(e, StatusOf[ejob[j].pc]) /\ UNCHANGED logged
          \/ "db" \in EpochFaults /\ Log(e) /\ UNCHANGED sig
    /\ ejob' = [ejob EXCEPT ![j] = FreeJob]
    /\ UNCHANGED <<etx, applied, running, filled, obs, ecu, offers>>

\* The goroutine that has the container: its sender, later the worker that runs it.
EpochContainerStep(j) == OfferUpdate(j) \/ SendUpdate(j) \/ AwaitUpdate(j) \/ WriteResult(j)

-----------------------------------------------------------------------------
(* The process *)

StartProcess ==
    /\ ~running
    /\ running' = TRUE
    /\ \E flag \in EpochCatchUp :
          ecu' = IF flag THEN EpochCatchUpAt("load") ELSE ecu
    /\ UNCHANGED <<sig, etx, applied, filled, obs, ejob, offers, logged>>

\* Run starts the workers of a chain and inserts their channel, in a goroutine
\* that the observer and the catch-upper do not wait for.
RunFills ==
    /\ running
    /\ \E c \in EpochChains \ filled : filled' = filled \cup {c}
    /\ UNCHANGED <<sig, etx, applied, running, obs, ejob, ecu, offers, logged>>

\* The process is killed, or the catch-upper's query fails and its error
\* cancels the service.
EpochsCrash ==
    /\ running
    /\ "crash" \in EpochFaults \/ ("db" \in EpochFaults /\ ecu.pc = "load")
    /\ running' = FALSE /\ filled' = {}
    /\ obs' = ObserverIdle
    /\ ejob' = [j \in EpochJobs |-> FreeJob]
    /\ ecu' = EpochCatchUpAt("off")
    /\ offers' = [e \in Epochs |-> 0]
    /\ UNCHANGED <<sig, etx, applied, logged>>

EpochsNext ==
    \/ ObserverStep \/ CatchUpStep
    \/ \E j \in EpochJobs : TakeUpdate(j) \/ EpochContainerStep(j)
    \/ \E t \in EpochTxs : MineUpdate(t)
    \/ ForeignUpdate \/ StartProcess \/ RunFills \/ EpochsCrash

EpochsSpec == EpochsInit /\ [][EpochsNext]_epochVars

\* Goroutines are scheduled. That some sender, container or idle worker goes on is
\* enough, as a process starts finitely many containers. Blocks, miners, other
\* relayers and operators promise nothing.
EpochsFairSpec ==
    /\ EpochsSpec
    /\ WF_epochVars(GetEpoch \/ InsertEpoch \/ StartEpoch)
    /\ WF_epochVars(CatchUpStep)
    /\ WF_epochVars(\E j \in EpochJobs : TakeUpdate(j) \/ EpochContainerStep(j))

-----------------------------------------------------------------------------
(* Properties *)

\* The variables have their types; a container has an epoch with a row and,
\* while it waits, a transaction for that epoch; no two rows share a chain and
\* a nonce.
EpochsTypeOK ==
    /\ sig \in [Epochs -> {"NO_ROW", "PENDING", "PROCESSED", "FAILED"}]
    /\ \A e, f \in Epochs :
          e # f /\ SameKey(e, f) => "NO_ROW" \in {sig[e], sig[f]}
    /\ applied \subseteq Epochs /\ logged \subseteq Epochs
    /\ \A j \in EpochJobs : ejob[j].pc # "free" =>
          /\ sig[ejob[j].e] # "NO_ROW"
          /\ ejob[j].pc = "wait" => etx[ejob[j].t].e = ejob[j].e
    /\ obs.pc = "client" => sig[Head(obs.todo)] # "NO_ROW"
    /\ \A e \in ecu.todo : sig[e] # "NO_ROW"

\* An epoch is PROCESSED only if the bridge contract took it: no retry, second
\* container, failed write or crash makes the table claim an update that was
\* not made.
ProcessedIsApplied == \A e \in Epochs : sig[e] = "PROCESSED" => e \in applied

HeldEpoch(e) ==
    \/ \E j \in EpochJobs : ejob[j].pc # "free" /\ ejob[j].e = e
    \/ obs.pc = "client" /\ Head(obs.todo) = e
    \/ e \in ecu.todo

\* Once the catch-upper is done, a PENDING epoch is in somebody's hands or an
\* error about it was logged: none is dropped in silence, over crashes. A sender
\* that waits for the shutdown holds its epoch, too.
NoEpochDropped ==
    running /\ ecu.pc = "done" =>
        \A e \in Epochs : sig[e] = "PENDING" => HeldEpoch(e) \/ e \in logged

\* A PROCESSED epoch becomes FAILED again only by a second container of the same
\* process, which the catch-upper and the observer start for one epoch when
\* they meet. Nothing else reopens a finished epoch.
ReopenedOnlyByDuplicate ==
    [][\A e \in Epochs :
          sig[e] = "PROCESSED" /\ sig'[e] # "PROCESSED" => offers[e] >= 2]_epochVars

\* If the process stays up, a PENDING epoch is finished in the end, or an error
\* about it is logged, unless one of two waits holds it up. A worker waits for a
\* transaction that is not mined, as WaitMined has no deadline; or a sender of
\* this epoch came before Run had inserted the channel of its chain and waits for
\* the shutdown. Nothing else can hold an epoch up.
WaitsForMiner(j) == ejob[j].pc = "wait" /\ etx[ejob[j].t].state = "pending"
CameBeforeRun(j, e) == ejob[j].pc = "stuck" /\ ejob[j].e = e
EpochSettles ==
    <>[]running =>
        \A e \in Epochs :
            sig[e] = "PENDING" ~>
                \/ sig[e] # "PENDING" \/ e \in logged
                \/ \E j \in EpochJobs : WaitsForMiner(j) \/ CameBeforeRun(j, e)

=============================================================================
