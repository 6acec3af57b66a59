----------------------------- MODULE ChainClient -----------------------------
(***************************************************************************)
(* What the clients of the three kinds of withdrawal chain share: the      *)
(* configuration of child clients, a call of a child client from its start *)
(* to its result, and the transactions of the chain. A network worker runs *)
(* one call at a time; several workers may run calls of the same child.    *)
(* A call sends at most one transaction, which carries the call's number.  *)
(***************************************************************************)
EXTENDS Integers, Sequences, FiniteSets, SequencesExt

CONSTANTS
    Batches,        \* [kind, items]: a kind of chain and what it is asked to do
    NumKeys,        \* operator keys in the configuration
    WorkerCounts,   \* values of the "workers" setting
    Callers,        \* network workers that call the child clients
    CallBound,      \* calls that are made in all (a bound)
    WordBits,       \* width of a machine word (64 in the code)
    ClientFaults,   \* what may go wrong
    None            \* no item, no message

\* rpc: a query of the node fails. revert: the contract rejects a call for a
\* reason of its own. replace: the node lets a transaction replace another
\* one of the same nonce. foreign: another relayer withdraws first.
ClientFaultKinds == {"rpc", "revert", "replace", "foreign"}

ASSUME ChainClientAssumption ==
    /\ NumKeys \in Nat \ {0} /\ CallBound \in Nat
    /\ WordBits \in Nat \ {0} /\ 2^WordBits \in Nat \ {0}
    /\ WorkerCounts \subseteq Int
    /\ \A b \in Batches : /\ b.kind \in {"EVM", "SOL", "TON"}
                          /\ \A i \in b.items : i.op \in {"withdraw", "update"}
    /\ ClientFaults \subseteq ClientFaultKinds

VARIABLES
    config,     \* kind, items, workers and whether the node has block receipts
    children,   \* the signers of each child client; empty before the start
    calls,      \* number of calls made so far
    call,       \* the call of each worker
    ctx,        \* transactions of the chain, by the number of their call
    acct,       \* EVM: next nonce of each signer's account
    used,       \* keys of the withdrawals and updates the contract accepted
    vaults,     \* Solana: tokens whose vault exists
    vaultPanics \* history: how often the vault of a token ended the process

clientVars == <<config, children, calls, call, ctx, acct, used, vaults, vaultPanics>>

Keys == 1..NumKeys
Items == UNION {b.items : b \in Batches}
Tokens == {i.token : i \in {j \in Items : j.op = "withdraw"}}
Word == 2^WordBits

NotANumber == -1                  \* an amount that is not a decimal number
NativeToken == "0x0000000000000000000000000000000000000000"

\* What comes with a result: the hash of the call's transaction, the empty
\* string, or a hash that was computed for another transaction.
Hash(n) == <<"hash", n>>
Empty == <<"">>
Precomputed == <<"precomputed">>

Idle == [pc |-> "idle", n |-> 0, child |-> 0, item |-> None, signer |-> 0,
         nonce |-> 0, msg |-> None, ok |-> FALSE, hash |-> Empty]
NoCtx == [state |-> "unused", child |-> 0, item |-> None, signer |-> 0,
          nonce |-> 0, msg |-> None]

\* Words of the machine, and their reading as signed numbers.
Uint64(x) == x % Word
Int64(x) == IF x % Word < 2^(WordBits - 1) THEN x % Word ELSE (x % Word) - Word

\* The signature of core's parties over an item, decoded.
SigBytes(i) == <<i.sig, i.id>>

-----------------------------------------------------------------------------
(* Configuration *)

\* Faulty variant of FromChain: the number of workers is not checked.
FromChainUnchecked(workers) == workers > 0

\* FromChain and ConfigureChildClients panic unless every worker gets a key:
\* more workers than keys is refused, no workers divides by zero and a
\* negative number cannot be allocated.
FromChain(workers) == workers > 0 /\ workers <= NumKeys

\* Faulty variant of ConfigureChildClients: every child gets every key.
ConfigureChildClientsAll(workers) == [c \in 1..workers |-> Keys]

\* Key k, counted from 0 in the code, goes to child k % workers.
ConfigureChildClients(workers) ==
    [c \in 1..workers |-> {k \in Keys : ((k - 1) % workers) + 1 = c}]

ClientInit ==
    /\ \E b \in Batches, w \in WorkerCounts, r \in BOOLEAN :
          /\ (b.kind # "EVM") => r
          /\ config = [kind |-> b.kind, items |-> b.items, workers |-> w, receipts |-> r]
    /\ children = <<>>
    /\ calls = 0
    /\ call = [c \in Callers |-> Idle]
    /\ ctx = [n \in 1..CallBound |-> NoCtx]
    /\ acct = [k \in Keys |-> 0]
    /\ used = {}
    /\ vaults = {}
    /\ vaultPanics = [t \in Tokens |-> 0]

\* Clients and NewClientsRepository at the start of the process, for the chain
\* that is configured; a panic leaves no client.
Configure(kind) ==
    /\ config.kind = kind /\ children = <<>>
    /\ FromChain(config.workers)
    /\ children' = ConfigureChildClients(config.workers)
    /\ UNCHANGED <<config, calls, call, ctx, acct, used, vaults, vaultPanics>>

-----------------------------------------------------------------------------
(* Calls *)

\* What a step of a call leaves alone unless it says otherwise.
CallFrame == UNCHANGED <<config, children, calls, acct, used>>

CallStep(c, pc) == call' = [call EXCEPT ![c].pc = pc]

\* The call returns: with a hash and no error, or with an error and the hash
\* that comes with it. Its local variables are gone.
Returns(c, ok, hash) ==
    call' = [call EXCEPT ![c] = [Idle EXCEPT !.pc = "done", !.n = call[c].n,
                                             !.item = call[c].item, !.ok = ok,
                                             !.hash = hash]]

Fails(c, hash) == Returns(c, FALSE, hash)

\* Withdraw and UpdateSigners of a child client that was drawn at random: it
\* draws one of its signers at random. It would return an error if it had
\* none, but every child has one (ClientsTypeOK).
Call(kind, c) ==
    /\ config.kind = kind /\ call[c].pc \in {"idle", "done"}
    /\ calls < CallBound
    /\ calls' = calls + 1
    /\ \E child \in DOMAIN children, i \in config.items : \E s \in children[child] :
          call' = [call EXCEPT ![c] = [Idle EXCEPT !.pc = i.op, !.n = calls + 1,
                                                   !.child = child, !.item = i,
                                                   !.signer = s]]
    /\ UNCHANGED <<config, children, ctx, acct, used, vaults, vaultPanics>>

\* The call goes on at pc with the message it has built.
Builds(c, pc, msg) == call' = [call EXCEPT ![c].pc = pc, ![c].msg = msg]

\* The call's transaction, as the node takes it.
Sent(c, msg) ==
    [state |-> "pending", child |-> call[c].child, item |-> call[c].item,
     signer |-> call[c].signer, nonce |-> call[c].nonce, msg |-> msg]

\* A panic in a call ends the process and every call with it. The next
\* process configures the same children.
Panics ==
    /\ call' = [c \in Callers |-> Idle]
    /\ UNCHANGED <<config, children, calls, ctx, acct, used, vaults>>

\* The state of the transaction the call has sent.
Outcome(c) == ctx[call[c].n].state

=============================================================================
