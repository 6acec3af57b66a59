----------------------------- MODULE ChainClients -----------------------------
(***************************************************************************)
(* The clients of the withdrawal chains together: the configuration names  *)
(* one of the three kinds, network workers call its child clients, and the *)
(* chain runs what they send. The rest of the project takes for granted    *)
(* what is checked here: that IsProcessed and the contract agree, and what *)
(* a result without an error means.                                        *)
(***************************************************************************)
EXTENDS EvmClient, SolanaClient, TonClient

\* IsProcessed of the client of this kind.
ClientIsProcessed(i) ==
    CASE config.kind = "EVM" -> EvmIsProcessed(i)
      [] config.kind = "SOL" -> SolanaIsProcessed(i)
      [] OTHER -> TonIsProcessed(i)

\* What the client of this kind sends for a deposit, and the contract's view.
ClientMessage(i) ==
    CASE config.kind = "EVM" -> EvmMsg(i)
      [] config.kind = "SOL" -> Build(SolanaInstruction(i, 1))
      [] OTHER -> IF i.token = NativeToken THEN buildWithdrawNativeCell(i)
                  ELSE buildWithdrawJettonCell(i, deriveJettonAddress(i.token))

Accepts(i, msg) ==
    CASE config.kind = "EVM" -> EvmAccepts(i, msg)
      [] config.kind = "SOL" -> SolanaAccepts(i, msg)
      [] OTHER -> TonAccepts(i, msg)

\* Another relayer's withdrawal: the key of what core's parties signed.
ForeignWithdraw(i) ==
    /\ "foreign" \in ClientFaults /\ i.op = "withdraw" /\ i.sig = "valid"
    /\ used' = used \cup
          {CASE config.kind = "EVM" -> <<EvmSigned(i).txHash, EvmSigned(i).txNonce>>
             [] config.kind = "SOL" -> getWithdrawalPDA(SignedHash(i))
             [] OTHER -> <<"store", IF i.token = NativeToken
                     THEN nativeHash(i.amount, i.receiver, tonHash(i.txHash), i.nonce,
                                     getNetworkCell)
                     ELSE jettonHash(i.amount, i.receiver, tonHash(i.txHash), i.nonce,
                                     getNetworkCell, i.wrapped, i.token)>>}
    /\ UNCHANGED <<config, children, calls, call, ctx, acct, vaults, vaultPanics>>

\* Somebody else creates the vault of a token.
ForeignVault(i) ==
    /\ "foreign" \in ClientFaults /\ config.kind = "SOL" /\ i.op = "withdraw"
    /\ i.token # NativeToken /\ ~i.wrapped
    /\ vaults' = vaults \cup {i.token}
    /\ UNCHANGED <<config, children, calls, call, ctx, acct, used, vaultPanics>>

ClientStep(c) == EvmStep(c) \/ SolanaStep(c) \/ TonStep(c)

ClientNext ==
    \/ EvmConfigure \/ SolanaConfigure \/ TonConfigure
    \/ \E c \in Callers : EvmCall(c) \/ SolanaCall(c) \/ TonCall(c) \/ ClientStep(c)
    \/ \E n \in 1..CallBound : EvmMine(n) \/ SolanaMine(n) \/ WalletRuns(n) \/ BridgeRuns(n)
    \/ \E i \in config.items : ForeignWithdraw(i) \/ ForeignVault(i)

ClientSpec == ClientInit /\ [][ClientNext]_clientVars

\* A worker that is in a call goes on: queries and waits have timeouts. The
\* chain owes nobody a block.
ClientFairSpec == ClientSpec /\ \A c \in Callers : WF_clientVars(ClientStep(c))

-----------------------------------------------------------------------------

InCall(c) == call[c].pc \notin {"idle", "done"}

\* Deposits as core's parties sign them. A native deposit with a proof is one
\* too, but the EVM client cannot pack it.
WellFormed(i) ==
    /\ i.op = "withdraw" /\ i.sig = "valid" /\ i.amount # NotANumber /\ i.proof # "bad"
    /\ config.kind = "SOL" => i.amount < Word

CannotPack(i) == config.kind = "EVM" /\ i.token = NativeToken /\ i.proof # ""

\* Nor does the binding of the TON bridge know the jetton message of the client.
CannotRead(i) == config.kind = "TON" /\ i.token # NativeToken

\* UpdateSigners of the EVM client waits for a transaction that is not mined:
\* it may wait for ever, or a transaction of the same nonce has taken its place.
WaitsUnmined(c) == EvmFinal(c, "update") /\ Outcome(c) \in {"pending", "dropped"}

\* The type of every variable. Children have signers among the keys, calls
\* are numbered and transactions belong to calls (ConfigureChildClients,
\* Withdraw of the child clients).
ClientsTypeOK ==
    /\ children = <<>> \/ children \in [1..config.workers -> (SUBSET Keys) \ {{}}]
    /\ calls \in 0..CallBound
    /\ \A c \in Callers : /\ call[c].n \in 0..calls
                          /\ InCall(c) => call[c].signer \in children[call[c].child]
    /\ \A n \in 1..CallBound : ctx[n].state # "unused" =>
          n <= calls /\ ctx[n].item \in config.items /\ ctx[n].signer \in Keys
    /\ acct \in [Keys -> 0..CallBound]

\* No key is shared: two transactions of one signer with one nonce, of which
\* at most one can be mined, were sent by calls of the same child client
\* (ConfigureChildClients; prepareTxOpts reads the nonce without a lock).
ClashWithinChild ==
    \A m, n \in 1..CallBound :
        /\ ctx[m].state # "unused" /\ ctx[n].state # "unused" /\ config.kind # "SOL"
        /\ ctx[m].signer = ctx[n].signer /\ ctx[m].nonce = ctx[n].nonce
        => ctx[m].child = ctx[n].child

\* Withdraw and UpdateSigners without an error mean that the transaction with
\* the returned hash was accepted by the contract and was for this very item.
\* It holds where the client looks: not on TON, and not of a withdrawal on an
\* EVM node without block receipts (finalize, SendTx, WaitMined).
OkIsPaid ==
    \A c \in Callers :
        /\ call[c].pc = "done" /\ call[c].ok /\ config.kind # "TON"
        /\ config.receipts \/ call[c].item.op = "update"
        => /\ ctx[call[c].hash[2]].state = "success"
           /\ ctx[call[c].hash[2]].item = call[c].item
           /\ call[c].item.op = "withdraw" => ClientIsProcessed(call[c].item)

\* IsProcessed says "no" to exactly those well-formed deposits for which the
\* contract would accept what Withdraw sends. Both derive a key from the
\* deposit in code of their own, and Withdraw passes its arguments by position
\* (IsProcessed, getWithdrawalTxData, getSignHash and getWithdrawalHash,
\* buildWithdrawNativeCell and getWithdrawalNativeHash). The jettons of TON are
\* the exception: a contract with the messages of the binding takes none, for
\* buildWithdrawJettonCell writes a field too many.
OpenIffPayable ==
    \A i \in config.items :
        WellFormed(i) /\ ~CannotPack(i)
        /\ (config.kind = "SOL" /\ i.token # NativeToken /\ ~i.wrapped => i.token \in vaults)
        => (Accepts(i, ClientMessage(i)) <=> ~ClientIsProcessed(i) /\ ~CannotRead(i))

\* The missing vault of a token ends the process at most once: the panic
\* comes after the vault was created, which no later process does again
\* (getSPLVault).
VaultPanicsOnce == \A t \in Tokens : vaultPanics[t] <= 1

\* Every call of a child client returns, or ends with the process, even if
\* its transaction is never mined: finalize has a deadline, SendTx and the
\* wallet a timeout. The exception is UpdateSigners of the EVM client, whose
\* WaitMined has none: then the transaction of the call is not mined.
CallReturns == \A c \in Callers : InCall(c) ~> ~InCall(c) \/ WaitsUnmined(c)

\* Without faults, the withdrawal of a well-formed deposit that nobody has
\* paid is sent: it does not come back empty-handed (getWithdrawalTxData).
\* The binding of the bridge contract offers a method for each kind of
\* deposit.
WellFormedIsSent ==
    \A c \in Callers :
        call[c].pc = "done" /\ WellFormed(call[c].item) /\ call[c].hash = Empty
        => ClientIsProcessed(call[c].item)

=============================================================================
