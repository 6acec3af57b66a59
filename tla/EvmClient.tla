------------------------------ MODULE EvmClient ------------------------------
(***************************************************************************)
(* The EVM client. Withdraw and UpdateSigners pack the call of the bridge  *)
(* contract, read the pending nonce of the signer, estimate the gas, send  *)
(* the transaction and look for its receipt, Withdraw with a deadline.     *)
(* Nothing is locked in between, so two calls that drew the same signer    *)
(* may read the same nonce.                                                *)
(***************************************************************************)
EXTENDS ChainClient

\* The inputs of the methods in the ABI of the binding, in their order. The
\* ABI has no withdrawNativeMerkelized.
AbiInputs ==
    [withdrawNative |->
        <<"amount", "receiver", "txHash", "txNonce", "signatures">>,
     withdrawERC20 |->
        <<"token", "amount", "receiver", "txHash", "txNonce", "isWrapped", "signatures">>,
     withdrawERC20Merkelized |->
        <<"token", "amount", "receiver", "txHash", "txNonce", "isWrapped",
          "merkleProof", "signatures">>,
     updateSigner |->
        <<"signerToUpdate", "startTime", "deadline", "txNonce", "isAdding",
          "signatures">>]

\* A transaction hash is a string: 32 bytes in hex, or text that is hashed.
txHashToBytes32(h) == IF h[1] = "hex32" THEN h ELSE <<"keccak256", h>>

\* HexToAddress takes any string and keeps its last 20 bytes.
HexToAddress(s) == <<"address", s>>

\* getWithdrawFunc; the last name is the constant of types.go.
getWithdrawFunc(d) ==
    CASE d.token = NativeToken /\ d.proof # "" -> "withdrawNativeMerklelized"
      [] d.token = NativeToken /\ d.proof = "" -> "withdrawNative"
      [] d.token # NativeToken /\ d.proof # "" -> "withdrawERC20Merkelized"
      [] OTHER -> "withdrawERC20"

\* The proof is a JSON list of 32-byte hashes; "bad" stands for anything else.
merkleProofParses(d) == d.proof # "bad"

\* The arguments of the four methods.
withdrawNativeArgs(d) ==
    <<d.amount, HexToAddress(d.receiver), txHashToBytes32(d.txHash), d.nonce,
      SigBytes(d)>>

withdrawERC20Args(d) ==
    <<HexToAddress(d.token), d.amount, HexToAddress(d.receiver),
      txHashToBytes32(d.txHash), d.nonce, d.wrapped, SigBytes(d)>>

withdrawERC20MerkelizedArgs(d) ==
    <<HexToAddress(d.token), d.amount, HexToAddress(d.receiver),
      txHashToBytes32(d.txHash), d.nonce, d.wrapped, d.proof, SigBytes(d)>>

withdrawNativeMerkelizedArgs(d) ==
    <<d.amount, HexToAddress(d.receiver), txHashToBytes32(d.txHash), d.nonce,
      d.proof, SigBytes(d)>>

EvmArgs(d) ==
    CASE getWithdrawFunc(d) = "withdrawNative" -> withdrawNativeArgs(d)
      [] getWithdrawFunc(d) = "withdrawERC20" -> withdrawERC20Args(d)
      [] getWithdrawFunc(d) = "withdrawERC20Merkelized" -> withdrawERC20MerkelizedArgs(d)
      [] OTHER -> withdrawNativeMerkelizedArgs(d)

\* getWithdrawalTxData has data for d: its strings parse and Pack knows the
\* method.
getWithdrawalTxData(d) ==
    /\ d.amount # NotANumber
    /\ d.sig # "undecodable"
    /\ merkleProofParses(d)
    /\ getWithdrawFunc(d) \in DOMAIN AbiInputs

\* The arguments of updateSigner.
updateSignerArgs(e) ==
    <<HexToAddress(e.signer), e.startTime, e.endTime, e.nonce, e.adding, SigBytes(e)>>

\* UpdateSigners has data for e: its strings parse.
updateSignerParses(e) == e.sig # "undecodable" /\ e.nonce # NotANumber

\* What the contract finds in the calldata, by the names of its inputs.
EvmDecode(msg) ==
    LET names == AbiInputs[msg.method]
    IN  [f \in ToSet(names) |-> msg.args[CHOOSE k \in DOMAIN names : names[k] = f]]

\* What core's parties signed for i.
EvmSigned(i) ==
    IF i.op = "update"
    THEN [signerToUpdate |-> HexToAddress(i.signer), startTime |-> i.startTime,
          deadline |-> i.endTime, txNonce |-> i.nonce, isAdding |-> i.adding,
          signatures |-> <<"valid", i.id>>]
    ELSE [amount |-> i.amount, receiver |-> HexToAddress(i.receiver),
          txHash |-> txHashToBytes32(i.txHash), txNonce |-> i.nonce,
          token |-> HexToAddress(i.token), isWrapped |-> i.wrapped,
          merkleProof |-> i.proof, signatures |-> <<"valid", i.id>>]

\* The key under which the contract marks a withdrawal or an update, from its
\* inputs.
EvmKey(msg) ==
    IF msg.method = "updateSigner" THEN <<<<"updateSigner">>, EvmDecode(msg).txNonce>>
    ELSE <<EvmDecode(msg).txHash, EvmDecode(msg).txNonce>>

\* The contract checks the signatures and that the key is new.
EvmAccepts(i, msg) ==
    /\ EvmKey(msg) \notin used
    /\ \A f \in ToSet(AbiInputs[msg.method]) : EvmDecode(msg)[f] = EvmSigned(i)[f]

\* IsProcessed: ContainsHash with the deposit's hash and nonce.
EvmIsProcessed(d) == <<txHashToBytes32(d.txHash), d.nonce>> \in used

-----------------------------------------------------------------------------
\* FromChain and NewBridgeClient, and Withdraw and UpdateSigners of the child
\* clients.
EvmConfigure == Configure("EVM")
EvmCall(c) == Call("EVM", c)

-----------------------------------------------------------------------------

Pending(s) == {n \in 1..CallBound : ctx[n].state = "pending" /\ ctx[n].signer = s}

\* PendingNonceAt: the first nonce of the account no pending transaction has.
PendingNonceAt(s) ==
    CHOOSE m \in acct[s]..(acct[s] + CallBound) :
        /\ \A n \in Pending(s) : ctx[n].nonce # m
        /\ \A l \in acct[s]..(m - 1) : \E n \in Pending(s) : ctx[n].nonce = l

EvmMsg(d) == [method |-> getWithdrawFunc(d), args |-> EvmArgs(d)]
EvmUpdateMsg(e) == [method |-> "updateSigner", args |-> updateSignerArgs(e)]

\* prepareTxOpts reads the nonce for the message.
EvmPrepares(c, msg) ==
    call' = [call EXCEPT ![c].pc = "estimate", ![c].msg = msg,
                         ![c].nonce = PendingNonceAt(call[c].signer)]

\* Withdraw up to the nonce in prepareTxOpts.
EvmWithdraw(c) ==
    /\ config.kind = "EVM" /\ call[c].pc = "withdraw"
    /\ \/ /\ getWithdrawalTxData(call[c].item)
          /\ EvmPrepares(c, EvmMsg(call[c].item))
       \/ /\ ~getWithdrawalTxData(call[c].item) \/ "rpc" \in ClientFaults
          /\ Fails(c, Empty)
    /\ UNCHANGED <<ctx, vaults, vaultPanics>> /\ CallFrame

\* UpdateSigners up to the same point.
EvmUpdateSigners(c) ==
    /\ config.kind = "EVM" /\ call[c].pc = "update"
    /\ \/ /\ updateSignerParses(call[c].item)
          /\ EvmPrepares(c, EvmUpdateMsg(call[c].item))
       \/ /\ ~updateSignerParses(call[c].item) \/ "rpc" \in ClientFaults
          /\ Fails(c, Empty)
    /\ UNCHANGED <<ctx, vaults, vaultPanics>> /\ CallFrame

\* EstimateGas runs the call on the state of the chain: one that would revert
\* is not sent. What follows (the parsing again, the block) only reads.
EstimateGas(c) ==
    /\ call[c].pc = "estimate"
    /\ \/ /\ EvmAccepts(call[c].item, call[c].msg)
          /\ CallStep(c, "send")
       \/ /\ \/ ~EvmAccepts(call[c].item, call[c].msg)
             \/ "rpc" \in ClientFaults
          /\ Fails(c, Empty)
    /\ UNCHANGED <<ctx, vaults, vaultPanics>> /\ CallFrame

\* Transactions of this signer that wait under the same nonce.
Rivals(c) == {n \in Pending(call[c].signer) : ctx[n].nonce = call[c].nonce}

\* The send. The node refuses a nonce that is spent, and one that waits
\* already unless the new transaction may replace the old one. The hash that
\* comes with an error of Withdraw is the one getWithdrawalTxHash computed for
\* a transaction without gas price, which is never sent.
EvmSend(c) ==
    /\ config.kind = "EVM" /\ call[c].pc = "send"
    /\ \/ /\ call[c].nonce >= acct[call[c].signer]
          /\ Rivals(c) = {} \/ "replace" \in ClientFaults
          /\ ctx' = [n \in 1..CallBound |->
                        CASE n = call[c].n -> Sent(c, call[c].msg)
                          [] n \in Rivals(c) -> [ctx[n] EXCEPT !.state = "dropped"]
                          [] OTHER -> ctx[n]]
          /\ CallStep(c, "final")
       \/ /\ \/ call[c].nonce < acct[call[c].signer]
             \/ Rivals(c) # {}
             \/ "rpc" \in ClientFaults
          /\ ctx' = ctx
          /\ Fails(c, IF call[c].item.op = "withdraw" THEN Precomputed ELSE Empty)
    /\ UNCHANGED <<vaults, vaultPanics>> /\ CallFrame

\* The call has sent its transaction and waits for it.
EvmFinal(c, op) == config.kind = "EVM" /\ call[c].pc = "final" /\ call[c].item.op = op

\* Faulty variant of EvmFinalize: a receipt of any status will do.
EvmFinalizeAnyReceipt(c) ==
    /\ EvmFinal(c, "withdraw")
    /\ \/ /\ Outcome(c) \in {"success", "reverted"}
          /\ Returns(c, TRUE, Hash(call[c].n))
       \/ Fails(c, Precomputed)
    /\ UNCHANGED <<ctx, vaults, vaultPanics>> /\ CallFrame

\* Faulty variant of EvmFinalize: no deadline.
EvmFinalizeForever(c) ==
    /\ EvmFinal(c, "withdraw")
    /\ \/ /\ Outcome(c) = "success"
          /\ Returns(c, TRUE, Hash(call[c].n))
       \/ /\ Outcome(c) = "reverted"
          /\ Fails(c, Precomputed)
    /\ UNCHANGED <<ctx, vaults, vaultPanics>> /\ CallFrame

\* finalize under its retries. The receipt is looked for in the blocks whose
\* headers arrive and, at the deadline, by its hash: the block may have come
\* before the subscription. A node without block receipts ends the search as
\* if it had succeeded. The deadline ends the wait for a transaction that is
\* not mined.
EvmFinalize(c) ==
    /\ EvmFinal(c, "withdraw")
    /\ \/ /\ Outcome(c) = "success" \/ ~config.receipts
          /\ Returns(c, TRUE, Hash(call[c].n))
       \/ /\ Outcome(c) # "success" \/ "rpc" \in ClientFaults
          /\ Fails(c, Precomputed)
    /\ UNCHANGED <<ctx, vaults, vaultPanics>> /\ CallFrame

\* WaitMined asks for the receipt again and again, whatever the node answers;
\* only the end of the process ends the wait for a transaction that is never
\* mined.
EvmWaitMined(c) ==
    /\ EvmFinal(c, "update")
    /\ \/ /\ Outcome(c) = "success"
          /\ Returns(c, TRUE, Hash(call[c].n))
       \/ /\ Outcome(c) = "reverted"
          /\ Fails(c, Empty)
    /\ UNCHANGED <<ctx, vaults, vaultPanics>> /\ CallFrame

\* A block has the next transaction of a signer's account.
EvmMine(n) ==
    /\ config.kind = "EVM" /\ ctx[n].state = "pending"
    /\ ctx[n].nonce = acct[ctx[n].signer]
    /\ acct' = [acct EXCEPT ![ctx[n].signer] = @ + 1]
    /\ \/ /\ EvmAccepts(ctx[n].item, ctx[n].msg)
          /\ ctx' = [ctx EXCEPT ![n].state = "success"]
          /\ used' = used \cup {EvmKey(ctx[n].msg)}
       \/ /\ \/ ~EvmAccepts(ctx[n].item, ctx[n].msg)
             \/ "revert" \in ClientFaults
          /\ ctx' = [ctx EXCEPT ![n].state = "reverted"]
          /\ used' = used
    /\ UNCHANGED <<config, children, calls, call, vaults, vaultPanics>>

EvmStep(c) ==
    \/ EvmWithdraw(c) \/ EvmUpdateSigners(c) \/ EstimateGas(c) \/ EvmSend(c)
    \/ EvmFinalize(c) \/ EvmWaitMined(c)

=============================================================================
