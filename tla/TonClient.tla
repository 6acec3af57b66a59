------------------------------ MODULE TonClient ------------------------------
(***************************************************************************)
(* The TON client. Withdraw builds the body of a message to the bridge,    *)
(* sends it from a wallet and waits for the wallet's transaction. What the *)
(* bridge makes of the message is a later transaction nobody looks for.    *)
(***************************************************************************)
EXTENDS ChainClient

IsAddress(s) == s # "bad"
NoAddress == <<"addr_none">>

\* The hash of a deposit as a number; see the EVM client.
tonHash(h) == IF h[1] = "hex32" THEN h ELSE <<"keccak256", h>>

\* The name of the chain, filled up with zeros to 32 bytes.
getNetworkCell == <<"padded", "network">>

\* getSignatureCell stores 65 bytes; it fails on fewer.
getSignatureCellParses(d) == d.sig \notin {"undecodable", "short"}

\* The wallet of the bridge for a jetton.
deriveJettonAddress(t) == <<"wallet", t>>

\* The body of a native withdrawal: the cell and the one it refers to.
buildWithdrawNativeCell(d) ==
    [op |-> "withdrawNative",
     body |-> <<d.amount, d.receiver, tonHash(d.txHash)>>
              \o <<d.nonce, SigBytes(d), getNetworkCell>>]
buildsWithdrawNativeCell(d) ==
    getSignatureCellParses(d) /\ IsAddress(d.receiver) /\ d.amount # NotANumber

\* The body of a jetton withdrawal, three cells. An amount that is no number
\* gives no body and, as the wrapped error is nil, no error.
buildWithdrawJettonCell(d, wallet) ==
    IF d.amount = NotANumber THEN [op |-> "empty", body |-> <<>>]
    ELSE [op |-> "withdrawJetton",
          body |-> <<d.receiver, d.amount, tonHash(d.txHash)>>
                   \o <<d.nonce, getNetworkCell, d.wrapped, SigBytes(d), d.token, wallet>>
                   \o <<500000000, 1000000000>>]
buildsWithdrawJettonCell(d) ==
    getSignatureCellParses(d) /\ IsAddress(d.token) /\ IsAddress(d.receiver)

\* The body of an update of the signers.
buildUpdateSignerCell(e) ==
    [op |-> "updateSigner",
     body |-> <<4, e.signer, Int64(e.startTime), Int64(e.endTime), e.nonce, e.adding,
                SigBytes(e)>>]

\* HexToCoordinates wants the 65 bytes of an uncompressed key.
HexToCoordinatesParses(e) == e.signer = "uncompressed"

\* nativeHash and jettonHash, which the contract computes for IsProcessed
\* from the same fields as for a message.
nativeHash(amount, receiver, txHash, nonce, network) ==
    <<"native", amount, receiver, txHash, nonce, network>>
jettonHash(amount, receiver, txHash, nonce, network, isWrapped, token) ==
    <<"jetton", amount, receiver, txHash, nonce, network, isWrapped, token>>

getWithdrawalNativeHash(d) ==
    nativeHash(d.amount, d.receiver, tonHash(d.txHash), Uint64(d.nonce), getNetworkCell)

getWithdrawalJettonHash(d) ==
    jettonHash(d.amount, d.receiver, tonHash(d.txHash), Uint64(d.nonce), getNetworkCell,
               d.wrapped, d.token)

\* The address of the account that marks the withdrawal.
getStoreAddress(d) ==
    <<"store", IF d.token = NativeToken THEN getWithdrawalNativeHash(d)
                                        ELSE getWithdrawalJettonHash(d)>>

\* IsProcessed: whether the account is active.
TonIsProcessed(d) == getStoreAddress(d) \in used

-----------------------------------------------------------------------------
(* The bridge contract. It is not in the repository; the binding generated   *)
(* from it is, and names the fields of each message in their order. It      *)
(* agrees with the client on native withdrawals. A jetton message of the    *)
(* client has an amount the binding does not know, and its update of the    *)
(* signers a nonce, and times of 64 bits instead of 32.                     *)

\* MsgWithdrawNative, MsgWithdrawJetton and MsgUpdateSignerKeyBySignature (the
\* two coordinates of the key are one field here, as in the body).
nativeFields == <<"amount", "receiver", "txHash", "txNonce", "signature", "network">>
jettonFields == <<"receiver", "txHash", "txNonce", "network", "isWrapped",
                  "signature", "token", "bridgeJetton", "forwardTon", "totalTon">>
updateSignerFields == <<"h", "signer", "startTime", "endTime", "isAdding", "signature">>

TonFields(msg) == CASE msg.op = "withdrawNative" -> nativeFields
                    [] msg.op = "withdrawJetton" -> jettonFields
                    [] msg.op = "updateSigner" -> updateSignerFields
                    [] OTHER -> <<>>

\* The contract can read a body that has the fields of its message.
TonReads(msg) == msg.op # "empty" /\ Len(msg.body) = Len(TonFields(msg))

TonDecode(msg) ==
    LET names == TonFields(msg)
    IN  [f \in ToSet(names) |-> msg.body[CHOOSE k \in DOMAIN names : names[k] = f]]

\* The account that marks a native withdrawal is derived from the fields of its
\* message. The messages of the other kinds the contract does not read.
TonKey(msg) ==
    LET m == TonDecode(msg)
    IN  IF msg.op = "withdrawNative"
        THEN <<"store", nativeHash(m.amount, m.receiver, m.txHash, m.txNonce, m.network)>>
        ELSE <<msg.op, m>>

\* What core's parties signed.
TonSigned(i) ==
    IF i.op = "update"
    THEN [h |-> 4, signer |-> i.signer, startTime |-> i.startTime, endTime |-> i.endTime,
          isAdding |-> i.adding, signature |-> <<"valid", i.id>>]
    ELSE [amount |-> i.amount, receiver |-> i.receiver, txHash |-> tonHash(i.txHash),
          txNonce |-> i.nonce, network |-> getNetworkCell, isWrapped |-> i.wrapped,
          token |-> i.token, bridgeJetton |-> deriveJettonAddress(i.token),
          signature |-> <<"valid", i.id>>, forwardTon |-> 500000000,
          totalTon |-> 1000000000]

TonAccepts(i, msg) ==
    /\ TonReads(msg)
    /\ TonKey(msg) \notin used
    /\ \A f \in ToSet(TonFields(msg)) : TonDecode(msg)[f] = TonSigned(i)[f]

-----------------------------------------------------------------------------
\* FromChain and NewBridgeClient, and Withdraw and UpdateSigners of the child
\* clients. The start panics as well when the global configuration of the
\* network cannot be loaded: then there is no step.
TonConfigure == Configure("TON")
TonCall(c) == Call("TON", c)

-----------------------------------------------------------------------------

TonAt(c, pc) == config.kind = "TON" /\ call[c].pc = pc

TonBuilds(c, msg) == Builds(c, "send", msg)

\* Withdraw up to the send. The error of deriveJettonAddress is overwritten by
\* the next one, and the message goes out without the bridge's wallet.
TonWithdraw(c) ==
    /\ TonAt(c, "withdraw")
    /\ LET d == call[c].item
       IN  \/ /\ d.token = NativeToken /\ buildsWithdrawNativeCell(d)
              /\ TonBuilds(c, buildWithdrawNativeCell(d))
           \/ /\ d.token # NativeToken /\ buildsWithdrawJettonCell(d)
              /\ \/ TonBuilds(c, buildWithdrawJettonCell(d, deriveJettonAddress(d.token)))
                 \/ /\ "rpc" \in ClientFaults
                    /\ TonBuilds(c, buildWithdrawJettonCell(d, NoAddress))
           \/ /\ \/ d.token = NativeToken /\ ~buildsWithdrawNativeCell(d)
                 \/ d.token # NativeToken /\ ~buildsWithdrawJettonCell(d)
                 \/ "rpc" \in ClientFaults
              /\ Fails(c, Empty)
    /\ UNCHANGED <<ctx, vaults, vaultPanics>> /\ CallFrame

\* UpdateSigners up to the send.
TonUpdateSigners(c) ==
    /\ TonAt(c, "update")
    /\ LET e == call[c].item
           builds == /\ HexToCoordinatesParses(e) /\ e.sig \notin {"undecodable", "oversized"}
                     /\ e.nonce \in 0..(Word - 1)
       IN  \/ /\ builds
              /\ TonBuilds(c, buildUpdateSignerCell(e))
           \/ /\ (~builds /\ e.sig # "oversized") \/ "rpc" \in ClientFaults
              /\ Fails(c, Empty)
    /\ UNCHANGED <<ctx, vaults, vaultPanics>> /\ CallFrame

\* A signature of more bytes than a cell holds: MustStoreSlice panics.
TonUpdatePanics(c) ==
    /\ TonAt(c, "update")
    /\ HexToCoordinatesParses(call[c].item) /\ call[c].item.sig = "oversized"
    /\ Panics
    /\ UNCHANGED vaultPanics

\* SendManyWaitTxHash reads the wallet's sequence number and sends.
TonSend(c) ==
    /\ TonAt(c, "send")
    /\ \/ /\ ctx' = [ctx EXCEPT ![call[c].n] =
                        [Sent(c, call[c].msg) EXCEPT !.nonce = acct[call[c].signer]]]
          /\ CallStep(c, "final")
       \/ /\ "rpc" \in ClientFaults
          /\ ctx' = ctx
          /\ Fails(c, Empty)
    /\ UNCHANGED <<vaults, vaultPanics>> /\ CallFrame

\* It returns when the wallet's transaction is found, or gives up.
TonFinalize(c) ==
    /\ TonAt(c, "final")
    /\ \/ /\ Outcome(c) # "pending"
          /\ Returns(c, TRUE, Hash(call[c].n))
       \/ /\ Outcome(c) = "pending" \/ "rpc" \in ClientFaults
          /\ Fails(c, Empty)
    /\ UNCHANGED <<ctx, vaults, vaultPanics>> /\ CallFrame

\* The wallet runs the message of its sequence number.
WalletRuns(n) ==
    /\ config.kind = "TON" /\ ctx[n].state = "pending"
    /\ ctx[n].nonce = acct[ctx[n].signer]
    /\ acct' = [acct EXCEPT ![ctx[n].signer] = @ + 1]
    /\ ctx' = [ctx EXCEPT ![n].state = "forwarded"]
    /\ UNCHANGED <<config, children, calls, call, used, vaults, vaultPanics>>

\* The bridge gets the wallet's message.
BridgeRuns(n) ==
    /\ ctx[n].state = "forwarded"
    /\ \/ /\ TonAccepts(ctx[n].item, ctx[n].msg)
          /\ ctx' = [ctx EXCEPT ![n].state = "success"]
          /\ used' = used \cup {TonKey(ctx[n].msg)}
       \/ /\ ~TonAccepts(ctx[n].item, ctx[n].msg) \/ "revert" \in ClientFaults
          /\ ctx' = [ctx EXCEPT ![n].state = "reverted"]
          /\ used' = used
    /\ UNCHANGED <<config, children, calls, call, acct, vaults, vaultPanics>>

TonStep(c) ==
    \/ TonWithdraw(c) \/ TonUpdateSigners(c) \/ TonUpdatePanics(c) \/ TonSend(c)
    \/ TonFinalize(c)

=============================================================================
