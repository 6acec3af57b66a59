---------------------------- MODULE MCChainClients ----------------------------
(***************************************************************************)
(* Deposits and epochs for the chain clients. A batch is what one chain is *)
(* asked to do; a second call may repeat the first.                        *)
(***************************************************************************)
EXTENDS ChainClients

Deposit(id, txHash, amount, receiver, token, wrapped, proof, sig) ==
    [op |-> "withdraw", id |-> id, txHash |-> txHash, nonce |-> 1, amount |-> amount,
     receiver |-> receiver, token |-> token, wrapped |-> wrapped, proof |-> proof,
     sig |-> sig]

EpochItem(id, signer, nonce, sig) ==
    [op |-> "update", id |-> id, signer |-> signer, nonce |-> nonce, startTime |-> 1,
     endTime |-> 2, adding |-> TRUE, sig |-> sig]

Batch(kind, items) == [kind |-> kind, items |-> items]

Hex == <<"hex32", "0xab">>
Text == <<"text", "tx">>

native == Deposit("native", Hex, 2, "alice", NativeToken, FALSE, "", "valid")
nativeText == Deposit("nativeText", Text, 2, "alice", NativeToken, FALSE, "", "valid")
nativeProof == Deposit("nativeProof", Hex, 2, "alice", NativeToken, FALSE, "proof", "valid")
token == Deposit("token", Text, 3, "bob", "mint", FALSE, "", "valid")
wrapped == Deposit("wrapped", Hex, 2, "alice", "wmint", TRUE, "", "valid")
tokenProof == Deposit("tokenProof", Text, 3, "bob", "mint", FALSE, "proof", "valid")
noAmount == Deposit("noAmount", Text, NotANumber, "bob", "mint", FALSE, "", "valid")
tooMuch == Deposit("tooMuch", Text, 9, "bob", NativeToken, FALSE, "", "valid")
shortSig == Deposit("shortSig", Text, 3, "bob", NativeToken, FALSE, "", "short")
noMetadata == Deposit("noMetadata", Text, 3, "bob", "plainMint", TRUE, "", "valid")
newcomer == Deposit("newcomer", Text, 3, "noAccount", "wmint", TRUE, "", "valid")
solEpoch == EpochItem("solEpoch", "compressed", 1, "valid")
shortEpoch == EpochItem("shortEpoch", "compressed", 2, "short")
tonEpoch == EpochItem("tonEpoch", "uncompressed", 1, "valid")
longEpoch == EpochItem("longEpoch", "uncompressed", 2, "oversized")
hugeNonce == EpochItem("hugeNonce", "uncompressed", 8, "valid")
evmEpoch == EpochItem("evmEpoch", "compressed", 1, "valid")
noNonce == EpochItem("noNonce", "compressed", NotANumber, "valid")

EvmBatches == {Batch("EVM", {native, token}), Batch("EVM", {tokenProof, nativeProof}),
               Batch("EVM", {noAmount, nativeText}), Batch("EVM", {evmEpoch, noNonce}),
               Batch("EVM", {native, evmEpoch})}
SolanaBatches == {Batch("SOL", {native, tooMuch}), Batch("SOL", {token}),
                  Batch("SOL", {wrapped}), Batch("SOL", {noMetadata}),
                  Batch("SOL", {newcomer, shortSig}),
                  Batch("SOL", {solEpoch, shortEpoch}), Batch("SOL", {hugeNonce})}
TonBatches == {Batch("TON", {native}), Batch("TON", {token}), Batch("TON", {noAmount}),
               Batch("TON", {tonEpoch, longEpoch}), Batch("TON", {hugeNonce, shortSig})}

AllBatches == EvmBatches \cup SolanaBatches \cup TonBatches
ProofBatches == EvmBatches

=============================================================================
