----------------------------- MODULE SolanaClient -----------------------------
(***************************************************************************)
(* The Solana client. Withdraw derives the addresses of the accounts of an *)
(* instruction, sends it and waits for its confirmation. The withdrawal of *)
(* an SPL token needs the token's vault: when there is none, the client    *)
(* creates it, and then has no vault to go on with.                        *)
(***************************************************************************)
EXTENDS ChainClient, SolanaInstructions

\* Strings of a deposit or an epoch that need not be what they should.
IsPublicKey(s) == s # "bad"
HasAccount(s) == s # "noAccount"
HasMetadata(t) == t # "plainMint"

BridgeId == <<"bridgeId">>
Sha256(x) == <<"sha256", x>>
FindProgramAddress(seeds) == <<"pda", seeds>>
AuthorityAddress == FindProgramAddress(<<"authority", BridgeId>>)

\* getWithdrawalPDA: the account that marks a withdrawal as done.
getWithdrawalPDA(hash) == FindProgramAddress(<<"withdraw", hash, BridgeId>>)

\* The seeds of a token's vault.
VaultAddress(t) == FindProgramAddress(<<"vault", t, BridgeId>>)

getUid(txHash, nonce) == Sha256(<<txHash, Uint64(nonce)>>)

TokenBytes(d) == IF d.token = NativeToken THEN <<>> ELSE <<d.token>>

\* The hash Withdraw derives the account from; the amount has to fit a word.
getSignHash(d) ==
    Sha256(<<"withdraw", BridgeId, d.amount, Sha256(<<d.txHash, Uint64(d.nonce)>>),
             d.receiver>> \o TokenBytes(d))
getSignHashParses(d) ==
    /\ d.amount # NotANumber /\ d.amount < Word
    /\ IsPublicKey(d.receiver) /\ IsPublicKey(d.token)

\* Faulty variant of getWithdrawalHash: the token is forgotten.
getWithdrawalHashNoToken(d) ==
    Sha256(<<"withdraw", BridgeId, Uint64(d.amount), getUid(d.txHash, d.nonce), d.receiver>>)

\* The hash IsProcessed derives the account from; the amount is cut to a word.
getWithdrawalHash(d) ==
    Sha256(<<"withdraw", BridgeId, Uint64(d.amount), getUid(d.txHash, d.nonce),
             d.receiver>> \o TokenBytes(d))

\* IsProcessed: whether the account exists.
SolanaIsProcessed(d) == getWithdrawalPDA(getWithdrawalHash(d)) \in used

\* processSignature: a signature of a wrong length is no error, it becomes
\* zeros, because the error that is wrapped is nil.
processSignature(d) == IF d.sig = "short" THEN <<"zeros">> ELSE SigBytes(d)
processSignatureParses(d) == d.sig \notin {"undecodable", "badRecovery"}

\* getWithdrawalContext.
getWithdrawalContext(d) ==
    [Receiver |-> d.receiver, Token |-> d.token, Authority |-> AuthorityAddress,
     WithdrawalPDA |-> getWithdrawalPDA(getSignHash(d)), Amount |-> Uint64(d.amount),
     UID |-> getUid(d.txHash, d.nonce), Sig |-> processSignature(d), RecID |-> 0,
     WithdrawalTxHash |-> getSignHash(d)]
hasWithdrawalContext(d) == processSignatureParses(d) /\ getSignHashParses(d)

\* The token's program, and the metadata of a wrapped token.
Owner(t) == <<"owner", t>>
tokenMetadata(t) == [Nonce |-> <<"nonce", t>>, Symbol |-> <<"symbol", t>>]

solanaNative(d, signer) ==
    LET w == getWithdrawalContext(d)
    IN  NewWithdrawNativeInstruction(BridgeId, w.WithdrawalTxHash, w.Amount, w.UID, w.Sig,
            w.RecID, w.Receiver, w.Authority, w.WithdrawalPDA, signer, "system")

withdrawSPL(d, signer) ==
    LET w == getWithdrawalContext(d)
    IN  NewWithdrawSplInstruction(BridgeId, w.WithdrawalTxHash, w.Amount, w.UID, w.Sig,
            w.RecID, w.Token, VaultAddress(d.token), w.Receiver, w.Authority,
            w.WithdrawalPDA, signer, "system", Owner(d.token))

withdrawWrapped(d, signer) ==
    LET w == getWithdrawalContext(d)
    IN  NewWithdrawWrappedInstruction(BridgeId, w.WithdrawalTxHash,
            tokenMetadata(d.token).Nonce, tokenMetadata(d.token).Symbol, w.Amount, w.UID,
            w.Sig, w.RecID, w.Token, w.Receiver, w.Authority, w.WithdrawalPDA, signer,
            "system", "token2022")

SolanaInstruction(d, signer) ==
    CASE d.token = NativeToken -> solanaNative(d, signer)
      [] d.token # NativeToken /\ ~d.wrapped -> withdrawSPL(d, signer)
      [] OTHER -> withdrawWrapped(d, signer)

vaultInst(d, signer) ==
    NewInitSplVaultInstruction(BridgeId, d.token, VaultAddress(d.token), signer,
                               Owner(d.token), "system")

\* parseSignatureAndSigner: wrong lengths are no error either; signature and
\* signer become zeros. The recovery id is passed on as it is.
parseSignatureAndSigner(e) ==
    IF e.sig = "valid" /\ e.signer = "compressed" THEN <<SigBytes(e), e.signer>>
                                                  ELSE <<<<"zeros">>, "zeros">>

\* The signer is not looked at when the signature has a wrong length.
parseSignatureAndSignerFails(e) ==
    e.sig = "undecodable" \/ (e.sig # "short" /\ e.signer = "undecodable")

UpdateSignersInstruction(e, signer) ==
    NewUpdateSignerInstruction(BridgeId, IF e.adding THEN "Add" ELSE "Remove",
        parseSignatureAndSigner(e)[2], Int64(e.startTime), Int64(e.endTime), e.nonce,
        parseSignatureAndSigner(e)[1], 0, AuthorityAddress, signer)

-----------------------------------------------------------------------------
(* The bridge program *)

SignedHash(d) ==
    Sha256(<<"withdraw", BridgeId, d.amount, Sha256(<<d.txHash, d.nonce>>), d.receiver>>
           \o TokenBytes(d))

\* The key of what a transaction does: the marking account, or the nonce.
SolanaKey(tx) == IF HasRole(tx, "tx_used") THEN Account(tx, "tx_used")
                                           ELSE <<"update", Param(tx, "NewNonce")>>

ProgramHash(tx) ==
    Sha256(<<"withdraw", Param(tx, "BridgeId"), Param(tx, "Amount"), Param(tx, "Uid"),
             Account(tx, "receiver")>>
           \o IF HasRole(tx, "mint") THEN <<Account(tx, "mint")>> ELSE <<>>)

\* A withdrawal: the hash is that of the other parameters and accounts, it is
\* the one that was signed, and the derived accounts are the right ones.
AcceptsWithdrawal(i, tx) ==
    /\ Param(tx, "Hash") = ProgramHash(tx)
    /\ Param(tx, "Hash") = SignedHash(i) /\ Param(tx, "Signature") = <<"valid", i.id>>
    /\ Account(tx, "tx_used") = getWithdrawalPDA(Param(tx, "Hash"))
    /\ Account(tx, "system_program") = "system"
    /\ HasRole(tx, "spl_vault") => /\ i.token \in vaults
                                   /\ Account(tx, "spl_vault") = VaultAddress(i.token)
                                   /\ Account(tx, "token_program") = Owner(i.token)

AcceptsUpdate(i, tx) ==
    /\ Param(tx, "Signature") = <<"valid", i.id>> /\ Param(tx, "Signer") = i.signer
    /\ Param(tx, "StartTimestamp") = i.startTime /\ Param(tx, "EndTimestamp") = i.endTime
    /\ Param(tx, "NewNonce") = i.nonce
    /\ Param(tx, "RequestType") = IF i.adding THEN "Add" ELSE "Remove"

SolanaAccepts(i, tx) ==
    /\ SolanaKey(tx) \notin used
    /\ IF i.op = "update" THEN AcceptsUpdate(i, tx) ELSE AcceptsWithdrawal(i, tx)
    /\ Account(tx, "signer") \in Keys

-----------------------------------------------------------------------------
\* FromChain and NewBridgeClient, and Withdraw and UpdateSigners of the child
\* clients. The start panics as well when the websocket of the chain cannot
\* be reached: then there is no step.
SolanaConfigure == Configure("SOL")
SolanaCall(c) == Call("SOL", c)

-----------------------------------------------------------------------------

SolanaAt(c, pc) == config.kind = "SOL" /\ call[c].pc = pc

\* The instruction's transaction is built; SendTx is next.
SolanaBuilds(c, inst) == Builds(c, "send", Build(inst))

\* Withdraw up to SendTx, or up to the vault. The metadata of a wrapped token
\* are read with type assertions that panic.
SolanaWithdraw(c) ==
    /\ SolanaAt(c, "withdraw")
    /\ LET d == call[c].item
           hasReceiver == d.token # NativeToken => HasAccount(d.receiver)
       IN  \/ /\ hasReceiver /\ hasWithdrawalContext(d)
              /\ d.token = NativeToken \/ d.wrapped
              /\ d.wrapped => HasMetadata(d.token)
              /\ SolanaBuilds(c, SolanaInstruction(d, call[c].signer))
           \/ /\ hasReceiver /\ hasWithdrawalContext(d)
              /\ d.token # NativeToken /\ ~d.wrapped
              /\ CallStep(c, "vault")
           \/ /\ ~hasReceiver \/ ~hasWithdrawalContext(d) \/ "rpc" \in ClientFaults
              /\ Fails(c, Empty)
    /\ UNCHANGED <<ctx, vaults, vaultPanics>> /\ CallFrame

\* parseTokenMetadata of a mint that has none.
parseTokenMetadataPanics(c) ==
    /\ SolanaAt(c, "withdraw")
    /\ LET d == call[c].item
       IN  /\ d.token # NativeToken /\ HasAccount(d.receiver) /\ hasWithdrawalContext(d)
           /\ d.wrapped /\ ~HasMetadata(d.token)
    /\ Panics
    /\ UNCHANGED vaultPanics

\* Faulty variant of getSPLVault: no vault is returned for one that exists
\* either.
getSPLVaultNil(c) ==
    /\ SolanaAt(c, "vault")
    /\ \/ /\ call[c].item.token \in vaults
          /\ vaultPanics' = [vaultPanics EXCEPT ![call[c].item.token] = @ + 1]
          /\ Panics
       \/ /\ call[c].item.token \notin vaults
          /\ Builds(c, "initVault", Build(vaultInst(call[c].item, call[c].signer)))
          /\ UNCHANGED <<ctx, vaults, vaultPanics>> /\ CallFrame

\* getSPLVault looks for the account of the vault.
getSPLVault(c) ==
    /\ SolanaAt(c, "vault")
    /\ \/ /\ call[c].item.token \in vaults
          /\ SolanaBuilds(c, SolanaInstruction(call[c].item, call[c].signer))
       \/ /\ call[c].item.token \notin vaults
          /\ Builds(c, "initVault", Build(vaultInst(call[c].item, call[c].signer)))
       \/ /\ "rpc" \in ClientFaults
          /\ Fails(c, Empty)
    /\ UNCHANGED <<ctx, vaults, vaultPanics>> /\ CallFrame

\* SendTx. An error before the transaction is signed comes without a hash; one
\* of the send comes with the hash, whether the node has the transaction or
\* refused it.
SendTx(c) ==
    /\ config.kind = "SOL" /\ call[c].pc \in {"send", "initVault"}
    /\ \/ /\ ctx' = [ctx EXCEPT ![call[c].n] = Sent(c, call[c].msg)]
          /\ CallStep(c, IF call[c].pc = "send" THEN "final" ELSE "vaultFinal")
       \/ /\ "rpc" \in ClientFaults
          /\ \E hash \in {Empty, IF call[c].item.op = "update" \/ call[c].pc = "initVault"
                                   THEN Empty ELSE Hash(call[c].n)} : Fails(c, hash)
          /\ ctx' = ctx
    /\ UNCHANGED <<vaults, vaultPanics>> /\ CallFrame

\* The confirmation of a withdrawal or an update, or the end of the wait.
SolanaFinalize(c) ==
    /\ SolanaAt(c, "final")
    /\ \/ /\ Outcome(c) = "success"
          /\ Returns(c, TRUE, Hash(call[c].n))
       \/ /\ Outcome(c) # "success" \/ "rpc" \in ClientFaults
          /\ Fails(c, IF call[c].item.op = "update" THEN Empty ELSE Hash(call[c].n))
    /\ UNCHANGED <<ctx, vaults, vaultPanics>> /\ CallFrame

\* The vault could not be created.
VaultFails(c) ==
    /\ SolanaAt(c, "vaultFinal")
    /\ Outcome(c) # "success" \/ "rpc" \in ClientFaults
    /\ Fails(c, Empty)
    /\ UNCHANGED <<ctx, vaults, vaultPanics>> /\ CallFrame

\* The vault was created: getSPLVault wraps a nil error and returns no vault,
\* and withdrawSPL dereferences it.
VaultPanics(c) ==
    /\ SolanaAt(c, "vaultFinal")
    /\ Outcome(c) = "success"
    /\ vaultPanics' = [vaultPanics EXCEPT ![call[c].item.token] = @ + 1]
    /\ Panics

\* UpdateSigners up to SendTx.
SolanaUpdateSigners(c) ==
    /\ SolanaAt(c, "update")
    /\ LET e == call[c].item
           builds == ~parseSignatureAndSignerFails(e) /\ e.nonce \in 0..(Word - 1)
       IN  \/ /\ builds
              /\ SolanaBuilds(c, UpdateSignersInstruction(e, call[c].signer))
           \/ /\ ~builds \/ "rpc" \in ClientFaults
              /\ Fails(c, Empty)
    /\ UNCHANGED <<ctx, vaults, vaultPanics>> /\ CallFrame

IsVaultTx(tx) == tx.data[1] = "init_spl_vault"

\* The program runs a transaction. A vault is created once.
SolanaMine(n) ==
    /\ config.kind = "SOL" /\ ctx[n].state = "pending"
    /\ LET token == Account(ctx[n].msg, "mint")
           ok == IF IsVaultTx(ctx[n].msg) THEN token \notin vaults
                                          ELSE SolanaAccepts(ctx[n].item, ctx[n].msg)
       IN  \/ /\ ok
              /\ ctx' = [ctx EXCEPT ![n].state = "success"]
              /\ IF IsVaultTx(ctx[n].msg)
                 THEN vaults' = vaults \cup {token} /\ used' = used
                 ELSE used' = used \cup {SolanaKey(ctx[n].msg)} /\ vaults' = vaults
           \/ /\ ~ok \/ "revert" \in ClientFaults
              /\ ctx' = [ctx EXCEPT ![n].state = "reverted"]
              /\ UNCHANGED <<used, vaults>>
    /\ UNCHANGED <<config, children, calls, call, acct, vaultPanics>>

SolanaStep(c) ==
    \/ SolanaWithdraw(c) \/ parseTokenMetadataPanics(c) \/ getSPLVault(c) \/ SendTx(c)
    \/ SolanaFinalize(c) \/ VaultFails(c) \/ VaultPanics(c) \/ SolanaUpdateSigners(c)

=============================================================================
