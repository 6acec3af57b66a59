-------------------------- MODULE SolanaInstructions --------------------------
(***************************************************************************)
(* The instructions of the Solana bridge program the relayer sends, as its *)
(* bindings build them: parameters are set by name and serialized in an    *)
(* order, accounts are put in numbered slots. Every constructor takes its  *)
(* arguments by position, most of them of the same types. The program      *)
(* reads the parameters in the order of the deserializer and the accounts  *)
(* by the roles of the slots.                                              *)
(***************************************************************************)
EXTENDS Integers, Sequences, SequencesExt

\* The metas of an account: read, written, written and signing.
Meta(k) == [key |-> k, write |-> FALSE, sign |-> FALSE]
WRITE(m) == [m EXCEPT !.write = TRUE]
SIGNER(m) == [m EXCEPT !.sign = TRUE]

\* The roles of the slots.
WithdrawNativeSlots == <<"receiver", "authority", "tx_used", "signer", "system_program">>
WithdrawSplSlots == <<"mint", "spl_vault", "receiver", "authority", "tx_used", "signer",
                      "system_program", "token_program">>
WithdrawWrappedSlots == <<"mint", "receiver", "authority", "tx_used", "signer",
                          "system_program", "token_program">>
InitSplVaultSlots == <<"mint", "spl_vault", "signer", "token_program", "system_program">>
UpdateSignerSlots == <<"authority", "signer">>

\* The order in which the parameters are serialized, and deserialized.
WithdrawNativeMarshal ==
    <<"BridgeId", "Hash", "Amount", "Uid", "Signature", "RecoveryId">>
WithdrawNativeUnmarshal ==
    <<"BridgeId", "Hash", "Amount", "Uid", "Signature", "RecoveryId">>
WithdrawSplMarshal ==
    <<"BridgeId", "Hash", "Amount", "Uid", "Signature", "RecoveryId">>
WithdrawSplUnmarshal ==
    <<"BridgeId", "Hash", "Amount", "Uid", "Signature", "RecoveryId">>
WithdrawWrappedMarshal ==
    <<"BridgeId", "Hash", "MintNonce", "Symbol", "Amount", "Uid", "Signature", "RecoveryId">>
WithdrawWrappedUnmarshal ==
    <<"BridgeId", "Hash", "MintNonce", "Symbol", "Amount", "Uid", "Signature", "RecoveryId">>
InitSplVaultMarshal == <<"BridgeId">>
InitSplVaultUnmarshal == <<"BridgeId">>
UpdateSignerMarshal ==
    <<"BridgeId", "RequestType", "Signer", "StartTimestamp", "EndTimestamp", "NewNonce",
      "Signature", "RecoveryId">>
UpdateSignerUnmarshal ==
    <<"BridgeId", "RequestType", "Signer", "StartTimestamp", "EndTimestamp", "NewNonce",
      "Signature", "RecoveryId">>

\* The parameter setters of the instructions.
WithdrawNativeParams(bridge_id, hash, amount, uid, signature, recovery_id) ==
    [BridgeId |-> bridge_id, Hash |-> hash, Amount |-> amount, Uid |-> uid,
     Signature |-> signature, RecoveryId |-> recovery_id]
WithdrawSplParams(bridge_id, hash, amount, uid, signature, recovery_id) ==
    [BridgeId |-> bridge_id, Hash |-> hash, Amount |-> amount, Uid |-> uid,
     Signature |-> signature, RecoveryId |-> recovery_id]
WithdrawWrappedParams(bridge_id, hash, mint_nonce, symbol, amount, uid, signature, recovery_id) ==
    [BridgeId |-> bridge_id, Hash |-> hash, MintNonce |-> mint_nonce, Symbol |-> symbol,
     Amount |-> amount, Uid |-> uid, Signature |-> signature, RecoveryId |-> recovery_id]
UpdateSignerParams(bridge_id, request_type, signer, start_timestamp, end_timestamp, new_nonce, signature, recovery_id) ==
    [BridgeId |-> bridge_id, RequestType |-> request_type, Signer |-> signer,
     StartTimestamp |-> start_timestamp, EndTimestamp |-> end_timestamp,
     NewNonce |-> new_nonce, Signature |-> signature, RecoveryId |-> recovery_id]

\* The constructors: parameters, then accounts, each set in its slot.
NewWithdrawNativeInstruction(bridge_id, hash, amount, uid, signature, recovery_id, receiver, authority, txUsed, signer, systemProgram) ==
    [type |-> "withdraw_native",
     params |-> WithdrawNativeParams(bridge_id, hash, amount, uid, signature, recovery_id),
     accounts |-> <<WRITE(Meta(receiver)), WRITE(Meta(authority)), WRITE(Meta(txUsed)),
                    SIGNER(WRITE(Meta(signer))), Meta(systemProgram)>>]

NewWithdrawSplInstruction(bridge_id, hash, amount, uid, signature, recovery_id, mint, splVault, receiver, authority, txUsed, signer, systemProgram, tokenProgram) ==
    [type |-> "withdraw_spl",
     params |-> WithdrawSplParams(bridge_id, hash, amount, uid, signature, recovery_id),
     accounts |-> <<Meta(mint), WRITE(Meta(splVault)), WRITE(Meta(receiver)),
                    Meta(authority), WRITE(Meta(txUsed)), SIGNER(WRITE(Meta(signer))),
                    Meta(systemProgram), Meta(tokenProgram)>>]

NewWithdrawWrappedInstruction(bridge_id, hash, mint_nonce, symbol, amount, uid, signature, recovery_id, mint, receiver, authority, txUsed, signer, systemProgram, tokenProgram) ==
    [type |-> "withdraw_wrapped",
     params |-> WithdrawWrappedParams(bridge_id, hash, mint_nonce, symbol, amount, uid,
                                      signature, recovery_id),
     accounts |-> <<WRITE(Meta(mint)), WRITE(Meta(receiver)), Meta(authority),
                    WRITE(Meta(txUsed)), SIGNER(WRITE(Meta(signer))),
                    Meta(systemProgram), Meta(tokenProgram)>>]

NewInitSplVaultInstruction(bridge_id, mint, splVault, signer, tokenProgram, systemProgram) ==
    [type |-> "init_spl_vault",
     params |-> [BridgeId |-> bridge_id],
     accounts |-> <<Meta(mint), WRITE(Meta(splVault)), SIGNER(WRITE(Meta(signer))),
                    Meta(tokenProgram), Meta(systemProgram)>>]

NewUpdateSignerInstruction(bridge_id, request_type, signer, start_timestamp, end_timestamp, new_nonce, signature, recovery_id, authority, signerAccount) ==
    [type |-> "update_signer",
     params |-> UpdateSignerParams(bridge_id, request_type, signer, start_timestamp,
                                   end_timestamp, new_nonce, signature, recovery_id),
     accounts |-> <<WRITE(Meta(authority)), SIGNER(WRITE(Meta(signerAccount)))>>]

MarshalOrder(type) ==
    CASE type = "withdraw_native" -> WithdrawNativeMarshal
      [] type = "withdraw_spl" -> WithdrawSplMarshal
      [] type = "withdraw_wrapped" -> WithdrawWrappedMarshal
      [] type = "init_spl_vault" -> InitSplVaultMarshal
      [] type = "update_signer" -> UpdateSignerMarshal

\* Accounts and Data of the instruction that Build returns: the discriminator
\* of its type, then the parameters in their order.
Build(inst) ==
    [data |-> <<inst.type>> \o [k \in DOMAIN MarshalOrder(inst.type) |->
                                    inst.params[MarshalOrder(inst.type)[k]]],
     accounts |-> inst.accounts]

\* The program's side: the value that stands where the parameter is read,
\* and the account in the slot of a role.
UnmarshalOrder(type) ==
    CASE type = "withdraw_native" -> WithdrawNativeUnmarshal
      [] type = "withdraw_spl" -> WithdrawSplUnmarshal
      [] type = "withdraw_wrapped" -> WithdrawWrappedUnmarshal
      [] type = "init_spl_vault" -> InitSplVaultUnmarshal
      [] type = "update_signer" -> UpdateSignerUnmarshal

Slots(type) ==
    CASE type = "withdraw_native" -> WithdrawNativeSlots
      [] type = "withdraw_spl" -> WithdrawSplSlots
      [] type = "withdraw_wrapped" -> WithdrawWrappedSlots
      [] type = "init_spl_vault" -> InitSplVaultSlots
      [] type = "update_signer" -> UpdateSignerSlots

IndexIn(s, x) == CHOOSE k \in DOMAIN s : s[k] = x

\* DecodeInstruction.
Param(tx, name) == tx.data[IndexIn(UnmarshalOrder(tx.data[1]), name) + 1]
Account(tx, role) == tx.accounts[IndexIn(Slots(tx.data[1]), role)].key
HasRole(tx, role) == role \in ToSet(Slots(tx.data[1]))

=============================================================================
