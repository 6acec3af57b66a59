------------------------------ MODULE MCEpochs ------------------------------
(***************************************************************************)
(* Blocks and chains for the model of the update-signers pipeline.         *)
(***************************************************************************)
EXTENDS Epochs

Attribute(key, value) == [key |-> key, value |-> value]

EpochEvent(id, chain, nonce, signature) ==
    [type |-> "EPOCH_UPDATED",
     attributes |-> <<Attribute("epoch_id", id), Attribute("chain_id", chain),
                      Attribute("epoch_nonce", nonce), Attribute("tss_info", "x"),
                      Attribute("epoch_signature", signature),
                      Attribute("epoch_signature_mode", "true")>>]

BadNumber == [type |-> "EPOCH_UPDATED",
              attributes |-> <<Attribute("epoch_start_time", TimeLimit)>>]

DepositTx(attributes) ==
    [log |-> "events", events |-> <<[type |-> "DEPOSIT_SUBMITTED", attributes |-> attributes]>>]

\* One epoch for an EVM chain, the same nonce with another id together with an
\* epoch for a chain that is not configured; three blocks that cannot be parsed; one with logs that are skipped.
MCBlocks ==
    { [txs |-> <<[log |-> "", events |-> <<>>],
                 DepositTx(<<Attribute("deposit_nonce", -1), Attribute("is_wrapped", "false")>>)>>,
       begin |-> <<EpochEvent(1, "evm", 1, "valid")>>],
      [txs |-> <<>>,
       begin |-> <<EpochEvent(2, "evm", 1, "valid"), EpochEvent(2, "unknown", 1, "valid")>>],
      [txs |-> <<>>, begin |-> <<EpochEvent(3, "evm", 3, "valid"), BadNumber>>],
      [txs |-> <<DepositTx(<<Attribute("referral", "x")>>)>>,
       begin |-> <<EpochEvent(4, "evm", 4, "valid")>>],
      [txs |-> <<[log |-> "other json", events |-> <<>>]>>,
       begin |-> <<EpochEvent(5, "evm", 5, "valid")>>] }

=============================================================================
