---------------------------- MODULE BlockEvents ----------------------------
(***************************************************************************)
(* What the observer reads from a block of core: the deposits in the logs  *)
(* of its transactions and the epochs in its begin-block events. A block   *)
(* is a record of the two lists; an attribute is a key and a value, and a  *)
(* number that does not parse is one out of range. One event that cannot   *)
(* be parsed is an error of the whole block.                               *)
(***************************************************************************)
EXTENDS Integers, Sequences

CONSTANTS
    IdLimit,        \* epoch ids are unsigned integers below this (2^32)
    TimeLimit       \* times and deposit numbers are below this (2^64, 2^63)

ASSUME LimitsAssumption == IdLimit \in Nat \ {0} /\ TimeLimit \in Nat \ {0}

Elements(s) == {s[i] : i \in 1..Len(s)}

\* strconv.ParseUint and strconv.ParseInt.
ParsesUint(value, limit) == value \in 0..(limit - 1)
ParsesInt(value, limit) == value \in (-limit)..(limit - 1)

\* The value of the last attribute with this key, or the zero value.
Last(attributes, key, zero) ==
    LET at == {i \in 1..Len(attributes) : attributes[i].key = key}
    IN  IF at = {} THEN zero
        ELSE attributes[CHOOSE i \in at : \A k \in at : k <= i].value

-----------------------------------------------------------------------------
(* Epochs *)

EpochNumbers == [epoch_id |-> IdLimit, epoch_start_time |-> TimeLimit,
                 epoch_end_time |-> TimeLimit]

EpochParses(attributes) ==
    \A a \in Elements(attributes) :
        /\ a.key \in DOMAIN EpochNumbers => ParsesUint(a.value, EpochNumbers[a.key])
        /\ a.key = "epoch_signature_mode" => a.value \in {"true", "false"}

\* parseUpdatedEpochs: unknown keys are ignored, missing ones leave a zero. The
\* signer, the times and the mode are data that no step looks at.
ParseUpdatedEpochs(attributes) ==
    [id |-> Last(attributes, "epoch_id", 0),
     chain |-> Last(attributes, "chain_id", "none"),
     nonce |-> Last(attributes, "epoch_nonce", 0),
     sig |-> Last(attributes, "epoch_signature", "undecodable")]

\* parseEpochsFromBlockEvents: events of other types are skipped.
EpochEvents(events) == SelectSeq(events, LAMBDA e : e.type = "EPOCH_UPDATED")

-----------------------------------------------------------------------------
(* Deposits *)

DepositNumbers == {"deposit_nonce", "deposit_block"}
DepositStrings == {"deposit_tx_hash", "deposit_chain_id", "deposit_amount",
    "deposit_token", "withdrawal_amount", "depositor", "receiver",
    "withdrawal_chain_id", "withdrawal_tx_hash", "withdrawal_token",
    "signature", "commission_amount", "merkle_proof", "epoch_id"}

\* parseSubmittedDeposit fails on a number or a flag that does not parse, and
\* on an attribute it does not know.
ParseSubmittedDeposit(attributes) ==
    \A a \in Elements(attributes) :
        \/ a.key \in DepositStrings
        \/ a.key \in DepositNumbers /\ ParsesInt(a.value, TimeLimit)
        \/ a.key = "is_wrapped" /\ a.value \in {"true", "false"}

\* parseDepositsFromTxResults: a log that is empty or not JSON is skipped, JSON
\* of another shape is an error.
ParseDepositsFromTxResults(txs) ==
    \A tx \in Elements(txs) :
        tx.log \notin {"", "not json"} =>
            /\ tx.log # "other json"
            /\ \A e \in Elements(tx.events) :
                  e.type = "DEPOSIT_SUBMITTED" => ParseSubmittedDeposit(e.attributes)

-----------------------------------------------------------------------------
(* fetchBlockEvents, once the block results are there *)

BlockParses(block) ==
    /\ ParseDepositsFromTxResults(block.txs)
    /\ \A e \in Elements(EpochEvents(block.begin)) : EpochParses(e.attributes)

BlockEpochs(block) ==
    LET events == EpochEvents(block.begin)
    IN  [i \in 1..Len(events) |-> ParseUpdatedEpochs(events[i].attributes)]

=============================================================================
