-------------------------- MODULE ChainClientsProofs --------------------------
(***************************************************************************)
(* Theorems about the clients of the withdrawal chains, for any number of  *)
(* callers, keys, workers, deposits and calls, and any of the faults.      *)
(***************************************************************************)
EXTENDS ChainClients, FiniteSetTheorems, TLAPS

-----------------------------------------------------------------------------
(* The inductive invariant, in parts *)

CallFields == {"pc", "n", "child", "item", "signer", "nonce", "msg", "ok", "hash"}
CtxFields == {"state", "child", "item", "signer", "nonce", "msg"}

\* The variables are the functions they are meant to be.
ShapeInv ==
    /\ DOMAIN call = Callers /\ \A c \in Callers : DOMAIN call[c] = CallFields
    /\ DOMAIN ctx = 1..CallBound /\ \A n \in 1..CallBound : DOMAIN ctx[n] = CtxFields
    /\ calls \in 0..CallBound
    /\ acct \in [Keys -> Nat]
    /\ vaultPanics \in [Tokens -> Nat]

\* The children are none, or those of a number of workers that FromChain took.
ConfInv ==
    /\ config.kind \in {"EVM", "SOL", "TON"} /\ config.items \subseteq Items
    /\ config.workers \in Int
    /\ \/ children = <<>>
       \/ /\ FromChain(config.workers)
          /\ children = ConfigureChildClients(config.workers)

\* The places of a call before and after it has sent its transaction.
Unsent == {"withdraw", "update", "estimate", "vault", "send", "initVault"}
Waiting == {"final", "vaultFinal"}

\* A call has a number of its own, a signer of its child and an item of the
\* batch. The transaction of that number is its own.
CallInv ==
    /\ \A c \in Callers :
          /\ call[c].pc \in {"idle", "done"} \cup Unsent \cup Waiting
          /\ call[c].n \in 0..calls
          /\ InCall(c) => /\ call[c].n # 0
                          /\ call[c].item \in config.items
                          /\ call[c].child \in DOMAIN children
                          /\ call[c].signer \in children[call[c].child]
          /\ call[c].pc \in {"withdraw", "update"} => call[c].pc = call[c].item.op
          /\ call[c].pc \in Unsent => ctx[call[c].n].state = "unused"
          /\ call[c].pc \in Waiting => /\ ctx[call[c].n].state # "unused"
                                       /\ ctx[call[c].n].item = call[c].item
    /\ \A c, d \in Callers : c # d /\ call[c].n = call[d].n => call[c].n = 0

\* A transaction was sent by a call that was made, with a signer of its child.
CtxInv ==
    \A n \in 1..CallBound : ctx[n].state # "unused" =>
        /\ n <= calls
        /\ ctx[n].item \in config.items
        /\ ctx[n].child \in DOMAIN children
        /\ ctx[n].signer \in children[ctx[n].child]

\* The transactions of a signer that are in a block.
Mined(k) == {n \in 1..CallBound : /\ ctx[n].state \in {"forwarded", "success", "reverted"}
                                  /\ ctx[n].signer = k}

\* An account's nonce counts them.
AcctInv == \A k \in Keys : acct[k] <= Cardinality(Mined(k))

BaseInv == ShapeInv /\ ConfInv /\ CallInv /\ CtxInv

-----------------------------------------------------------------------------
(* What is sent *)

\* The message of a withdrawal, and of the creation of a vault, on Solana.
IsWithdrawal(msg, i) == \E s \in Keys : msg = Build(SolanaInstruction(i, s))
IsInitVault(msg, i) == \E s \in Keys : msg = Build(vaultInst(i, s))

\* The message the EVM client packs for an item.
IsPacked(msg, i) ==
    IF i.op = "withdraw" THEN getWithdrawalTxData(i) /\ msg = EvmMsg(i)
                         ELSE msg = EvmUpdateMsg(i)

\* A call carries the message of its item, and its transaction does.
MsgOfCall(c) ==
    /\ call[c].pc = "estimate" => config.kind = "EVM"
    /\ call[c].pc \in {"vault", "initVault", "vaultFinal"} =>
          config.kind = "SOL" /\ call[c].item.op = "withdraw"
    /\ config.kind = "EVM" /\ call[c].pc \in {"estimate", "send"} =>
          IsPacked(call[c].msg, call[c].item)
    /\ config.kind = "SOL" /\ call[c].pc = "send" /\ call[c].item.op = "withdraw" =>
          IsWithdrawal(call[c].msg, call[c].item)
    /\ call[c].pc = "initVault" => IsInitVault(call[c].msg, call[c].item)
    /\ config.kind = "SOL" /\ call[c].pc = "final" /\ call[c].item.op = "withdraw" =>
          IsWithdrawal(ctx[call[c].n].msg, call[c].item)
    /\ call[c].pc = "vaultFinal" => IsInitVault(ctx[call[c].n].msg, call[c].item)

\* So does every transaction on an EVM chain; only a wallet forwards one.
MsgOfTx(n) ==
    /\ ctx[n].state = "forwarded" => config.kind = "TON"
    /\ config.kind = "EVM" /\ ctx[n].state # "unused" => IsPacked(ctx[n].msg, ctx[n].item)

MsgInv ==
    /\ \A c \in Callers : MsgOfCall(c)
    /\ \A n \in 1..CallBound : MsgOfTx(n)

\* A vault that ended the process exists. A call that has created a vault and
\* is about to end the process is the first to do so.
VaultInv ==
    /\ \A t \in Tokens : vaultPanics[t] <= 1 /\ (vaultPanics[t] # 0 => t \in vaults)
    /\ \A c \in Callers :
          call[c].pc = "vaultFinal" /\ ctx[call[c].n].state = "success" =>
              call[c].item.token \in vaults /\ vaultPanics[call[c].item.token] = 0

\* What was accepted is marked, under the key that IsProcessed looks for.
PaidTx(n) ==
    ctx[n].state = "success" =>
        /\ config.kind = "EVM" /\ ctx[n].item.op = "withdraw" =>
              EvmIsProcessed(ctx[n].item)
        /\ config.kind = "SOL" /\ ctx[n].item.op = "withdraw"
           /\ IsWithdrawal(ctx[n].msg, ctx[n].item) => SolanaIsProcessed(ctx[n].item)

\* A call that returned without an error, where the client looks.
PaidCall(c) ==
    /\ call[c].pc = "done" /\ call[c].ok /\ config.kind # "TON"
    /\ config.receipts \/ call[c].item.op = "update"
    => /\ call[c].n # 0 /\ call[c].hash = Hash(call[c].n)
       /\ ctx[call[c].n].state = "success" /\ ctx[call[c].n].item = call[c].item
       /\ config.kind = "SOL" /\ call[c].item.op = "withdraw" =>
             IsWithdrawal(ctx[call[c].n].msg, call[c].item)

PaidInv ==
    /\ \A n \in 1..CallBound : PaidTx(n)
    /\ \A c \in Callers : PaidCall(c)

-----------------------------------------------------------------------------
(* The kinds of steps. What a step does to the calls and the transactions   *)
(* is one of seven things, whatever the chain.                              *)

\* What a call keeps: its place among the calls, its number and its item.
SameCall(c) ==
    /\ call' = [call EXCEPT ![c] = call'[c]] /\ DOMAIN call'[c] = CallFields
    /\ call'[c].n = call[c].n /\ call'[c].item = call[c].item

\* A call returns, or goes on to another place before its send.
Proceeds(c) ==
    /\ UNCHANGED <<config, children, calls, acct, ctx>>
    /\ InCall(c) /\ SameCall(c)
    /\ \/ call'[c].pc = "done"
       \/ /\ call[c].pc \in Unsent /\ call'[c].pc \in Unsent \ {"withdraw", "update"}
          /\ call'[c].child = call[c].child /\ call'[c].signer = call[c].signer

\* A call sends its transaction, and transactions that waited may be dropped.
Sends(c) ==
    /\ UNCHANGED <<config, children, calls, acct>>
    /\ call[c].pc \in Unsent /\ SameCall(c) /\ call'[c].pc \in Waiting
    /\ call'[c].child = call[c].child /\ call'[c].signer = call[c].signer
    /\ DOMAIN ctx' = 1..CallBound /\ \A n \in 1..CallBound : DOMAIN ctx'[n] = CtxFields
    /\ ctx'[call[c].n].state = "pending" /\ ctx'[call[c].n].child = call[c].child
    /\ ctx'[call[c].n].item = call[c].item /\ ctx'[call[c].n].signer = call[c].signer
    /\ \A n \in 1..CallBound \ {call[c].n} :
          \/ ctx'[n] = ctx[n]
          \/ ctx[n].state = "pending" /\ ctx'[n] = [ctx[n] EXCEPT !.state = "dropped"]

\* The chain runs a transaction; one of the wallet or of the account counts.
Mines(n) ==
    /\ UNCHANGED <<config, children, calls, call>>
    /\ ctx' = [ctx EXCEPT ![n].state = ctx'[n].state]
    /\ ctx[n].state \in {"pending", "forwarded"}
    /\ ctx'[n].state \in {"forwarded", "success", "reverted"}
    /\ \/ acct' = acct
       \/ ctx[n].state = "pending" /\ acct' = [acct EXCEPT ![ctx[n].signer] = @ + 1]

\* Somebody else acts.
Elsewhere == UNCHANGED <<config, children, calls, call, ctx, acct>>

StepOfCall(c) == Proceeds(c) \/ Sends(c) \/ Panics

\* A call that has not returned has a number.
LEMMA CallNumber ==
    ASSUME ShapeInv, CallInv, NEW c \in Callers, InCall(c)
    PROVE  call[c].n \in 1..CallBound
BY ChainClientAssumption DEF ShapeInv, CallInv

\* A return is a step of the first kind (Returns, Fails).
LEMMA ReturnsProceeds ==
    ASSUME ShapeInv, NEW c \in Callers, InCall(c), CallFrame, ctx' = ctx,
           NEW ok, NEW hash, Returns(c, ok, hash)
    PROVE  Proceeds(c)
BY DEF Returns, CallFrame, Idle, ShapeInv, CallFields, Proceeds, SameCall

\* So is the way to the next place, with or without a message.
LEMMA GoesOnProceeds ==
    ASSUME ShapeInv, NEW c \in Callers, call[c].pc \in Unsent, CallFrame, ctx' = ctx,
           NEW pc \in Unsent \ {"withdraw", "update"}, NEW msg, NEW nonce,
           \/ CallStep(c, pc)
           \/ Builds(c, pc, msg)
           \/ call' = [call EXCEPT ![c].pc = pc, ![c].msg = msg, ![c].nonce = nonce]
    PROVE  Proceeds(c)
BY DEF CallStep, Builds, CallFrame, ShapeInv, CallFields, Proceeds, SameCall, Unsent, InCall

\* A step of a call of the EVM client is one of these kinds (EvmWithdraw,
\* EvmUpdateSigners, EstimateGas, EvmSend, EvmFinalize, EvmWaitMined).
LEMMA EvmKinds ==
    ASSUME ShapeInv, CallInv, NEW c \in Callers, EvmStep(c)
    PROVE  Proceeds(c) \/ Sends(c)
<1>1. CASE EvmWithdraw(c) \/ EvmUpdateSigners(c)
  <2>1. call[c].pc \in {"withdraw", "update"} /\ CallFrame /\ ctx' = ctx
    BY <1>1 DEF EvmWithdraw, EvmUpdateSigners
  <2>2. ASSUME NEW msg, EvmPrepares(c, msg)
        PROVE  Proceeds(c)
    <3> DEFINE k == PendingNonceAt(call[c].signer)
    <3>1. call' = [call EXCEPT ![c].pc = "estimate", ![c].msg = msg, ![c].nonce = k]
      BY <2>2 DEF EvmPrepares
    <3> HIDE DEF k
    <3> QED
      BY <2>1, <3>1, GoesOnProceeds DEF Unsent
  <2>3. CASE Fails(c, Empty)
    BY <2>1, <2>3, ReturnsProceeds DEF Fails, InCall
  <2> QED
    BY <1>1, <2>2, <2>3 DEF EvmWithdraw, EvmUpdateSigners
<1>2. CASE EstimateGas(c)
  BY <1>2, ReturnsProceeds, GoesOnProceeds DEF EstimateGas, Fails, InCall, Unsent
<1>3. CASE EvmSend(c)
  <2>1. call[c].n \in 1..CallBound
    BY <1>3, CallNumber DEF EvmSend, InCall
  <2>2. CASE ctx' = ctx /\ \E hash : Fails(c, hash)
    BY <1>3, <2>2, ReturnsProceeds DEF EvmSend, Fails, InCall
  <2>3. CASE /\ ctx' = [n \in 1..CallBound |->
                           CASE n = call[c].n -> Sent(c, call[c].msg)
                             [] n \in Rivals(c) -> [ctx[n] EXCEPT !.state = "dropped"]
                             [] OTHER -> ctx[n]]
             /\ CallStep(c, "final")
    <3>1. /\ DOMAIN ctx' = 1..CallBound
          /\ ctx'[call[c].n] = Sent(c, call[c].msg)
          /\ \A n \in 1..CallBound \ {call[c].n} :
                ctx'[n] = IF n \in Rivals(c) THEN [ctx[n] EXCEPT !.state = "dropped"]
                                             ELSE ctx[n]
      <4>1. call[c].n \notin Rivals(c)
        BY <1>3 DEF EvmSend, CallInv, Unsent, Rivals, Pending
      <4> QED
        BY <2>1, <2>3, <4>1
    <3>2. \A n \in Rivals(c) : ctx[n].state = "pending"
      BY DEF Rivals, Pending
    <3>3. SameCall(c) /\ call[c].pc \in Unsent /\ call'[c].pc \in Waiting
          /\ call'[c].child = call[c].child /\ call'[c].signer = call[c].signer
      BY <1>3, <2>3 DEF EvmSend, CallStep, ShapeInv, CallFields, SameCall, Unsent, Waiting
    <3>4. \A n \in 1..CallBound : DOMAIN ctx'[n] = CtxFields
      BY <3>1 DEF ShapeInv, Sent, CtxFields
    <3> QED
      BY <1>3, <2>1, <3>1, <3>2, <3>3, <3>4 DEF EvmSend, CallFrame, Sent, Sends
  <2> QED
    BY <1>3, <2>2, <2>3 DEF EvmSend
<1>4. CASE EvmFinalize(c) \/ EvmWaitMined(c)
  BY <1>4, ReturnsProceeds DEF EvmFinalize, EvmWaitMined, EvmFinal, Fails, InCall
<1> QED
  BY <1>1, <1>2, <1>3, <1>4 DEF EvmStep

\* The same of the Solana client (SolanaWithdraw to SolanaUpdateSigners).
LEMMA SolanaKinds ==
    ASSUME ShapeInv, CallInv, NEW c \in Callers, SolanaStep(c)
    PROVE  StepOfCall(c)
<1>1. CASE SolanaWithdraw(c)
  BY <1>1, ReturnsProceeds, GoesOnProceeds
     DEF SolanaWithdraw, SolanaAt, SolanaBuilds, Fails, InCall, Unsent, StepOfCall
<1>2. CASE parseTokenMetadataPanics(c) \/ VaultPanics(c)
  BY <1>2 DEF parseTokenMetadataPanics, VaultPanics, StepOfCall
<1>3. CASE getSPLVault(c)
  BY <1>3, ReturnsProceeds, GoesOnProceeds
     DEF getSPLVault, SolanaAt, SolanaBuilds, Fails, InCall, Unsent, StepOfCall
<1>4. CASE SendTx(c)
  <2>1. call[c].n \in 1..CallBound
    BY <1>4, CallNumber DEF SendTx, InCall
  <2>2. CASE ctx' = ctx /\ \E hash : Fails(c, hash)
    BY <1>4, <2>2, ReturnsProceeds DEF SendTx, Fails, InCall, StepOfCall
  <2>3. CASE /\ ctx' = [ctx EXCEPT ![call[c].n] = Sent(c, call[c].msg)]
             /\ CallStep(c, IF call[c].pc = "send" THEN "final" ELSE "vaultFinal")
    <3>1. /\ DOMAIN ctx' = 1..CallBound /\ ctx'[call[c].n] = Sent(c, call[c].msg)
          /\ \A n \in 1..CallBound \ {call[c].n} : ctx'[n] = ctx[n]
      BY <2>1, <2>3 DEF ShapeInv
    <3>2. SameCall(c) /\ call[c].pc \in Unsent /\ call'[c].pc \in Waiting
          /\ call'[c].child = call[c].child /\ call'[c].signer = call[c].signer
      BY <1>4, <2>3 DEF SendTx, CallStep, ShapeInv, CallFields, SameCall, Unsent, Waiting
    <3>3. \A n \in 1..CallBound : DOMAIN ctx'[n] = CtxFields
      BY <3>1 DEF ShapeInv, Sent, CtxFields
    <3> QED
      BY <1>4, <2>1, <3>1, <3>2, <3>3 DEF SendTx, CallFrame, Sent, Sends, StepOfCall
  <2> QED
    BY <1>4, <2>2, <2>3 DEF SendTx
<1>5. CASE SolanaFinalize(c) \/ VaultFails(c)
  BY <1>5, ReturnsProceeds
     DEF SolanaFinalize, VaultFails, SolanaAt, Fails, InCall, StepOfCall
<1>6. CASE SolanaUpdateSigners(c)
  BY <1>6, ReturnsProceeds, GoesOnProceeds
     DEF SolanaUpdateSigners, SolanaAt, SolanaBuilds, Fails, InCall, Unsent, StepOfCall
<1> QED
  BY <1>1, <1>2, <1>3, <1>4, <1>5, <1>6 DEF SolanaStep

\* The same of the TON client (TonWithdraw to TonFinalize).
LEMMA TonKinds ==
    ASSUME ShapeInv, CallInv, NEW c \in Callers, TonStep(c)
    PROVE  StepOfCall(c)
<1>1. CASE TonWithdraw(c) \/ TonUpdateSigners(c)
  BY <1>1, ReturnsProceeds, GoesOnProceeds
     DEF TonWithdraw, TonUpdateSigners, TonAt, TonBuilds, Fails, InCall, Unsent, StepOfCall
<1>2. CASE TonUpdatePanics(c)
  BY <1>2 DEF TonUpdatePanics, StepOfCall
<1>3. CASE TonSend(c)
  <2>1. call[c].n \in 1..CallBound
    BY <1>3, CallNumber DEF TonSend, TonAt, InCall
  <2>2. CASE ctx' = ctx /\ Fails(c, Empty)
    BY <1>3, <2>2, ReturnsProceeds DEF TonSend, TonAt, Fails, InCall, StepOfCall
  <2>3. CASE /\ ctx' = [ctx EXCEPT ![call[c].n] =
                           [Sent(c, call[c].msg) EXCEPT !.nonce = acct[call[c].signer]]]
             /\ CallStep(c, "final")
    <3>1. /\ DOMAIN ctx' = 1..CallBound
          /\ ctx'[call[c].n] = [Sent(c, call[c].msg) EXCEPT !.nonce = acct[call[c].signer]]
          /\ \A n \in 1..CallBound \ {call[c].n} : ctx'[n] = ctx[n]
      BY <2>1, <2>3 DEF ShapeInv
    <3>2. SameCall(c) /\ call[c].pc \in Unsent /\ call'[c].pc \in Waiting
          /\ call'[c].child = call[c].child /\ call'[c].signer = call[c].signer
      BY <1>3, <2>3 DEF TonSend, TonAt, CallStep, ShapeInv, CallFields, SameCall, Unsent,
                        Waiting
    <3>3. \A n \in 1..CallBound : DOMAIN ctx'[n] = CtxFields
      BY <3>1 DEF ShapeInv, Sent, CtxFields
    <3> QED
      BY <1>3, <2>1, <3>1, <3>2, <3>3 DEF TonSend, CallFrame, Sent, Sends, StepOfCall
  <2> QED
    BY <1>3, <2>2, <2>3 DEF TonSend
<1>4. CASE TonFinalize(c)
  BY <1>4, ReturnsProceeds DEF TonFinalize, TonAt, Fails, InCall, StepOfCall
<1> QED
  BY <1>1, <1>2, <1>3, <1>4 DEF TonStep

\* The chain's steps (EvmMine, SolanaMine, WalletRuns, BridgeRuns).
LEMMA MineKinds ==
    ASSUME ShapeInv, NEW n \in 1..CallBound,
           EvmMine(n) \/ SolanaMine(n) \/ WalletRuns(n) \/ BridgeRuns(n)
    PROVE  Mines(n) /\ vaultPanics' = vaultPanics
<1>1. CASE EvmMine(n)
  BY <1>1 DEF EvmMine, Mines, ShapeInv, CtxFields
<1>2. CASE SolanaMine(n)
  BY <1>2 DEF SolanaMine, Mines, ShapeInv, CtxFields
<1>3. CASE WalletRuns(n) \/ BridgeRuns(n)
  BY <1>3 DEF WalletRuns, BridgeRuns, Mines, ShapeInv, CtxFields
<1> QED
  BY <1>1, <1>2, <1>3

\* What every step is: the configuration stays as it is, and the step is of
\* one of the kinds (ClientNext).
LEMMA StepKinds ==
    ASSUME ShapeInv, CallInv, ClientNext
    PROVE  /\ config' = config
           /\ vaultPanics' \in [Tokens -> Nat]
           /\ \/ \E kind \in {"EVM", "SOL", "TON"} : Configure(kind)
              \/ \E kind \in {"EVM", "SOL", "TON"}, c \in Callers : Call(kind, c)
              \/ \E c \in Callers : StepOfCall(c)
              \/ \E n \in 1..CallBound : Mines(n)
              \/ Elsewhere
<1> vaultPanics \in [Tokens -> Nat]
  BY DEF ShapeInv
<1>1. CASE EvmConfigure \/ SolanaConfigure \/ TonConfigure
  BY <1>1 DEF EvmConfigure, SolanaConfigure, TonConfigure, Configure
<1>2. CASE \E c \in Callers : EvmCall(c) \/ SolanaCall(c) \/ TonCall(c)
  BY <1>2 DEF EvmCall, SolanaCall, TonCall, Call
<1>3. CASE \E c \in Callers : ClientStep(c)
  <2> PICK c \in Callers : ClientStep(c)
    BY <1>3
  <2>1. StepOfCall(c)
    BY EvmKinds, SolanaKinds, TonKinds DEF ClientStep, StepOfCall
  <2>2. config' = config
    BY <2>1 DEF StepOfCall, Proceeds, Sends, Panics
  <2>3. \/ vaultPanics' = vaultPanics
        \/ vaultPanics' = [vaultPanics EXCEPT ![call[c].item.token] = @ + 1]
    BY DEF ClientStep, EvmStep, EvmWithdraw, EvmUpdateSigners, EstimateGas, EvmSend,
           EvmFinalize, EvmWaitMined, SolanaStep, SolanaWithdraw, parseTokenMetadataPanics,
           getSPLVault, SendTx, SolanaFinalize, VaultFails, VaultPanics, SolanaUpdateSigners, TonStep, TonWithdraw,
           TonUpdateSigners, TonUpdatePanics, TonSend, TonFinalize
  <2>4. vaultPanics' \in [Tokens -> Nat]
    BY <2>3
  <2> QED
    BY <2>1, <2>2, <2>4
<1>4. CASE \E n \in 1..CallBound : EvmMine(n) \/ SolanaMine(n) \/ WalletRuns(n) \/ BridgeRuns(n)
  BY <1>4, MineKinds DEF Mines
<1>5. CASE \E i \in config.items : ForeignWithdraw(i) \/ ForeignVault(i)
  BY <1>5 DEF ForeignWithdraw, ForeignVault, Elsewhere
<1> QED
  BY <1>1, <1>2, <1>3, <1>4, <1>5 DEF ClientNext

-----------------------------------------------------------------------------
(* The children *)

\* Every child has a signer, and no signer has two children
\* (ConfigureChildClients, FromChain).
LEMMA SignersOfChildren ==
    ASSUME NEW w \in Int, FromChain(w)
    PROVE  /\ ConfigureChildClients(w) \in [1..w -> (SUBSET Keys) \ {{}}]
           /\ \A a, b \in 1..w : \A k \in Keys :
                 k \in ConfigureChildClients(w)[a] /\ k \in ConfigureChildClients(w)[b]
                 => a = b
<1>1. w \in Nat /\ w > 0 /\ w <= NumKeys /\ NumKeys \in Nat
  BY ChainClientAssumption DEF FromChain
<1>2. ASSUME NEW c \in 1..w
      PROVE  c \in Keys /\ ((c - 1) % w) + 1 = c
  <2>1. c - 1 \in 0..(w - 1)
    BY <1>1, <1>2
  <2>2. (c - 1) % w = c - 1
    BY <1>1, <2>1
  <2> QED
    BY <1>1, <1>2, <2>2 DEF Keys
<1> DEFINE S(c) == {k \in Keys : ((k - 1) % w) + 1 = c}
<1>3. ConfigureChildClients(w) = [c \in 1..w |-> S(c)]
  BY DEF ConfigureChildClients
<1>4. \A c \in 1..w : c \in S(c) /\ S(c) \subseteq Keys
  BY <1>2
<1>5. \A a, b \in 1..w : \A k \in Keys : k \in S(a) /\ k \in S(b) => a = b
  OBVIOUS
<1> HIDE DEF S
<1>6. \A c \in 1..w : S(c) \in (SUBSET Keys) \ {{}}
  <2> SUFFICES ASSUME NEW c \in 1..w PROVE S(c) \in SUBSET Keys /\ S(c) # {}
    OBVIOUS
  <2> QED
    BY <1>4
<1>7. ConfigureChildClients(w) \in [1..w -> (SUBSET Keys) \ {{}}]
  BY <1>3, <1>6
<1>8. \A a \in 1..w : ConfigureChildClients(w)[a] = S(a)
  BY <1>3
<1> QED
  BY <1>5, <1>7, <1>8

\* The children that are configured have signers among the keys.
LEMMA ChildrenHaveSigners ==
    ASSUME ConfInv
    PROVE  children = <<>> \/ children \in [1..config.workers -> (SUBSET Keys) \ {{}}]
BY SignersOfChildren DEF ConfInv

\* Signers that two children share are of one child.
LEMMA SignerOfOneChild ==
    ASSUME ConfInv, NEW a \in DOMAIN children, NEW b \in DOMAIN children,
           NEW k \in children[a], k \in children[b]
    PROVE  a = b
<1>1. children # <<>>
  OBVIOUS
<1>2. children \in [1..config.workers -> (SUBSET Keys) \ {{}}]
  BY <1>1, ChildrenHaveSigners
<1> QED
  BY <1>1, <1>2, SignersOfChildren DEF ConfInv


-----------------------------------------------------------------------------
(* Calls and transactions: the base of the other invariants *)

\* In the initial states nothing is called and nothing is sent (ClientInit).
LEMMA BaseInit == ClientInit => BaseInv
<1> SUFFICES ASSUME ClientInit PROVE BaseInv
  OBVIOUS
<1>1. ShapeInv
  BY ChainClientAssumption DEF ClientInit, Idle, NoCtx, ShapeInv, CallFields, CtxFields
<1>2. ConfInv
  BY ChainClientAssumption DEF ClientInit, ConfInv, Items
<1>3. CallInv
  BY ChainClientAssumption DEF ClientInit, Idle, CallInv, InCall, Unsent, Waiting
<1>4. CtxInv
  BY DEF ClientInit, NoCtx, CtxInv
<1> QED
  BY <1>1, <1>2, <1>3, <1>4 DEF BaseInv

\* The start of the process, when no call has been made (Configure).
LEMMA BaseConfigure ==
    ASSUME BaseInv, NEW kind, Configure(kind), vaultPanics' \in [Tokens -> Nat]
    PROVE  BaseInv'
<1>1. /\ UNCHANGED <<config, calls, call, ctx, acct>> /\ children = <<>>
      /\ FromChain(config.workers) /\ children' = ConfigureChildClients(config.workers)
  BY DEF Configure
<1>2. ShapeInv' /\ ConfInv'
  BY <1>1 DEF BaseInv, ShapeInv, ConfInv
<1>3. \A c \in Callers : ~InCall(c)
  BY <1>1 DEF BaseInv, CallInv
<1>4. CallInv'
  BY <1>1, <1>3 DEF BaseInv, CallInv, InCall, Unsent, Waiting
<1>5. CtxInv'
  BY <1>1 DEF BaseInv, CtxInv
<1> QED
  BY <1>2, <1>4, <1>5 DEF BaseInv

\* A new call has the next number, which no transaction has (Call).
LEMMA BaseCall ==
    ASSUME BaseInv, NEW kind, NEW c \in Callers, Call(kind, c),
           vaultPanics' \in [Tokens -> Nat]
    PROVE  BaseInv'
<1>1. /\ UNCHANGED <<config, children, ctx, acct>> /\ ~InCall(c)
      /\ calls < CallBound /\ calls' = calls + 1
  BY DEF Call, InCall
<1>2. PICK child \in DOMAIN children, i \in config.items : \E s \in children[child] :
         call' = [call EXCEPT ![c] = [Idle EXCEPT !.pc = i.op, !.n = calls + 1,
                                                  !.child = child, !.item = i, !.signer = s]]
  BY DEF Call
<1> PICK s \in children[child] :
         call' = [call EXCEPT ![c] = [Idle EXCEPT !.pc = i.op, !.n = calls + 1,
                                                  !.child = child, !.item = i, !.signer = s]]
  BY <1>2
<1>3. /\ DOMAIN call' = Callers /\ \A d \in Callers \ {c} : call'[d] = call[d]
      /\ DOMAIN call'[c] = CallFields /\ call'[c].pc = i.op /\ call'[c].n = calls + 1
      /\ call'[c].child = child /\ call'[c].item = i /\ call'[c].signer = s
  BY DEF BaseInv, ShapeInv, Idle, CallFields
<1>4. i.op \in {"withdraw", "update"}
  BY ChainClientAssumption DEF BaseInv, ConfInv, Items
<1>5. calls \in Nat /\ calls + 1 \in 1..CallBound /\ CallBound \in Nat
  BY <1>1, ChainClientAssumption DEF BaseInv, ShapeInv
<1>6. ctx[calls + 1].state = "unused"
  BY <1>5 DEF BaseInv, CtxInv
<1>7. ShapeInv'
  BY <1>1, <1>3, <1>5 DEF BaseInv, ShapeInv
<1>8. ConfInv' /\ CtxInv'
  BY <1>1, <1>5 DEF BaseInv, ConfInv, CtxInv
<1>9. CallInv'
  <2>1. \A d \in Callers : call[d].n \in 0..calls
    BY DEF BaseInv, CallInv
  <2> QED
    BY <1>1, <1>3, <1>4, <1>5, <1>6, <2>1 DEF BaseInv, CallInv, InCall, Unsent, Waiting
<1> QED
  BY <1>7, <1>8, <1>9 DEF BaseInv

\* A call that goes on or returns.
LEMMA BaseProceeds ==
    ASSUME BaseInv, NEW c \in Callers, Proceeds(c), vaultPanics' \in [Tokens -> Nat]
    PROVE  BaseInv'
<1>1. UNCHANGED <<config, children, calls, acct, ctx>>
  BY DEF Proceeds
<1>2. /\ DOMAIN call' = Callers /\ DOMAIN call'[c] = CallFields
      /\ \A d \in Callers \ {c} : call'[d] = call[d]
      /\ call'[c].n = call[c].n /\ call'[c].item = call[c].item
  BY DEF Proceeds, SameCall, BaseInv, ShapeInv
<1>3. ShapeInv' /\ ConfInv' /\ CtxInv'
  BY <1>1, <1>2 DEF BaseInv, ShapeInv, ConfInv, CtxInv
<1>4. CallInv'
  BY <1>1, <1>2 DEF Proceeds, BaseInv, CallInv, InCall, Unsent, Waiting
<1> QED
  BY <1>3, <1>4 DEF BaseInv

\* A call that sends its transaction: the others wait for others.
LEMMA BaseSends ==
    ASSUME BaseInv, NEW c \in Callers, Sends(c), vaultPanics' \in [Tokens -> Nat]
    PROVE  BaseInv'
<1>1. UNCHANGED <<config, children, calls, acct>>
  BY DEF Sends
<1>2. /\ DOMAIN call' = Callers /\ DOMAIN call'[c] = CallFields
      /\ \A d \in Callers \ {c} : call'[d] = call[d]
      /\ call'[c].n = call[c].n /\ call'[c].item = call[c].item
      /\ call'[c].child = call[c].child /\ call'[c].signer = call[c].signer
      /\ call[c].pc \in Unsent /\ call'[c].pc \in Waiting
  BY DEF Sends, SameCall, BaseInv, ShapeInv
<1>3. InCall(c) /\ call[c].n \in 1..CallBound
  BY <1>2, CallNumber DEF InCall, Unsent, BaseInv
<1>4. ShapeInv' /\ ConfInv'
  BY <1>1, <1>2 DEF Sends, BaseInv, ShapeInv, ConfInv
<1>5. /\ ctx'[call[c].n].state = "pending" /\ ctx'[call[c].n].child = call[c].child
      /\ ctx'[call[c].n].item = call[c].item /\ ctx'[call[c].n].signer = call[c].signer
  BY DEF Sends
<1>6. ASSUME NEW n \in 1..CallBound \ {call[c].n}
      PROVE  /\ ctx'[n].child = ctx[n].child /\ ctx'[n].item = ctx[n].item
             /\ ctx'[n].signer = ctx[n].signer
             /\ (ctx'[n].state = "unused") <=> (ctx[n].state = "unused")
  BY DEF Sends, BaseInv, ShapeInv, CtxFields
<1>7. \A d \in Callers \ {c} : call[d].n # 0 => call[d].n # call[c].n
  BY DEF BaseInv, CallInv
<1>8. CtxInv'
  BY <1>1, <1>3, <1>5, <1>6 DEF BaseInv, CtxInv, CallInv
<1>9. CallInv'
  <2>1. \A d \in Callers \ {c} : InCall(d) => call[d].n \in 1..CallBound \ {call[c].n}
    BY <1>7, CallNumber DEF BaseInv, CallInv
  <2> QED
    BY <1>1, <1>2, <1>3, <1>5, <1>6, <2>1 DEF BaseInv, CallInv, InCall, Unsent, Waiting
<1> QED
  BY <1>4, <1>8, <1>9 DEF BaseInv

\* A panic leaves no call; the transactions are as they are (Panics).
LEMMA BasePanics ==
    ASSUME BaseInv, Panics, vaultPanics' \in [Tokens -> Nat]
    PROVE  BaseInv'
BY ChainClientAssumption DEF Panics, Idle, BaseInv, ShapeInv, CallFields, ConfInv, CallInv,
   InCall, Unsent, Waiting, CtxInv

\* A transaction that is run stays what it is.
LEMMA BaseMines ==
    ASSUME BaseInv, NEW n \in 1..CallBound, Mines(n), vaultPanics' \in [Tokens -> Nat]
    PROVE  BaseInv'
<1>1. /\ DOMAIN ctx' = 1..CallBound
      /\ \A m \in 1..CallBound :
            /\ DOMAIN ctx'[m] = CtxFields
            /\ ctx'[m].child = ctx[m].child /\ ctx'[m].item = ctx[m].item
            /\ ctx'[m].signer = ctx[m].signer
            /\ (ctx'[m].state = "unused") <=> (ctx[m].state = "unused")
  <2> DEFINE s == ctx'[n].state
  <2>1. ctx' = [ctx EXCEPT ![n].state = s] /\ s # "unused" /\ ctx[n].state # "unused"
    BY DEF Mines
  <2> HIDE DEF s
  <2> QED
    BY <2>1 DEF BaseInv, ShapeInv, CtxFields
<1>2. acct' \in [Keys -> Nat]
  BY DEF Mines, BaseInv, ShapeInv
<1>3. ShapeInv' /\ ConfInv' /\ CtxInv'
  BY <1>1, <1>2 DEF Mines, BaseInv, ShapeInv, ConfInv, CtxInv
<1>4. \A c \in Callers : InCall(c) => call[c].n \in 1..CallBound
  BY CallNumber DEF BaseInv
<1>5. CallInv'
  BY <1>1, <1>4 DEF Mines, BaseInv, CallInv, InCall, Unsent, Waiting
<1> QED
  BY <1>3, <1>5 DEF BaseInv

\* Every step preserves the base.
LEMMA BaseStep ==
    ASSUME BaseInv, [ClientNext]_clientVars
    PROVE  BaseInv'
<1>1. CASE UNCHANGED clientVars
  BY <1>1 DEF clientVars, BaseInv, ShapeInv, ConfInv, CallInv, InCall, CtxInv
<1>2. CASE ClientNext
  <2>1. /\ vaultPanics' \in [Tokens -> Nat]
        /\ \/ \E kind \in {"EVM", "SOL", "TON"} : Configure(kind)
           \/ \E kind \in {"EVM", "SOL", "TON"}, c \in Callers : Call(kind, c)
           \/ \E c \in Callers : StepOfCall(c)
           \/ \E n \in 1..CallBound : Mines(n)
           \/ Elsewhere
    BY <1>2, StepKinds DEF BaseInv
  <2>2. Elsewhere => BaseInv'
    BY <2>1 DEF Elsewhere, BaseInv, ShapeInv, ConfInv, CallInv, InCall, CtxInv
  <2> QED
    BY <2>1, <2>2, BaseConfigure, BaseCall, BaseProceeds, BaseSends, BasePanics, BaseMines
       DEF StepOfCall
<1> QED
  BY <1>1, <1>2


-----------------------------------------------------------------------------
(* The nonces of the accounts *)

\* The transactions in blocks are finitely many, at most one for each call.
LEMMA MinedBound ==
    ASSUME NEW k \in Keys
    PROVE  /\ IsFiniteSet(Mined(k)) /\ Cardinality(Mined(k)) \in 0..CallBound
<1>1. IsFiniteSet(1..CallBound) /\ Cardinality(1..CallBound) = CallBound /\ CallBound \in Nat
  BY FS_Interval, ChainClientAssumption
<1>2. Mined(k) \subseteq 1..CallBound
  BY DEF Mined
<1>3. /\ IsFiniteSet(Mined(k)) /\ Cardinality(Mined(k)) <= CallBound
      /\ Cardinality(Mined(k)) \in Nat
  BY <1>1, <1>2, FS_Subset, FS_CardinalityType
<1> QED
  BY <1>1, <1>3

\* No transaction leaves its block (EvmSend, TonSend, SendTx: a call sends once).
LEMMA MinedGrows ==
    ASSUME BaseInv, NEW k \in Keys,
           \/ ctx' = ctx
           \/ \E c \in Callers : Sends(c)
           \/ \E n \in 1..CallBound : Mines(n)
    PROVE  Cardinality(Mined(k)) <= Cardinality(Mined(k)')
<1>1. CASE ctx' = ctx
  <2>1. Mined(k)' = Mined(k)
    BY <1>1 DEF Mined
  <2> QED
    BY <2>1, MinedBound
<1>2. Mined(k) \subseteq Mined(k)' => Cardinality(Mined(k)) <= Cardinality(Mined(k)')
  <2>1. IsFiniteSet(Mined(k)')
    <3>1. IsFiniteSet(1..CallBound) /\ Mined(k)' \subseteq 1..CallBound
      BY FS_Interval, ChainClientAssumption DEF Mined
    <3> QED
      BY <3>1, FS_Subset
  <2> QED
    BY <2>1, FS_Subset
<1>3. ASSUME NEW c \in Callers, Sends(c)
      PROVE  Mined(k) \subseteq Mined(k)'
  <2>1. ctx[call[c].n].state = "unused"
    BY <1>3 DEF Sends, BaseInv, CallInv
  <2>2. \A n \in 1..CallBound \ {call[c].n} : ctx[n].state # "pending" => ctx'[n] = ctx[n]
    BY <1>3 DEF Sends
  <2> QED
    BY <2>1, <2>2 DEF Mined
<1>4. ASSUME NEW n \in 1..CallBound, Mines(n)
      PROVE  Mined(k) \subseteq Mined(k)'
  <2> DEFINE s == ctx'[n].state
  <2>1. ctx' = [ctx EXCEPT ![n].state = s] /\ s \in {"forwarded", "success", "reverted"}
    BY <1>4 DEF Mines
  <2> HIDE DEF s
  <2> QED
    BY <2>1 DEF BaseInv, ShapeInv, CtxFields, Mined
<1> QED
  BY <1>1, <1>2, <1>3, <1>4

\* The nonce of an account goes up with a transaction of it that enters a
\* block (EvmMine, WalletRuns).
LEMMA AcctStep ==
    ASSUME BaseInv, AcctInv, [ClientNext]_clientVars
    PROVE  AcctInv'
<1> SUFFICES ASSUME NEW k \in Keys PROVE acct'[k] <= Cardinality(Mined(k)')
  BY DEF AcctInv
<1>1. acct[k] \in Nat /\ acct[k] <= Cardinality(Mined(k)) /\ Cardinality(Mined(k)) \in Nat
  BY MinedBound DEF BaseInv, ShapeInv, AcctInv
<1>2. IsFiniteSet(Mined(k)') /\ Cardinality(Mined(k)') \in Nat
  <2>1. IsFiniteSet(1..CallBound) /\ Mined(k)' \subseteq 1..CallBound
    BY FS_Interval, ChainClientAssumption DEF Mined
  <2> QED
    BY <2>1, FS_Subset, FS_CardinalityType
<1>3. CASE acct' = acct /\ ctx' = ctx
  BY <1>1, <1>2, <1>3, MinedGrows
<1>4. ASSUME NEW c \in Callers, Sends(c)
      PROVE  acct'[k] <= Cardinality(Mined(k)')
  <2>1. acct' = acct
    BY <1>4 DEF Sends
  <2> QED
    BY <1>1, <1>2, <1>4, <2>1, MinedGrows
<1>5. ASSUME NEW n \in 1..CallBound, Mines(n)
      PROVE  acct'[k] <= Cardinality(Mined(k)')
  <2>1. CASE acct'[k] = acct[k]
    BY <1>1, <1>2, <1>5, <2>1, MinedGrows
  <2>2. CASE acct'[k] # acct[k]
    <3>1. k = ctx[n].signer /\ ctx[n].state = "pending" /\ acct'[k] = acct[k] + 1
      BY <1>5, <2>2 DEF Mines, BaseInv, ShapeInv
    <3>2. n \notin Mined(k)
      BY <3>1 DEF Mined
    <3>3. Mined(k) \cup {n} \subseteq Mined(k)'
      <4> DEFINE s == ctx'[n].state
      <4>1. ctx' = [ctx EXCEPT ![n].state = s] /\ s \in {"forwarded", "success", "reverted"}
        BY <1>5 DEF Mines
      <4> HIDE DEF s
      <4> QED
        BY <3>1, <4>1 DEF BaseInv, ShapeInv, CtxFields, Mined
    <3>4. Cardinality(Mined(k) \cup {n}) = Cardinality(Mined(k)) + 1
      BY <3>2, MinedBound, FS_AddElement
    <3>5. Cardinality(Mined(k) \cup {n}) <= Cardinality(Mined(k)')
      BY <1>2, <3>3, FS_Subset
    <3> QED
      BY <1>1, <1>2, <3>1, <3>4, <3>5
  <2> QED
    BY <2>1, <2>2
<1>6. CASE UNCHANGED clientVars
  BY <1>3, <1>6 DEF clientVars
<1>7. CASE ClientNext
  <2>1. \/ acct' = acct /\ ctx' = ctx
        \/ \E c \in Callers : Sends(c)
        \/ \E n \in 1..CallBound : Mines(n)
    BY <1>7, StepKinds DEF BaseInv, Configure, Call, StepOfCall, Proceeds, Panics, Elsewhere
  <2> QED
    BY <1>3, <1>4, <1>5, <2>1
<1> QED
  BY <1>6, <1>7

-----------------------------------------------------------------------------
(* Theorems *)

\* The base holds in every state, and so does the count of the nonces.
LEMMA BaseHolds == ClientSpec => [](BaseInv /\ AcctInv)
<1>1. ClientInit => BaseInv /\ AcctInv
  <2> SUFFICES ASSUME ClientInit PROVE AcctInv
    BY BaseInit
  <2>1. \A k \in Keys : acct[k] = 0 /\ Cardinality(Mined(k)) \in Nat
    BY MinedBound DEF ClientInit
  <2> QED
    BY <2>1 DEF AcctInv
<1>2. BaseInv /\ AcctInv /\ [ClientNext]_clientVars => (BaseInv /\ AcctInv)'
  BY BaseStep, AcctStep
<1> QED
  BY <1>1, <1>2, PTL DEF ClientSpec

\* Type correctness of the chain clients: children have signers, calls are
\* numbered, transactions belong to calls, and nonces stay within the number
\* of calls (ConfigureChildClients, Withdraw and UpdateSigners).
THEOREM ClientsTypeCorrect == ClientSpec => []ClientsTypeOK
<1>1. BaseInv /\ AcctInv => ClientsTypeOK
  <2> SUFFICES ASSUME BaseInv, AcctInv PROVE ClientsTypeOK
    OBVIOUS
  <2>1. children = <<>> \/ children \in [1..config.workers -> (SUBSET Keys) \ {{}}]
    BY ChildrenHaveSigners DEF BaseInv
  <2>2. calls \in 0..CallBound
    BY DEF BaseInv, ShapeInv
  <2>3. \A c \in Callers : /\ call[c].n \in 0..calls
                           /\ InCall(c) => call[c].signer \in children[call[c].child]
    BY DEF BaseInv, CallInv
  <2>4. \A n \in 1..CallBound : ctx[n].state # "unused" =>
           n <= calls /\ ctx[n].item \in config.items /\ ctx[n].signer \in Keys
    <3>1. ASSUME NEW a \in DOMAIN children PROVE children[a] \subseteq Keys
      <4>1. children # <<>>
        BY <3>1
      <4>2. children[a] \in (SUBSET Keys) \ {{}}
        BY <2>1, <3>1, <4>1
      <4> QED
        BY <4>2
    <3> QED
      BY <3>1 DEF BaseInv, CtxInv
  <2>5. acct \in [Keys -> 0..CallBound]
    <3>1. \A k \in Keys : acct[k] \in 0..CallBound
      BY MinedBound, ChainClientAssumption DEF BaseInv, ShapeInv, AcctInv
    <3> QED
      BY <3>1 DEF BaseInv, ShapeInv
  <2> QED
    BY <2>1, <2>2, <2>3, <2>4, <2>5 DEF ClientsTypeOK
<1> QED
  BY <1>1, BaseHolds, PTL

\* Two transactions of one signer were sent by calls of the same child, with
\* the same nonce or not: the keys of the operator are dealt out to the
\* children without overlap, for any number of workers that FromChain takes
\* (ConfigureChildClients, prepareTxOpts).
THEOREM ClashesWithinChild == ClientSpec => []ClashWithinChild
<1>1. BaseInv => ClashWithinChild
  BY SignerOfOneChild DEF BaseInv, CtxInv, ClashWithinChild
<1> QED
  BY <1>1, BaseHolds, PTL


-----------------------------------------------------------------------------
(* What the Solana program reads in what the client has built *)

\* A withdrawal of the native kind, as the program reads it (Build and
\* DecodeInstruction of withdraw_native.go).
LEMMA NativeReads ==
    ASSUME NEW bridge_id, NEW hash, NEW amount, NEW uid, NEW signature, NEW recovery_id,
           NEW receiver, NEW authority, NEW txUsed, NEW signer, NEW systemProgram,
           NEW m,
           m = Build(NewWithdrawNativeInstruction(bridge_id, hash, amount, uid,
               signature, recovery_id, receiver, authority, txUsed, signer,
               systemProgram))
    PROVE  /\ m.data[1] = "withdraw_native" /\ Param(m, "BridgeId") = bridge_id
           /\ Param(m, "Hash") = hash /\ Param(m, "Amount") = amount
           /\ Param(m, "Uid") = uid /\ Param(m, "Signature") = signature
           /\ Param(m, "RecoveryId") = recovery_id /\ Account(m, "receiver") = receiver
           /\ Account(m, "authority") = authority /\ Account(m, "tx_used") = txUsed
           /\ Account(m, "signer") = signer
           /\ Account(m, "system_program") = systemProgram /\ HasRole(m, "tx_used")
           /\ ~HasRole(m, "mint") /\ ~HasRole(m, "spl_vault")
<1> DEFINE inst == NewWithdrawNativeInstruction(bridge_id, hash, amount, uid, signature,
                   recovery_id, receiver, authority, txUsed, signer, systemProgram)
<1> DEFINE names == <<"BridgeId", "Hash", "Amount", "Uid", "Signature", "RecoveryId">>
<1>1. /\ inst.type = "withdraw_native"
      /\ inst.params = [BridgeId |-> bridge_id, Hash |-> hash, Amount |-> amount, Uid
                        |-> uid, Signature |-> signature, RecoveryId |-> recovery_id]
      /\ Len(inst.accounts) = 5
      /\ inst.accounts[1].key = receiver /\ inst.accounts[2].key = authority
      /\ inst.accounts[3].key = txUsed /\ inst.accounts[4].key = signer
      /\ inst.accounts[5].key = systemProgram
  BY DEF NewWithdrawNativeInstruction, WithdrawNativeParams, Meta, WRITE, SIGNER
<1>2. MarshalOrder("withdraw_native") = names
  BY DEF MarshalOrder, WithdrawNativeMarshal
<1> HIDE DEF inst
<1> DEFINE w == [k \in DOMAIN MarshalOrder(inst.type) |->
                    inst.params[MarshalOrder(inst.type)[k]]]
<1>3. w = <<bridge_id, hash, amount, uid, signature, recovery_id>>
  BY <1>1, <1>2
<1>4. m.data = <<"withdraw_native">> \o w /\ m.accounts = inst.accounts
  BY <1>1 DEF Build, inst
<1> HIDE DEF w
<1>5. /\ m.data[1] = "withdraw_native"
      /\ m.data[2] = bridge_id /\ m.data[3] = hash /\ m.data[4] = amount
      /\ m.data[5] = uid /\ m.data[6] = signature /\ m.data[7] = recovery_id
  BY <1>3, <1>4
<1>6. UnmarshalOrder("withdraw_native") = names
  BY DEF UnmarshalOrder, WithdrawNativeUnmarshal
<1>7. /\ IndexIn(names, "BridgeId") = 1 /\ IndexIn(names, "Hash") = 2
      /\ IndexIn(names, "Amount") = 3 /\ IndexIn(names, "Uid") = 4
      /\ IndexIn(names, "Signature") = 5 /\ IndexIn(names, "RecoveryId") = 6
  BY DEF IndexIn
<1> DEFINE slots == <<"receiver", "authority", "tx_used", "signer", "system_program">>
<1>8. Slots("withdraw_native") = slots
  BY DEF Slots, WithdrawNativeSlots
<1>9. /\ IndexIn(slots, "receiver") = 1 /\ IndexIn(slots, "authority") = 2
      /\ IndexIn(slots, "tx_used") = 3 /\ IndexIn(slots, "signer") = 4
      /\ IndexIn(slots, "system_program") = 5
  BY DEF IndexIn
<1>10. ToSet(slots) = {"receiver", "authority", "tx_used", "signer", "system_program"}
  BY DEF ToSet
<1> HIDE DEF names, slots
<1>11. /\ Param(m, "BridgeId") = bridge_id /\ Param(m, "Hash") = hash
       /\ Param(m, "Amount") = amount /\ Param(m, "Uid") = uid
       /\ Param(m, "Signature") = signature /\ Param(m, "RecoveryId") = recovery_id
  BY <1>5, <1>6, <1>7 DEF Param
<1>12. /\ Account(m, "receiver") = receiver /\ Account(m, "authority") = authority
       /\ Account(m, "tx_used") = txUsed /\ Account(m, "signer") = signer
       /\ Account(m, "system_program") = systemProgram
  BY <1>1, <1>4, <1>5, <1>8, <1>9 DEF Account
<1>13. /\ HasRole(m, "tx_used") /\ ~HasRole(m, "mint") /\ ~HasRole(m, "spl_vault")
  BY <1>5, <1>8, <1>10 DEF HasRole
<1> QED
  BY <1>5, <1>11, <1>12, <1>13

\* A withdrawal of the SPL kind, as the program reads it (Build and
\* DecodeInstruction of withdraw_spl.go).
LEMMA SplReads ==
    ASSUME NEW bridge_id, NEW hash, NEW amount, NEW uid, NEW signature, NEW recovery_id,
           NEW mint, NEW splVault, NEW receiver, NEW authority, NEW txUsed, NEW signer,
           NEW systemProgram, NEW tokenProgram,
           NEW m,
           m = Build(NewWithdrawSplInstruction(bridge_id, hash, amount, uid,
               signature, recovery_id, mint, splVault, receiver, authority, txUsed,
               signer, systemProgram, tokenProgram))
    PROVE  /\ m.data[1] = "withdraw_spl" /\ Param(m, "BridgeId") = bridge_id
           /\ Param(m, "Hash") = hash /\ Param(m, "Amount") = amount
           /\ Param(m, "Uid") = uid /\ Param(m, "Signature") = signature
           /\ Param(m, "RecoveryId") = recovery_id /\ Account(m, "mint") = mint
           /\ Account(m, "spl_vault") = splVault /\ Account(m, "receiver") = receiver
           /\ Account(m, "authority") = authority /\ Account(m, "tx_used") = txUsed
           /\ Account(m, "signer") = signer
           /\ Account(m, "system_program") = systemProgram
           /\ Account(m, "token_program") = tokenProgram /\ HasRole(m, "tx_used")
           /\ HasRole(m, "mint") /\ HasRole(m, "spl_vault")
<1> DEFINE inst == NewWithdrawSplInstruction(bridge_id, hash, amount, uid, signature,
                   recovery_id, mint, splVault, receiver, authority, txUsed, signer,
                   systemProgram, tokenProgram)
<1> DEFINE names == <<"BridgeId", "Hash", "Amount", "Uid", "Signature", "RecoveryId">>
<1>1. /\ inst.type = "withdraw_spl"
      /\ inst.params = [BridgeId |-> bridge_id, Hash |-> hash, Amount |-> amount, Uid
                        |-> uid, Signature |-> signature, RecoveryId |-> recovery_id]
      /\ Len(inst.accounts) = 8
      /\ inst.accounts[1].key = mint /\ inst.accounts[2].key = splVault
      /\ inst.accounts[3].key = receiver /\ inst.accounts[4].key = authority
      /\ inst.accounts[5].key = txUsed /\ inst.accounts[6].key = signer
      /\ inst.accounts[7].key = systemProgram /\ inst.accounts[8].key = tokenProgram
  BY DEF NewWithdrawSplInstruction, WithdrawSplParams, Meta, WRITE, SIGNER
<1>2. MarshalOrder("withdraw_spl") = names
  BY DEF MarshalOrder, WithdrawSplMarshal
<1> HIDE DEF inst
<1> DEFINE w == [k \in DOMAIN MarshalOrder(inst.type) |->
                    inst.params[MarshalOrder(inst.type)[k]]]
<1>3. w = <<bridge_id, hash, amount, uid, signature, recovery_id>>
  BY <1>1, <1>2
<1>4. m.data = <<"withdraw_spl">> \o w /\ m.accounts = inst.accounts
  BY <1>1 DEF Build, inst
<1> HIDE DEF w
<1>5. /\ m.data[1] = "withdraw_spl"
      /\ m.data[2] = bridge_id /\ m.data[3] = hash /\ m.data[4] = amount
      /\ m.data[5] = uid /\ m.data[6] = signature /\ m.data[7] = recovery_id
  BY <1>3, <1>4
<1>6. UnmarshalOrder("withdraw_spl") = names
  BY DEF UnmarshalOrder, WithdrawSplUnmarshal
<1>7. /\ IndexIn(names, "BridgeId") = 1 /\ IndexIn(names, "Hash") = 2
      /\ IndexIn(names, "Amount") = 3 /\ IndexIn(names, "Uid") = 4
      /\ IndexIn(names, "Signature") = 5 /\ IndexIn(names, "RecoveryId") = 6
  BY DEF IndexIn
<1> DEFINE slots == <<"mint", "spl_vault", "receiver", "authority", "tx_used",
                        "signer", "system_program", "token_program">>
<1>8. Slots("withdraw_spl") = slots
  BY DEF Slots, WithdrawSplSlots
<1>9. /\ IndexIn(slots, "mint") = 1 /\ IndexIn(slots, "spl_vault") = 2
      /\ IndexIn(slots, "receiver") = 3 /\ IndexIn(slots, "authority") = 4
      /\ IndexIn(slots, "tx_used") = 5 /\ IndexIn(slots, "signer") = 6
      /\ IndexIn(slots, "system_program") = 7 /\ IndexIn(slots, "token_program") = 8
  BY DEF IndexIn
<1>10. ToSet(slots) = {"mint", "spl_vault", "receiver", "authority", "tx_used",
                        "signer", "system_program", "token_program"}
  BY DEF ToSet
<1> HIDE DEF names, slots
<1>11. /\ Param(m, "BridgeId") = bridge_id /\ Param(m, "Hash") = hash
       /\ Param(m, "Amount") = amount /\ Param(m, "Uid") = uid
       /\ Param(m, "Signature") = signature /\ Param(m, "RecoveryId") = recovery_id
  BY <1>5, <1>6, <1>7 DEF Param
<1>12. /\ Account(m, "mint") = mint /\ Account(m, "spl_vault") = splVault
       /\ Account(m, "receiver") = receiver /\ Account(m, "authority") = authority
       /\ Account(m, "tx_used") = txUsed /\ Account(m, "signer") = signer
       /\ Account(m, "system_program") = systemProgram
       /\ Account(m, "token_program") = tokenProgram
  BY <1>1, <1>4, <1>5, <1>8, <1>9 DEF Account
<1>13. /\ HasRole(m, "tx_used") /\ HasRole(m, "mint") /\ HasRole(m, "spl_vault")
  BY <1>5, <1>8, <1>10 DEF HasRole
<1> QED
  BY <1>5, <1>11, <1>12, <1>13

\* A withdrawal of the wrapped kind, as the program reads it (Build and
\* DecodeInstruction of withdraw_wrapped.go).
LEMMA WrappedReads ==
    ASSUME NEW bridge_id, NEW hash, NEW mint_nonce, NEW symbol, NEW amount, NEW uid, NEW
           signature, NEW recovery_id, NEW mint, NEW receiver, NEW authority, NEW
           txUsed, NEW signer, NEW systemProgram, NEW tokenProgram,
           NEW m,
           m = Build(NewWithdrawWrappedInstruction(bridge_id, hash, mint_nonce,
               symbol, amount, uid, signature, recovery_id, mint, receiver, authority,
               txUsed, signer, systemProgram, tokenProgram))
    PROVE  /\ m.data[1] = "withdraw_wrapped" /\ Param(m, "BridgeId") = bridge_id
           /\ Param(m, "Hash") = hash /\ Param(m, "MintNonce") = mint_nonce
           /\ Param(m, "Symbol") = symbol /\ Param(m, "Amount") = amount
           /\ Param(m, "Uid") = uid /\ Param(m, "Signature") = signature
           /\ Param(m, "RecoveryId") = recovery_id /\ Account(m, "mint") = mint
           /\ Account(m, "receiver") = receiver /\ Account(m, "authority") = authority
           /\ Account(m, "tx_used") = txUsed /\ Account(m, "signer") = signer
           /\ Account(m, "system_program") = systemProgram
           /\ Account(m, "token_program") = tokenProgram /\ HasRole(m, "tx_used")
           /\ HasRole(m, "mint") /\ ~HasRole(m, "spl_vault")
<1> DEFINE inst == NewWithdrawWrappedInstruction(bridge_id, hash, mint_nonce, symbol,
                   amount, uid, signature, recovery_id, mint, receiver, authority,
                   txUsed, signer, systemProgram, tokenProgram)
<1> DEFINE names == <<"BridgeId", "Hash", "MintNonce", "Symbol", "Amount", "Uid", "Signature", "RecoveryId">>
<1>1. /\ inst.type = "withdraw_wrapped"
      /\ inst.params = [BridgeId |-> bridge_id, Hash |-> hash, MintNonce |-> mint_nonce,
                        Symbol |-> symbol, Amount |-> amount, Uid |-> uid, Signature |->
                        signature, RecoveryId |-> recovery_id]
      /\ Len(inst.accounts) = 7
      /\ inst.accounts[1].key = mint /\ inst.accounts[2].key = receiver
      /\ inst.accounts[3].key = authority /\ inst.accounts[4].key = txUsed
      /\ inst.accounts[5].key = signer /\ inst.accounts[6].key = systemProgram
      /\ inst.accounts[7].key = tokenProgram
  BY DEF NewWithdrawWrappedInstruction, WithdrawWrappedParams, Meta, WRITE, SIGNER
<1>2. MarshalOrder("withdraw_wrapped") = names
  BY DEF MarshalOrder, WithdrawWrappedMarshal
<1> HIDE DEF inst
<1> DEFINE w == [k \in DOMAIN MarshalOrder(inst.type) |->
                    inst.params[MarshalOrder(inst.type)[k]]]
<1>3. w = <<bridge_id, hash, mint_nonce, symbol, amount, uid, signature, recovery_id>>
  BY <1>1, <1>2
<1>4. m.data = <<"withdraw_wrapped">> \o w /\ m.accounts = inst.accounts
  BY <1>1 DEF Build, inst
<1> HIDE DEF w
<1>5. /\ m.data[1] = "withdraw_wrapped"
      /\ m.data[2] = bridge_id /\ m.data[3] = hash /\ m.data[4] = mint_nonce
      /\ m.data[5] = symbol /\ m.data[6] = amount /\ m.data[7] = uid
      /\ m.data[8] = signature /\ m.data[9] = recovery_id
  BY <1>3, <1>4
<1>6. UnmarshalOrder("withdraw_wrapped") = names
  BY DEF UnmarshalOrder, WithdrawWrappedUnmarshal
<1>7. /\ IndexIn(names, "BridgeId") = 1 /\ IndexIn(names, "Hash") = 2
      /\ IndexIn(names, "MintNonce") = 3 /\ IndexIn(names, "Symbol") = 4
      /\ IndexIn(names, "Amount") = 5 /\ IndexIn(names, "Uid") = 6
      /\ IndexIn(names, "Signature") = 7 /\ IndexIn(names, "RecoveryId") = 8
  BY DEF IndexIn
<1> DEFINE slots == <<"mint", "receiver", "authority", "tx_used", "signer",
                        "system_program", "token_program">>
<1>8. Slots("withdraw_wrapped") = slots
  BY DEF Slots, WithdrawWrappedSlots
<1>9. /\ IndexIn(slots, "mint") = 1 /\ IndexIn(slots, "receiver") = 2
      /\ IndexIn(slots, "authority") = 3 /\ IndexIn(slots, "tx_used") = 4
      /\ IndexIn(slots, "signer") = 5 /\ IndexIn(slots, "system_program") = 6
      /\ IndexIn(slots, "token_program") = 7
  BY DEF IndexIn
<1>10. ToSet(slots) = {"mint", "receiver", "authority", "tx_used", "signer",
                        "system_program", "token_program"}
  BY DEF ToSet
<1> HIDE DEF names, slots
<1>11. /\ Param(m, "BridgeId") = bridge_id /\ Param(m, "Hash") = hash
       /\ Param(m, "MintNonce") = mint_nonce /\ Param(m, "Symbol") = symbol
       /\ Param(m, "Amount") = amount /\ Param(m, "Uid") = uid
       /\ Param(m, "Signature") = signature /\ Param(m, "RecoveryId") = recovery_id
  BY <1>5, <1>6, <1>7 DEF Param
<1>12. /\ Account(m, "mint") = mint /\ Account(m, "receiver") = receiver
       /\ Account(m, "authority") = authority /\ Account(m, "tx_used") = txUsed
       /\ Account(m, "signer") = signer /\ Account(m, "system_program") = systemProgram
       /\ Account(m, "token_program") = tokenProgram
  BY <1>1, <1>4, <1>5, <1>8, <1>9 DEF Account
<1>13. /\ HasRole(m, "tx_used") /\ HasRole(m, "mint") /\ ~HasRole(m, "spl_vault")
  BY <1>5, <1>8, <1>10 DEF HasRole
<1> QED
  BY <1>5, <1>11, <1>12, <1>13

\* The creation of a vault, as the program reads it (init_spl_vault.go).
LEMMA VaultReads ==
    ASSUME NEW d, NEW s, NEW m, m = Build(vaultInst(d, s))
    PROVE  IsVaultTx(m) /\ Account(m, "mint") = d.token
<1> DEFINE inst == vaultInst(d, s)
<1>1. inst.type = "init_spl_vault" /\ inst.accounts[1].key = d.token
  BY DEF vaultInst, NewInitSplVaultInstruction, Meta, WRITE, SIGNER
<1>2. MarshalOrder("init_spl_vault") = <<"BridgeId">>
  BY DEF MarshalOrder, InitSplVaultMarshal
<1> HIDE DEF inst
<1> DEFINE w == [k \in DOMAIN MarshalOrder(inst.type) |->
                    inst.params[MarshalOrder(inst.type)[k]]]
<1>3. w = <<inst.params["BridgeId"]>>
  BY <1>1, <1>2
<1>4. m.data = <<"init_spl_vault">> \o w /\ m.accounts = inst.accounts
  BY <1>1 DEF Build, inst
<1> HIDE DEF w
<1>5. m.data[1] = "init_spl_vault"
  BY <1>3, <1>4
<1>6. IndexIn(Slots("init_spl_vault"), "mint") = 1
  BY DEF IndexIn, Slots, InitSplVaultSlots
<1> QED
  BY <1>1, <1>4, <1>5, <1>6 DEF IsVaultTx, Account


\* A withdrawal of any kind, as the program reads it: the hash is the one
\* Withdraw computed, and the program computes from the rest the one that
\* IsProcessed does (getSignHash, getWithdrawalHash, getWithdrawalContext).
LEMMA WithdrawalReads ==
    ASSUME NEW d, NEW s, NEW m, m = Build(SolanaInstruction(d, s))
    PROVE  /\ ~IsVaultTx(m)
           /\ Param(m, "Hash") = getSignHash(d)
           /\ Param(m, "Signature") = processSignature(d)
           /\ ProgramHash(m) = getWithdrawalHash(d)
           /\ HasRole(m, "tx_used")
           /\ Account(m, "tx_used") = getWithdrawalPDA(getSignHash(d))
           /\ Account(m, "signer") = s
           /\ Account(m, "system_program") = "system"
           /\ HasRole(m, "spl_vault") =>
                 /\ d.token # NativeToken /\ ~d.wrapped
                 /\ Account(m, "spl_vault") = VaultAddress(d.token)
                 /\ Account(m, "token_program") = Owner(d.token)
<1>1. /\ getWithdrawalContext(d).WithdrawalTxHash = getSignHash(d)
      /\ getWithdrawalContext(d).Amount = Uint64(d.amount)
      /\ getWithdrawalContext(d).UID = getUid(d.txHash, d.nonce)
      /\ getWithdrawalContext(d).Sig = processSignature(d)
      /\ getWithdrawalContext(d).Receiver = d.receiver
      /\ getWithdrawalContext(d).Token = d.token
      /\ getWithdrawalContext(d).WithdrawalPDA = getWithdrawalPDA(getSignHash(d))
  BY DEF getWithdrawalContext
<1>2. CASE d.token = NativeToken
  <2>1. m = Build(solanaNative(d, s))
    BY <1>2 DEF SolanaInstruction
  <2>2. /\ m.data[1] = "withdraw_native" /\ Param(m, "BridgeId") = BridgeId
        /\ Param(m, "Hash") = getSignHash(d) /\ Param(m, "Amount") = Uint64(d.amount)
        /\ Param(m, "Uid") = getUid(d.txHash, d.nonce)
        /\ Param(m, "Signature") = processSignature(d)
        /\ Account(m, "receiver") = d.receiver
        /\ Account(m, "tx_used") = getWithdrawalPDA(getSignHash(d))
        /\ Account(m, "signer") = s /\ Account(m, "system_program") = "system"
        /\ HasRole(m, "tx_used") /\ ~HasRole(m, "mint") /\ ~HasRole(m, "spl_vault")
    BY <1>1, <2>1, NativeReads DEF solanaNative
  <2>3. ProgramHash(m) = getWithdrawalHash(d)
    BY <1>2, <2>2 DEF ProgramHash, getWithdrawalHash, TokenBytes
  <2> QED
    BY <2>2, <2>3 DEF IsVaultTx
<1>3. CASE d.token # NativeToken /\ ~d.wrapped
  <2>1. m = Build(withdrawSPL(d, s))
    BY <1>3 DEF SolanaInstruction
  <2>2. /\ m.data[1] = "withdraw_spl" /\ Param(m, "BridgeId") = BridgeId
        /\ Param(m, "Hash") = getSignHash(d) /\ Param(m, "Amount") = Uint64(d.amount)
        /\ Param(m, "Uid") = getUid(d.txHash, d.nonce)
        /\ Param(m, "Signature") = processSignature(d)
        /\ Account(m, "receiver") = d.receiver /\ Account(m, "mint") = d.token
        /\ Account(m, "tx_used") = getWithdrawalPDA(getSignHash(d))
        /\ Account(m, "signer") = s /\ Account(m, "system_program") = "system"
        /\ Account(m, "spl_vault") = VaultAddress(d.token)
        /\ Account(m, "token_program") = Owner(d.token)
        /\ HasRole(m, "tx_used") /\ HasRole(m, "mint")
    BY <1>1, <2>1, SplReads DEF withdrawSPL
  <2>3. ProgramHash(m) = getWithdrawalHash(d)
    BY <1>3, <2>2 DEF ProgramHash, getWithdrawalHash, TokenBytes
  <2> QED
    BY <1>3, <2>2, <2>3 DEF IsVaultTx
<1>4. CASE d.token # NativeToken /\ d.wrapped
  <2>1. m = Build(withdrawWrapped(d, s))
    BY <1>4 DEF SolanaInstruction
  <2>2. /\ m.data[1] = "withdraw_wrapped" /\ Param(m, "BridgeId") = BridgeId
        /\ Param(m, "Hash") = getSignHash(d) /\ Param(m, "Amount") = Uint64(d.amount)
        /\ Param(m, "Uid") = getUid(d.txHash, d.nonce)
        /\ Param(m, "Signature") = processSignature(d)
        /\ Account(m, "receiver") = d.receiver /\ Account(m, "mint") = d.token
        /\ Account(m, "tx_used") = getWithdrawalPDA(getSignHash(d))
        /\ Account(m, "signer") = s /\ Account(m, "system_program") = "system"
        /\ HasRole(m, "tx_used") /\ HasRole(m, "mint") /\ ~HasRole(m, "spl_vault")
    BY <1>1, <2>1, WrappedReads DEF withdrawWrapped
  <2>3. ProgramHash(m) = getWithdrawalHash(d)
    BY <1>4, <2>2 DEF ProgramHash, getWithdrawalHash, TokenBytes
  <2> QED
    BY <2>2, <2>3 DEF IsVaultTx
<1> QED
  BY <1>2, <1>3, <1>4

-----------------------------------------------------------------------------
(* What the EVM contract finds in what the client has packed *)

\* The names of the inputs are different from one another, so that each input
\* gets the argument of its place (the ABI of the binding, abi.Pack).
LEMMA EvmNativeReads ==
    ASSUME NEW d, getWithdrawFunc(d) = "withdrawNative"
    PROVE  /\ ToSet(AbiInputs[EvmMsg(d).method]) =
                 {"amount", "receiver", "txHash", "txNonce", "signatures"}
           /\ EvmDecode(EvmMsg(d)).amount = d.amount
           /\ EvmDecode(EvmMsg(d)).receiver = HexToAddress(d.receiver)
           /\ EvmDecode(EvmMsg(d)).txHash = txHashToBytes32(d.txHash)
           /\ EvmDecode(EvmMsg(d)).txNonce = d.nonce
           /\ EvmDecode(EvmMsg(d)).signatures = SigBytes(d)
<1> DEFINE names == <<"amount", "receiver", "txHash", "txNonce", "signatures">>
           P(f) == CHOOSE k \in DOMAIN names : names[k] = f
<1>1. EvmMsg(d).method = "withdrawNative" /\ EvmMsg(d).args = withdrawNativeArgs(d)
  BY DEF EvmMsg, EvmArgs
<1>2. AbiInputs["withdrawNative"] = names
  BY DEF AbiInputs
<1>3. ToSet(names) = {"amount", "receiver", "txHash", "txNonce", "signatures"}
  BY DEF ToSet
<1>4. /\ P("amount") = 1 /\ P("receiver") = 2 /\ P("txHash") = 3 /\ P("txNonce") = 4
      /\ P("signatures") = 5
  OBVIOUS
<1>5. EvmDecode(EvmMsg(d)) = [f \in ToSet(names) |-> EvmMsg(d).args[P(f)]]
  BY <1>1, <1>2 DEF EvmDecode
<1> HIDE DEF names, P
<1> QED
  BY <1>1, <1>2, <1>3, <1>4, <1>5 DEF withdrawNativeArgs

\* The same of withdrawERC20.
LEMMA EvmTokenReads ==
    ASSUME NEW d, getWithdrawFunc(d) = "withdrawERC20"
    PROVE  /\ ToSet(AbiInputs[EvmMsg(d).method]) =
                 {"token", "amount", "receiver", "txHash", "txNonce", "isWrapped",
                  "signatures"}
           /\ EvmDecode(EvmMsg(d)).token = HexToAddress(d.token)
           /\ EvmDecode(EvmMsg(d)).amount = d.amount
           /\ EvmDecode(EvmMsg(d)).receiver = HexToAddress(d.receiver)
           /\ EvmDecode(EvmMsg(d)).txHash = txHashToBytes32(d.txHash)
           /\ EvmDecode(EvmMsg(d)).txNonce = d.nonce
           /\ EvmDecode(EvmMsg(d)).isWrapped = d.wrapped
           /\ EvmDecode(EvmMsg(d)).signatures = SigBytes(d)
<1> DEFINE names == <<"token", "amount", "receiver", "txHash", "txNonce", "isWrapped",
                      "signatures">>
           P(f) == CHOOSE k \in DOMAIN names : names[k] = f
<1>1. EvmMsg(d).method = "withdrawERC20" /\ EvmMsg(d).args = withdrawERC20Args(d)
  BY DEF EvmMsg, EvmArgs
<1>2. AbiInputs["withdrawERC20"] = names
  BY DEF AbiInputs
<1>3. ToSet(names) = {"token", "amount", "receiver", "txHash", "txNonce",
                        "isWrapped", "signatures"}
  BY DEF ToSet
<1>4. /\ P("token") = 1 /\ P("amount") = 2 /\ P("receiver") = 3 /\ P("txHash") = 4
      /\ P("txNonce") = 5 /\ P("isWrapped") = 6 /\ P("signatures") = 7
  OBVIOUS
<1>5. EvmDecode(EvmMsg(d)) = [f \in ToSet(names) |-> EvmMsg(d).args[P(f)]]
  BY <1>1, <1>2 DEF EvmDecode
<1> HIDE DEF names, P
<1> QED
  BY <1>1, <1>2, <1>3, <1>4, <1>5 DEF withdrawERC20Args

\* The same of withdrawERC20Merkelized.
LEMMA EvmProofReads ==
    ASSUME NEW d, getWithdrawFunc(d) = "withdrawERC20Merkelized"
    PROVE  /\ ToSet(AbiInputs[EvmMsg(d).method]) =
                 {"token", "amount", "receiver", "txHash", "txNonce", "isWrapped",
                  "merkleProof", "signatures"}
           /\ EvmDecode(EvmMsg(d)).token = HexToAddress(d.token)
           /\ EvmDecode(EvmMsg(d)).amount = d.amount
           /\ EvmDecode(EvmMsg(d)).receiver = HexToAddress(d.receiver)
           /\ EvmDecode(EvmMsg(d)).txHash = txHashToBytes32(d.txHash)
           /\ EvmDecode(EvmMsg(d)).txNonce = d.nonce
           /\ EvmDecode(EvmMsg(d)).isWrapped = d.wrapped
           /\ EvmDecode(EvmMsg(d)).merkleProof = d.proof
           /\ EvmDecode(EvmMsg(d)).signatures = SigBytes(d)
<1> DEFINE names == <<"token", "amount", "receiver", "txHash", "txNonce", "isWrapped",
                      "merkleProof", "signatures">>
           P(f) == CHOOSE k \in DOMAIN names : names[k] = f
<1>1. EvmMsg(d).method = "withdrawERC20Merkelized" /\ EvmMsg(d).args = withdrawERC20MerkelizedArgs(d)
  BY DEF EvmMsg, EvmArgs
<1>2. AbiInputs["withdrawERC20Merkelized"] = names
  BY DEF AbiInputs
<1>3. ToSet(names) = {"token", "amount", "receiver", "txHash", "txNonce",
                        "isWrapped", "merkleProof", "signatures"}
  BY DEF ToSet
<1>4. /\ P("token") = 1 /\ P("amount") = 2 /\ P("receiver") = 3 /\ P("txHash") = 4
      /\ P("txNonce") = 5 /\ P("isWrapped") = 6 /\ P("merkleProof") = 7
      /\ P("signatures") = 8
  OBVIOUS
<1>5. EvmDecode(EvmMsg(d)) = [f \in ToSet(names) |-> EvmMsg(d).args[P(f)]]
  BY <1>1, <1>2 DEF EvmDecode
<1> HIDE DEF names, P
<1> QED
  BY <1>1, <1>2, <1>3, <1>4, <1>5 DEF withdrawERC20MerkelizedArgs

\* The key under which the contract marks a withdrawal is the one IsProcessed
\* looks for (getWithdrawalTxData, ContainsHash).
LEMMA EvmKeyIsTheDeposits ==
    ASSUME NEW d, getWithdrawalTxData(d)
    PROVE  EvmKey(EvmMsg(d)) = <<txHashToBytes32(d.txHash), d.nonce>>
<1>1. getWithdrawFunc(d) \in {"withdrawNative", "withdrawERC20", "withdrawERC20Merkelized"}
  <2>1. getWithdrawFunc(d) \in {"withdrawNative", "withdrawERC20", "withdrawERC20Merkelized",
                               "updateSigner"}
    BY DEF getWithdrawalTxData, AbiInputs
  <2>2. getWithdrawFunc(d) # "updateSigner"
    BY DEF getWithdrawFunc
  <2> QED
    BY <2>1, <2>2
<1> QED
  BY <1>1, EvmNativeReads, EvmTokenReads, EvmProofReads DEF EvmKey, EvmMsg


-----------------------------------------------------------------------------
(* Messages *)

\* A transaction that was sent stays what it is, and stays accepted.
LEMMA TxKept ==
    ASSUME BaseInv, [ClientNext]_clientVars, NEW n \in 1..CallBound, ctx[n].state # "unused"
    PROVE  /\ ctx'[n].state # "unused" /\ ctx'[n].msg = ctx[n].msg
           /\ ctx'[n].item = ctx[n].item
           /\ ctx[n].state = "success" => ctx'[n].state = "success"
<1>1. CASE ctx' = ctx
  BY <1>1
<1>2. ASSUME NEW c \in Callers, Sends(c)
      PROVE  n # call[c].n
  BY <1>2 DEF Sends, BaseInv, CallInv
<1>3. CASE \E c \in Callers : Sends(c)
  BY <1>2, <1>3 DEF Sends, BaseInv, ShapeInv, CtxFields
<1>4. ASSUME NEW m \in 1..CallBound, Mines(m)
      PROVE  /\ ctx'[n].state # "unused" /\ ctx'[n].msg = ctx[n].msg
             /\ ctx'[n].item = ctx[n].item
             /\ ctx[n].state = "success" => ctx'[n].state = "success"
  <2> DEFINE s == ctx'[m].state
  <2>1. /\ ctx' = [ctx EXCEPT ![m].state = s] /\ s # "unused"
        /\ ctx[m].state # "success"
    BY <1>4 DEF Mines
  <2> HIDE DEF s
  <2> QED
    BY <2>1 DEF BaseInv, ShapeInv, CtxFields
<1>5. CASE UNCHANGED clientVars
  BY <1>1, <1>5 DEF clientVars
<1>6. CASE ClientNext
  <2>1. ctx' = ctx \/ (\E c \in Callers : Sends(c)) \/ (\E m \in 1..CallBound : Mines(m))
    BY <1>6, StepKinds DEF BaseInv, Configure, Call, StepOfCall, Proceeds, Panics, Elsewhere
  <2> QED
    BY <1>1, <1>3, <1>4, <2>1
<1> QED
  BY <1>5, <1>6

\* The configuration stays as it is.
LEMMA ConfigKept ==
    ASSUME BaseInv, [ClientNext]_clientVars
    PROVE  config' = config
BY StepKinds DEF BaseInv, clientVars

\* A call that takes no step has its message, and so has its transaction.
LEMMA MsgKept ==
    ASSUME BaseInv, [ClientNext]_clientVars, NEW c \in Callers, MsgOfCall(c),
           call'[c] = call[c]
    PROVE  MsgOfCall(c)'
<1>1. call[c].pc \in Waiting => ctx'[call[c].n].msg = ctx[call[c].n].msg
  <2> SUFFICES ASSUME call[c].pc \in Waiting
               PROVE  ctx'[call[c].n].msg = ctx[call[c].n].msg
    OBVIOUS
  <2>1. InCall(c)
    BY DEF InCall, Waiting
  <2> QED
    BY <2>1, CallNumber, TxKept DEF BaseInv, CallInv
<1> QED
  BY <1>1, ConfigKept DEF MsgOfCall, Waiting, IsWithdrawal, IsInitVault

\* A signer is one of the keys.
LEMMA SignerIsKey ==
    ASSUME BaseInv, NEW c \in Callers, InCall(c)
    PROVE  call[c].signer \in Keys
<1>1. call[c].child \in DOMAIN children /\ call[c].signer \in children[call[c].child]
  BY DEF BaseInv, CallInv
<1>2. children # <<>>
  BY <1>1
<1>3. children[call[c].child] \in (SUBSET Keys) \ {{}}
  BY <1>1, <1>2, ChildrenHaveSigners DEF BaseInv
<1> QED
  BY <1>1, <1>3

\* A call that returns carries nothing (Returns).
LEMMA MsgReturns ==
    ASSUME BaseInv, NEW c \in Callers, NEW ok, NEW hash, Returns(c, ok, hash)
    PROVE  MsgOfCall(c)'
BY DEF Returns, Idle, BaseInv, ShapeInv, MsgOfCall

\* What is sent is new.
LEMMA NothingSent ==
    ASSUME BaseInv, NEW c \in Callers, ctx' = ctx
    PROVE  ~Sends(c)
BY DEF BaseInv, CallInv, Sends

\* The calls of the EVM client (EvmWithdraw to EvmWaitMined).
LEMMA EvmMessages ==
    ASSUME BaseInv, NEW c \in Callers, MsgOfCall(c), EvmStep(c)
    PROVE  /\ MsgOfCall(c)'
           /\ Sends(c) => /\ config.kind = "EVM"
                          /\ IsPacked(ctx'[call[c].n].msg, call[c].item)
<1>1. DOMAIN call = Callers /\ DOMAIN call[c] = CallFields
  BY DEF BaseInv, ShapeInv
<1>2. CASE EvmWithdraw(c) \/ EvmUpdateSigners(c)
  <2>1. ~Sends(c)
    BY <1>2, NothingSent DEF EvmWithdraw, EvmUpdateSigners
  <2>2. CASE Fails(c, Empty)
    BY <2>1, <2>2, MsgReturns DEF Fails
  <2>3. ASSUME NEW msg, IsPacked(msg, call[c].item), EvmPrepares(c, msg)
        PROVE  MsgOfCall(c)'
    <3> DEFINE k == PendingNonceAt(call[c].signer)
    <3>1. /\ call' = [call EXCEPT ![c].pc = "estimate", ![c].msg = msg, ![c].nonce = k]
          /\ config' = config /\ config.kind = "EVM"
      BY <1>2, <2>3 DEF EvmPrepares, EvmWithdraw, EvmUpdateSigners, CallFrame
    <3> HIDE DEF k
    <3>2. call'[c].pc = "estimate" /\ call'[c].msg = msg /\ call'[c].item = call[c].item
      BY <1>1, <3>1 DEF CallFields
    <3> QED
      BY <2>3, <3>1, <3>2 DEF MsgOfCall
  <2>4. CASE EvmWithdraw(c) /\ ~Fails(c, Empty)
    <3>1. /\ getWithdrawalTxData(call[c].item) /\ EvmPrepares(c, EvmMsg(call[c].item))
          /\ call[c].item.op = "withdraw"
      BY <2>4 DEF EvmWithdraw, BaseInv, CallInv
    <3>2. IsPacked(EvmMsg(call[c].item), call[c].item)
      BY <3>1 DEF IsPacked
    <3> QED
      BY <2>1, <2>3, <3>1, <3>2
  <2>5. CASE EvmUpdateSigners(c) /\ ~Fails(c, Empty)
    <3>1. EvmPrepares(c, EvmUpdateMsg(call[c].item)) /\ call[c].item.op = "update"
      BY <2>5 DEF EvmUpdateSigners, BaseInv, CallInv
    <3>2. IsPacked(EvmUpdateMsg(call[c].item), call[c].item)
      BY <3>1 DEF IsPacked
    <3> QED
      BY <2>1, <2>3, <3>1, <3>2
  <2> QED
    BY <1>2, <2>2, <2>4, <2>5
<1>3. CASE EstimateGas(c)
  <2>1. ~Sends(c)
    BY <1>3, NothingSent DEF EstimateGas
  <2>2. CASE CallStep(c, "send")
    BY <1>1, <1>3, <2>1, <2>2 DEF EstimateGas, CallStep, CallFrame, CallFields, MsgOfCall
  <2> QED
    BY <1>3, <2>1, <2>2, MsgReturns DEF EstimateGas, Fails
<1>4. CASE EvmSend(c)
  <2> DEFINE h == IF call[c].item.op = "withdraw" THEN Precomputed ELSE Empty
  <2>1. CASE Fails(c, h)
    <3>1. ~Sends(c)
      BY <1>1, <2>1 DEF Fails, Returns, Idle, Sends, Waiting
    <3> QED
      BY <2>1, <3>1, MsgReturns DEF Fails
  <2>2. CASE ~Fails(c, h)
    <3>1. /\ CallStep(c, "final") /\ config' = config /\ config.kind = "EVM"
          /\ call[c].pc = "send"
          /\ ctx' = [n \in 1..CallBound |->
                        CASE n = call[c].n -> Sent(c, call[c].msg)
                          [] n \in Rivals(c) -> [ctx[n] EXCEPT !.state = "dropped"]
                          [] OTHER -> ctx[n]]
      BY <1>4, <2>2 DEF EvmSend, CallFrame
    <3>2. call[c].n \in 1..CallBound /\ call[c].n \notin Rivals(c)
      BY <3>1, CallNumber DEF BaseInv, InCall, CallInv, Unsent, Rivals, Pending
    <3>3. ctx'[call[c].n] = Sent(c, call[c].msg)
      BY <3>1, <3>2
    <3>4. MsgOfCall(c)'
      BY <1>1, <3>1 DEF CallStep, CallFields, MsgOfCall
    <3> QED
      BY <3>1, <3>3, <3>4 DEF MsgOfCall, Sent
  <2> QED
    BY <2>1, <2>2
<1>5. CASE EvmFinalize(c) \/ EvmWaitMined(c)
  <2>1. ~Sends(c)
    BY <1>5 DEF EvmFinalize, EvmWaitMined, EvmFinal, Sends, Unsent
  <2> QED
    BY <1>5, <2>1, MsgReturns DEF EvmFinalize, EvmWaitMined, Fails
<1> QED
  BY <1>2, <1>3, <1>4, <1>5 DEF EvmStep

\* The calls of the Solana client, unless the process ends.
LEMMA SolanaMessages ==
    ASSUME BaseInv, NEW c \in Callers, MsgOfCall(c), SolanaStep(c), ~Panics
    PROVE  MsgOfCall(c)' /\ config.kind = "SOL"
<1>1. DOMAIN call = Callers /\ DOMAIN call[c] = CallFields
  BY DEF BaseInv, ShapeInv
<1>2. CASE SolanaWithdraw(c)
  <2>1. call[c].item.op = "withdraw" /\ call[c].signer \in Keys
    BY <1>2, SignerIsKey DEF SolanaWithdraw, SolanaAt, InCall, BaseInv, CallInv
  <2>2. CASE SolanaBuilds(c, SolanaInstruction(call[c].item, call[c].signer))
    BY <1>1, <1>2, <2>1, <2>2
       DEF SolanaWithdraw, SolanaAt, SolanaBuilds, Builds, CallFrame, CallFields, MsgOfCall,
           IsWithdrawal
  <2>3. CASE CallStep(c, "vault")
    BY <1>1, <1>2, <2>1, <2>3
       DEF SolanaWithdraw, SolanaAt, CallStep, CallFrame, CallFields, MsgOfCall
  <2> QED
    BY <1>2, <2>2, <2>3, MsgReturns DEF SolanaWithdraw, SolanaAt, Fails
<1>3. CASE getSPLVault(c)
  <2>1. call[c].item.op = "withdraw" /\ call[c].signer \in Keys
    BY <1>3, SignerIsKey DEF getSPLVault, SolanaAt, InCall, MsgOfCall
  <2>2. CASE SolanaBuilds(c, SolanaInstruction(call[c].item, call[c].signer))
    BY <1>1, <1>3, <2>1, <2>2
       DEF getSPLVault, SolanaAt, SolanaBuilds, Builds, CallFrame, CallFields, MsgOfCall,
           IsWithdrawal
  <2>3. CASE Builds(c, "initVault", Build(vaultInst(call[c].item, call[c].signer)))
    BY <1>1, <1>3, <2>1, <2>3
       DEF getSPLVault, SolanaAt, Builds, CallFrame, CallFields, MsgOfCall, IsInitVault
  <2> QED
    BY <1>3, <2>2, <2>3, MsgReturns DEF getSPLVault, SolanaAt, Fails
<1>4. CASE SendTx(c)
  <2>1. call[c].n \in DOMAIN ctx
    BY <1>4, CallNumber DEF SendTx, InCall, BaseInv, ShapeInv
  <2>2. CASE /\ ctx' = [ctx EXCEPT ![call[c].n] = Sent(c, call[c].msg)]
             /\ CallStep(c, IF call[c].pc = "send" THEN "final" ELSE "vaultFinal")
    BY <1>1, <1>4, <2>1, <2>2 DEF SendTx, CallStep, CallFrame, CallFields, Sent, MsgOfCall,
                                  IsWithdrawal, IsInitVault
  <2> QED
    BY <1>4, <2>2, MsgReturns DEF SendTx, Fails
<1>5. CASE SolanaFinalize(c) \/ VaultFails(c)
  BY <1>5, MsgReturns DEF SolanaFinalize, VaultFails, SolanaAt, Fails
<1>6. CASE SolanaUpdateSigners(c)
  <2>1. call[c].item.op = "update"
    BY <1>6 DEF SolanaUpdateSigners, SolanaAt, BaseInv, CallInv
  <2>2. CASE SolanaBuilds(c, UpdateSignersInstruction(call[c].item, call[c].signer))
    BY <1>1, <1>6, <2>1, <2>2
       DEF SolanaUpdateSigners, SolanaAt, SolanaBuilds, Builds, CallFrame, CallFields,
           MsgOfCall
  <2> QED
    BY <1>6, <2>2, MsgReturns DEF SolanaUpdateSigners, SolanaAt, Fails
<1> QED
  BY <1>2, <1>3, <1>4, <1>5, <1>6
     DEF SolanaStep, parseTokenMetadataPanics, VaultPanics

\* The calls of the TON client carry what no property is about.
LEMMA TonMessages ==
    ASSUME BaseInv, NEW c \in Callers, TonStep(c), ~Panics
    PROVE  MsgOfCall(c)' /\ config.kind = "TON"
<1>1. DOMAIN call = Callers /\ DOMAIN call[c] = CallFields
  BY DEF BaseInv, ShapeInv
<1>2. config' = config /\ config.kind = "TON" /\ ~TonUpdatePanics(c)
  BY DEF TonStep, TonWithdraw, TonUpdateSigners, TonUpdatePanics, TonSend, TonFinalize,
         TonAt, CallFrame
<1>3. call'[c].pc \in {"send", "final", "done"}
  BY <1>1, <1>2 DEF TonStep, TonWithdraw, TonUpdateSigners, TonSend, TonFinalize, TonBuilds,
                    Builds, CallStep, Fails, Returns, Idle, CallFields
<1> QED
  BY <1>2, <1>3 DEF MsgOfCall


\* Who has forwarded a transaction (WalletRuns).
LEMMA ForwardedOnTon ==
    ASSUME BaseInv, ClientNext, NEW n \in 1..CallBound, MsgOfTx(n),
           ctx'[n].state = "forwarded"
    PROVE  config.kind = "TON"
<1>1. CASE ctx'[n].state = ctx[n].state
  BY <1>1 DEF MsgOfTx
<1>2. ASSUME NEW c \in Callers, Sends(c)
      PROVE  config.kind = "TON"
  <2>1. n # call[c].n
    BY <1>2 DEF Sends
  <2>2. ctx'[n].state = ctx[n].state
    BY <1>2, <2>1 DEF Sends, BaseInv, ShapeInv, CtxFields
  <2> QED
    BY <1>1, <2>2
<1>3. ASSUME NEW m \in 1..CallBound, EvmMine(m) \/ SolanaMine(m) \/ WalletRuns(m) \/ BridgeRuns(m)
      PROVE  config.kind = "TON"
  <2>1. CASE m # n
    <3>1. ctx'[n] = ctx[n]
      BY <1>3, <2>1, MineKinds DEF Mines, BaseInv, ShapeInv
    <3> QED
      BY <1>1, <3>1
  <2>2. CASE m = n
    <3>1. ~EvmMine(n)
      BY DEF EvmMine, BaseInv, ShapeInv, CtxFields
    <3>2. ~SolanaMine(n)
      BY DEF SolanaMine, BaseInv, ShapeInv, CtxFields
    <3>3. ~BridgeRuns(n)
      BY DEF BridgeRuns, BaseInv, ShapeInv, CtxFields
    <3> QED
      BY <1>3, <2>2, <3>1, <3>2, <3>3 DEF WalletRuns
  <2> QED
    BY <2>1, <2>2
<1>4. CASE ctx' = ctx
  BY <1>1, <1>4
<1>5. \/ ctx' = ctx \/ \E c \in Callers : Sends(c)
      \/ \E m \in 1..CallBound :
            EvmMine(m) \/ SolanaMine(m) \/ WalletRuns(m) \/ BridgeRuns(m)
  <2>1. ASSUME NEW c \in Callers, ClientStep(c) PROVE ctx' = ctx \/ Sends(c)
    BY <2>1, EvmKinds, SolanaKinds, TonKinds
       DEF BaseInv, ClientStep, StepOfCall, Proceeds, Panics
  <2> QED
    BY <2>1 DEF ClientNext, EvmConfigure, SolanaConfigure, TonConfigure, Configure, EvmCall,
                SolanaCall, TonCall, Call, ForeignWithdraw, ForeignVault
<1> QED
  BY <1>2, <1>3, <1>4, <1>5

\* What a caller does when it takes a step, and when another one does.
LEMMA OtherCalls ==
    ASSUME BaseInv, ClientNext, NEW c \in Callers
    PROVE  \/ call'[c] = call[c]
           \/ call'[c].pc \in {"idle", "withdraw", "update"}
           \/ ClientStep(c) /\ ~Panics
<1>1. DOMAIN call = Callers
  BY DEF BaseInv, ShapeInv
<1>2. ASSUME NEW d \in Callers, EvmCall(d) \/ SolanaCall(d) \/ TonCall(d)
      PROVE  call'[c] = call[c] \/ call'[c].pc \in {"withdraw", "update"}
  <2>1. PICK kind : Call(kind, d)
    BY <1>2 DEF EvmCall, SolanaCall, TonCall
  <2>2. PICK i \in config.items : \E child, s :
           call' = [call EXCEPT ![d] = [Idle EXCEPT !.pc = i.op, !.n = calls + 1,
                                                    !.child = child, !.item = i, !.signer = s]]
    BY <2>1 DEF Call
  <2>3. i.op \in {"withdraw", "update"}
    BY ChainClientAssumption DEF BaseInv, ConfInv, Items
  <2>4. \A e \in Callers : call'[e] = call[e] \/ (e = d /\ call'[e].pc = i.op)
    BY <1>1, <2>2 DEF Idle
  <2> QED
    BY <2>3, <2>4
<1>3. ASSUME NEW d \in Callers, ClientStep(d), d # c
      PROVE  call'[c] = call[c] \/ call'[c].pc = "idle"
  <2>1. StepOfCall(d)
    BY <1>3, EvmKinds, SolanaKinds, TonKinds DEF BaseInv, ClientStep, StepOfCall
  <2> QED
    BY <1>1, <1>3, <2>1 DEF StepOfCall, Proceeds, Sends, SameCall, Panics, Idle
<1>4. Panics => call'[c].pc = "idle"
  BY DEF Panics, Idle
<1>5. \/ call' = call
      \/ \E d \in Callers : EvmCall(d) \/ SolanaCall(d) \/ TonCall(d) \/ ClientStep(d)
  BY DEF ClientNext, EvmConfigure, SolanaConfigure, TonConfigure, Configure, EvmMine,
         SolanaMine, WalletRuns, BridgeRuns, ForeignWithdraw, ForeignVault
<1> QED
  BY <1>2, <1>3, <1>4, <1>5

\* Every step preserves that calls and transactions have their messages.
LEMMA MsgStep ==
    ASSUME BaseInv, MsgInv, [ClientNext]_clientVars
    PROVE  MsgInv'
<1>1. ASSUME NEW c \in Callers
      PROVE  MsgOfCall(c)'
  <2>1. CASE call'[c] = call[c]
    BY <2>1, MsgKept DEF MsgInv
  <2>2. CASE call'[c].pc \in {"idle", "withdraw", "update"}
    BY <2>2 DEF MsgOfCall
  <2>3. CASE ClientStep(c) /\ ~Panics
    BY <2>3, EvmMessages, SolanaMessages, TonMessages DEF ClientStep, MsgInv
  <2> QED
    BY <2>1, <2>2, <2>3, OtherCalls DEF clientVars
<1>2. ASSUME NEW n \in 1..CallBound
      PROVE  MsgOfTx(n)'
  <2>1. ctx'[n].state = "forwarded" => config'.kind = "TON"
    BY ForwardedOnTon, ConfigKept DEF MsgInv, MsgOfTx, clientVars
  <2>2. CASE ctx[n].state # "unused"
    BY <2>1, <2>2, TxKept, ConfigKept DEF MsgInv, MsgOfTx
  <2>3. CASE ctx[n].state = "unused"
    <3> SUFFICES ASSUME ctx'[n].state # "unused", config.kind = "EVM"
                 PROVE  IsPacked(ctx'[n].msg, ctx'[n].item)
      BY <2>1, ConfigKept DEF MsgOfTx
    <3>1. ~Mines(n) /\ ctx' # ctx
      BY <2>3 DEF Mines
    <3>2. \A m \in 1..CallBound : m # n => ~Mines(m)
      BY <2>3 DEF Mines, BaseInv, ShapeInv
    <3>3. ClientNext
      BY <3>1 DEF clientVars
    <3>4. PICK c \in Callers : ClientStep(c)
      BY <3>1, <3>2, <3>3, MineKinds
         DEF ClientNext, EvmConfigure, SolanaConfigure, TonConfigure, Configure, EvmCall,
             SolanaCall, TonCall, Call, ForeignWithdraw, ForeignVault, BaseInv
    <3>5. Sends(c)
      BY <3>1, <3>4, EvmKinds, SolanaKinds, TonKinds
         DEF BaseInv, ClientStep, StepOfCall, Proceeds, Panics
    <3>6. n = call[c].n
      BY <2>3, <3>5 DEF Sends
    <3>7. ~SolanaStep(c) /\ ~TonStep(c)
      BY <3>1, SolanaMessages, TonMessages DEF MsgInv, Panics
    <3> QED
      BY <3>4, <3>5, <3>6, <3>7, EvmMessages DEF ClientStep, MsgInv, Sends
  <2> QED
    BY <2>2, <2>3
<1> QED
  BY <1>1, <1>2 DEF MsgInv


-----------------------------------------------------------------------------
(* Vaults *)

\* A vault stays, and so does what is marked; the count of panics goes up only
\* when the process ends.
LEMMA VaultsKept ==
    ASSUME BaseInv, [ClientNext]_clientVars
    PROVE  /\ vaults \subseteq vaults' /\ used \subseteq used'
           /\ vaultPanics' = vaultPanics \/ \E c \in Callers : VaultPanics(c)
<1>1. CASE UNCHANGED clientVars
  BY <1>1 DEF clientVars
<1>2. CASE \E c \in Callers : ClientStep(c)
  BY <1>2 DEF ClientStep, EvmStep, EvmWithdraw, EvmUpdateSigners, EstimateGas, EvmSend,
              EvmFinalize, EvmWaitMined, SolanaStep, SolanaWithdraw,
              parseTokenMetadataPanics, getSPLVault, SendTx, SolanaFinalize, VaultFails, VaultPanics, SolanaUpdateSigners, TonStep, TonWithdraw,
              TonUpdateSigners, TonUpdatePanics, TonSend, TonFinalize, CallFrame, Panics
<1>3. CASE ClientNext /\ ~\E c \in Callers : ClientStep(c)
  BY <1>3 DEF ClientNext, EvmConfigure, SolanaConfigure, TonConfigure, Configure, EvmCall,
              SolanaCall, TonCall, Call, EvmMine, SolanaMine, WalletRuns, BridgeRuns,
              ForeignWithdraw, ForeignVault
<1> QED
  BY <1>1, <1>2, <1>3

\* A transaction is accepted when the chain runs it (EvmMine, SolanaMine,
\* BridgeRuns).
LEMMA AcceptedByChain ==
    ASSUME BaseInv, [ClientNext]_clientVars, NEW n \in 1..CallBound,
           ctx[n].state # "success", ctx'[n].state = "success"
    PROVE  EvmMine(n) \/ SolanaMine(n) \/ BridgeRuns(n)
<1>1. ctx' # ctx /\ ClientNext
  BY DEF clientVars
<1>2. ~\E d \in Callers : Sends(d)
  BY DEF Sends, BaseInv, ShapeInv, CtxFields
<1>3. \A d \in Callers : ~ClientStep(d)
  BY <1>1, <1>2, EvmKinds, SolanaKinds, TonKinds
     DEF BaseInv, ClientStep, StepOfCall, Proceeds, Panics
<1>4. \A m \in 1..CallBound : m # n => ~Mines(m)
  BY DEF Mines, BaseInv, ShapeInv
<1>5. EvmMine(n) \/ SolanaMine(n) \/ WalletRuns(n) \/ BridgeRuns(n)
  BY <1>1, <1>3, <1>4, MineKinds
     DEF ClientNext, EvmConfigure, SolanaConfigure, TonConfigure, Configure, EvmCall,
         SolanaCall, TonCall, Call, ForeignWithdraw, ForeignVault, BaseInv
<1>6. ~WalletRuns(n)
  BY DEF WalletRuns, BaseInv, ShapeInv, CtxFields
<1> QED
  BY <1>5, <1>6

\* The token of a deposit is one of the tokens.
LEMMA TokenOfItem ==
    ASSUME BaseInv, NEW i \in config.items, i.op = "withdraw"
    PROVE  i.token \in Tokens
BY DEF BaseInv, ConfInv, Tokens

\* The transaction that creates a vault finds none (SolanaMine).
LEMMA VaultMined ==
    ASSUME BaseInv, NEW n \in 1..CallBound, SolanaMine(n), ctx'[n].state = "success",
           NEW i, IsInitVault(ctx[n].msg, i)
    PROVE  i.token \notin vaults /\ i.token \in vaults'
<1>1. IsVaultTx(ctx[n].msg) /\ Account(ctx[n].msg, "mint") = i.token
  BY VaultReads DEF IsInitVault
<1>2. ~(ctx' = [ctx EXCEPT ![n].state = "reverted"])
  BY DEF BaseInv, ShapeInv, CtxFields
<1> QED
  BY <1>1, <1>2 DEF SolanaMine

\* Every step preserves that a vault ends the process once: a transaction that
\* creates one succeeds only when there is none (getSPLVault).
LEMMA VaultStep ==
    ASSUME BaseInv, MsgInv, VaultInv, [ClientNext]_clientVars
    PROVE  VaultInv'
<1>1. ASSUME NEW d \in Callers, VaultPanics(d)
      PROVE  VaultInv'
  <2>1. call[d].pc = "vaultFinal" /\ ctx[call[d].n].state = "success"
    BY <1>1 DEF VaultPanics, SolanaAt, Outcome
  <2>2. call[d].item.token \in Tokens
    BY <2>1, TokenOfItem DEF MsgInv, MsgOfCall, BaseInv, CallInv, InCall
  <2>3. vaultPanics[call[d].item.token] = 0 /\ call[d].item.token \in vaults
    BY <2>1 DEF VaultInv
  <2>4. /\ vaults' = vaults /\ \A c \in Callers : call'[c].pc = "idle"
        /\ vaultPanics' = [vaultPanics EXCEPT ![call[d].item.token] = @ + 1]
    BY <1>1 DEF VaultPanics, Panics, Idle
  <2>5. \A t \in Tokens : vaultPanics'[t] = IF t = call[d].item.token THEN 1
                                                                      ELSE vaultPanics[t]
    BY <2>2, <2>3, <2>4 DEF BaseInv, ShapeInv
  <2> QED
    BY <2>3, <2>4, <2>5 DEF VaultInv
<1>2. ASSUME vaultPanics' = vaultPanics
      PROVE  VaultInv'
  <2>1. \A t \in Tokens : vaultPanics'[t] <= 1 /\ (vaultPanics'[t] # 0 => t \in vaults')
    BY <1>2, VaultsKept DEF VaultInv
  <2>2. ASSUME NEW c \in Callers, call'[c].pc = "vaultFinal",
               ctx'[call'[c].n].state = "success"
        PROVE  call'[c].item.token \in vaults' /\ vaultPanics'[call'[c].item.token] = 0
    <3> DEFINE n == call'[c].n
               t == call'[c].item.token
    <3>1. BaseInv' /\ MsgInv'
      BY BaseStep, MsgStep
    <3>2. n \in 1..CallBound /\ InCall(c)' /\ call'[c].item \in config'.items
      <4>1. InCall(c)'
        BY <2>2 DEF InCall
      <4>2. n \in 0..calls' /\ n # 0 /\ call'[c].item \in config'.items
        BY <3>1, <4>1 DEF BaseInv, CallInv
      <4>3. calls' \in 0..CallBound
        BY <3>1 DEF BaseInv, ShapeInv
      <4> QED
        BY <4>1, <4>2, <4>3, ChainClientAssumption
    <3>3. config.kind = "SOL" /\ call'[c].item.op = "withdraw" /\ config' = config
          /\ IsInitVault(ctx'[n].msg, call'[c].item)
      BY <2>2, <3>1, ConfigKept DEF MsgInv, MsgOfCall, IsInitVault
    <3>4. t \in Tokens
      BY <3>2, <3>3, TokenOfItem
    <3>5. CASE call'[c] = call[c] /\ ctx[n].state = "success"
      BY <1>2, <2>2, <3>5, VaultsKept DEF VaultInv
    <3>6. CASE ctx[n].state # "success"
      <4>1. EvmMine(n) \/ SolanaMine(n) \/ BridgeRuns(n)
        BY <2>2, <3>2, <3>6, AcceptedByChain
      <4>2. SolanaMine(n)
        BY <3>2, <3>3, <4>1 DEF EvmMine, BridgeRuns, MsgInv, MsgOfTx
      <4>3. call' = call /\ ctx[n].state # "unused"
        BY <4>2 DEF SolanaMine
      <4>4. ctx'[n].msg = ctx[n].msg
        BY <3>2, <4>3, TxKept
      <4>5. t \notin vaults /\ t \in vaults'
        BY <2>2, <3>2, <3>3, <4>2, <4>4, VaultMined
      <4> QED
        BY <1>2, <3>4, <4>5 DEF VaultInv
    <3>7. CASE call'[c] # call[c] /\ ctx[n].state = "success"
      <4>1. ClientStep(c) /\ ~Panics
        BY <2>2, <3>7, OtherCalls DEF clientVars
      <4>2. Sends(c)
        BY <2>2, <4>1, EvmKinds, SolanaKinds, TonKinds
           DEF BaseInv, ClientStep, StepOfCall, Proceeds, Unsent
      <4> QED
        BY <3>7, <4>2 DEF Sends, SameCall, BaseInv, CallInv
    <3> QED
      BY <3>5, <3>6, <3>7
  <2> QED
    BY <2>1, <2>2 DEF VaultInv
<1> QED
  BY <1>1, <1>2, VaultsKept


-----------------------------------------------------------------------------
(* Payments *)

\* The contract of an EVM chain marks what IsProcessed looks for (EvmMine).
LEMMA EvmMarks ==
    ASSUME BaseInv, NEW n \in 1..CallBound, MsgOfTx(n), EvmMine(n),
           ctx[n].item.op = "withdraw", ctx'[n].state = "success"
    PROVE  EvmIsProcessed(ctx[n].item)'
<1>1. getWithdrawalTxData(ctx[n].item) /\ ctx[n].msg = EvmMsg(ctx[n].item)
  BY DEF EvmMine, MsgOfTx, IsPacked
<1>2. ~(ctx' = [ctx EXCEPT ![n].state = "reverted"])
  BY DEF BaseInv, ShapeInv, CtxFields
<1>3. EvmKey(ctx[n].msg) \in used' /\ ctx'[n].item = ctx[n].item
  BY <1>2 DEF EvmMine, BaseInv, ShapeInv, CtxFields
<1> QED
  BY <1>1, <1>3, EvmKeyIsTheDeposits DEF EvmIsProcessed

\* So does the Solana program: it accepts a withdrawal only when the hash of
\* Withdraw is the one of IsProcessed (SolanaMine).
LEMMA SolanaMarks ==
    ASSUME BaseInv, NEW n \in 1..CallBound, SolanaMine(n), ctx'[n].state = "success",
           ctx[n].item.op = "withdraw", IsWithdrawal(ctx[n].msg, ctx[n].item)
    PROVE  SolanaIsProcessed(ctx[n].item)'
<1> DEFINE m == ctx[n].msg
           d == ctx[n].item
<1>1. PICK s \in Keys : m = Build(SolanaInstruction(d, s))
  BY DEF IsWithdrawal
<1>2. /\ ~IsVaultTx(m) /\ Param(m, "Hash") = getSignHash(d)
      /\ ProgramHash(m) = getWithdrawalHash(d) /\ HasRole(m, "tx_used")
      /\ Account(m, "tx_used") = getWithdrawalPDA(getSignHash(d))
  BY <1>1, WithdrawalReads
<1>3. ~(ctx' = [ctx EXCEPT ![n].state = "reverted"])
  BY DEF BaseInv, ShapeInv, CtxFields
<1>4. SolanaAccepts(d, m) /\ used' = used \cup {SolanaKey(m)} /\ ctx'[n].item = d
  BY <1>2, <1>3 DEF SolanaMine, BaseInv, ShapeInv, CtxFields
<1>5. getSignHash(d) = getWithdrawalHash(d)
  BY <1>2, <1>4 DEF SolanaAccepts, AcceptsWithdrawal
<1>6. getWithdrawalPDA(getWithdrawalHash(d)) \in used'
  BY <1>2, <1>4, <1>5 DEF SolanaKey
<1> QED
  BY <1>4, <1>6 DEF SolanaIsProcessed

\* A call that returns without an error has seen its transaction accepted, if
\* it looks (EvmFinalize, EvmWaitMined, SolanaFinalize).
LEMMA PaidReturns ==
    ASSUME BaseInv, MsgInv, NEW c \in Callers, ClientStep(c), ~Panics,
           call'[c].pc = "done", call'[c].ok, config.kind # "TON",
           config.receipts \/ call'[c].item.op = "update"
    PROVE  /\ call'[c].n = call[c].n /\ call'[c].item = call[c].item /\ ctx' = ctx
           /\ call'[c].hash = Hash(call[c].n) /\ call[c].pc = "final"
           /\ ctx[call[c].n].state = "success"
<1>1. DOMAIN call = Callers /\ DOMAIN call[c] = CallFields
  BY DEF BaseInv, ShapeInv
<1>2. \A h : ~Fails(c, h)
  BY <1>1 DEF Fails, Returns, Idle
<1>3. ~TonStep(c)
  BY DEF TonStep, TonWithdraw, TonUpdateSigners, TonUpdatePanics, TonSend, TonFinalize, TonAt
<1>4. CASE EvmStep(c)
  <2>1. EvmFinalize(c) \/ EvmWaitMined(c)
    BY <1>1, <1>2, <1>4 DEF EvmStep, EvmWithdraw, EvmUpdateSigners, EvmPrepares, EstimateGas,
                            EvmSend, CallStep, CallFields
  <2>2. EvmFinalize(c) => call'[c].item.op = "withdraw"
    BY <1>1, <1>2 DEF EvmFinalize, EvmFinal, Returns, Idle
  <2>3. CASE EvmFinalize(c)
    BY <1>1, <1>2, <2>2, <2>3 DEF EvmFinalize, EvmFinal, Outcome, Returns, Idle
  <2>4. CASE EvmWaitMined(c)
    BY <1>1, <1>2, <2>4 DEF EvmWaitMined, EvmFinal, Outcome, Returns, Idle
  <2> QED
    BY <2>1, <2>3, <2>4
<1>5. CASE SolanaStep(c)
  <2>1. SolanaFinalize(c)
    BY <1>1, <1>2, <1>5 DEF SolanaStep, SolanaWithdraw, parseTokenMetadataPanics, getSPLVault,
       SendTx, VaultFails, VaultPanics, SolanaUpdateSigners, SolanaBuilds, Builds, CallStep,
       CallFields
  <2> QED
    BY <1>1, <1>2, <2>1 DEF SolanaFinalize, SolanaAt, Outcome, Returns, Idle
<1> QED
  BY <1>3, <1>4, <1>5 DEF ClientStep

\* Every step preserves that what was accepted is marked.
LEMMA PaidStep ==
    ASSUME BaseInv, MsgInv, PaidInv, [ClientNext]_clientVars
    PROVE  PaidInv'
<1>1. ASSUME NEW n \in 1..CallBound
      PROVE  PaidTx(n)'
  <2> SUFFICES ASSUME ctx'[n].state = "success" PROVE PaidTx(n)'
    BY DEF PaidTx
  <2>1. CASE ctx[n].state = "success"
    BY <2>1, TxKept, ConfigKept, VaultsKept
       DEF PaidInv, PaidTx, EvmIsProcessed, SolanaIsProcessed, IsWithdrawal
  <2>2. CASE ctx[n].state # "success"
    <3>1. EvmMine(n) \/ SolanaMine(n) \/ BridgeRuns(n)
      BY <2>2, AcceptedByChain
    <3>2. ctx'[n].item = ctx[n].item /\ ctx'[n].msg = ctx[n].msg /\ config' = config
      BY <3>1, TxKept, ConfigKept DEF EvmMine, SolanaMine, BridgeRuns
    <3>3. CASE EvmMine(n)
      BY <3>2, <3>3, EvmMarks DEF EvmMine, MsgInv, PaidTx, EvmIsProcessed
    <3>4. CASE SolanaMine(n)
      BY <3>2, <3>4, SolanaMarks DEF SolanaMine, PaidTx, SolanaIsProcessed, IsWithdrawal
    <3>5. CASE BridgeRuns(n)
      BY <3>2, <3>5 DEF BridgeRuns, MsgInv, MsgOfTx, PaidTx
    <3> QED
      BY <3>1, <3>3, <3>4, <3>5
  <2> QED
    BY <2>1, <2>2
<1>2. ASSUME NEW c \in Callers
      PROVE  PaidCall(c)'
  <2> SUFFICES ASSUME call'[c].pc = "done", call'[c].ok, config.kind # "TON",
                      config.receipts \/ call'[c].item.op = "update"
               PROVE  PaidCall(c)'
    BY ConfigKept DEF PaidCall
  <2>1. CASE call'[c] = call[c]
    <3>1. /\ call[c].n # 0 /\ call[c].hash = Hash(call[c].n)
          /\ ctx[call[c].n].state = "success" /\ ctx[call[c].n].item = call[c].item
          /\ config.kind = "SOL" /\ call[c].item.op = "withdraw" =>
                IsWithdrawal(ctx[call[c].n].msg, call[c].item)
      BY <2>1 DEF PaidInv, PaidCall
    <3>2. call[c].n \in 1..CallBound
      BY <3>1, ChainClientAssumption DEF BaseInv, ShapeInv, CallInv
    <3>3. /\ ctx'[call[c].n].state = "success"
          /\ ctx'[call[c].n].msg = ctx[call[c].n].msg
          /\ ctx'[call[c].n].item = ctx[call[c].n].item
      BY <3>1, <3>2, TxKept
    <3> QED
      BY <2>1, <3>1, <3>3, ConfigKept DEF PaidCall, IsWithdrawal
  <2>2. CASE ClientStep(c) /\ ~Panics
    <3>1. /\ call'[c].n = call[c].n /\ call'[c].item = call[c].item /\ ctx' = ctx
          /\ call'[c].hash = Hash(call[c].n) /\ call[c].pc = "final"
          /\ ctx[call[c].n].state = "success"
      BY <2>2, PaidReturns
    <3>2. call[c].n # 0 /\ ctx[call[c].n].item = call[c].item
      BY <3>1 DEF BaseInv, CallInv, InCall, Waiting
    <3>3. config.kind = "SOL" /\ call[c].item.op = "withdraw" =>
             IsWithdrawal(ctx[call[c].n].msg, call[c].item)
      BY <3>1 DEF MsgInv, MsgOfCall
    <3> QED
      BY <3>1, <3>2, <3>3, ConfigKept DEF PaidCall, IsWithdrawal
  <2> QED
    BY <2>1, <2>2, OtherCalls DEF clientVars
<1> QED
  BY <1>1, <1>2 DEF PaidInv


-----------------------------------------------------------------------------
(* What the TON bridge finds in the cells the client has built *)

\* Each field gets the value of its place in the cells (the contract reads them
\* in the order of nativeFields).
LEMMA TonNativeReads ==
    ASSUME NEW d, NEW m, m = buildWithdrawNativeCell(d)
    PROVE  /\ m.op = "withdrawNative"
           /\ ToSet(TonFields(m)) =
                 {"amount", "receiver", "txHash", "txNonce", "signature", "network"}
           /\ TonDecode(m).amount = d.amount /\ TonDecode(m).receiver = d.receiver
           /\ TonDecode(m).txHash = tonHash(d.txHash) /\ TonDecode(m).txNonce = d.nonce
           /\ TonDecode(m).signature = SigBytes(d)
           /\ TonDecode(m).network = getNetworkCell
<1> DEFINE names == <<"amount", "receiver", "txHash", "txNonce", "signature", "network">>
           P(f) == CHOOSE k \in DOMAIN names : names[k] = f
<1>1. m.op = "withdrawNative" /\ TonFields(m) = names
  BY DEF buildWithdrawNativeCell, TonFields, nativeFields
<1>2. /\ m.body[1] = d.amount /\ m.body[2] = d.receiver /\ m.body[3] = tonHash(d.txHash)
      /\ m.body[4] = d.nonce /\ m.body[5] = SigBytes(d) /\ m.body[6] = getNetworkCell
  BY DEF buildWithdrawNativeCell
<1>3. ToSet(names) = {"amount", "receiver", "txHash", "txNonce", "signature",
                        "network"}
  BY DEF ToSet
<1>4. /\ P("amount") = 1 /\ P("receiver") = 2 /\ P("txHash") = 3 /\ P("txNonce") = 4
      /\ P("signature") = 5 /\ P("network") = 6
  OBVIOUS
<1>5. TonDecode(m) = [f \in ToSet(names) |-> m.body[P(f)]]
  BY <1>1 DEF TonDecode
<1> HIDE DEF names, P
<1> QED
  BY <1>1, <1>2, <1>3, <1>4, <1>5

-----------------------------------------------------------------------------
(* Deposits that are open, and deposits that are paid when asked for *)

\* The fields of a deposit fit: an amount is a number or no number, and the
\* nonce is one of a machine word.
FieldsFit ==
    \A b \in Batches : \A i \in b.items : i.op = "withdraw" =>
        i.amount \in Nat \cup {NotANumber} /\ i.nonce \in 0..(Word - 1)

\* A number of a machine word stays what it is (Uint64).
LEMMA FitsWord ==
    ASSUME NEW x \in 0..(Word - 1)
    PROVE  Uint64(x) = x
<1>1. Word \in Nat /\ Word > 0
  BY ChainClientAssumption DEF Word
<1> HIDE DEF Word
<1> QED
  BY <1>1 DEF Uint64

\* EVM: what core's parties signed is what the contract finds, so that only
\* the key decides (EvmAccepts, EvmIsProcessed).
LEMMA EvmOpenIffPayable ==
    ASSUME NEW i, config.kind = "EVM", WellFormed(i), ~CannotPack(i)
    PROVE  EvmAccepts(i, EvmMsg(i)) <=> ~EvmIsProcessed(i)
<1>1. getWithdrawFunc(i) \in {"withdrawNative", "withdrawERC20", "withdrawERC20Merkelized"}
  BY DEF CannotPack, getWithdrawFunc
<1>2. getWithdrawalTxData(i) /\ SigBytes(i) = <<"valid", i.id>>
  BY <1>1 DEF WellFormed, getWithdrawalTxData, merkleProofParses, AbiInputs, SigBytes
<1>3. ASSUME NEW f \in ToSet(AbiInputs[EvmMsg(i).method])
      PROVE  EvmDecode(EvmMsg(i))[f] = EvmSigned(i)[f]
  <2>1. EvmSigned(i) =
           [amount |-> i.amount, receiver |-> HexToAddress(i.receiver),
            txHash |-> txHashToBytes32(i.txHash), txNonce |-> i.nonce,
            token |-> HexToAddress(i.token), isWrapped |-> i.wrapped,
            merkleProof |-> i.proof, signatures |-> <<"valid", i.id>>]
    BY Zenon DEF EvmSigned, WellFormed
  <2> QED
    BY <1>1, <1>2, <1>3, <2>1, EvmNativeReads, EvmTokenReads, EvmProofReads
<1> QED
  BY <1>2, <1>3, EvmKeyIsTheDeposits DEF EvmAccepts, EvmIsProcessed

\* Solana: the hashes of Withdraw, of IsProcessed and of core's parties are the
\* same (getSignHash, getWithdrawalHash).
LEMMA SolanaOpenIffPayable ==
    ASSUME NEW i, config.kind = "SOL", WellFormed(i),
           i.amount \in Nat, i.nonce \in 0..(Word - 1),
           i.token # NativeToken /\ ~i.wrapped => i.token \in vaults
    PROVE  SolanaAccepts(i, Build(SolanaInstruction(i, 1))) <=> ~SolanaIsProcessed(i)
<1> DEFINE m == Build(SolanaInstruction(i, 1))
<1>1. Uint64(i.amount) = i.amount /\ Uint64(i.nonce) = i.nonce
  <2>1. Word \in Nat
    BY ChainClientAssumption DEF Word
  <2> HIDE DEF Word
  <2>2. i.amount \in 0..(Word - 1)
    BY <2>1 DEF WellFormed
  <2> QED
    BY <2>2, FitsWord
<1>2. getSignHash(i) = getWithdrawalHash(i) /\ getSignHash(i) = SignedHash(i)
  BY <1>1 DEF getSignHash, getWithdrawalHash, SignedHash, getUid
<1>3. processSignature(i) = <<"valid", i.id>> /\ i.op # "update" /\ 1 \in Keys
  BY ChainClientAssumption DEF WellFormed, processSignature, SigBytes, Keys
<1>4. /\ Param(m, "Hash") = getSignHash(i) /\ Param(m, "Signature") = processSignature(i)
      /\ ProgramHash(m) = getWithdrawalHash(i) /\ HasRole(m, "tx_used")
      /\ Account(m, "tx_used") = getWithdrawalPDA(getSignHash(i))
      /\ Account(m, "signer") = 1 /\ Account(m, "system_program") = "system"
      /\ HasRole(m, "spl_vault") =>
            /\ i.token # NativeToken /\ ~i.wrapped
            /\ Account(m, "spl_vault") = VaultAddress(i.token)
            /\ Account(m, "token_program") = Owner(i.token)
  BY WithdrawalReads
<1> HIDE DEF m
<1>5. AcceptsWithdrawal(i, m)
  BY <1>2, <1>3, <1>4 DEF AcceptsWithdrawal
<1>6. SolanaKey(m) = getWithdrawalPDA(getWithdrawalHash(i))
  BY <1>2, <1>4 DEF SolanaKey
<1>7. SolanaAccepts(i, m) <=> ~SolanaIsProcessed(i)
  BY <1>3, <1>4, <1>5, <1>6 DEF SolanaAccepts, SolanaIsProcessed
<1> QED
  BY <1>7 DEF m

\* TON: the fields of the message of a native deposit are those that were
\* signed, and the account is derived from the same fields
\* (getWithdrawalNativeHash).
LEMMA TonOpenIffPayable ==
    ASSUME NEW i, WellFormed(i), i.nonce \in 0..(Word - 1), i.token = NativeToken
    PROVE  TonAccepts(i, buildWithdrawNativeCell(i)) <=> ~TonIsProcessed(i)
<1> DEFINE m == buildWithdrawNativeCell(i)
<1>1. Uint64(i.nonce) = i.nonce /\ SigBytes(i) = <<"valid", i.id>> /\ i.op # "update"
  BY FitsWord DEF WellFormed, SigBytes
<1>2. /\ TonSigned(i).amount = i.amount /\ TonSigned(i).receiver = i.receiver
      /\ TonSigned(i).txHash = tonHash(i.txHash) /\ TonSigned(i).txNonce = i.nonce
      /\ TonSigned(i).signature = <<"valid", i.id>>
      /\ TonSigned(i).network = getNetworkCell
  BY <1>1, SMT DEF TonSigned
<1>3. /\ m.op = "withdrawNative"
      /\ ToSet(TonFields(m)) = {"amount", "receiver", "txHash", "txNonce", "signature",
                                "network"}
      /\ TonDecode(m).amount = i.amount /\ TonDecode(m).receiver = i.receiver
      /\ TonDecode(m).txHash = tonHash(i.txHash) /\ TonDecode(m).txNonce = i.nonce
      /\ TonDecode(m).signature = <<"valid", i.id>>
      /\ TonDecode(m).network = getNetworkCell
  BY <1>1, TonNativeReads
<1>4. TonReads(m)
  BY <1>3 DEF TonReads, TonFields, nativeFields, buildWithdrawNativeCell
<1> HIDE DEF m
<1>5. \A f \in ToSet(TonFields(m)) : TonDecode(m)[f] = TonSigned(i)[f]
  BY <1>2, <1>3
<1>6. TonKey(m) = getStoreAddress(i)
  BY <1>1, <1>3 DEF TonKey, getStoreAddress, getWithdrawalNativeHash
<1>7. TonAccepts(i, m) <=> ~TonIsProcessed(i)
  BY <1>4, <1>5, <1>6 DEF TonAccepts, TonIsProcessed
<1> QED
  BY <1>7 DEF m

\* A jetton message of the client has one field more than that of the binding, or
\* none at all (buildWithdrawJettonCell).
LEMMA TonJettonUnread ==
    ASSUME NEW i, NEW wallet
    PROVE  ~TonAccepts(i, buildWithdrawJettonCell(i, wallet))
<1> DEFINE m == buildWithdrawJettonCell(i, wallet)
<1>1. CASE i.amount = NotANumber
  BY <1>1 DEF TonAccepts, TonReads, buildWithdrawJettonCell
<1>2. CASE i.amount # NotANumber
  <2>1. m.op = "withdrawJetton" /\ Len(m.body) = 11
    BY <1>2 DEF buildWithdrawJettonCell
  <2>2. Len(TonFields(m)) = 10
    BY <2>1 DEF TonFields, jettonFields
  <2> QED
    BY <2>1, <2>2 DEF TonAccepts, TonReads
<1> QED
  BY <1>1, <1>2

-----------------------------------------------------------------------------
(* Theorems about payments *)

\* Messages, vaults and payments hold in every state.
LEMMA ClientInvHolds == ClientSpec => [](BaseInv /\ MsgInv /\ VaultInv /\ PaidInv)
<1>1. ClientInit => BaseInv /\ MsgInv /\ VaultInv /\ PaidInv
  <2> SUFFICES ASSUME ClientInit PROVE MsgInv /\ VaultInv /\ PaidInv
    BY BaseInit
  <2>1. /\ \A c \in Callers : call[c].pc = "idle"
        /\ \A n \in 1..CallBound : ctx[n].state = "unused"
        /\ \A t \in Tokens : vaultPanics[t] = 0
    BY DEF ClientInit, Idle, NoCtx
  <2> QED
    BY <2>1 DEF MsgInv, MsgOfCall, MsgOfTx, VaultInv, PaidInv, PaidTx, PaidCall
<1>2. BaseInv /\ MsgInv /\ VaultInv /\ PaidInv /\ [ClientNext]_clientVars
      => (BaseInv /\ MsgInv /\ VaultInv /\ PaidInv)'
  BY BaseStep, MsgStep, VaultStep, PaidStep
<1> QED
  BY <1>1, <1>2, PTL DEF ClientSpec

\* The missing vault of a token ends the process at most once, however many
\* calls of however many workers are on their way (getSPLVault, withdrawSPL).
THEOREM VaultsPanicOnce == ClientSpec => []VaultPanicsOnce
<1>1. VaultInv => VaultPanicsOnce
  BY DEF VaultInv, VaultPanicsOnce
<1> QED
  BY <1>1, ClientInvHolds, PTL

\* A result without an error is a payment of this very item, except on TON and
\* for a withdrawal on an EVM node without block receipts, whatever fails
\* (finalize, SendTx, WaitMined).
THEOREM OkMeansPaid == ClientSpec => []OkIsPaid
<1>1. BaseInv /\ PaidInv => OkIsPaid
  <2> SUFFICES ASSUME BaseInv, PaidInv, NEW c \in Callers, call[c].pc = "done", call[c].ok,
                      config.kind # "TON", config.receipts \/ call[c].item.op = "update"
               PROVE  /\ ctx[call[c].hash[2]].state = "success"
                      /\ ctx[call[c].hash[2]].item = call[c].item
                      /\ call[c].item.op = "withdraw" => ClientIsProcessed(call[c].item)
    BY DEF OkIsPaid
  <2>1. /\ call[c].n # 0 /\ call[c].hash[2] = call[c].n
        /\ ctx[call[c].n].state = "success" /\ ctx[call[c].n].item = call[c].item
        /\ config.kind = "SOL" /\ call[c].item.op = "withdraw" =>
              IsWithdrawal(ctx[call[c].n].msg, call[c].item)
    BY DEF PaidInv, PaidCall, Hash
  <2>2. call[c].n \in 1..CallBound
    BY <2>1, ChainClientAssumption DEF BaseInv, ShapeInv, CallInv
  <2>3. config.kind = "EVM" /\ call[c].item.op = "withdraw" => EvmIsProcessed(call[c].item)
    BY <2>1, <2>2 DEF PaidInv, PaidTx
  <2>4. config.kind = "SOL" /\ call[c].item.op = "withdraw" =>
           SolanaIsProcessed(call[c].item)
    BY <2>1, <2>2 DEF PaidInv, PaidTx
  <2>5. config.kind \in {"EVM", "SOL"}
    BY DEF BaseInv, ConfInv
  <2> QED
    BY <2>1, <2>3, <2>4, <2>5 DEF ClientIsProcessed
<1> QED
  BY <1>1, ClientInvHolds, PTL

\* IsProcessed of the EVM and Solana clients agrees with the contract on every
\* well-formed deposit of any amount, nonce, token and hash, in every state, and
\* that of the TON client on every native one; a contract with the messages of the
\* TON binding takes no jetton withdrawal of the client (IsProcessed,
\* getWithdrawalTxData, getSignHash, buildWithdrawNativeCell,
\* buildWithdrawJettonCell).
THEOREM OpenMeansPayable == FieldsFit => (ClientSpec => []OpenIffPayable)
<1> SUFFICES ASSUME FieldsFit PROVE ClientSpec => []OpenIffPayable
  OBVIOUS
<1>1. BaseInv => OpenIffPayable
  <2> SUFFICES ASSUME BaseInv, NEW i \in config.items, WellFormed(i), ~CannotPack(i),
                      config.kind = "SOL" /\ i.token # NativeToken /\ ~i.wrapped
                      => i.token \in vaults
               PROVE  Accepts(i, ClientMessage(i)) <=> ~ClientIsProcessed(i) /\ ~CannotRead(i)
    BY DEF OpenIffPayable
  <2>1. i.amount \in Nat /\ i.nonce \in 0..(Word - 1)
    BY DEF FieldsFit, BaseInv, ConfInv, Items, WellFormed
  <2>2. CASE config.kind = "EVM"
    BY <2>2, EvmOpenIffPayable DEF ClientIsProcessed, Accepts, ClientMessage, CannotRead
  <2>3. CASE config.kind = "SOL"
    BY <2>1, <2>3, SolanaOpenIffPayable
       DEF ClientIsProcessed, Accepts, ClientMessage, CannotRead
  <2>4. CASE config.kind \notin {"EVM", "SOL"}
    <3>1. CASE i.token = NativeToken
      BY <2>1, <2>4, <3>1, TonOpenIffPayable
         DEF ClientIsProcessed, Accepts, ClientMessage, CannotRead
    <3>2. CASE i.token # NativeToken
      BY <2>4, <3>2, TonJettonUnread DEF Accepts, ClientMessage, CannotRead, BaseInv, ConfInv
    <3> QED
      BY <3>1, <3>2
  <2> QED
    BY <2>2, <2>3, <2>4
<1> QED
  BY <1>1, ClientInvHolds, PTL


=============================================================================
