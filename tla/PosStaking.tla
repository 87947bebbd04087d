---------------------------- MODULE PosStaking ----------------------------
(***************************************************************************)
(* The ERC20 proof-of-stake contracts of contracts/pos: the validator      *)
(* registry, the stake manager and the epoch manager, with the token they  *)
(* share.  Each transaction is one step: none of the contracts hands       *)
(* control to its caller, and the token is a plain ERC20 without hooks.    *)
(* A call that a require refuses changes nothing and is no step.           *)
(***************************************************************************)
EXTENDS Integers, Sequences, FiniteSets

CONSTANTS
  Operator,          \* accounts that may register, stake and withdraw
  Manager,           \* the address of StakeManager, a holder of tokens
  NodeIds,           \* node ids an operator may register
  MinStake,          \* StakeManager.minStake
  UnbondingBlocks,   \* StakeManager.UNBONDING_BLOCKS
  EpochLength,       \* EpochManager.EPOCH_LENGTH_BLOCKS
  Amounts, Approvals,  \* amounts minted and transferred, and approved
  Listed,            \* the lists of operators the admin may snapshot
  MaxSupply, MaxBlock, MaxPending   \* bounds of the model

Holder == Operator \cup {Manager}

ASSUME PosAssumption ==
  /\ IsFiniteSet(Operator) /\ Manager \notin Operator
  /\ MinStake \in Nat /\ UnbondingBlocks \in Nat
  /\ EpochLength \in Nat \ {0}
  /\ Listed \subseteq Seq(Operator)
  /\ Amounts \subseteq Nat /\ Approvals \subseteq Nat
  /\ MaxSupply \in Nat /\ MaxBlock \in Nat /\ MaxPending \in Nat

VARIABLES
  validators,        \* ValidatorRegistry._validators
  totalSupply, balanceOf, allowance,   \* QIKToken; who may spend is Manager
  stakeOf, totalStaked,        \* StakeManager
  pendingWithdrawals,          \* StakeManager; the id of an entry is its
                               \* index - 1, withdrawalCount is the length
  activeSet, activeSetHash,    \* EpochManager
  block              \* block.number

token == <<totalSupply, balanceOf, allowance>>
manager == <<stakeOf, totalStaked, pendingWithdrawals>>
epochs == <<activeSet, activeSetHash>>
vars == <<validators, token, manager, epochs, block>>

Unknown == [nodeId |-> "", registeredAtBlock |-> 0, exists |-> FALSE]
Epochs == 0..(MaxBlock \div EpochLength)

\* keccak256(abi.encode(operators)): the hash binds the list, so the list
\* stands for it; 0 is the hash of an epoch nobody took a snapshot of.
Hash(operators) == <<operators>>
NoHash == <<>>

Init ==
  /\ validators = [o \in Operator |-> Unknown]
  /\ totalSupply = 0
  /\ balanceOf = [h \in Holder |-> 0]
  /\ allowance = [o \in Operator |-> 0]
  /\ stakeOf = [o \in Operator |-> 0]
  /\ totalStaked = 0
  /\ pendingWithdrawals = [o \in Operator |-> <<>>]
  /\ activeSet = [e \in Epochs |-> <<>>]
  /\ activeSetHash = [e \in Epochs |-> NoHash]
  /\ block = 0

----------------------------------------------------------------------------
(* QIKToken and the ERC20 it extends *)

\* mint, by the owner; the bound of the model caps the supply.
Mint(to, amount) ==
  /\ totalSupply + amount <= MaxSupply
  /\ totalSupply' = totalSupply + amount
  /\ balanceOf' = [balanceOf EXCEPT ![to] = @ + amount]
  /\ UNCHANGED <<validators, allowance, manager, epochs, block>>

Approve(o, amount) ==
  /\ allowance' = [allowance EXCEPT ![o] = amount]
  /\ UNCHANGED <<validators, totalSupply, balanceOf, manager, epochs, block>>

Moved(from, to, amount) ==
  [h \in Holder |-> balanceOf[h] + (IF h = to THEN amount ELSE 0)
                                 - (IF h = from THEN amount ELSE 0)]

\* A plain transfer, to the manager too: such tokens are nobody's stake.
Transfer(o, to, amount) ==
  /\ balanceOf[o] >= amount
  /\ balanceOf' = Moved(o, to, amount)
  /\ UNCHANGED <<validators, totalSupply, allowance, manager, epochs, block>>

----------------------------------------------------------------------------
(* ValidatorRegistry *)

IsRegistered(o) == validators[o].exists

RegisterValidator(o, nodeId) ==
  /\ ~validators[o].exists
  /\ validators' = [validators EXCEPT ![o] =
       [nodeId |-> nodeId, registeredAtBlock |-> block, exists |-> TRUE]]
  /\ UNCHANGED <<token, manager, epochs, block>>

UpdateValidator(o, nodeId) ==
  /\ validators[o].exists
  /\ validators' = [validators EXCEPT ![o].nodeId = nodeId]
  /\ UNCHANGED <<token, manager, epochs, block>>

----------------------------------------------------------------------------
(* StakeManager *)

Stake(o, amount) ==
  /\ IsRegistered(o)
  /\ amount > 0
  /\ allowance[o] >= amount /\ balanceOf[o] >= amount      \* transferFrom
  /\ allowance' = [allowance EXCEPT ![o] = @ - amount]
  /\ balanceOf' = Moved(o, Manager, amount)
  /\ stakeOf' = [stakeOf EXCEPT ![o] = @ + amount]
  /\ totalStaked' = totalStaked + amount
  /\ UNCHANGED <<validators, totalSupply, pendingWithdrawals, epochs, block>>

Pending(amount) ==
  [amount |-> amount, unlockBlock |-> block + UnbondingBlocks, withdrawn |-> FALSE]

\* MUTANT: the global total is forgotten.
BeginUnstakeKeepsTotal(o, amount) ==
  /\ amount > 0
  /\ stakeOf[o] >= amount
  /\ stakeOf[o] - amount = 0 \/ stakeOf[o] - amount >= MinStake
  /\ Len(pendingWithdrawals[o]) < MaxPending
  /\ stakeOf' = [stakeOf EXCEPT ![o] = @ - amount]
  /\ pendingWithdrawals' = [pendingWithdrawals EXCEPT ![o] = Append(@, Pending(amount))]
  /\ UNCHANGED <<validators, token, totalStaked, epochs, block>>

BeginUnstake(o, amount) ==
  /\ amount > 0
  /\ stakeOf[o] >= amount
  /\ stakeOf[o] - amount = 0 \/ stakeOf[o] - amount >= MinStake
  /\ totalStaked >= amount
  /\ Len(pendingWithdrawals[o]) < MaxPending
  /\ stakeOf' = [stakeOf EXCEPT ![o] = @ - amount]
  /\ totalStaked' = totalStaked - amount
  /\ pendingWithdrawals' = [pendingWithdrawals EXCEPT ![o] = Append(@, Pending(amount))]
  /\ UNCHANGED <<validators, token, epochs, block>>

\* MUTANT: the entry is not marked.
WithdrawUnmarked(o, id) ==
  LET pending == pendingWithdrawals[o][id]
  IN /\ ~pending.withdrawn
     /\ block >= pending.unlockBlock
     /\ balanceOf[Manager] >= pending.amount
     /\ balanceOf' = Moved(Manager, o, pending.amount)
     /\ UNCHANGED <<validators, totalSupply, allowance, manager, epochs, block>>

Withdraw(o, id) ==
  LET pending == pendingWithdrawals[o][id]
  IN /\ ~pending.withdrawn
     /\ block >= pending.unlockBlock
     /\ balanceOf[Manager] >= pending.amount               \* transfer
     /\ pendingWithdrawals' = [pendingWithdrawals EXCEPT ![o][id].withdrawn = TRUE]
     /\ balanceOf' = Moved(Manager, o, pending.amount)
     /\ UNCHANGED <<validators, totalSupply, allowance, stakeOf, totalStaked, epochs, block>>

----------------------------------------------------------------------------
(* EpochManager *)

EpochAtBlock(blockNum) == blockNum \div EpochLength

\* MUTANT: the block after the boundary passes too.
IsEpochBoundaryLate(blockNum) == blockNum % EpochLength <= 1

IsEpochBoundary(blockNum) == blockNum % EpochLength = 0

\* snapshotActiveSet, by the owner; it may be called again in the same block.
SnapshotActiveSet(epoch, operators) ==
  /\ epoch = EpochAtBlock(block)
  /\ IsEpochBoundary(block)
  /\ Len(operators) > 0
  /\ activeSet' = [activeSet EXCEPT ![epoch] = operators]
  /\ activeSetHash' = [activeSetHash EXCEPT ![epoch] = Hash(operators)]
  /\ UNCHANGED <<validators, token, manager, block>>

----------------------------------------------------------------------------

NextBlock ==
  /\ block < MaxBlock
  /\ block' = block + 1
  /\ UNCHANGED <<validators, token, manager, epochs>>

Account(o) ==
  \/ \E nodeId \in NodeIds : RegisterValidator(o, nodeId) \/ UpdateValidator(o, nodeId)
  \/ \E amount \in Approvals : Approve(o, amount)
  \/ \E amount \in Amounts, to \in Holder : Transfer(o, to, amount)
  \/ \E amount \in 0..MaxSupply : Stake(o, amount) \/ BeginUnstake(o, amount)
  \/ \E id \in DOMAIN pendingWithdrawals[o] : Withdraw(o, id)

Owner ==
  \/ \E to \in Holder, amount \in Amounts : Mint(to, amount)
  \/ \E epoch \in Epochs, operators \in Listed : SnapshotActiveSet(epoch, operators)

Next == (\E o \in Operator : Account(o)) \/ Owner \/ NextBlock

Spec == Init /\ [][Next]_vars

\* Blocks keep coming, and an operator goes on asking for what is unlocked.
FairSpec ==
  /\ Spec
  /\ WF_vars(NextBlock)
  /\ \A o \in Operator : \A id \in 1..MaxPending :
       WF_vars(id \in DOMAIN pendingWithdrawals[o] /\ Withdraw(o, id))

----------------------------------------------------------------------------
(* Types *)

ValidatorInfo == [nodeId : NodeIds \cup {""}, registeredAtBlock : Nat, exists : BOOLEAN]
PendingWithdrawal == [amount : Nat \ {0}, unlockBlock : Nat, withdrawn : BOOLEAN]

TypeOK ==
  /\ validators \in [Operator -> ValidatorInfo]
  /\ totalSupply \in Nat
  /\ balanceOf \in [Holder -> Nat]
  /\ allowance \in [Operator -> Nat]
  /\ stakeOf \in [Operator -> Nat]
  /\ totalStaked \in Nat
  /\ pendingWithdrawals \in [Operator -> Seq(PendingWithdrawal)]
  /\ activeSet \in [Epochs -> Seq(Operator)]
  /\ activeSetHash \in [Epochs -> {NoHash} \cup {Hash(l) : l \in Listed}]
  /\ block \in 0..MaxBlock
=============================================================================
