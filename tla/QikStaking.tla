---------------------------- MODULE QikStaking ----------------------------
(***************************************************************************)
(* contracts/QikStaking.sol with its base QikGov.sol: one action per       *)
(* external function, called by any address.  A call that a require        *)
(* refuses changes nothing and is no step.  A withdrawal is more than one  *)
(* step, because it hands control to the payee in the middle:              *)
(*   WithdrawUnstaked  takes the re-entrancy guard,                        *)
(*   DrainMature, DrainKeep  are the rounds of the loop over the queue,    *)
(*   Pay  sends the total and lets the payee run,                          *)
(*   Return, Fail  end the payee's code.                                   *)
(* While the payee runs, contracts may call every function again, at the   *)
(* same block time.  A failed withdrawal puts back the state it started    *)
(* from, whatever the nested calls did.                                    *)
(***************************************************************************)
EXTENDS Integers, Sequences, FiniteSets

CONSTANTS
  NAddr,              \* addresses are 1..NAddr; 0 is address(0)
  Contracts,          \* the addresses that hold code and may re-enter
  Keys, NoKey,        \* consensus keys; the empty key of an unset record
  MaxUint,            \* 2^256 - 1
  MinStakes,          \* values the owner gives setMinStake
  Limits,             \* values the owner gives setMaxValidators
  Periods,            \* values the owner gives setUnbondingPeriod
  Funds,              \* native coins each address starts with
  Registrants,        \* the addresses that try to register as operators
  Stakers, Payouts, Admins, \* addresses passed as staker, payout and owner
  MaxTime, MaxQueue   \* bounds of the model: block time, entries in a queue

Addr == 1..NAddr

ASSUME AddrAssumption == NAddr \in Nat \ {0} /\ Contracts \subseteq Addr
ASSUME ValueAssumption ==
  /\ MaxUint \in Nat
  /\ MinStakes \subseteq Nat
  /\ Limits \subseteq Nat
  /\ Periods \subseteq Nat
  /\ Funds \in [Addr -> Nat]
  /\ MaxTime \in Nat /\ MaxQueue \in Nat
  /\ Registrants \subseteq Addr /\ Admins \subseteq Addr /\ Payouts \subseteq Addr
  /\ Stakers \subseteq Addr
  /\ NoKey \notin Keys

VARIABLES
  info,                 \* _operators
  stakes,               \* _stakes[operator][staker]
  unbondings,           \* _unbondings[operator][staker]
  registeredOperators,  \* _registeredOperators
  minStake, maxValidators, unbondingPeriod, owner,
  entered,              \* _entered, the re-entrancy guard
  balance,              \* the contract's native balance
  wallet,               \* what each address holds elsewhere
  now,                  \* block.timestamp
  frame,                \* the running withdrawUnstaked: its locals and place
  saved                 \* the state the EVM restores if that call fails

records == <<info, stakes, unbondings, registeredOperators>>
params == <<minStake, maxValidators, unbondingPeriod, owner>>
money == <<balance, wallet>>
call == <<entered, frame, saved>>
vars == <<records, params, money, call, now>>

NoOperator == [registered |-> FALSE, jailed |-> FALSE, totalStake |-> 0,
               payout |-> 0, consensusKey |-> NoKey]
NoFrame == [pc |-> "idle", sender |-> 0, operator |-> 0, i |-> 0, total |-> 0]

Entry == [amount : Nat \ {0}, unlockTime : Nat]

\* Everything a failed call rolls back; entered was FALSE when it began.
World == [info |-> info, stakes |-> stakes, unbondings |-> unbondings,
          registeredOperators |-> registeredOperators,
          minStake |-> minStake, maxValidators |-> maxValidators,
          unbondingPeriod |-> unbondingPeriod, owner |-> owner,
          balance |-> balance, wallet |-> wallet]

Init ==
  /\ info = [o \in Addr |-> NoOperator]
  /\ stakes = [o \in Addr |-> [s \in Addr |-> 0]]
  /\ unbondings = [o \in Addr |-> [s \in Addr |-> <<>>]]
  /\ registeredOperators = <<>>
  /\ minStake \in MinStakes
  /\ maxValidators \in Limits \ {0}
  /\ unbondingPeriod \in Periods
  /\ owner \in Admins
  /\ entered = FALSE
  /\ balance = 0
  /\ wallet = Funds
  /\ now = 0
  /\ frame = NoFrame
  /\ saved = <<>>

\* Who can have msg.sender's place: anybody when no call is open, and the
\* contracts the payee reaches while it runs.
CanCall(a) ==
  \/ frame.pc = "idle"
  \/ frame.pc = "call" /\ frame.sender \in Contracts /\ a \in Contracts

----------------------------------------------------------------------------
(* Operators *)

RegisterOperator(a, key, payout) ==
  /\ CanCall(a)
  /\ key # NoKey
  /\ payout # 0
  /\ ~info[a].registered
  /\ info' = [info EXCEPT ![a] = [@ EXCEPT !.payout = payout, !.consensusKey = key,
                                           !.registered = TRUE]]
  /\ registeredOperators' = Append(registeredOperators, a)
  /\ UNCHANGED <<stakes, unbondings, params, money, call, now>>

UpdateConsensusKey(a, key) ==
  /\ CanCall(a)
  /\ key # NoKey
  /\ info[a].registered
  /\ info' = [info EXCEPT ![a].consensusKey = key]
  /\ UNCHANGED <<stakes, unbondings, registeredOperators, params, money, call, now>>

UpdatePayout(a, payout) ==
  /\ CanCall(a)
  /\ payout # 0
  /\ info[a].registered
  /\ info' = [info EXCEPT ![a].payout = payout]
  /\ UNCHANGED <<stakes, unbondings, registeredOperators, params, money, call, now>>

----------------------------------------------------------------------------
(* Stakers *)

\* stake and stakeFor; stake(operator) is the case staker = a.
StakeFor(a, operator, staker, value) ==
  /\ CanCall(a)
  /\ value > 0
  /\ staker # 0
  /\ wallet[a] >= value
  /\ info[operator].registered
  /\ stakes' = [stakes EXCEPT ![operator][staker] = @ + value]
  /\ info' = [info EXCEPT ![operator].totalStake = @ + value]
  /\ wallet' = [wallet EXCEPT ![a] = @ - value]
  /\ balance' = balance + value
  /\ UNCHANGED <<unbondings, registeredOperators, params, call, now>>

\* The time an unstake request becomes payable; the addition is checked.
UnlockTime == now + unbondingPeriod

\* MUTANT: the operator's total is not reduced.
RequestUnstakeKeepsTotal(a, operator, amount) ==
  /\ CanCall(a)
  /\ amount > 0
  /\ stakes[operator][a] >= amount
  /\ UnlockTime <= MaxUint
  /\ Len(unbondings[operator][a]) < MaxQueue
  /\ stakes' = [stakes EXCEPT ![operator][a] = @ - amount]
  /\ unbondings' = [unbondings EXCEPT ![operator][a] =
       Append(@, [amount |-> amount, unlockTime |-> UnlockTime])]
  /\ UNCHANGED <<info, registeredOperators, params, money, call, now>>

RequestUnstake(a, operator, amount) ==
  /\ CanCall(a)
  /\ amount > 0
  /\ stakes[operator][a] >= amount
  /\ info[operator].totalStake >= amount    \* the subtraction is checked
  /\ UnlockTime <= MaxUint
  /\ Len(unbondings[operator][a]) < MaxQueue
  /\ stakes' = [stakes EXCEPT ![operator][a] = @ - amount]
  /\ info' = [info EXCEPT ![operator].totalStake = @ - amount]
  /\ unbondings' = [unbondings EXCEPT ![operator][a] =
       Append(@, [amount |-> amount, unlockTime |-> UnlockTime])]
  /\ UNCHANGED <<registeredOperators, params, money, call, now>>

WithdrawUnstaked(a, operator) ==
  /\ CanCall(a)
  /\ ~entered
  /\ entered' = TRUE
  /\ saved' = <<World>>
  /\ frame' = [pc |-> "drain", sender |-> a, operator |-> operator,
               i |-> 1, total |-> 0]
  /\ UNCHANGED <<records, params, money, now>>

\* The queue the running withdrawal loops over.
Queue == unbondings[frame.operator][frame.sender]

\* MUTANT: the last entry is popped but never moved to the gap.
PopOnly(q, i) == [j \in 1..(Len(q) - 1) |-> q[j]]

\* queue[i] = queue[queue.length - 1]; queue.pop()
SwapAndPop(q, i) ==
  [j \in 1..(Len(q) - 1) |-> IF j = i THEN q[Len(q)] ELSE q[j]]

\* MUTANT: the index moves on although another entry took the place.
DrainMatureAdvances ==
  /\ frame.pc = "drain"
  /\ frame.i <= Len(Queue)
  /\ Queue[frame.i].unlockTime <= now
  /\ frame' = [frame EXCEPT !.total = @ + Queue[frame.i].amount, !.i = @ + 1]
  /\ unbondings' = [unbondings EXCEPT ![frame.operator][frame.sender] =
       SwapAndPop(@, frame.i)]
  /\ UNCHANGED <<info, stakes, registeredOperators, params, money, entered, saved, now>>

DrainMature ==
  /\ frame.pc = "drain"
  /\ frame.i <= Len(Queue)
  /\ Queue[frame.i].unlockTime <= now
  /\ frame' = [frame EXCEPT !.total = @ + Queue[frame.i].amount]
  /\ unbondings' = [unbondings EXCEPT ![frame.operator][frame.sender] =
       SwapAndPop(@, frame.i)]
  /\ UNCHANGED <<info, stakes, registeredOperators, params, money, entered, saved, now>>

DrainKeep ==
  /\ frame.pc = "drain"
  /\ frame.i <= Len(Queue)
  /\ Queue[frame.i].unlockTime > now
  /\ frame' = [frame EXCEPT !.i = @ + 1]
  /\ UNCHANGED <<records, params, money, entered, saved, now>>

\* The loop is over and something is due: the payee gets it, and control.
Pay ==
  /\ frame.pc = "drain"
  /\ frame.i > Len(Queue)
  /\ frame.total > 0
  /\ balance >= frame.total
  /\ balance' = balance - frame.total
  /\ wallet' = [wallet EXCEPT ![frame.sender] = @ + frame.total]
  /\ frame' = [frame EXCEPT !.pc = "call"]
  /\ UNCHANGED <<records, params, entered, saved, now>>

\* MUTANT: the guard is not given back.
ReturnStillEntered ==
  /\ frame.pc = "call"
  /\ frame' = NoFrame
  /\ saved' = <<>>
  /\ UNCHANGED <<records, params, money, entered, now>>

Return ==
  /\ frame.pc = "call"
  /\ entered' = FALSE
  /\ frame' = NoFrame
  /\ saved' = <<>>
  /\ UNCHANGED <<records, params, money, now>>

\* What a revert does to the contract's state and to the money.
RollBack ==
  /\ info' = saved[1].info
  /\ stakes' = saved[1].stakes
  /\ unbondings' = saved[1].unbondings
  /\ registeredOperators' = saved[1].registeredOperators
  /\ minStake' = saved[1].minStake
  /\ maxValidators' = saved[1].maxValidators
  /\ unbondingPeriod' = saved[1].unbondingPeriod
  /\ owner' = saved[1].owner
  /\ balance' = saved[1].balance
  /\ wallet' = saved[1].wallet
  /\ entered' = FALSE
  /\ frame' = NoFrame
  /\ saved' = <<>>
  /\ UNCHANGED now

\* MUTANT: the transfer is thought to fail whenever it would empty the
\* contract.
CannotPayAll == frame.i > Len(Queue) /\ balance <= frame.total

\* "nothing unlocked", or a transfer the balance does not cover.
CannotPay ==
  /\ frame.i > Len(Queue)
  /\ frame.total = 0 \/ balance < frame.total

\* require(total > 0), or require(ok): the payee has no code that fails
\* unless it is a contract.
Fail ==
  /\ \/ frame.pc = "drain" /\ CannotPay
     \/ frame.pc = "call" /\ frame.sender \in Contracts
  /\ RollBack

----------------------------------------------------------------------------
(* Governance: onlyOwner *)

SetJailed(a, operator, jailed) ==
  /\ CanCall(a)
  /\ a = owner
  /\ info[operator].registered
  /\ info' = [info EXCEPT ![operator].jailed = jailed]
  /\ UNCHANGED <<stakes, unbondings, registeredOperators, params, money, call, now>>

SetMinStake(a, newMin) ==
  /\ CanCall(a)
  /\ a = owner
  /\ minStake' = newMin
  /\ UNCHANGED <<records, maxValidators, unbondingPeriod, owner, money, call, now>>

SetMaxValidators(a, newMax) ==
  /\ CanCall(a)
  /\ a = owner
  /\ newMax > 0
  /\ maxValidators' = newMax
  /\ UNCHANGED <<records, minStake, unbondingPeriod, owner, money, call, now>>

SetUnbondingPeriod(a, seconds) ==
  /\ CanCall(a)
  /\ a = owner
  /\ unbondingPeriod' = seconds
  /\ UNCHANGED <<records, minStake, maxValidators, owner, money, call, now>>

TransferOwnership(a, newOwner) ==
  /\ CanCall(a)
  /\ a = owner
  /\ newOwner # 0
  /\ owner' = newOwner
  /\ UNCHANGED <<records, minStake, maxValidators, unbondingPeriod, money, call, now>>

----------------------------------------------------------------------------

\* A new block; all calls of a transaction see one block.timestamp.
Tick ==
  /\ frame.pc = "idle"
  /\ now < MaxTime
  /\ now' = now + 1
  /\ UNCHANGED <<records, params, money, call>>

Operator(a) ==
  \/ /\ a \in Registrants
     /\ \E key \in Keys \cup {NoKey}, payout \in Payouts \cup {0} :
          RegisterOperator(a, key, payout)
  \/ \E key \in Keys \cup {NoKey} : UpdateConsensusKey(a, key)
  \/ \E payout \in Payouts \cup {0} : UpdatePayout(a, payout)

Staker(a) ==
  \E operator \in Addr :
    \/ \E staker \in Stakers \cup {0}, value \in 0..wallet[a] : StakeFor(a, operator, staker, value)
    \/ \E amount \in 0..stakes[operator][a] : RequestUnstake(a, operator, amount)
    \/ WithdrawUnstaked(a, operator)

Owner(a) ==
  \/ \E operator \in Addr, jailed \in BOOLEAN : SetJailed(a, operator, jailed)
  \/ \E newMin \in MinStakes : SetMinStake(a, newMin)
  \/ \E newMax \in Limits : SetMaxValidators(a, newMax)
  \/ \E seconds \in Periods : SetUnbondingPeriod(a, seconds)
  \/ \E newOwner \in Admins \cup {0} : TransferOwnership(a, newOwner)

\* The steps the EVM takes by itself once a withdrawal has begun.
Withdrawal == DrainMature \/ DrainKeep \/ Pay \/ Return \/ Fail

Next ==
  \/ \E a \in Addr : Operator(a) \/ Staker(a) \/ Owner(a)
  \/ Withdrawal
  \/ Tick

Spec == Init /\ [][Next]_vars

----------------------------------------------------------------------------
(* Types *)

OperatorInfo == [registered : BOOLEAN, jailed : BOOLEAN, totalStake : Nat,
                 payout : Addr \cup {0}, consensusKey : Keys \cup {NoKey}]
\* The types of what a failed call rolls back.
WorldOK(w) ==
  /\ w.info \in [Addr -> OperatorInfo]
  /\ w.stakes \in [Addr -> [Addr -> Nat]]
  /\ w.unbondings \in [Addr -> [Addr -> Seq(Entry)]]
  /\ w.registeredOperators \in Seq(Addr)
  /\ w.minStake \in Nat
  /\ w.maxValidators \in Nat \ {0}
  /\ w.unbondingPeriod \in Nat
  /\ w.owner \in Addr
  /\ w.balance \in Nat
  /\ w.wallet \in [Addr -> Nat]

Running == [pc : {"drain", "call"}, sender : Addr, operator : Addr,
            i : Nat \ {0}, total : Nat]

\* The state has its types, and the pieces that describe an open withdrawal
\* agree: the guard is taken, the call has locals, and there is a state to
\* go back to, all together or not at all (the nonReentrant modifier).
TypeOK ==
  /\ WorldOK(World)
  /\ now \in Nat
  /\ \/ /\ frame = NoFrame
        /\ entered = FALSE
        /\ saved = <<>>
     \/ /\ frame \in Running
        /\ entered = TRUE
        /\ Len(saved) = 1
        /\ WorldOK(saved[1])
=============================================================================
