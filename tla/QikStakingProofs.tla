-------------------------- MODULE QikStakingProofs --------------------------
(***************************************************************************)
(* What holds of QikStaking for every number of addresses, every parameter *)
(* value and every length of the unbonding queues: the types; that the     *)
(* contract is solvent, ranks operators by what they have at stake and     *)
(* pays exactly what is due; that it implements StakeLedger: a queue is    *)
(* seen as the bag of its entries, which swap-and-pop takes entries out of *)
(* one by one, and a withdrawal as the step that pays; and that the active *)
(* set it selects is the top of the ranking, round by round of its loops.  *)
(***************************************************************************)
EXTENDS QikLedger, QikSelection, SumsProofs, SequenceTheorems, TLAPS

----------------------------------------------------------------------------
(* Types *)

\* Taking one entry out of a queue (queue[i] = last; pop) leaves a queue of
\* one entry less.
LEMMA SwapAndPopType ==
  ASSUME NEW S, NEW q \in Seq(S), NEW i \in 1..Len(q)
  PROVE  /\ SwapAndPop(q, i) \in Seq(S)
         /\ Len(SwapAndPop(q, i)) = Len(q) - 1
<1>1. Len(q) - 1 \in Nat
  OBVIOUS
<1>2. \A j \in 1..(Len(q) - 1) : (IF j = i THEN q[Len(q)] ELSE q[j]) \in S
  OBVIOUS
<1>3. QED
  BY <1>1, <1>2 DEF SwapAndPop

\* The types of the variables, conjunct by conjunct, as TypeOK packs them.
LEMMA WorldTypes ==
  WorldOK(World) <=>
    /\ info \in [Addr -> OperatorInfo]
    /\ stakes \in [Addr -> [Addr -> Nat]]
    /\ unbondings \in [Addr -> [Addr -> Seq(Entry)]]
    /\ registeredOperators \in Seq(Addr)
    /\ minStake \in Nat
    /\ maxValidators \in Nat \ {0}
    /\ unbondingPeriod \in Nat
    /\ owner \in Addr
    /\ balance \in Nat
    /\ wallet \in [Addr -> Nat]
BY DEF World, WorldOK

\* Init has the types.
LEMMA InitTypes == Init => TypeOK
<1> SUFFICES ASSUME Init PROVE TypeOK
  OBVIOUS
<1>1. WorldOK(World)
  BY WorldTypes, AddrAssumption, ValueAssumption
     DEF Init, NoOperator, OperatorInfo, Addr
<1>2. QED
  BY <1>1 DEF Init, TypeOK

\* A step that leaves the open call alone keeps the types if the contract's
\* state keeps them; every external function but withdrawUnstaked is one.
LEMMA SameCall ==
  ASSUME TypeOK, UNCHANGED <<call, now>>, WorldOK(World)'
  PROVE  TypeOK'
BY DEF TypeOK, call

\* Writing one field of an operator's record keeps it a record.
LEMMA RecordTypes ==
  ASSUME NEW f \in [Addr -> OperatorInfo], NEW o \in Addr,
         NEW n \in Nat, NEW b \in BOOLEAN, NEW p \in Addr \cup {0},
         NEW k \in Keys \cup {NoKey}
  PROVE  /\ [f EXCEPT ![o].totalStake = n] \in [Addr -> OperatorInfo]
         /\ [f EXCEPT ![o].jailed = b] \in [Addr -> OperatorInfo]
         /\ [f EXCEPT ![o].payout = p] \in [Addr -> OperatorInfo]
         /\ [f EXCEPT ![o].consensusKey = k] \in [Addr -> OperatorInfo]
         /\ [f EXCEPT ![o] = [@ EXCEPT !.payout = p, !.consensusKey = k,
                                       !.registered = TRUE]]
              \in [Addr -> OperatorInfo]
BY ZenonT(60) DEF OperatorInfo

\* Every function an operator calls keeps the types.
LEMMA OperatorTypes ==
  ASSUME TypeOK, NEW a \in Addr, Operator(a)
  PROVE  TypeOK'
<1>1. /\ info \in [Addr -> OperatorInfo]
      /\ registeredOperators \in Seq(Addr)
      /\ WorldOK(World)
  BY WorldTypes DEF TypeOK
<1>2. Payouts \cup {0} \subseteq Addr \cup {0}
  BY ValueAssumption
<1>3. ASSUME info' \in [Addr -> OperatorInfo],
             registeredOperators' \in Seq(Addr),
             UNCHANGED <<stakes, unbondings, params, money, call, now>>
      PROVE  TypeOK'
  BY <1>1, <1>3, SameCall DEF World, WorldOK, params, money
<1>4. ASSUME NEW key \in Keys \cup {NoKey}, NEW payout \in Payouts \cup {0},
             RegisterOperator(a, key, payout)
      PROVE  TypeOK'
  <2>1. info' \in [Addr -> OperatorInfo]
    BY <1>1, <1>2, <1>4, RecordTypes DEF RegisterOperator
  <2>2. registeredOperators' \in Seq(Addr)
    BY <1>1, <1>4 DEF RegisterOperator
  <2>3. QED
    BY <1>1, <1>3, <1>4, <2>1, <2>2 DEF RegisterOperator
<1>5. ASSUME NEW key \in Keys \cup {NoKey}, UpdateConsensusKey(a, key)
      PROVE  TypeOK'
  <2>1. info' \in [Addr -> OperatorInfo]
    BY <1>1, <1>5, RecordTypes, ZenonT(60) DEF UpdateConsensusKey
  <2>2. QED
    BY <1>1, <1>3, <1>5, <2>1 DEF UpdateConsensusKey
<1>6. ASSUME NEW payout \in Payouts \cup {0}, UpdatePayout(a, payout)
      PROVE  TypeOK'
  <2>1. info' \in [Addr -> OperatorInfo]
    BY <1>1, <1>2, <1>6, RecordTypes DEF UpdatePayout
  <2>2. QED
    BY <1>1, <1>3, <1>6, <2>1 DEF UpdatePayout
<1>7. QED
  BY <1>4, <1>5, <1>6 DEF Operator

\* Staking and requesting to unstake keep the types.  That no amount goes
\* below zero is what their guards are for.
LEMMA StakeTypes ==
  ASSUME TypeOK, NEW a \in Addr, NEW operator \in Addr, NEW staker \in Stakers \cup {0},
         NEW value \in 0..wallet[a], StakeFor(a, operator, staker, value)
  PROVE  TypeOK'
<1>1. /\ info \in [Addr -> OperatorInfo]
      /\ stakes \in [Addr -> [Addr -> Nat]]
      /\ wallet \in [Addr -> Nat]
      /\ balance \in Nat
      /\ WorldOK(World)
  BY WorldTypes DEF TypeOK
<1>2. value \in Nat /\ wallet[a] - value \in Nat /\ staker \in Addr
  BY <1>1, ValueAssumption DEF StakeFor
<1>3. info[operator].totalStake \in Nat
  BY <1>1 DEF OperatorInfo
<1>4. info' \in [Addr -> OperatorInfo]
  <2>1. info' = [info EXCEPT ![operator].totalStake = info[operator].totalStake + value]
    BY <1>1 DEF StakeFor
  <2>2. info[operator].totalStake + value \in Nat
    BY <1>2, <1>3
  <2>3. QED
    BY <1>1, <2>1, <2>2, RecordTypes
<1>5. stakes' \in [Addr -> [Addr -> Nat]]
  BY <1>1, <1>2 DEF StakeFor
<1>6. wallet' \in [Addr -> Nat] /\ balance' \in Nat
  BY <1>1, <1>2 DEF StakeFor
<1>7. WorldOK(World)'
  BY <1>1, <1>4, <1>5, <1>6 DEF StakeFor, World, WorldOK, params
<1>8. QED
  BY <1>7, SameCall DEF StakeFor

LEMMA UnstakeTypes ==
  ASSUME TypeOK, NEW a \in Addr, NEW operator \in Addr,
         NEW amount \in 0..stakes[operator][a], RequestUnstake(a, operator, amount)
  PROVE  TypeOK'
<1>1. /\ info \in [Addr -> OperatorInfo]
      /\ stakes \in [Addr -> [Addr -> Nat]]
      /\ unbondings \in [Addr -> [Addr -> Seq(Entry)]]
      /\ unbondingPeriod \in Nat
      /\ now \in Nat
      /\ WorldOK(World)
  BY WorldTypes DEF TypeOK
<1>2. amount \in Nat \ {0} /\ stakes[operator][a] - amount \in Nat
  BY <1>1, SMTT(30) DEF RequestUnstake
<1>3. info[operator].totalStake \in Nat
  BY <1>1 DEF OperatorInfo
<1>4. info' \in [Addr -> OperatorInfo]
  <2>1. info' = [info EXCEPT ![operator].totalStake = info[operator].totalStake - amount]
    BY <1>1 DEF RequestUnstake
  <2>2. info[operator].totalStake - amount \in Nat
    BY <1>2, <1>3 DEF RequestUnstake
  <2>3. QED
    BY <1>1, <2>1, <2>2, RecordTypes
<1>5. stakes' \in [Addr -> [Addr -> Nat]]
  BY <1>1, <1>2 DEF RequestUnstake
<1>6. unbondings' \in [Addr -> [Addr -> Seq(Entry)]]
  <2> DEFINE e == [amount |-> amount, unlockTime |-> UnlockTime]
  <2>1. e \in Entry
    BY <1>1, <1>2 DEF Entry, UnlockTime
  <2>2. Append(unbondings[operator][a], e) \in Seq(Entry)
    BY <1>1, <2>1
  <2>3. QED
    BY <1>1, <2>2 DEF RequestUnstake
<1>7. WorldOK(World)'
  BY <1>1, <1>4, <1>5, <1>6 DEF RequestUnstake, World, WorldOK, params, money
<1>8. QED
  BY <1>7, SameCall DEF RequestUnstake

\* Opening a withdrawal remembers a well-typed state.
LEMMA OpenTypes ==
  ASSUME TypeOK, NEW a \in Addr, NEW operator \in Addr, WithdrawUnstaked(a, operator)
  PROVE  TypeOK'
<1>1. WorldOK(World) /\ World' = World
  BY DEF TypeOK, WithdrawUnstaked, World, records, params, money
<1>2. frame' \in Running
  BY DEF WithdrawUnstaked, Running
<1>3. Len(saved') = 1 /\ saved'[1] = World
  BY DEF WithdrawUnstaked
<1>4. QED
  BY <1>1, <1>2, <1>3 DEF TypeOK, WithdrawUnstaked

LEMMA StakerTypes ==
  ASSUME TypeOK, NEW a \in Addr, Staker(a)
  PROVE  TypeOK'
BY StakeTypes, UnstakeTypes, OpenTypes DEF Staker

\* The owner's functions keep the types.
LEMMA OwnerTypes ==
  ASSUME TypeOK, NEW a \in Addr, Owner(a)
  PROVE  TypeOK'
<1>1. WorldOK(World)
  BY DEF TypeOK
<1>2. info \in [Addr -> OperatorInfo]
  BY <1>1, WorldTypes
<1>3. ASSUME NEW operator \in Addr, NEW jailed \in BOOLEAN, SetJailed(a, operator, jailed)
      PROVE  TypeOK'
  <2>1. info' \in [Addr -> OperatorInfo]
    BY <1>2, <1>3, RecordTypes, ZenonT(60) DEF SetJailed
  <2>2. WorldOK(World)'
    BY <1>1, <1>3, <2>1 DEF SetJailed, World, WorldOK, params, money
  <2>3. QED
    BY <1>3, <2>2, SameCall DEF SetJailed
<1>4. ASSUME NEW newMin \in MinStakes, SetMinStake(a, newMin)
      PROVE  TypeOK'
  <2>1. WorldOK(World)'
    BY <1>1, <1>4, ValueAssumption DEF SetMinStake, World, WorldOK, records, money
  <2>2. QED
    BY <1>4, <2>1, SameCall DEF SetMinStake
<1>5. ASSUME NEW newMax \in Limits, SetMaxValidators(a, newMax)
      PROVE  TypeOK'
  <2>1. WorldOK(World)'
    BY <1>1, <1>5, ValueAssumption DEF SetMaxValidators, World, WorldOK, records, money
  <2>2. QED
    BY <1>5, <2>1, SameCall DEF SetMaxValidators
<1>6. ASSUME NEW seconds \in Periods, SetUnbondingPeriod(a, seconds)
      PROVE  TypeOK'
  <2>1. WorldOK(World)'
    BY <1>1, <1>6, ValueAssumption DEF SetUnbondingPeriod, World, WorldOK, records, money
  <2>2. QED
    BY <1>6, <2>1, SameCall DEF SetUnbondingPeriod
<1>7. ASSUME NEW newOwner \in Admins \cup {0}, TransferOwnership(a, newOwner)
      PROVE  TypeOK'
  <2>1. WorldOK(World)'
    BY <1>1, <1>7, ValueAssumption DEF TransferOwnership, World, WorldOK, records, money
  <2>2. QED
    BY <1>7, <2>1, SameCall DEF TransferOwnership
<1>8. QED
  BY <1>3, <1>4, <1>5, <1>6, <1>7 DEF Owner

\* What TypeOK says while a withdrawal is open.
LEMMA OpenCall ==
  ASSUME TypeOK, frame.pc # "idle"
  PROVE  /\ frame \in Running
         /\ entered = TRUE
         /\ Len(saved) = 1
         /\ WorldOK(saved[1])
BY DEF TypeOK, NoFrame

\* A step that only moves the open call on keeps the types if the locals and
\* the contract's state keep theirs.
LEMMA SameSaved ==
  ASSUME TypeOK, frame.pc # "idle", UNCHANGED <<entered, saved, now>>,
         frame' \in Running, WorldOK(World)'
  PROVE  TypeOK'
BY OpenCall DEF TypeOK

LEMMA DrainMatureTypes ==
  ASSUME TypeOK, DrainMature
  PROVE  TypeOK'
<1>1. /\ unbondings \in [Addr -> [Addr -> Seq(Entry)]]
      /\ WorldOK(World)
  BY WorldTypes DEF TypeOK
<1>2. frame.pc # "idle" /\ frame \in Running
  BY OpenCall DEF DrainMature
<1>3. frame.sender \in Addr /\ frame.operator \in Addr /\ frame.total \in Nat
      /\ frame.i \in Nat \ {0}
  BY <1>2 DEF Running
<1>4. Queue \in Seq(Entry)
  BY <1>1, <1>3 DEF Queue
<1>5. frame.i \in 1..Len(Queue)
  BY <1>3, <1>4 DEF DrainMature
<1>6. Queue[frame.i].amount \in Nat
  <2>1. Queue[frame.i] \in Entry
    BY <1>4, <1>5
  <2>2. QED
    BY <2>1 DEF Entry
<1>7. frame' \in Running
  <2>1. frame.total + Queue[frame.i].amount \in Nat
    BY <1>3, <1>6
  <2>2. QED
    BY <1>2, <2>1 DEF DrainMature, Running
<1>8. unbondings' \in [Addr -> [Addr -> Seq(Entry)]]
  <2>1. SwapAndPop(Queue, frame.i) \in Seq(Entry)
    BY <1>4, <1>5, SwapAndPopType
  <2>2. QED
    BY <1>1, <1>3, <2>1 DEF DrainMature, Queue
<1>9. WorldOK(World)'
  BY <1>1, <1>8 DEF DrainMature, World, WorldOK, params, money
<1>10. QED
  BY <1>2, <1>7, <1>9, SameSaved DEF DrainMature

LEMMA DrainKeepTypes ==
  ASSUME TypeOK, DrainKeep
  PROVE  TypeOK'
<1>1. frame.pc # "idle" /\ frame \in Running
  BY OpenCall DEF DrainKeep
<1>2. frame' \in Running
  BY <1>1 DEF DrainKeep, Running
<1>3. WorldOK(World)'
  BY DEF TypeOK, DrainKeep, World, records, params, money
<1>4. QED
  BY <1>1, <1>2, <1>3, SameSaved DEF DrainKeep

LEMMA PayTypes ==
  ASSUME TypeOK, Pay
  PROVE  TypeOK'
<1>1. frame.pc # "idle" /\ frame \in Running
  BY OpenCall DEF Pay
<1>2. frame.sender \in Addr /\ frame.total \in Nat
  BY <1>1 DEF Running
<1>3. balance \in Nat /\ wallet \in [Addr -> Nat] /\ WorldOK(World)
  BY WorldTypes DEF TypeOK
<1>4. balance' \in Nat /\ wallet' \in [Addr -> Nat]
  BY <1>2, <1>3 DEF Pay
<1>5. frame' \in Running
  BY <1>1 DEF Pay, Running
<1>6. WorldOK(World)'
  BY <1>3, <1>4 DEF Pay, World, WorldOK, records, params
<1>7. QED
  BY <1>1, <1>5, <1>6, SameSaved DEF Pay

LEMMA EndTypes ==
  ASSUME TypeOK, Return \/ Fail
  PROVE  TypeOK'
<1>1. CASE Return
  <2>1. WorldOK(World)'
    BY <1>1 DEF TypeOK, Return, World, records, params, money
  <2>2. QED
    BY <1>1, <2>1 DEF TypeOK, Return
<1>2. CASE Fail
  <2>1. WorldOK(saved[1])
    BY <1>2, OpenCall DEF Fail
  <2>2. WorldOK(World)'
    BY <1>2, <2>1 DEF Fail, RollBack, World, WorldOK
  <2>3. QED
    BY <1>2, <2>2 DEF TypeOK, Fail, RollBack
<1>3. QED
  BY <1>1, <1>2

\* Every step keeps the types.
LEMMA NextTypes ==
  ASSUME TypeOK, [Next]_vars
  PROVE  TypeOK'
<1>1. ASSUME NEW a \in Addr, Operator(a) \/ Staker(a) \/ Owner(a)
      PROVE  TypeOK'
  BY <1>1, OperatorTypes, StakerTypes, OwnerTypes
<1>2. CASE Withdrawal
  BY <1>2, DrainMatureTypes, DrainKeepTypes, PayTypes, EndTypes DEF Withdrawal
<1>3. CASE Tick
  <2>1. WorldOK(World)'
    BY <1>3 DEF TypeOK, Tick, World, records, params, money
  <2>2. QED
    BY <1>3, <2>1 DEF TypeOK, Tick, call
<1>4. CASE UNCHANGED vars
  <2>1. WorldOK(World)'
    BY <1>4 DEF TypeOK, vars, World, records, params, money
  <2>2. QED
    BY <1>4, <2>1 DEF TypeOK, vars, call
<1>5. QED
  BY <1>1, <1>2, <1>3, <1>4 DEF Next

\* Every reachable state has its types, whatever the number of addresses and
\* the length of the queues; an open withdrawal holds the guard and a state
\* to go back to, and no amount is ever negative.
THEOREM TypeCorrect == Spec => []TypeOK
<1>1. Init => TypeOK
  BY InitTypes
<1>2. TypeOK /\ [Next]_vars => TypeOK'
  BY NextTypes
<1>3. QED
  BY <1>1, <1>2, PTL DEF Spec

----------------------------------------------------------------------------
(* Sums over queues *)

\* The addresses are finitely many.
LEMMA AddrFinite == IsFiniteSet(Addr)
BY AddrAssumption, FS_Interval DEF Addr

\* Moving the last of n values into the place of the i-th and dropping the
\* last place takes the i-th value out of the sum.
LEMMA SwapAndPopSum ==
  ASSUME NEW n \in Nat, NEW f, NEW g, NEW i \in 1..n,
         \A j \in 1..n : f[j] \in Nat,
         \A j \in 1..(n - 1) : g[j] = IF j = i THEN f[n] ELSE f[j]
  PROVE  Sum(g, 1..(n - 1)) = Sum(f, 1..n) - f[i]
<1> DEFINE S == 1..(n - 1)
<1>1. IsFiniteSet(1..n) /\ IsFiniteSet(S) /\ n \in 1..n /\ (1..n) \ {n} = S
  BY FS_Interval
<1>2. Sum(f, 1..n) = f[n] + Sum(f, S)
  BY <1>1, SumSplit
<1>3. Sum(f, S) \in Nat
  BY <1>1, SumType
<1>4. CASE i = n
  <2>1. Sum(g, S) = Sum(f, S)
    BY <1>4, SumSame
  <2>2. QED
    BY <1>2, <1>3, <1>4, <2>1
<1>5. CASE i # n
  <2>1. i \in S
    BY <1>5
  <2>2. Sum(g, S) = Sum(f, S) - f[i] + g[i]
    <3>1. (\A x \in S : f[x] \in Nat) /\ (\A x \in S : g[x] \in Nat)
      OBVIOUS
    <3>2. Sum(f, S) = f[i] + Sum(f, S \ {i}) /\ Sum(g, S) = g[i] + Sum(g, S \ {i})
      BY <1>1, <2>1, <3>1, SumSplit
    <3>3. \A x \in S \ {i} : f[x] = g[x]
      OBVIOUS
    <3>4. Sum(f, S \ {i}) = Sum(g, S \ {i})
      BY <3>3, SumSame, Zenon
    <3>5. Sum(f, S \ {i}) \in Nat
      BY <1>1, <3>1, SumType, FS_RemoveElement
    <3>6. f[i] \in Nat /\ g[i] \in Nat
      BY <2>1, <3>1
    <3> HIDE DEF S
    <3>7. QED
      BY <3>2, <3>4, <3>5, <3>6
  <2>3. g[i] = f[n] /\ f[i] \in Nat /\ f[n] \in Nat
    BY <2>1
  <2>4. QED
    BY <1>2, <1>3, <2>2, <2>3
<1>6. QED
  BY <1>4, <1>5

\* The amounts of a queue are naturals, and so is what they add up to.
LEMMA EntrySumType ==
  ASSUME NEW q \in Seq(Entry)
  PROVE  /\ EntrySum(q) \in Nat
         /\ \A j \in 1..Len(q) : q[j].amount \in Nat /\ q[j].unlockTime \in Nat
<1>1. \A j \in 1..Len(q) : q[j].amount \in Nat /\ q[j].unlockTime \in Nat
  <2> TAKE j \in 1..Len(q)
  <2>1. q[j] \in Entry
    OBVIOUS
  <2>2. QED
    BY <2>1 DEF Entry
<1>2. IsFiniteSet(1..Len(q))
  BY FS_Interval
<1>3. QED
  BY <1>1, <1>2, SumType DEF EntrySum

\* What is due is a natural, and 0 when no entry is due.
LEMMA DueSumType ==
  ASSUME NEW q \in Seq(Entry), NEW t \in Nat
  PROVE  /\ DueSum(q, t) \in Nat
         /\ (\A j \in 1..Len(q) : q[j].unlockTime > t) => DueSum(q, t) = 0
<1> DEFINE f == [i \in 1..Len(q) |-> IF q[i].unlockTime <= t THEN q[i].amount ELSE 0]
<1>0. IsFiniteSet(1..Len(q))
  BY FS_Interval
<1>1. \A j \in 1..Len(q) : f[j] \in Nat
  BY EntrySumType
<1>2. DueSum(q, t) \in Nat
  BY <1>0, <1>1, SumType DEF DueSum
<1>3. ASSUME \A j \in 1..Len(q) : q[j].unlockTime > t
      PROVE  DueSum(q, t) = 0
  <2>1. \A j \in 1..Len(q) : f[j] = 0
    BY <1>3, EntrySumType
  <2>2. Sum(f, 1..Len(q)) = 0
    BY <2>1, SumZero
  <2>3. QED
    BY <2>2 DEF DueSum
<1>4. QED
  BY <1>2, <1>3

\* A new entry adds its amount.
LEMMA AppendSum ==
  ASSUME NEW q \in Seq(Entry), NEW e \in Entry
  PROVE  EntrySum(Append(q, e)) = EntrySum(q) + e.amount
<1> DEFINE n == Len(q)
           f == [i \in 1..(n + 1) |-> Append(q, e)[i].amount]
           g == [i \in 1..n |-> q[i].amount]
<1>1. Append(q, e) \in Seq(Entry) /\ Len(Append(q, e)) = n + 1 /\ n \in Nat
  OBVIOUS
<1>2. \A j \in 1..(n + 1) : f[j] \in Nat
  BY <1>1, EntrySumType
<1>3. /\ IsFiniteSet(1..(n + 1))
      /\ n + 1 \in 1..(n + 1) /\ (1..(n + 1)) \ {n + 1} = 1..n
  <2>1. IsFiniteSet(1..(n + 1))
    BY <1>1, n + 1 \in Int, FS_Interval
  <2>2. QED
    BY <1>1, <2>1
<1>4. Sum(f, 1..(n + 1)) = f[n + 1] + Sum(f, 1..n)
  BY <1>2, <1>3, SumSplit, SMTT(30)
<1>5. Sum(f, 1..n) = Sum(g, 1..n)
  <2>1. \A j \in 1..n : f[j] = g[j]
    BY <1>1
  <2>2. QED
    BY <2>1, SumSame
<1>6. f[n + 1] = e.amount /\ e.amount \in Nat
  BY <1>1 DEF Entry
<1>7. EntrySum(q) \in Nat
  BY EntrySumType
<1>8. Sum(g, 1..n) = EntrySum(q) /\ Sum(f, 1..(n + 1)) = EntrySum(Append(q, e))
  BY <1>1 DEF EntrySum
<1> HIDE DEF f, g, n
<1>9. QED
  BY <1>4, <1>5, <1>6, <1>7, <1>8

\* Taking the i-th entry out of a queue takes its amount out of the sum of
\* the amounts, and out of the sum of what is due if it is due.
LEMMA DrainSum ==
  ASSUME NEW q \in Seq(Entry), NEW i \in 1..Len(q), NEW t \in Nat
  PROVE  /\ EntrySum(SwapAndPop(q, i)) = EntrySum(q) - q[i].amount
         /\ q[i].unlockTime <= t =>
              DueSum(SwapAndPop(q, i), t) = DueSum(q, t) - q[i].amount
<1> DEFINE n == Len(q)
           r == SwapAndPop(q, i)
           f == [j \in 1..n |-> q[j].amount]
           g == [j \in 1..(n - 1) |-> r[j].amount]
           df == [j \in 1..n |-> IF q[j].unlockTime <= t THEN q[j].amount ELSE 0]
           dg == [j \in 1..(n - 1) |-> IF r[j].unlockTime <= t THEN r[j].amount ELSE 0]
<1>1. n \in Nat /\ r \in Seq(Entry) /\ Len(r) = n - 1 /\ i \in 1..n
  BY SwapAndPopType
<1>2. \A j \in 1..(n - 1) : r[j] = IF j = i THEN q[n] ELSE q[j]
  BY DEF SwapAndPop
<1>3. \A j \in 1..n : q[j].amount \in Nat /\ q[j].unlockTime \in Nat
  BY EntrySumType
<1>4. Sum(g, 1..(n - 1)) = Sum(f, 1..n) - f[i]
  <2>1. \A j \in 1..n : f[j] \in Nat
    BY <1>3
  <2>2. \A j \in 1..(n - 1) : g[j] = IF j = i THEN f[n] ELSE f[j]
    BY <1>1, <1>2
  <2> HIDE DEF f, g, n, r
  <2>3. QED
    BY <1>1, <2>1, <2>2, SwapAndPopSum, SMTT(30)
<1>5. Sum(dg, 1..(n - 1)) = Sum(df, 1..n) - df[i]
  <2>1. \A j \in 1..n : df[j] \in Nat
    BY <1>3
  <2>2. \A j \in 1..(n - 1) : dg[j] = IF j = i THEN df[n] ELSE df[j]
    BY <1>1, <1>2
  <2> HIDE DEF df, dg, n, r
  <2>3. QED
    BY <1>1, <2>1, <2>2, SwapAndPopSum, SMTT(30)
<1>6. /\ EntrySum(r) = Sum(g, 1..(n - 1)) /\ EntrySum(q) = Sum(f, 1..n)
      /\ DueSum(r, t) = Sum(dg, 1..(n - 1)) /\ DueSum(q, t) = Sum(df, 1..n)
  BY <1>1 DEF EntrySum, DueSum
<1>7. f[i] = q[i].amount /\ (q[i].unlockTime <= t => df[i] = q[i].amount)
  BY <1>1
<1>8. QED
  BY <1>4, <1>5, <1>6, <1>7

(* What the contract owes *)

Stakes == [Addr -> [Addr -> Nat]]
Queues == [Addr -> [Addr -> Seq(Entry)]]

\* Debts are naturals.
LEMMA OwedType ==
  ASSUME NEW st \in Stakes, NEW u \in Queues
  PROVE  /\ \A o \in Addr : StakedWith(st, o) \in Nat
         /\ \A o \in Addr : ClaimedFrom(u, o) \in Nat
         /\ Owed(st, u) \in Nat
<1>1. \A o \in Addr : StakedWith(st, o) \in Nat
  <2> TAKE o \in Addr
  <2>1. \A s \in Addr : st[o][s] \in Nat
    BY DEF Stakes
  <2>2. QED
    BY <2>1, AddrFinite, SumType DEF StakedWith
<1>2. \A o \in Addr : ClaimedFrom(u, o) \in Nat
  <2> TAKE o \in Addr
  <2> DEFINE f == [s \in Addr |-> EntrySum(u[o][s])]
  <2>1. \A s \in Addr : u[o][s] \in Seq(Entry)
    BY DEF Queues
  <2>2. \A s \in Addr : f[s] \in Nat
    BY <2>1, EntrySumType
  <2>3. QED
    BY <2>2, AddrFinite, SumType DEF ClaimedFrom
<1>3. Owed(st, u) \in Nat
  <2> DEFINE f == [o \in Addr |-> StakedWith(st, o) + ClaimedFrom(u, o)]
  <2>1. \A o \in Addr : f[o] \in Nat
    BY <1>1, <1>2
  <2>2. QED
    BY <2>1, AddrFinite, SumType DEF Owed
<1>4. QED
  BY <1>1, <1>2, <1>3

\* If the debt to the stakers of one operator changes and no other does, the
\* whole debt changes by the difference.
LEMMA OwedUpdate ==
  ASSUME NEW st \in Stakes, NEW u \in Queues, NEW st2 \in Stakes, NEW u2 \in Queues,
         NEW o \in Addr,
         \A p \in Addr \ {o} : StakedWith(st2, p) = StakedWith(st, p)
                               /\ ClaimedFrom(u2, p) = ClaimedFrom(u, p)
  PROVE  Owed(st2, u2) = Owed(st, u)
           - (StakedWith(st, o) + ClaimedFrom(u, o))
           + (StakedWith(st2, o) + ClaimedFrom(u2, o))
<1> DEFINE f == [p \in Addr |-> StakedWith(st, p) + ClaimedFrom(u, p)]
           g == [p \in Addr |-> StakedWith(st2, p) + ClaimedFrom(u2, p)]
<1>1. \A p \in Addr : f[p] \in Nat
  BY OwedType
<1>2. \A p \in Addr : g[p] \in Nat
  BY OwedType
<1>3. \A p \in Addr \ {o} : g[p] = f[p]
  OBVIOUS
<1>4. /\ f[o] = StakedWith(st, o) + ClaimedFrom(u, o)
      /\ g[o] = StakedWith(st2, o) + ClaimedFrom(u2, o)
      /\ Owed(st, u) = Sum(f, Addr) /\ Owed(st2, u2) = Sum(g, Addr)
  BY DEF Owed
<1> HIDE DEF f, g
<1>5. Sum(g, Addr) = Sum(f, Addr) - f[o] + g[o]
  BY <1>1, <1>2, <1>3, AddrFinite, SumUpdate
<1>6. QED
  BY <1>4, <1>5

\* Two tables that differ at most for one operator and staker.
DiffersAt(f, g, o, s) ==
  /\ \A p \in Addr \ {o} : g[p] = f[p]
  /\ \A t \in Addr \ {s} : g[o][t] = f[o][t]

\* Setting the stake of one staker with one operator.
LEMMA OwedStake ==
  ASSUME NEW st \in Stakes, NEW u \in Queues, NEW o \in Addr, NEW s \in Addr,
         NEW st2 \in Stakes, DiffersAt(st, st2, o, s)
  PROVE  /\ \A p \in Addr \ {o} : StakedWith(st2, p) = StakedWith(st, p)
         /\ StakedWith(st2, o) = StakedWith(st, o) - st[o][s] + st2[o][s]
         /\ Owed(st2, u) = Owed(st, u) - st[o][s] + st2[o][s]
<1>1. \A p \in Addr \ {o} : StakedWith(st2, p) = StakedWith(st, p)
  BY DEF StakedWith, DiffersAt
<1>2. StakedWith(st2, o) = StakedWith(st, o) - st[o][s] + st2[o][s]
  <2> DEFINE f == st[o]
             g == st2[o]
  <2>1. (\A x \in Addr : f[x] \in Nat) /\ (\A x \in Addr : g[x] \in Nat)
    BY DEF Stakes
  <2>2. \A x \in Addr \ {s} : g[x] = f[x]
    BY DEF DiffersAt
  <2> HIDE DEF f, g
  <2>3. Sum(g, Addr) = Sum(f, Addr) - f[s] + g[s]
    BY <2>1, <2>2, AddrFinite, SumUpdate
  <2>4. QED
    BY <2>3 DEF f, g, StakedWith
<1>3. st[o][s] \in Nat /\ st2[o][s] \in Nat
  BY DEF Stakes
<1>4. Owed(st2, u) = Owed(st, u) - (StakedWith(st, o) + ClaimedFrom(u, o))
                       + (StakedWith(st2, o) + ClaimedFrom(u, o))
  BY <1>1, OwedUpdate
<1>5. /\ StakedWith(st, o) \in Nat /\ ClaimedFrom(u, o) \in Nat
      /\ Owed(st, u) \in Nat
  BY OwedType
<1>6. Owed(st2, u) = Owed(st, u) - st[o][s] + st2[o][s]
  BY <1>2, <1>3, <1>4, <1>5
<1>7. QED
  BY <1>1, <1>2, <1>6

\* Setting the queue of one staker with one operator.
LEMMA OwedQueue ==
  ASSUME NEW st \in Stakes, NEW u \in Queues, NEW o \in Addr, NEW s \in Addr,
         NEW u2 \in Queues, DiffersAt(u, u2, o, s)
  PROVE  Owed(st, u2) = Owed(st, u) - EntrySum(u[o][s]) + EntrySum(u2[o][s])
<1>1. \A p \in Addr \ {o} : ClaimedFrom(u2, p) = ClaimedFrom(u, p)
  BY DEF ClaimedFrom, DiffersAt
<1>2. EntrySum(u[o][s]) \in Nat /\ EntrySum(u2[o][s]) \in Nat
  BY EntrySumType DEF Queues
<1>3. ClaimedFrom(u2, o) = ClaimedFrom(u, o) - EntrySum(u[o][s]) + EntrySum(u2[o][s])
  <2> DEFINE f == [t \in Addr |-> EntrySum(u[o][t])]
             g == [t \in Addr |-> EntrySum(u2[o][t])]
  <2>1. \A x \in Addr : f[x] \in Nat
    BY EntrySumType DEF Queues
  <2>2. \A x \in Addr : g[x] \in Nat
    BY EntrySumType DEF Queues
  <2>3. \A x \in Addr \ {s} : g[x] = f[x]
    BY DEF DiffersAt
  <2>4. f[s] = EntrySum(u[o][s]) /\ g[s] = EntrySum(u2[o][s])
    OBVIOUS
  <2> HIDE DEF f, g
  <2>5. Sum(g, Addr) = Sum(f, Addr) - f[s] + g[s]
    BY <2>1, <2>2, <2>3, AddrFinite, SumUpdate
  <2>6. QED
    BY <2>4, <2>5 DEF f, g, ClaimedFrom
<1>4. Owed(st, u2) = Owed(st, u) - (StakedWith(st, o) + ClaimedFrom(u, o))
                       + (StakedWith(st, o) + ClaimedFrom(u2, o))
  BY <1>1, OwedUpdate
<1>5. /\ StakedWith(st, o) \in Nat /\ ClaimedFrom(u, o) \in Nat
      /\ Owed(st, u) \in Nat
  BY OwedType
<1>6. QED
  BY <1>2, <1>3, <1>4, <1>5

(* The invariant, step by step *)

\* What IInv says, with the definitions that pack the state opened.
LEMMA IInvParts ==
  ASSUME IInv
  PROVE  /\ info \in [Addr -> OperatorInfo]
         /\ stakes \in Stakes
         /\ unbondings \in Queues
         /\ balance \in Nat
         /\ now \in Nat
         /\ balance = Owed(stakes, unbondings) + InFlight
         /\ \A o \in Addr : info[o].totalStake = StakedWith(stakes, o)
BY WorldTypes
   DEF IInv, TypeOK, Solvent, Backed, TotalStakeIsSum, TotalsMatch, World, Stakes, Queues

\* A step that moves no money, no stake and no queue, and does not touch the
\* open call, keeps the invariant.
LEMMA NeutralStep ==
  ASSUME IInv, TypeOK', UNCHANGED <<stakes, unbondings, balance, frame, saved>>,
         frame.pc = "drain" => UNCHANGED now,
         \A o \in Addr : info'[o].totalStake = info[o].totalStake
  PROVE  IInv'
<1>1. Solvent' /\ TotalStakeIsSum'
  BY IInvParts DEF Solvent, Backed, TotalStakeIsSum, TotalsMatch, World, InFlight
<1>2. (frame.pc # "idle" => Backed(saved[1], 0) /\ TotalsMatch(saved[1]))'
  BY DEF IInv
<1>3. (frame.pc = "drain" => LoopInv)'
  BY DEF IInv, LoopInv, Queue, QueueBefore
<1>4. QED
  BY <1>1, <1>2, <1>3 DEF IInv

\* In a call from outside the loop is not running.
LEMMA CallerRuns ==
  ASSUME NEW a, CanCall(a)
  PROVE  frame.pc # "drain" /\ InFlight = 0
BY DEF CanCall, InFlight

\* A step of a caller keeps the invariant if it keeps the debt covered and
\* the totals exact: the open call is not its business.
LEMMA CallerStep ==
  ASSUME IInv, TypeOK', NEW a, CanCall(a), UNCHANGED <<frame, saved>>,
         balance' = Owed(stakes', unbondings'),
         \A o \in Addr : info'[o].totalStake = StakedWith(stakes', o)
  PROVE  IInv'
<1>1. frame.pc # "drain" /\ frame' = frame
  BY CallerRuns
<1>2. balance' \in Nat
  BY WorldTypes DEF TypeOK, WorldOK, World
<1>3. Solvent' /\ TotalStakeIsSum'
  BY <1>1, <1>2 DEF Solvent, Backed, TotalStakeIsSum, TotalsMatch, World, InFlight
<1>4. (frame.pc # "idle" => Backed(saved[1], 0) /\ TotalsMatch(saved[1]))'
  BY DEF IInv
<1>5. QED
  BY <1>1, <1>3, <1>4 DEF IInv

LEMMA StakeInv ==
  ASSUME IInv, TypeOK', NEW a \in Addr, NEW operator \in Addr,
         NEW staker \in Stakers \cup {0}, NEW value \in 0..wallet[a],
         StakeFor(a, operator, staker, value)
  PROVE  IInv'
<1>1. /\ info \in [Addr -> OperatorInfo] /\ stakes \in Stakes /\ unbondings \in Queues
      /\ balance = Owed(stakes, unbondings) + InFlight
      /\ \A o \in Addr : info[o].totalStake = StakedWith(stakes, o)
  BY IInvParts
<1>2. value \in Nat /\ staker \in Addr /\ CanCall(a)
  BY ValueAssumption, WorldTypes DEF IInv, TypeOK, StakeFor
<1>3. InFlight = 0
  BY <1>2, CallerRuns
<1>4. stakes[operator][staker] + value \in Nat /\ stakes[operator][staker] \in Nat
  BY <1>1, <1>2 DEF Stakes
<1>5. stakes' = [stakes EXCEPT ![operator][staker] = stakes[operator][staker] + value]
  BY <1>1 DEF StakeFor
<1>6. /\ \A p \in Addr \ {operator} : StakedWith(stakes', p) = StakedWith(stakes, p)
      /\ StakedWith(stakes', operator) = StakedWith(stakes, operator) + value
      /\ Owed(stakes', unbondings) = Owed(stakes, unbondings) + value
  <2>1. /\ \A p \in Addr \ {operator} : StakedWith(stakes', p) = StakedWith(stakes, p)
        /\ StakedWith(stakes', operator) = StakedWith(stakes, operator)
             - stakes[operator][staker] + (stakes[operator][staker] + value)
        /\ Owed(stakes', unbondings) = Owed(stakes, unbondings)
             - stakes[operator][staker] + (stakes[operator][staker] + value)
    <3>1. stakes \in Stakes /\ stakes' \in Stakes /\ unbondings \in Queues
      BY <1>1, <1>2, <1>4, <1>5 DEF Stakes
    <3>2. /\ DiffersAt(stakes, stakes', operator, staker)
          /\ stakes'[operator][staker] = stakes[operator][staker] + value
      BY <1>1, <1>2, <1>5 DEF DiffersAt, Stakes
    <3>3. QED
      BY <1>2, <3>1, <3>2, OwedStake
  <2>2. StakedWith(stakes, operator) \in Nat /\ Owed(stakes, unbondings) \in Nat
    BY <1>1, OwedType
  <2>3. QED
    BY <1>2, <1>4, <2>1, <2>2
<1>7. \A o \in Addr : info'[o].totalStake = StakedWith(stakes', o)
  BY <1>1, <1>6 DEF StakeFor, OperatorInfo
<1>8. balance' = Owed(stakes', unbondings')
  <2>1. Owed(stakes, unbondings) \in Nat
    BY <1>1, OwedType
  <2>2. balance' = balance + value /\ unbondings' = unbondings
    BY DEF StakeFor
  <2>3. QED
    BY <1>1, <1>2, <1>3, <1>6, <2>1, <2>2
<1>9. QED
  BY <1>2, <1>7, <1>8, CallerStep DEF StakeFor, call

LEMMA UnstakeInv ==
  ASSUME IInv, TypeOK', NEW a \in Addr, NEW operator \in Addr,
         NEW amount \in 0..stakes[operator][a], RequestUnstake(a, operator, amount)
  PROVE  IInv'
<1>1. /\ info \in [Addr -> OperatorInfo] /\ stakes \in Stakes /\ unbondings \in Queues
      /\ now \in Nat /\ unbondingPeriod \in Nat
      /\ balance = Owed(stakes, unbondings) + InFlight
      /\ \A o \in Addr : info[o].totalStake = StakedWith(stakes, o)
  BY IInvParts, WorldTypes DEF IInv, TypeOK
<1>2. CanCall(a) /\ InFlight = 0
  BY CallerRuns DEF RequestUnstake
<1> DEFINE st == stakes[operator][a]
           q == unbondings[operator][a]
           e == [amount |-> amount, unlockTime |-> UnlockTime]
<1>3. amount \in Nat \ {0} /\ st \in Nat /\ st - amount \in Nat
  BY <1>1 DEF Stakes, RequestUnstake
<1>4. q \in Seq(Entry) /\ e \in Entry /\ Append(q, e) \in Seq(Entry)
  BY <1>1, <1>3 DEF Queues, Entry, UnlockTime
<1>5. /\ stakes' = [stakes EXCEPT ![operator][a] = st - amount]
      /\ unbondings' = [unbondings EXCEPT ![operator][a] = Append(q, e)]
      /\ balance' = balance
  BY <1>1 DEF RequestUnstake, money
<1>6. /\ stakes' \in Stakes
      /\ \A p \in Addr \ {operator} : StakedWith(stakes', p) = StakedWith(stakes, p)
      /\ StakedWith(stakes', operator) = StakedWith(stakes, operator) - st + (st - amount)
      /\ Owed(stakes', unbondings) = Owed(stakes, unbondings) - st + (st - amount)
  <2>1. stakes \in Stakes /\ stakes' \in Stakes /\ unbondings \in Queues
    BY <1>1, <1>3, <1>5 DEF Stakes
  <2>2. DiffersAt(stakes, stakes', operator, a) /\ stakes'[operator][a] = st - amount
    BY <1>1, <1>5 DEF DiffersAt, Stakes
  <2>3. QED
    BY <2>1, <2>2, OwedStake
<1>7. /\ Owed(stakes', unbondings') =
           Owed(stakes', unbondings) - EntrySum(q) + EntrySum(Append(q, e))
      /\ EntrySum(Append(q, e)) = EntrySum(q) + amount
      /\ EntrySum(q) \in Nat
  <2>1. stakes' \in Stakes /\ unbondings \in Queues /\ unbondings' \in Queues
    BY <1>1, <1>4, <1>5, <1>6 DEF Queues
  <2>2. /\ DiffersAt(unbondings, unbondings', operator, a)
        /\ unbondings'[operator][a] = Append(q, e)
    BY <1>1, <1>5 DEF DiffersAt, Queues
  <2>3. Owed(stakes', unbondings') =
           Owed(stakes', unbondings) - EntrySum(q) + EntrySum(Append(q, e))
    <3>1. Owed(stakes', unbondings') =
             Owed(stakes', unbondings) - EntrySum(unbondings[operator][a])
               + EntrySum(unbondings'[operator][a])
      BY <2>1, <2>2, OwedQueue, ZenonT(60)
    <3> HIDE DEF e
    <3>2. QED
      BY <2>2, <3>1
  <2>4. EntrySum(Append(q, e)) = EntrySum(q) + e.amount /\ EntrySum(q) \in Nat
    <3> HIDE DEF q, e
    <3>1. QED
      BY <1>4, AppendSum, EntrySumType
  <2>5. QED
    BY <2>3, <2>4
<1>8. StakedWith(stakes, operator) \in Nat /\ Owed(stakes, unbondings) \in Nat
  BY <1>1, OwedType
<1>9. \A o \in Addr : info'[o].totalStake = StakedWith(stakes', o)
  <2>1. StakedWith(stakes', operator) = StakedWith(stakes, operator) - amount
    BY <1>3, <1>6, <1>8
  <2>2. QED
    BY <1>1, <1>6, <2>1 DEF RequestUnstake, OperatorInfo
<1>10. balance' = Owed(stakes', unbondings')
  <2>1. balance = Owed(stakes, unbondings) + 0
    BY <1>1, <1>2
  <2> HIDE DEF st, q, e
  <2>2. QED
    BY <1>3, <1>5, <1>6, <1>7, <1>8, <2>1
<1>11. QED
  BY <1>2, <1>9, <1>10, CallerStep DEF RequestUnstake, call

\* At first nothing is at stake and nothing is owed.
LEMMA InitInv == Init => IInv
<1> SUFFICES ASSUME Init PROVE IInv
  OBVIOUS
<1>1. TypeOK
  BY InitTypes
<1>2. \A o \in Addr : StakedWith(stakes, o) = 0
  <2> TAKE o \in Addr
  <2>1. \A s \in Addr : stakes[o][s] = 0
    BY DEF Init
  <2>2. QED
    BY <2>1, SumZero DEF StakedWith
<1>3. \A o \in Addr : ClaimedFrom(unbondings, o) = 0
  <2> TAKE o \in Addr
  <2> DEFINE f == [s \in Addr |-> EntrySum(unbondings[o][s])]
  <2>1. EntrySum(<<>>) = 0
    <3> DEFINE g == [i \in 1..Len(<<>>) |-> (<<>>)[i].amount]
    <3>1. \A i \in 1..Len(<<>>) : g[i] = 0
      OBVIOUS
    <3>2. Sum(g, 1..Len(<<>>)) = 0
      BY <3>1, SumZero
    <3>3. QED
      BY <3>2 DEF EntrySum
  <2>2. \A s \in Addr : f[s] = 0
    BY <2>1 DEF Init
  <2>3. QED
    BY <2>2, SumZero DEF ClaimedFrom
<1>4. Owed(stakes, unbondings) = 0
  <2> DEFINE f == [o \in Addr |-> StakedWith(stakes, o) + ClaimedFrom(unbondings, o)]
  <2>1. \A o \in Addr : f[o] = 0
    BY <1>2, <1>3
  <2>2. QED
    BY <2>1, SumZero DEF Owed
<1>5. Solvent
  BY <1>4 DEF Init, NoFrame, Solvent, Backed, World, InFlight
<1>6. TotalStakeIsSum
  BY <1>2 DEF Init, NoOperator, TotalStakeIsSum, TotalsMatch, World
<1>7. QED
  BY <1>1, <1>5, <1>6 DEF IInv, Init, NoFrame

\* Opening a withdrawal: the loop has seen nothing and taken nothing.
LEMMA OpenInv ==
  ASSUME IInv, TypeOK', NEW a \in Addr, NEW operator \in Addr,
         WithdrawUnstaked(a, operator)
  PROVE  IInv'
<1>1. /\ frame.pc # "drain" /\ InFlight = 0 /\ World' = World
      /\ frame'.pc = "drain" /\ frame'.total = 0 /\ frame'.i = 1
      /\ saved'[1] = World
  BY CallerRuns DEF WithdrawUnstaked, World, records, params, money
<1>2. Backed(World, 0) /\ TotalsMatch(World)
  BY <1>1 DEF IInv, Solvent, TotalStakeIsSum
<1>3. InFlight' = 0
  BY <1>1 DEF InFlight
<1>4. Solvent' /\ TotalStakeIsSum'
  BY <1>1, <1>2, <1>3 DEF Solvent, TotalStakeIsSum, Backed, TotalsMatch
<1>5. (Backed(saved[1], 0) /\ TotalsMatch(saved[1]))'
  BY <1>1, <1>2 DEF Backed, TotalsMatch
<1>6. LoopInv'
  <2>1. Queue' = unbondings[operator][a] /\ QueueBefore' = unbondings[operator][a]
    BY DEF WithdrawUnstaked, Queue, QueueBefore, World, records
  <2>2. unbondings[operator][a] \in Seq(Entry) /\ now \in Nat /\ now' = now
    BY IInvParts DEF Queues, WithdrawUnstaked
  <2>3. DueSum(unbondings[operator][a], now) \in Nat
    BY <2>2, DueSumType
  <2>4. QED
    BY <1>1, <2>1, <2>2, <2>3 DEF LoopInv
<1>7. QED
  BY <1>1, <1>4, <1>5, <1>6 DEF IInv

\* The facts about an open withdrawal that its steps use.
LEMMA OpenParts ==
  ASSUME IInv, frame.pc # "idle"
  PROVE  /\ frame \in Running
         /\ frame.sender \in Addr /\ frame.operator \in Addr
         /\ frame.total \in Nat /\ frame.i \in Nat \ {0}
         /\ Queue \in Seq(Entry)
         /\ QueueBefore \in Seq(Entry)
         /\ Backed(saved[1], 0) /\ TotalsMatch(saved[1])
         /\ WorldOK(saved[1])
<1>1. TypeOK
  BY DEF IInv
<1>2. frame \in Running /\ WorldOK(saved[1])
  BY <1>1, OpenCall
<1>3. /\ frame.sender \in Addr /\ frame.operator \in Addr
      /\ frame.total \in Nat /\ frame.i \in Nat \ {0}
  BY <1>2 DEF Running
<1>4. Queue \in Seq(Entry)
  BY <1>3, IInvParts DEF Queue, Queues
<1>5. QueueBefore \in Seq(Entry)
  BY <1>2, <1>3 DEF QueueBefore, WorldOK
<1>6. QED
  BY <1>2, <1>3, <1>4, <1>5 DEF IInv

\* A round that takes a due entry out moves its amount from the queue to the
\* total, whatever entry takes its place.
LEMMA DrainMatureInv ==
  ASSUME IInv, TypeOK', DrainMature
  PROVE  IInv'
<1> DEFINE o == frame.operator
           s == frame.sender
           i == frame.i
           r == SwapAndPop(Queue, i)
<1>1. frame.pc = "drain" /\ LoopInv
  BY DEF DrainMature, IInv
<1>2. /\ frame \in Running /\ o \in Addr /\ s \in Addr /\ frame.total \in Nat
      /\ i \in Nat \ {0} /\ Queue \in Seq(Entry)
      /\ Backed(saved[1], 0) /\ TotalsMatch(saved[1])
  BY <1>1, OpenParts
<1>3. i \in 1..Len(Queue) /\ Queue[i].unlockTime <= now /\ now \in Nat
  BY <1>2, IInvParts DEF DrainMature
<1>4. /\ EntrySum(r) = EntrySum(Queue) - Queue[i].amount
      /\ DueSum(r, now) = DueSum(Queue, now) - Queue[i].amount
      /\ r \in Seq(Entry) /\ Len(r) = Len(Queue) - 1
      /\ EntrySum(Queue) \in Nat /\ DueSum(Queue, now) \in Nat
      /\ Queue[i].amount \in Nat
  BY <1>2, <1>3, DrainSum, SwapAndPopType, EntrySumType, DueSumType
<1>5. /\ frame' = [frame EXCEPT !.total = frame.total + Queue[i].amount]
      /\ unbondings' = [unbondings EXCEPT ![o][s] = r]
      /\ UNCHANGED <<info, stakes, balance, saved, now>>
  BY DEF DrainMature, Queue, money
<1>6. /\ frame'.total = frame.total + Queue[i].amount
      /\ frame'.pc = "drain" /\ frame'.i = i /\ frame'.operator = o /\ frame'.sender = s
  BY <1>1, <1>2, <1>5 DEF Running
<1>7. unbondings \in Queues /\ stakes \in Stakes
  BY IInvParts
<1>8. unbondings' \in Queues /\ DiffersAt(unbondings, unbondings', o, s)
      /\ unbondings'[o][s] = r /\ Queue = unbondings[o][s]
  BY <1>2, <1>4, <1>5, <1>7 DEF Queues, DiffersAt, Queue
<1>9. Owed(stakes, unbondings') = Owed(stakes, unbondings) - Queue[i].amount
  <2>1. Owed(stakes, unbondings') = Owed(stakes, unbondings)
           - EntrySum(unbondings[o][s]) + EntrySum(unbondings'[o][s])
    BY <1>2, <1>7, <1>8, OwedQueue
  <2>2. Owed(stakes, unbondings) \in Nat
    BY <1>7, OwedType
  <2> HIDE DEF r, o, s, i
  <2>3. QED
    BY <1>4, <1>8, <2>1, <2>2
<1>10. Solvent'
  <2>1. balance = Owed(stakes, unbondings) + frame.total
    BY <1>1, IInvParts DEF InFlight
  <2>2. Owed(stakes, unbondings) \in Nat
    BY <1>7, OwedType
  <2>3. balance = Owed(stakes, unbondings') + (frame.total + Queue[i].amount)
    BY <1>2, <1>4, <1>9, <2>1, <2>2
  <2>4. QED
    BY <1>5, <1>6, <2>3 DEF Solvent, Backed, World, InFlight
<1>11. TotalStakeIsSum'
  BY <1>5 DEF IInv, TotalStakeIsSum, TotalsMatch, World
<1>12. LoopInv'
  <2>1. Queue' = r /\ QueueBefore' = QueueBefore
    BY <1>5, <1>6, <1>8 DEF Queue, QueueBefore
  <2>2. \A j \in 1..(i - 1) : r[j].unlockTime > now
    <3> TAKE j \in 1..(i - 1)
    <3>1. j \in 1..(Len(Queue) - 1) /\ j # i
      BY <1>2, <1>3
    <3>2. r[j] = Queue[j]
      BY <3>1 DEF SwapAndPop
    <3>3. QED
      BY <1>1, <3>2 DEF LoopInv
  <2>3. i <= Len(r) + 1
    BY <1>3, <1>4
  <2>4. (frame.total + Queue[i].amount) + DueSum(r, now) = DueSum(QueueBefore, now)
    <3>1. frame.total + DueSum(Queue, now) = DueSum(QueueBefore, now)
      BY <1>1 DEF LoopInv
    <3> HIDE DEF r, i
    <3>2. QED
      BY <1>2, <1>4, <3>1
  <2> HIDE DEF r
  <2>5. QED
    BY <1>5, <1>6, <2>1, <2>2, <2>3, <2>4 DEF LoopInv
<1>13. QED
  BY <1>2, <1>5, <1>6, <1>10, <1>11, <1>12 DEF IInv, Backed, TotalsMatch

\* A round that keeps an entry only moves past one that is not due.
LEMMA DrainKeepInv ==
  ASSUME IInv, TypeOK', DrainKeep
  PROVE  IInv'
<1>1. /\ frame.pc = "drain" /\ LoopInv
      /\ frame \in Running /\ frame.i \in Nat \ {0} /\ Queue \in Seq(Entry)
      /\ Backed(saved[1], 0) /\ TotalsMatch(saved[1])
  BY OpenParts DEF DrainKeep, IInv
<1>2. /\ frame'.pc = "drain" /\ frame'.total = frame.total /\ frame'.i = frame.i + 1
      /\ frame'.operator = frame.operator /\ frame'.sender = frame.sender
  BY <1>1 DEF DrainKeep, Running
<1>3. UNCHANGED <<info, stakes, unbondings, balance, saved, now>>
  BY DEF DrainKeep, records, money
<1>4. Solvent' /\ TotalStakeIsSum'
  BY <1>1, <1>2, <1>3
     DEF IInv, Solvent, TotalStakeIsSum, Backed, TotalsMatch, World, InFlight
<1>5. Queue' = Queue /\ QueueBefore' = QueueBefore
  BY <1>2, <1>3 DEF Queue, QueueBefore
<1>6. frame.i <= Len(Queue) /\ Queue[frame.i].unlockTime > now
  BY DEF DrainKeep
<1>7. \A j \in 1..((frame.i + 1) - 1) : Queue[j].unlockTime > now
  BY <1>1, <1>6 DEF LoopInv
<1>8. LoopInv'
  BY <1>1, <1>2, <1>3, <1>5, <1>6, <1>7 DEF LoopInv
<1>9. QED
  BY <1>1, <1>2, <1>3, <1>4, <1>8 DEF IInv, Backed, TotalsMatch

\* When the loop ends nothing due is left in the queue, so the total is all
\* that was due, and the contract can pay it.
LEMMA LoopDone ==
  ASSUME IInv, frame.pc = "drain", frame.i > Len(Queue)
  PROVE  frame.total = DueSum(QueueBefore, now) /\ frame.total <= balance
<1>1. /\ LoopInv /\ Queue \in Seq(Entry) /\ frame.total \in Nat /\ frame.i \in Nat
      /\ now \in Nat
  BY OpenParts, IInvParts DEF IInv
<1>2. frame.i = Len(Queue) + 1
  BY <1>1 DEF LoopInv
<1>3. \A j \in 1..Len(Queue) : Queue[j].unlockTime > now
  BY <1>1, <1>2 DEF LoopInv
<1>4. DueSum(Queue, now) = 0
  BY <1>1, <1>3, DueSumType
<1>5. frame.total = DueSum(QueueBefore, now)
  BY <1>1, <1>4 DEF LoopInv
<1>6. balance = Owed(stakes, unbondings) + frame.total /\ Owed(stakes, unbondings) \in Nat
  BY IInvParts, OwedType DEF InFlight
<1>7. QED
  BY <1>1, <1>5, <1>6

LEMMA PayInv ==
  ASSUME IInv, TypeOK', Pay
  PROVE  IInv'
<1>1. /\ frame.pc = "drain" /\ frame \in Running /\ frame.total \in Nat
      /\ Backed(saved[1], 0) /\ TotalsMatch(saved[1])
  BY OpenParts DEF Pay
<1>2. frame'.pc = "call"
  BY <1>1 DEF Pay, Running
<1>3. UNCHANGED <<info, stakes, unbondings, saved, now>> /\ balance' = balance - frame.total
  BY DEF Pay, records
<1>4. balance = Owed(stakes, unbondings) + frame.total /\ Owed(stakes, unbondings) \in Nat
  BY <1>1, IInvParts, OwedType DEF InFlight
<1>5. balance' = Owed(stakes, unbondings) + 0
  BY <1>1, <1>3, <1>4
<1>6. Solvent'
  BY <1>2, <1>3, <1>5 DEF Solvent, Backed, World, InFlight
<1>7. TotalStakeIsSum'
  BY <1>3 DEF IInv, TotalStakeIsSum, TotalsMatch, World
<1>8. QED
  BY <1>1, <1>2, <1>3, <1>6, <1>7 DEF IInv, Backed, TotalsMatch

\* A return keeps what the nested calls did; a failure goes back to a state
\* in which every debt was covered.
LEMMA EndInv ==
  ASSUME IInv, TypeOK', Return \/ Fail
  PROVE  IInv'
<1>1. CASE Return
  <2>1. frame.pc = "call" /\ frame'.pc = "idle"
    BY <1>1 DEF Return, NoFrame
  <2>2. UNCHANGED <<info, stakes, unbondings, balance>>
    BY <1>1 DEF Return, records, money
  <2>3. Solvent' /\ TotalStakeIsSum'
    BY <2>1, <2>2 DEF IInv, Solvent, TotalStakeIsSum, Backed, TotalsMatch, World, InFlight
  <2>4. QED
    BY <2>1, <2>3 DEF IInv
<1>2. CASE Fail
  <2>1. Backed(saved[1], 0) /\ TotalsMatch(saved[1])
    BY <1>2, OpenParts DEF Fail
  <2>2. /\ info' = saved[1].info /\ stakes' = saved[1].stakes
        /\ unbondings' = saved[1].unbondings /\ balance' = saved[1].balance
        /\ frame'.pc = "idle"
    BY <1>2 DEF Fail, RollBack, NoFrame
  <2>3. Solvent' /\ TotalStakeIsSum'
    BY <2>1, <2>2 DEF Solvent, TotalStakeIsSum, Backed, TotalsMatch, World, InFlight
  <2>4. QED
    BY <2>2, <2>3 DEF IInv
<1>3. QED
  BY <1>1, <1>2

\* The functions that handle no money.
LEMMA OperatorInv ==
  ASSUME IInv, TypeOK', NEW a \in Addr, Operator(a)
  PROVE  IInv'
<1>1. info \in [Addr -> OperatorInfo]
  BY IInvParts
<1>2. ASSUME NEW key, NEW payout, RegisterOperator(a, key, payout)
      PROVE  IInv'
  <2>1. \A o \in Addr : info'[o].totalStake = info[o].totalStake
    BY <1>1, <1>2 DEF RegisterOperator, OperatorInfo
  <2>2. QED
    BY <1>2, <2>1, NeutralStep DEF RegisterOperator, money, call
<1>3. ASSUME NEW key, UpdateConsensusKey(a, key)
      PROVE  IInv'
  <2>1. \A o \in Addr : info'[o].totalStake = info[o].totalStake
    BY <1>1, <1>3 DEF UpdateConsensusKey, OperatorInfo
  <2>2. QED
    BY <1>3, <2>1, NeutralStep DEF UpdateConsensusKey, money, call
<1>4. ASSUME NEW payout, UpdatePayout(a, payout)
      PROVE  IInv'
  <2>1. \A o \in Addr : info'[o].totalStake = info[o].totalStake
    BY <1>1, <1>4 DEF UpdatePayout, OperatorInfo
  <2>2. QED
    BY <1>4, <2>1, NeutralStep DEF UpdatePayout, money, call
<1>5. QED
  BY <1>2, <1>3, <1>4 DEF Operator

LEMMA OwnerInv ==
  ASSUME IInv, TypeOK', NEW a \in Addr, Owner(a)
  PROVE  IInv'
<1>1. info \in [Addr -> OperatorInfo]
  BY IInvParts
<1>2. ASSUME NEW operator \in Addr, NEW jailed, SetJailed(a, operator, jailed)
      PROVE  IInv'
  <2>1. \A o \in Addr : info'[o].totalStake = info[o].totalStake
    BY <1>1, <1>2 DEF SetJailed, OperatorInfo
  <2>2. QED
    BY <1>2, <2>1, NeutralStep DEF SetJailed, money, call
<1>3. ASSUME NEW p, SetMinStake(a, p) \/ SetMaxValidators(a, p)
                    \/ SetUnbondingPeriod(a, p) \/ TransferOwnership(a, p)
      PROVE  IInv'
  BY <1>3, NeutralStep
     DEF SetMinStake, SetMaxValidators, SetUnbondingPeriod, TransferOwnership,
         records, money, call
<1>4. QED
  BY <1>2, <1>3 DEF Owner

LEMMA NextInv ==
  ASSUME IInv, [Next]_vars
  PROVE  IInv'
<1>1. TypeOK'
  BY NextTypes DEF IInv
<1>2. ASSUME NEW a \in Addr, Operator(a) \/ Owner(a)
      PROVE  IInv'
  BY <1>1, <1>2, OperatorInv, OwnerInv
<1>3. ASSUME NEW a \in Addr, Staker(a)
      PROVE  IInv'
  BY <1>1, <1>3, StakeInv, UnstakeInv, OpenInv DEF Staker
<1>4. CASE Withdrawal
  BY <1>1, <1>4, DrainMatureInv, DrainKeepInv, PayInv, EndInv DEF Withdrawal
<1>5. CASE Tick
  BY <1>1, <1>5, NeutralStep DEF Tick, records, money, call
<1>6. CASE UNCHANGED vars
  BY <1>1, <1>6, NeutralStep DEF vars, records, money, call
<1>7. QED
  BY <1>2, <1>3, <1>4, <1>5, <1>6 DEF Next

(* The theorems *)

\* IInv holds in every reachable state.
THEOREM InvariantHolds == Spec => []IInv
<1>1. Init => IInv
  BY InitInv
<1>2. IInv /\ [Next]_vars => IInv'
  BY NextInv
<1>3. QED
  BY <1>1, <1>2, PTL DEF Spec

\* The contract always holds exactly what it owes, whoever re-enters it and
\* whatever a failed payment rolls back (QikStaking.sol:78-127).
THEOREM Solvency == Spec => []Solvent
BY InvariantHolds, PTL DEF IInv

\* An operator's running total is always the sum of its stakers' stakes
\* (QikStaking.sol:85-98).
THEOREM RankedByStake == Spec => []TotalStakeIsSum
BY InvariantHolds, PTL DEF IInv

\* Every withdrawal that pays, pays exactly the entries that were due when it
\* was called (QikStaking.sol:109-123).
THEOREM WithdrawalsAreExact == Spec => PaysExactlyDue
<1>1. IInv /\ Pay => frame.total = DueSum(QueueBefore, now)
  BY LoopDone DEF Pay
<1>2. IInv /\ [Next]_vars => [Pay => frame.total = DueSum(QueueBefore, now)]_vars
  BY <1>1
<1>3. QED
  BY <1>2, InvariantHolds, PTL DEF Spec, PaysExactlyDue

\* A withdrawal never fails for lack of funds, nor because the loop missed
\* something due (QikStaking.sol:121-124).
THEOREM WithdrawalsSucceed == Spec => FailsOnlyWithReason
<1>1. IInv /\ Fail => DueSum(QueueBefore, now) = 0 \/ frame.sender \in Contracts
  <2> SUFFICES ASSUME IInv, Fail, frame.sender \notin Contracts
               PROVE  DueSum(QueueBefore, now) = 0
    OBVIOUS
  <2>1. frame.pc = "drain" /\ frame.i > Len(Queue)
        /\ (frame.total = 0 \/ balance < frame.total)
    BY DEF Fail, CannotPay
  <2>2. frame.total = DueSum(QueueBefore, now) /\ frame.total <= balance
    BY <2>1, LoopDone
  <2>3. balance \in Nat /\ frame.total \in Nat
    BY <2>1, OpenParts, IInvParts
  <2>4. QED
    BY <2>1, <2>2, <2>3
<1>2. IInv /\ [Next]_vars =>
        [Fail => DueSum(QueueBefore, now) = 0 \/ frame.sender \in Contracts]_vars
  BY <1>1
<1>3. QED
  BY <1>2, InvariantHolds, PTL DEF Spec, FailsOnlyWithReason

-----------------------------------------------------------------------------
(* The ledger: the bag of a queue *)

Places(q, c) == {i \in 1..Len(q) : q[i] = c}
Copies(q, c) == Cardinality(Places(q, c))
Entries(q) == {q[i] : i \in 1..Len(q)}

\* The copies are a sum of ones, so that the lemmas about sums apply.
LEMMA CopiesAreSum ==
  ASSUME NEW q \in Seq(Entry), NEW c
  PROVE  Copies(q, c) = Sum([i \in 1..Len(q) |-> IF q[i] = c THEN 1 ELSE 0], 1..Len(q))
<1> DEFINE f == [i \in 1..Len(q) |-> IF q[i] = c THEN 1 ELSE 0]
           P == Places(q, c)
           C == Coins(f, 1..Len(q))
           b == [i \in P |-> <<i, 1>>]
<1>1. IsFiniteSet(P)
  <2>1. IsFiniteSet(1..Len(q))
    BY FS_Interval
  <2>2. QED
    BY <2>1, FS_Subset DEF Places
<1>2. C = {<<i, 1>> : i \in P}
  <2>1. \A i \in 1..Len(q) : {i} \X (1..f[i]) = IF q[i] = c THEN {<<i, 1>>} ELSE {}
    OBVIOUS
  <2>2. C = UNION {IF q[i] = c THEN {<<i, 1>>} ELSE {} : i \in 1..Len(q)}
    BY <2>1 DEF Coins
  <2>3. QED
    BY <2>2 DEF Places
<1> HIDE DEF C, P
<1>3. b \in Bijection(P, C)
  <2>1. b \in [P -> C]
    BY <1>2
  <2>2. \A i, j \in P : b[i] = b[j] => i = j
    OBVIOUS
  <2>3. \A d \in C : \E i \in P : b[i] = d
    BY <1>2
  <2>5. DOMAIN b = P
    OBVIOUS
  <2> HIDE DEF b
  <2>4. QED
    BY <2>1, <2>2, <2>3, <2>5 DEF Bijection, Injection, Surjection, IsInjective
<1>4. Cardinality(P) = Cardinality(C)
  <2> HIDE DEF b
  <2> QED
    BY <1>1, <1>3, FS_Bijection DEF ExistsBijection
<1>5. QED
  BY <1>4 DEF Copies, Sum, C, P

\* Only what is in the queue has copies.
LEMMA CopiesType ==
  ASSUME NEW q \in Seq(Entry), NEW c
  PROVE  /\ Copies(q, c) \in Nat
         /\ Copies(q, c) > 0 <=> c \in Entries(q)
<1>1. IsFiniteSet(Places(q, c))
  <2>1. IsFiniteSet(1..Len(q))
    BY FS_Interval
  <2>2. QED
    BY <2>1, FS_Subset DEF Places
<1>2. Copies(q, c) \in Nat /\ (Copies(q, c) = 0 <=> Places(q, c) = {})
  BY <1>1, FS_CardinalityType, FS_EmptySet DEF Copies
<1>3. Places(q, c) = {} <=> c \notin Entries(q)
  BY DEF Places, Entries
<1>4. QED
  BY <1>2, <1>3

\* An entry that is added has one copy more, the others as many as before.
LEMMA CopiesAppend ==
  ASSUME NEW q \in Seq(Entry), NEW e \in Entry, NEW c
  PROVE  Copies(Append(q, e), c) = Copies(q, c) + (IF c = e THEN 1 ELSE 0)
<1> DEFINE n == Len(q)
           r == Append(q, e)
           f == [i \in 1..(n + 1) |-> IF r[i] = c THEN 1 ELSE 0]
           g == [i \in 1..n |-> IF q[i] = c THEN 1 ELSE 0]
<1>1. r \in Seq(Entry) /\ Len(r) = n + 1 /\ n \in Nat
  OBVIOUS
<1>2. /\ IsFiniteSet(1..(n + 1))
      /\ n + 1 \in 1..(n + 1) /\ (1..(n + 1)) \ {n + 1} = 1..n
  <2>1. IsFiniteSet(1..(n + 1))
    BY <1>1, n + 1 \in Int, FS_Interval
  <2>2. QED
    BY <1>1, <2>1
<1>3. \A j \in 1..(n + 1) : f[j] \in Nat
  OBVIOUS
<1>4. Sum(f, 1..(n + 1)) = f[n + 1] + Sum(f, 1..n)
  BY <1>2, <1>3, SumSplit
<1>5. Sum(f, 1..n) = Sum(g, 1..n)
  <2>1. \A j \in 1..n : f[j] = g[j]
    BY <1>1
  <2>2. QED
    BY <2>1, SumSame
<1>6. f[n + 1] = IF c = e THEN 1 ELSE 0
  BY <1>1
<1>7. Sum(f, 1..(n + 1)) = Copies(r, c) /\ Sum(g, 1..n) = Copies(q, c)
  BY <1>1, CopiesAreSum
<1>8. Copies(q, c) \in Nat
  BY CopiesType
<1> HIDE DEF f, g, n, r
<1>9. Copies(r, c) = Copies(q, c) + (IF c = e THEN 1 ELSE 0)
  BY <1>4, <1>5, <1>6, <1>7, <1>8
<1>10. QED
  BY <1>9 DEF r

\* Swap-and-pop takes one copy of one entry, wherever it was.
LEMMA CopiesSwapAndPop ==
  ASSUME NEW q \in Seq(Entry), NEW i \in 1..Len(q), NEW c
  PROVE  Copies(SwapAndPop(q, i), c) = Copies(q, c) - (IF c = q[i] THEN 1 ELSE 0)
<1> DEFINE n == Len(q)
           r == SwapAndPop(q, i)
           f == [j \in 1..n |-> IF q[j] = c THEN 1 ELSE 0]
           g == [j \in 1..(n - 1) |-> IF r[j] = c THEN 1 ELSE 0]
<1>1. n \in Nat /\ r \in Seq(Entry) /\ Len(r) = n - 1
  BY SwapAndPopType
<1>2. \A j \in 1..n : f[j] \in Nat
  OBVIOUS
<1>3. \A j \in 1..(n - 1) : g[j] = IF j = i THEN f[n] ELSE f[j]
  BY <1>1 DEF SwapAndPop
<1>4. i \in 1..n
  OBVIOUS
<1>5. f[i] = IF c = q[i] THEN 1 ELSE 0
  OBVIOUS
<1>6. Sum(f, 1..n) = Copies(q, c) /\ Sum(g, 1..(n - 1)) = Copies(r, c)
  BY <1>1, CopiesAreSum
<1> HIDE DEF f, g, n, r
<1>7. Sum(g, 1..(n - 1)) = Sum(f, 1..n) - f[i]
  BY <1>1, <1>2, <1>3, <1>4, SwapAndPopSum
<1>8. Copies(r, c) = Copies(q, c) - (IF c = q[i] THEN 1 ELSE 0)
  BY <1>5, <1>6, <1>7
<1>9. QED
  BY <1>8 DEF r

\* The counting of the library is the counting of the lemmas.
LEMMA SameCount ==
  ASSUME NEW S
  PROVE  B!Cardinality(S) = Cardinality(S) /\ Ledger!Cardinality(S) = Cardinality(S)
BY DEF B!Cardinality, Ledger!Cardinality, Cardinality

\* The bag of a queue counts the copies of its entries.
LEMMA BagOfQueue ==
  ASSUME NEW q \in Seq(Entry)
  PROVE  B!ToBag(q) = [c \in Entries(q) |-> Copies(q, c)]
<1>1. DOMAIN q = 1..Len(q)
  OBVIOUS
<1>2. DOMAIN B!ToBag(q) = Entries(q)
  BY <1>1 DEF B!ToBag, B!Range, Entries
<1>3. \A c \in Entries(q) : B!ToBag(q)[c] = B!Cardinality(Places(q, c))
  BY <1>1 DEF B!ToBag, B!Range, Entries, Places
<1>4. \A c \in Entries(q) : B!ToBag(q)[c] = Copies(q, c)
  BY <1>3, SameCount DEF Copies
<1>5. B!ToBag(q) = [c \in Entries(q) |-> B!ToBag(q)[c]]
  BY <1>1 DEF B!ToBag, B!Range, Entries
<1>6. QED
  BY <1>4, <1>5

----------------------------------------------------------------------------
(* What is due of a queue, as a bag *)

DueIn(q, t) == {c \in Entries(q) : c.unlockTime <= t}
DueWorth(q, t) == Sum([c \in DueIn(q, t) |-> c.amount * Copies(q, c)], DueIn(q, t))

\* A queue has finitely many entries, each with an amount and a time.
LEMMA EntriesType ==
  ASSUME NEW q \in Seq(Entry)
  PROVE  /\ IsFiniteSet(Entries(q))
         /\ \A c \in Entries(q) : c \in Entry /\ c.amount \in Nat \ {0} /\ c.unlockTime \in Nat
<1> DEFINE f == [i \in 1..Len(q) |-> q[i]]
<1>1. f \in Surjection(1..Len(q), Entries(q))
  BY DEF Surjection, Entries
<1>2. IsFiniteSet(1..Len(q))
  BY FS_Interval
<1>3. IsFiniteSet(Entries(q))
  <2> HIDE DEF f
  <2> QED
    BY <1>1, <1>2, FS_Surjection
<1>4. \A c \in Entries(q) : c \in Entry
  BY DEF Entries
<1>5. \A c \in Entry : c.amount \in Nat \ {0} /\ c.unlockTime \in Nat
  BY DEF Entry
<1>6. QED
  BY <1>3, <1>4, <1>5

\* What is due is worth a natural, and nothing if nothing is due.
LEMMA DueWorthType ==
  ASSUME NEW q \in Seq(Entry), NEW t \in Nat
  PROVE  /\ DueWorth(q, t) \in Nat
         /\ IsFiniteSet(DueIn(q, t))
         /\ DueIn(q, t) = {} => DueWorth(q, t) = 0
<1> DEFINE S == DueIn(q, t)
           f == [c \in S |-> c.amount * Copies(q, c)]
<1>1. IsFiniteSet(S)
  <2>1. S \subseteq Entries(q)
    BY DEF DueIn
  <2>2. QED
    BY <2>1, EntriesType, FS_Subset
<1>2. \A c \in S : f[c] \in Nat
  <2> TAKE c \in S
  <2>1. c.amount \in Nat /\ Copies(q, c) \in Nat
    BY EntriesType, CopiesType DEF DueIn
  <2>2. QED
    BY <2>1
<1> HIDE DEF f
<1>3. Sum(f, S) \in Nat
  BY <1>1, <1>2, SumType
<1>4. S = {} => Sum(f, S) = 0
  BY SumZero
<1>5. QED
  BY <1>1, <1>3, <1>4 DEF DueWorth, f

\* Taking a due entry out takes its amount out of what is due.
LEMMA DueWorthSwapAndPop ==
  ASSUME NEW q \in Seq(Entry), NEW i \in 1..Len(q), NEW t \in Nat, q[i].unlockTime <= t
  PROVE  DueWorth(SwapAndPop(q, i), t) = DueWorth(q, t) - q[i].amount
<1> DEFINE r == SwapAndPop(q, i)
           e == q[i]
           S == DueIn(q, t)
           T == DueIn(r, t)
           f == [c \in S |-> c.amount * Copies(q, c)]
           g == [c \in S |-> c.amount * Copies(r, c)]
           h == [c \in T |-> c.amount * Copies(r, c)]
<1>1. r \in Seq(Entry)
  BY SwapAndPopType
<1>2. \A c : /\ Copies(q, c) \in Nat /\ Copies(r, c) \in Nat
             /\ Copies(r, c) = Copies(q, c) - (IF c = e THEN 1 ELSE 0)
  BY <1>1, CopiesType, CopiesSwapAndPop
<1>3. IsFiniteSet(S) /\ \A c \in S : c.amount \in Nat
  BY DueWorthType, EntriesType DEF DueIn
<1>4. e \in S /\ e.amount \in Nat
  BY EntriesType DEF DueIn, Entries
<1>5. T \in SUBSET S /\ \A c \in S \ T : Copies(r, c) = 0
  <2>1. \A c : c \in Entries(r) => Copies(q, c) > 0
    BY <1>1, <1>2, CopiesType
  <2>2. Entries(r) \subseteq Entries(q)
    BY <2>1, CopiesType
  <2>3. \A c : c \notin Entries(r) => Copies(r, c) = 0
    BY <1>1, <1>2, CopiesType
  <2>4. QED
    BY <2>2, <2>3 DEF DueIn
<1>6. (\A c \in S : f[c] \in Nat) /\ (\A c \in S : g[c] \in Nat)
  BY <1>2, <1>3
<1>7. \A c \in S \ {e} : g[c] = f[c]
  BY <1>2, <1>3
<1>8. g[e] = f[e] - e.amount
  <2>1. \A a, k \in Nat : a * (k - 1) = a * k - a
    OBVIOUS
  <2>2. g[e] = e.amount * (Copies(q, e) - 1) /\ f[e] = e.amount * Copies(q, e)
    BY <1>2, <1>4
  <2>3. Copies(q, e) \in Nat
    BY <1>2
  <2> HIDE DEF f, g, e
  <2>4. QED
    BY <1>4, <2>1, <2>2, <2>3
<1>9. Sum(g, S) = Sum(h, T)
  <2>1. \A c \in S \ T : g[c] = 0
    BY <1>3, <1>5
  <2>2. \A c \in T : g[c] = h[c]
    BY <1>5
  <2> HIDE DEF g, h, S, T
  <2>3. Sum(g, S) = Sum(g, T)
    BY <1>5, <2>1, SumSupport
  <2>4. Sum(g, T) = Sum(h, T)
    BY <2>2, SumSame
  <2>5. QED
    BY <2>3, <2>4
<1>10. Sum(f, S) = DueWorth(q, t) /\ Sum(h, T) = DueWorth(r, t)
  BY DEF DueWorth
<1>11. DueWorth(q, t) \in Nat
  BY DueWorthType
<1> HIDE DEF f, g, h, S, T, e
<1>12. Sum(g, S) = Sum(f, S) - f[e] + g[e]
  BY <1>3, <1>4, <1>6, <1>7, SumUpdate
<1>13. DueWorth(r, t) = DueWorth(q, t) - e.amount
  BY <1>4, <1>6, <1>8, <1>9, <1>10, <1>11, <1>12
<1>14. QED
  BY <1>13 DEF e

----------------------------------------------------------------------------
(* The withdrawal as the ledger sees it *)

\* While the loop runs nothing but one queue differs from the state the call
\* began in; of that queue only entries that are due are missing, and their
\* worth is what was taken.
DrainInv ==
  frame.pc = "drain" =>
    /\ stakes = saved[1].stakes /\ balance = saved[1].balance /\ wallet = saved[1].wallet
    /\ \A o, s \in Addr :
         <<o, s>> # <<frame.operator, frame.sender>> =>
           unbondings[o][s] = saved[1].unbondings[o][s]
    /\ \A c \in Entries(Queue) \cup Entries(QueueBefore) :
         c.unlockTime > now => Copies(Queue, c) = Copies(QueueBefore, c)
    /\ frame.total + DueWorth(Queue, now) = DueWorth(QueueBefore, now)

LedgerInv == IInv /\ DrainInv

\* A withdrawal begins with everything as it was.
LEMMA OpenDrain ==
  ASSUME IInv, NEW a \in Addr, NEW operator \in Addr, WithdrawUnstaked(a, operator)
  PROVE  DrainInv'
<1>1. /\ saved'[1] = World /\ frame'.total = 0 /\ now' = now
      /\ UNCHANGED <<stakes, unbondings, balance, wallet>>
      /\ frame'.operator = operator /\ frame'.sender = a
  BY DEF WithdrawUnstaked, records, money
<1>2. /\ World.stakes = stakes /\ World.balance = balance /\ World.wallet = wallet
      /\ World.unbondings = unbondings
  BY DEF World
<1>3. Queue' = unbondings[operator][a] /\ QueueBefore' = unbondings[operator][a]
  BY <1>1, <1>2 DEF Queue, QueueBefore
<1>4. unbondings[operator][a] \in Seq(Entry) /\ now \in Nat
  BY IInvParts DEF Queues
<1>5. DueWorth(unbondings[operator][a], now) \in Nat
  BY <1>4, DueWorthType
<1>6. 0 + DueWorth(Queue', now) = DueWorth(QueueBefore', now)
  BY <1>3, <1>5
<1> QED
  BY <1>1, <1>2, <1>3, <1>6 DEF DrainInv

\* A round of the loop takes out a due entry, or nothing.
LEMMA RoundDrain ==
  ASSUME LedgerInv, DrainMature \/ DrainKeep
  PROVE  DrainInv'
<1> DEFINE o == frame.operator
           s == frame.sender
           i == frame.i
           r == SwapAndPop(Queue, i)
<1>1. frame.pc = "drain" /\ IInv /\ DrainInv
  BY DEF DrainMature, DrainKeep, LedgerInv
<1>2. /\ frame \in Running /\ o \in Addr /\ s \in Addr /\ frame.total \in Nat
      /\ i \in Nat \ {0} /\ Queue \in Seq(Entry) /\ QueueBefore \in Seq(Entry)
      /\ now \in Nat /\ unbondings \in Queues
  BY <1>1, OpenParts, IInvParts
<1>3. UNCHANGED <<stakes, balance, wallet, saved, now>>
  BY DEF DrainMature, DrainKeep, records, money
<1>4. CASE DrainKeep
  <2>1. /\ frame'.operator = o /\ frame'.sender = s /\ frame'.total = frame.total
        /\ unbondings' = unbondings
    BY <1>2, <1>4 DEF DrainKeep, Running, records
  <2>2. Queue' = Queue /\ QueueBefore' = QueueBefore
    BY <1>3, <2>1 DEF Queue, QueueBefore
  <2>3. QED
    BY <1>1, <1>3, <2>1, <2>2 DEF DrainInv
<1>5. CASE DrainMature
  <2>1. i \in 1..Len(Queue) /\ Queue[i].unlockTime <= now
    BY <1>2, <1>5 DEF DrainMature
  <2>2. /\ frame'.operator = o /\ frame'.sender = s
        /\ frame'.total = frame.total + Queue[i].amount
        /\ unbondings' = [unbondings EXCEPT ![o][s] = r]
    BY <1>2, <1>5 DEF DrainMature, Running, Queue
  <2>3. Queue' = r /\ QueueBefore' = QueueBefore
    BY <1>2, <1>3, <2>2 DEF Queue, QueueBefore, Queues
  <2>4. \A o_, s_ \in Addr : <<o_, s_>> # <<o, s>> => unbondings'[o_][s_] = unbondings[o_][s_]
    BY <1>2, <2>2 DEF Queues
  <2>5. /\ Queue[i].amount \in Nat /\ r \in Seq(Entry)
        /\ DueWorth(r, now) = DueWorth(Queue, now) - Queue[i].amount
    BY <1>2, <2>1, EntrySumType, SwapAndPopType, DueWorthSwapAndPop
  <2>6. frame'.total + DueWorth(Queue', now) = DueWorth(QueueBefore', now)
    <3>1. frame.total + DueWorth(Queue, now) = DueWorth(QueueBefore, now)
      BY <1>1 DEF DrainInv
    <3>2. DueWorth(Queue, now) \in Nat
      BY <1>2, DueWorthType
    <3> DEFINE w == DueWorth(Queue, now)
               a == Queue[i].amount
    <3>3. DueWorth(Queue', now) = w - a /\ frame'.total = frame.total + a
      BY <2>2, <2>3, <2>5
    <3> HIDE DEF w, a
    <3>4. (frame.total + a) + (w - a) = frame.total + w
      BY <1>2, <2>5, <3>2 DEF w, a
    <3> QED
      BY <2>3, <3>1, <3>3, <3>4 DEF w
  <2>7. \A c \in Entries(r) \cup Entries(QueueBefore) :
          c.unlockTime > now => Copies(r, c) = Copies(QueueBefore, c)
    <3> SUFFICES ASSUME NEW c \in Entries(r) \cup Entries(QueueBefore), c.unlockTime > now
                 PROVE  Copies(r, c) = Copies(QueueBefore, c)
      OBVIOUS
    <3>1. c # Queue[i]
      <4>1. c.unlockTime \in Nat /\ Queue[i].unlockTime \in Nat
        BY <1>2, <2>1, <2>5, EntriesType, EntrySumType
      <4> QED
        BY <1>2, <2>1, <4>1
    <3>2. Copies(r, c) = Copies(Queue, c) /\ Copies(Queue, c) \in Nat
      <4>1. Copies(Queue, c) \in Nat
        BY <1>2, CopiesType
      <4>2. Copies(r, c) = Copies(Queue, c) - (IF c = Queue[i] THEN 1 ELSE 0)
        BY <1>2, <2>1, CopiesSwapAndPop
      <4> HIDE DEF r
      <4> QED
        BY <3>1, <4>1, <4>2
    <3>3. c \in Entries(Queue) \cup Entries(QueueBefore)
      <4>1. c \in Entries(r) => Copies(Queue, c) > 0
        BY <2>5, <3>2, CopiesType
      <4> QED
        BY <1>2, <4>1, CopiesType
    <3> QED
      BY <1>1, <3>2, <3>3 DEF DrainInv
  <2> HIDE DEF r
  <2>8. QED
    BY <1>1, <1>3, <2>2, <2>3, <2>4, <2>6, <2>7 DEF DrainInv
<1> QED
  BY <1>4, <1>5

\* Every other step leaves no loop behind.
LEMMA LedgerInvStep == LedgerInv /\ [Next]_vars => LedgerInv'
<1> SUFFICES ASSUME LedgerInv, [Next]_vars PROVE DrainInv'
  BY NextInv DEF LedgerInv
<1>1. IInv /\ DrainInv
  BY DEF LedgerInv
<1>2. ASSUME NEW a \in Addr, NEW operator \in Addr, WithdrawUnstaked(a, operator)
      PROVE  DrainInv'
  BY <1>1, <1>2, OpenDrain
<1>3. ASSUME NEW a, CanCall(a), UNCHANGED frame
      PROVE  DrainInv'
  BY <1>3 DEF CanCall, DrainInv
<1>4. ASSUME NEW a \in Addr, Operator(a)
      PROVE  DrainInv'
  BY <1>3, <1>4 DEF Operator, RegisterOperator, UpdateConsensusKey, UpdatePayout, call
<1>5. ASSUME NEW a \in Addr, Owner(a)
      PROVE  DrainInv'
  BY <1>3, <1>5 DEF Owner, SetJailed, SetMinStake, SetMaxValidators, SetUnbondingPeriod,
       TransferOwnership, call
<1>6. ASSUME NEW a \in Addr, Staker(a)
      PROVE  DrainInv'
  BY <1>2, <1>3, <1>6 DEF Staker, StakeFor, RequestUnstake, call
<1>7. CASE DrainMature \/ DrainKeep
  BY <1>7, RoundDrain
<1>8. CASE Pay
  <2>1. frame \in Running
    BY <1>1, <1>8, OpenParts DEF Pay
  <2>2. frame'.pc = "call"
    BY <1>8, <2>1 DEF Pay, Running
  <2>3. QED
    BY <2>2 DEF DrainInv
<1>9. CASE Return \/ Fail
  BY <1>9 DEF Return, Fail, RollBack, NoFrame, DrainInv
<1>10. CASE Tick
  BY <1>10 DEF Tick, call, DrainInv
<1>11. CASE UNCHANGED vars
  BY <1>1, <1>11 DEF vars, records, params, money, call, DrainInv, Queue, QueueBefore
<1> QED
  BY <1>4, <1>5, <1>6, <1>7, <1>8, <1>9, <1>10, <1>11 DEF Next, Withdrawal

----------------------------------------------------------------------------
(* Every step is a step of the ledger, or none *)

\* What the ledger sees when no loop runs, before and after a step.
LEMMA SeenOutside ==
  /\ frame.pc # "drain" =>
       /\ SeenStaked = stakes /\ SeenClaims = AsClaims(unbondings)
       /\ SeenVault = balance /\ SeenPurse = wallet
  /\ frame'.pc # "drain" =>
       /\ SeenStaked' = stakes' /\ SeenClaims' = AsClaims(unbondings)'
       /\ SeenVault' = balance' /\ SeenPurse' = wallet'
BY DEF SeenStaked, SeenClaims, SeenVault, SeenPurse, Seen, AsClaims

\* While a loop runs the ledger sees the state the call began in.
LEMMA SeenInside ==
  /\ frame.pc = "drain" /\ saved # <<>> =>
       /\ SeenStaked = saved[1].stakes /\ SeenClaims = AsClaims(saved[1].unbondings)
       /\ SeenVault = saved[1].balance /\ SeenPurse = saved[1].wallet
       /\ SeenUndo = <<>>
  /\ frame'.pc = "drain" /\ saved' # <<>> =>
       /\ SeenStaked' = saved'[1].stakes /\ SeenClaims' = AsClaims(saved[1].unbondings)'
       /\ SeenVault' = saved'[1].balance /\ SeenPurse' = saved'[1].wallet
       /\ SeenUndo' = <<>>
BY DEF SeenStaked, SeenClaims, SeenVault, SeenPurse, SeenUndo, Seen, AsClaims, Was

\* A step outside the loop that leaves stakes, queues, money and call alone
\* is none for the ledger.
LEMMA SeenNeutral ==
  ASSUME frame.pc # "drain", UNCHANGED <<stakes, unbondings, balance, wallet, frame, saved, now>>
  PROVE  UNCHANGED Ledger!lvars
<1>1. frame'.pc # "drain"
  OBVIOUS
<1>2. SeenUndo' = SeenUndo
  BY DEF SeenUndo, AsLedger, AsClaims
<1>3. AsClaims(unbondings)' = AsClaims(unbondings)
  BY DEF AsClaims
<1> QED
  BY <1>1, <1>2, <1>3, SeenOutside DEF Ledger!lvars

\* Staking is a deposit.
LEMMA StakeIsDeposit ==
  ASSUME IInv, NEW a \in Addr, NEW operator \in Addr, NEW staker \in Stakers \cup {0},
         NEW value \in 0..wallet[a], StakeFor(a, operator, staker, value)
  PROVE  Ledger!LNext
<1>1. /\ frame.pc # "drain" /\ UNCHANGED <<unbondings, frame, saved, now>>
      /\ value > 0 /\ wallet[a] >= value
      /\ stakes' = [stakes EXCEPT ![operator][staker] = @ + value]
      /\ wallet' = [wallet EXCEPT ![a] = @ - value] /\ balance' = balance + value
  BY CallerRuns DEF StakeFor, call
<1>2. staker \in Addr
  BY ValueAssumption DEF StakeFor
<1>3. frame'.pc # "drain"
  BY <1>1
<1>4. AsClaims(unbondings)' = AsClaims(unbondings) /\ SeenUndo' = SeenUndo
  BY <1>1 DEF AsClaims, SeenUndo, AsLedger
<1>5. Ledger!Deposit(a, operator, staker, value)
  BY <1>1, <1>3, <1>4, SeenOutside DEF Ledger!Deposit
<1>6. value \in 0..SeenPurse[a]
  BY <1>1, SeenOutside
<1> QED
  BY <1>2, <1>5, <1>6 DEF Ledger!LNext

\* An entry that is appended to a queue is a claim that is added to a bag.
LEMMA BagAppend ==
  ASSUME NEW q \in Seq(Entry), NEW e \in Entry
  PROVE  /\ B!ToBag(Append(q, e)) = Ledger!(+)(B!ToBag(q), Ledger!SetToBag({e}))
         /\ e \in Ledger!BagToSet(Ledger!(-)(B!ToBag(Append(q, e)), B!ToBag(q)))
<1> DEFINE r == Append(q, e)
           b == [c \in Entries(q) |-> Copies(q, c)]
           d == [c \in Entries(r) |-> Copies(r, c)]
<1>1. r \in Seq(Entry)
  OBVIOUS
<1>2. B!ToBag(q) = b /\ B!ToBag(r) = d
  BY <1>1, BagOfQueue
<1>3. \A c : /\ Copies(q, c) \in Nat /\ (Copies(q, c) > 0 <=> c \in Entries(q))
             /\ Copies(r, c) \in Nat /\ (Copies(r, c) > 0 <=> c \in Entries(r))
             /\ Copies(r, c) = Copies(q, c) + (IF c = e THEN 1 ELSE 0)
  BY <1>1, CopiesType, CopiesAppend
<1> HIDE DEF r
<1>4. Entries(r) = Entries(q) \cup {e}
  <2>1. \A c : c \in Entries(r) <=> c \in Entries(q) \/ c = e
    BY <1>3
  <2> QED
    BY <2>1
<1>5. Ledger!(+)(b, Ledger!SetToBag({e})) = d
  <2> DEFINE sum == [c \in Entries(q) \cup {e} |-> (IF c \in Entries(q) THEN b[c] ELSE 0)
                                                 + (IF c \in {e} THEN 1 ELSE 0)]
  <2>1. Ledger!(+)(b, Ledger!SetToBag({e})) = sum
    BY DEF Ledger!(+), Ledger!SetToBag
  <2>2. \A c \in Entries(q) \cup {e} : sum[c] = Copies(r, c)
    BY <1>3
  <2>3. sum = d
    BY <1>4, <2>2
  <2> QED
    BY <2>1, <2>3
<1>6. e \in Ledger!BagToSet(Ledger!(-)(d, b))
  <2> DEFINE diff == [c \in Entries(r) |-> IF c \in Entries(q) THEN d[c] - b[c] ELSE d[c]]
  <2>1. e \in Entries(r) /\ diff[e] > 0
    BY <1>3, <1>4
  <2>2. Ledger!(-)(d, b) = [c \in {x \in Entries(r) : diff[x] > 0} |-> diff[c]]
    BY DEF Ledger!(-)
  <2> QED
    BY <2>1, <2>2 DEF Ledger!BagToSet
<1> QED
  BY <1>2, <1>5, <1>6 DEF r

\* A queue that changes is a bag that changes.
LEMMA ClaimsUpdate ==
  ASSUME NEW u \in Queues, NEW v \in Queues, NEW o \in Addr, NEW s \in Addr,
         \A o_, s_ \in Addr : <<o_, s_>> # <<o, s>> => v[o_][s_] = u[o_][s_]
  PROVE  AsClaims(v) = [AsClaims(u) EXCEPT ![o][s] = B!ToBag(v[o][s])]
<1> DEFINE ub == [o_ \in Addr |-> [s_ \in Addr |-> B!ToBag(u[o_][s_])]]
           vb == [o_ \in Addr |-> [s_ \in Addr |-> B!ToBag(v[o_][s_])]]
<1>1. AsClaims(u) = ub /\ AsClaims(v) = vb
  BY DEF AsClaims
<1>2. \A o_, s_ \in Addr : vb[o_][s_] = IF <<o_, s_>> = <<o, s>> THEN B!ToBag(v[o][s]) ELSE ub[o_][s_]
  OBVIOUS
<1>3. vb[o] = [ub[o] EXCEPT ![s] = B!ToBag(v[o][s])]
  <2>1. vb[o] = [s_ \in Addr |-> vb[o][s_]] /\ ub[o] = [s_ \in Addr |-> ub[o][s_]]
    OBVIOUS
  <2>2. \A s_ \in Addr : vb[o][s_] = IF s_ = s THEN B!ToBag(v[o][s]) ELSE ub[o][s_]
    BY <1>2
  <2> HIDE DEF ub, vb
  <2> QED
    BY <2>1, <2>2
<1>4. \A o_ \in Addr \ {o} : vb[o_] = ub[o_]
  <2> TAKE o_ \in Addr \ {o}
  <2>1. vb[o_] = [s_ \in Addr |-> vb[o_][s_]] /\ ub[o_] = [s_ \in Addr |-> ub[o_][s_]]
    OBVIOUS
  <2>2. \A s_ \in Addr : vb[o_][s_] = ub[o_][s_]
    BY <1>2
  <2> HIDE DEF ub, vb
  <2> QED
    BY <2>1, <2>2
<1>5. vb = [o_ \in Addr |-> vb[o_]] /\ ub = [o_ \in Addr |-> ub[o_]]
  OBVIOUS
<1> HIDE DEF ub, vb
<1>6. vb = [ub EXCEPT ![o] = [ub[o] EXCEPT ![s] = B!ToBag(v[o][s])]]
  BY <1>3, <1>4, <1>5
<1> QED
  BY <1>1, <1>6

\* A request to unstake is a claim of the ledger.
LEMMA UnstakeIsUnbond ==
  ASSUME IInv, NEW a \in Addr, NEW operator \in Addr,
         NEW amount \in 0..stakes[operator][a], RequestUnstake(a, operator, amount)
  PROVE  Ledger!LNext
<1> DEFINE c == [amount |-> amount, unlockTime |-> UnlockTime]
           q == unbondings[operator][a]
           r == Append(q, c)
<1>1. /\ frame.pc # "drain" /\ UNCHANGED <<balance, wallet, frame, saved, now>>
      /\ amount > 0 /\ stakes[operator][a] >= amount
      /\ stakes' = [stakes EXCEPT ![operator][a] = @ - amount]
      /\ unbondings' = [unbondings EXCEPT ![operator][a] = r]
  BY CallerRuns DEF RequestUnstake, call, money
<1>2. /\ now \in Nat /\ unbondingPeriod \in Nat /\ stakes[operator][a] \in Nat
      /\ unbondings \in Queues /\ q \in Seq(Entry)
  BY IInvParts, WorldTypes DEF IInv, TypeOK, Stakes, Queues
<1>3. c \in Entry /\ c.amount = amount /\ c.unlockTime >= now
  BY <1>1, <1>2 DEF Entry, UnlockTime
<1>4. /\ unbondings' \in Queues /\ unbondings'[operator][a] = r
      /\ \A o, s \in Addr : <<o, s>> # <<operator, a>> => unbondings'[o][s] = unbondings[o][s]
  <2>1. r \in Seq(Entry)
    BY <1>2, <1>3
  <2> HIDE DEF r
  <2> QED
    BY <1>1, <1>2, <2>1 DEF Queues
<1>5. AsClaims(unbondings') = [AsClaims(unbondings) EXCEPT ![operator][a] = B!ToBag(r)]
  <2> HIDE DEF r
  <2> QED
    BY <1>2, <1>4, ClaimsUpdate
<1>6. AsClaims(unbondings)[operator][a] = B!ToBag(q)
  BY DEF AsClaims
<1>7. /\ B!ToBag(r) = Ledger!(+)(B!ToBag(q), Ledger!SetToBag({c}))
      /\ c \in Ledger!BagToSet(Ledger!(-)(B!ToBag(r), B!ToBag(q)))
  BY <1>2, <1>3, BagAppend
<1>8. /\ SeenStaked = stakes /\ SeenStaked' = stakes' /\ SeenClaims = AsClaims(unbondings)
      /\ SeenClaims' = AsClaims(unbondings') /\ SeenVault' = SeenVault /\ SeenPurse' = SeenPurse
      /\ SeenUndo' = SeenUndo
  <2>1. frame'.pc # "drain" /\ AsClaims(unbondings)' = AsClaims(unbondings')
    BY <1>1 DEF AsClaims
  <2>2. SeenUndo' = SeenUndo
    BY <1>1 DEF SeenUndo, AsLedger, AsClaims
  <2> QED
    BY <1>1, <2>1, <2>2, SeenOutside
<1> HIDE DEF c, q, r
<1>9. SeenClaims'[operator][a] = B!ToBag(r)
  BY <1>5, <1>8 DEF AsClaims
<1>10. Ledger!Unbond(operator, a, c)
  BY <1>1, <1>3, <1>5, <1>6, <1>7, <1>8 DEF Ledger!Unbond
<1>11. c \in Ledger!NewClaims(operator, a)
  BY <1>6, <1>7, <1>8, <1>9 DEF Ledger!NewClaims
<1> QED
  BY <1>10, <1>11 DEF Ledger!LNext

\* The guard keeps a call from beginning within a call; to begin and to go
\* round the loop is nothing to the ledger.
LEMMA LoopIsNothing ==
  ASSUME IInv
  PROVE  /\ \A a, operator \in Addr : WithdrawUnstaked(a, operator) => UNCHANGED Ledger!lvars
         /\ DrainMature \/ DrainKeep => UNCHANGED Ledger!lvars
<1>1. ASSUME NEW a \in Addr, NEW operator \in Addr, WithdrawUnstaked(a, operator)
      PROVE  UNCHANGED Ledger!lvars
  <2>1. frame.pc = "idle"
    BY <1>1 DEF IInv, TypeOK, NoFrame, WithdrawUnstaked
  <2>2. /\ frame'.pc = "drain" /\ saved' = <<World>> /\ saved' # <<>> /\ saved'[1] = World /\ now' = now
    BY <1>1 DEF WithdrawUnstaked
  <2>3. /\ SeenStaked' = World.stakes /\ SeenClaims' = AsClaims(World.unbondings)
        /\ SeenVault' = World.balance /\ SeenPurse' = World.wallet /\ SeenUndo' = <<>>
    BY <2>2, SeenInside DEF AsClaims
  <2>4. SeenUndo = <<>>
    BY <2>1 DEF SeenUndo
  <2> QED
    BY <2>1, <2>2, <2>3, <2>4, SeenOutside DEF Ledger!lvars, World
<1>2. ASSUME DrainMature \/ DrainKeep
      PROVE  UNCHANGED Ledger!lvars
  <2>1. frame.pc = "drain" /\ frame \in Running /\ saved # <<>>
    <3>1. frame.pc = "drain"
      BY <1>2 DEF DrainMature, DrainKeep
    <3>2. frame \in Running /\ Len(saved) = 1
      BY <3>1, OpenCall DEF IInv
    <3>3. Len(<<>>) = 0
      OBVIOUS
    <3> QED
      BY <3>1, <3>2, <3>3
  <2>2. frame'.pc = "drain" /\ saved' = saved /\ now' = now
    BY <1>2, <2>1 DEF DrainMature, DrainKeep, Running
  <2>3. AsClaims(saved[1].unbondings)' = AsClaims(saved[1].unbondings)
    BY <2>2 DEF AsClaims
  <2> QED
    BY <2>1, <2>2, <2>3, SeenInside DEF Ledger!lvars
<1> QED
  BY <1>1, <1>2

\* Sums of the ledger are sums.
LEMMA SameSum ==
  ASSUME NEW f, NEW S
  PROVE  Ledger!Sum(f, S) = Sum(f, S)
BY SameCount DEF Ledger!Sum, Ledger!Coins, Sum, Coins

\* After the loop the queue is the bag it was without what was due, and the
\* total is what that was worth.
LEMMA LoopLeaves ==
  ASSUME LedgerInv, frame.pc = "drain", frame.i > Len(Queue)
  PROVE  /\ B!ToBag(Queue) = [c \in Entries(QueueBefore) \ DueIn(QueueBefore, now) |->
                               Copies(QueueBefore, c)]
         /\ frame.total = DueWorth(QueueBefore, now)
<1>1. /\ LoopInv /\ Queue \in Seq(Entry) /\ QueueBefore \in Seq(Entry)
      /\ frame.total \in Nat /\ frame.i \in Nat /\ now \in Nat /\ DrainInv
  BY OpenParts, IInvParts DEF LedgerInv, IInv
<1>2. \A j \in 1..Len(Queue) : Queue[j].unlockTime > now
  BY <1>1 DEF LoopInv
<1>3. \A c \in Entries(Queue) : c.unlockTime > now
  BY <1>2 DEF Entries
<1>4. \A c \in Entries(Queue) \cup Entries(QueueBefore) :
        c.unlockTime > now => Copies(Queue, c) = Copies(QueueBefore, c)
  BY <1>1 DEF DrainInv
<1>5. DueIn(Queue, now) = {}
  BY <1>1, <1>3, EntriesType DEF DueIn
<1>6. frame.total = DueWorth(QueueBefore, now)
  <2>1. DueWorth(Queue, now) = 0
    BY <1>1, <1>5, DueWorthType
  <2>2. frame.total + DueWorth(Queue, now) = DueWorth(QueueBefore, now)
    BY <1>1 DEF DrainInv
  <2> QED
    BY <1>1, <2>1, <2>2
<1> DEFINE rest == Entries(QueueBefore) \ DueIn(QueueBefore, now)
<1>7. \A c : c \in rest <=> c \in Entries(QueueBefore) /\ c.unlockTime > now
  BY <1>1, EntriesType DEF DueIn
<1>8. \A c : c \in Entries(Queue) <=> c \in rest
  <2>1. \A c : /\ Copies(Queue, c) > 0 <=> c \in Entries(Queue)
               /\ Copies(QueueBefore, c) > 0 <=> c \in Entries(QueueBefore)
    BY <1>1, CopiesType
  <2> HIDE DEF rest
  <2> QED
    BY <1>3, <1>4, <1>7, <2>1
<1>9. Entries(Queue) = rest /\ \A c \in rest : Copies(Queue, c) = Copies(QueueBefore, c)
  BY <1>3, <1>4, <1>8
<1>10. B!ToBag(Queue) = [c \in Entries(Queue) |-> Copies(Queue, c)]
  BY <1>1, BagOfQueue
<1> HIDE DEF rest
<1>11. B!ToBag(Queue) = [c \in rest |-> Copies(QueueBefore, c)]
  BY <1>9, <1>10
<1> QED
  BY <1>6, <1>11 DEF rest

\* The payment is the withdrawal of the ledger.
LEMMA PayIsWithdraw ==
  ASSUME LedgerInv, Pay
  PROVE  Ledger!LNext
<1> DEFINE o == frame.operator
           s == frame.sender
           was == saved[1]
           bag == B!ToBag(QueueBefore)
<1>1. /\ frame.pc = "drain" /\ frame.i > Len(Queue) /\ frame.total > 0
      /\ balance' = balance - frame.total /\ wallet' = [wallet EXCEPT ![s] = @ + frame.total]
      /\ UNCHANGED <<stakes, unbondings, saved, now>>
  BY DEF Pay, records
<1>2. /\ frame \in Running /\ o \in Addr /\ s \in Addr /\ saved # <<>>
      /\ QueueBefore \in Seq(Entry) /\ Queue \in Seq(Entry) /\ now \in Nat
      /\ unbondings \in Queues /\ was.unbondings \in Queues
  <2>1. IInv /\ Len(saved) = 1
    BY <1>1, OpenCall DEF LedgerInv, IInv
  <2>2. Len(<<>>) = 0
    OBVIOUS
  <2>3. was.unbondings \in Queues
    BY <1>1, <2>1, OpenParts DEF WorldOK, Queues
  <2>4. saved # <<>>
    BY <2>1, <2>2
  <2>5. /\ frame \in Running /\ frame.operator \in Addr /\ frame.sender \in Addr
        /\ QueueBefore \in Seq(Entry) /\ Queue \in Seq(Entry)
    BY <1>1, <2>1, OpenParts
  <2>6. now \in Nat /\ unbondings \in Queues
    BY <2>1, IInvParts
  <2> QED
    BY <2>3, <2>4, <2>5, <2>6
<1>3. /\ stakes = was.stakes /\ balance = was.balance /\ wallet = was.wallet
      /\ \A o_, s_ \in Addr : <<o_, s_>> # <<o, s>> => unbondings[o_][s_] = was.unbondings[o_][s_]
  BY <1>1 DEF LedgerInv, DrainInv
<1>4. frame'.pc = "call"
  BY <1>2 DEF Pay, Running
<1>5. bag = [c \in Entries(QueueBefore) |-> Copies(QueueBefore, c)]
  BY <1>2, BagOfQueue
<1>6. Ledger!Due(bag) = DueIn(QueueBefore, now)
  BY <1>5 DEF Ledger!Due, Ledger!BagToSet, DueIn
<1>7. Ledger!Worth(bag, Ledger!Due(bag)) = frame.total
  <2> DEFINE D == DueIn(QueueBefore, now)
             f == [c \in D |-> c.amount * bag[c]]
             g == [c \in D |-> c.amount * Copies(QueueBefore, c)]
  <2>1. Ledger!Worth(bag, Ledger!Due(bag)) = Sum(f, D)
    BY <1>6, SameSum DEF Ledger!Worth
  <2>2. \A c \in D : f[c] = g[c]
    BY <1>5 DEF DueIn
  <2>3. Sum(f, D) = Sum(g, D)
    <3> HIDE DEF f, g
    <3> QED
      BY <2>2, SumSame
  <2>4. Sum(g, D) = DueWorth(QueueBefore, now)
    BY DEF DueWorth
  <2> QED
    BY <1>1, <2>1, <2>3, <2>4, LoopLeaves
<1>8. B!ToBag(Queue) = [c \in Ledger!BagToSet(bag) \ Ledger!Due(bag) |-> bag[c]]
  <2>1. Ledger!BagToSet(bag) = Entries(QueueBefore)
    BY <1>5 DEF Ledger!BagToSet
  <2>2. \A c \in Entries(QueueBefore) : bag[c] = Copies(QueueBefore, c)
    BY <1>5
  <2> HIDE DEF bag
  <2> QED
    BY <1>1, <1>6, <2>1, <2>2, LoopLeaves
<1>9. AsClaims(unbondings) = [AsClaims(was.unbondings) EXCEPT ![o][s] = B!ToBag(Queue)]
  <2>1. AsClaims(unbondings) = [AsClaims(was.unbondings) EXCEPT ![o][s] = B!ToBag(unbondings[o][s])]
    <3> DEFINE u == was.unbondings
    <3>1. u \in Queues /\ unbondings \in Queues /\ o \in Addr /\ s \in Addr
      BY <1>2
    <3>2. \A o_, s_ \in Addr : <<o_, s_>> # <<o, s>> => unbondings[o_][s_] = u[o_][s_]
      BY <1>3
    <3> HIDE DEF o, s, u
    <3>3. AsClaims(unbondings) = [AsClaims(u) EXCEPT ![o][s] = B!ToBag(unbondings[o][s])]
      BY <3>1, <3>2, ClaimsUpdate
    <3> QED
      BY <3>3 DEF u
  <2> QED
    BY <2>1 DEF Queue
<1>10. AsClaims(was.unbondings)[o][s] = bag
  BY <1>2 DEF AsClaims, QueueBefore
<1>11. /\ SeenStaked = stakes /\ SeenStaked' = stakes /\ SeenVault = balance /\ SeenVault' = balance'
       /\ SeenPurse = wallet /\ SeenPurse' = wallet' /\ SeenUndo = <<>>
       /\ SeenClaims = AsClaims(was.unbondings) /\ SeenClaims' = AsClaims(unbondings)
  <2>1. AsClaims(unbondings)' = AsClaims(unbondings)
    BY <1>1 DEF AsClaims
  <2> QED
    BY <1>1, <1>2, <1>3, <1>4, <2>1, SeenInside, SeenOutside
<1>12. SeenUndo' = <<[staked |-> SeenStaked, claims |-> SeenClaims,
                      vault |-> SeenVault, purse |-> SeenPurse]>>
  <2>1. SeenUndo' = <<AsLedger(was)>>
    BY <1>1, <1>4 DEF SeenUndo, AsLedger, AsClaims
  <2> QED
    BY <1>3, <1>11, <2>1 DEF AsLedger
<1> HIDE DEF was, bag, o, s
<1>13. Ledger!Withdraw(o, s)
  BY <1>1, <1>7, <1>8, <1>9, <1>10, <1>11, <1>12 DEF Ledger!Withdraw
<1> QED
  BY <1>2, <1>13 DEF Ledger!LNext, o, s

\* The payee's return settles the withdrawal, its failure undoes it with all
\* that was nested in it; a call that had nothing to pay was nothing.
LEMMA EndIsSettleOrUndo ==
  ASSUME LedgerInv, Return \/ Fail
  PROVE  Ledger!LNext \/ UNCHANGED Ledger!lvars
<1>1. /\ frame'.pc = "idle" /\ now' = now
  BY DEF Return, Fail, RollBack, NoFrame
<1>2. SeenUndo' = <<>>
  BY <1>1 DEF SeenUndo
<1>3. CASE Return
  <2>1. frame.pc = "call" /\ UNCHANGED <<stakes, unbondings, balance, wallet>>
    BY <1>3 DEF Return, records, money
  <2>2. AsClaims(unbondings)' = AsClaims(unbondings)
    BY <2>1 DEF AsClaims
  <2>3. SeenUndo = <<AsLedger(saved[1])>> /\ SeenUndo # <<>>
    BY <2>1 DEF SeenUndo
  <2>4. Ledger!Settle
    BY <1>1, <1>2, <2>1, <2>2, <2>3, SeenOutside DEF Ledger!Settle
  <2> QED
    BY <2>4 DEF Ledger!LNext
<1>4. CASE Fail
  <2>1. /\ stakes' = saved[1].stakes /\ unbondings' = saved[1].unbondings
        /\ balance' = saved[1].balance /\ wallet' = saved[1].wallet
    BY <1>4 DEF Fail, RollBack
  <2>2. AsClaims(unbondings)' = AsClaims(saved[1].unbondings)
    BY <2>1 DEF AsClaims
  <2>3. CASE frame.pc = "call"
    <3>1. SeenUndo = <<AsLedger(saved[1])>> /\ SeenUndo # <<>> /\ SeenUndo[1] = AsLedger(saved[1])
      BY <2>3 DEF SeenUndo
    <3>2. Ledger!Undo
      BY <1>1, <1>2, <2>1, <2>2, <3>1, SeenOutside DEF Ledger!Undo, AsLedger
    <3> QED
      BY <3>2 DEF Ledger!LNext
  <2>4. CASE frame.pc = "drain"
    <3>1. saved # <<>>
      <4>1. Len(saved) = 1 /\ Len(<<>>) = 0
        BY <2>4, OpenCall DEF LedgerInv, IInv
      <4> QED
        BY <4>1
    <3> QED
      BY <1>1, <1>2, <2>1, <2>2, <2>4, <3>1, SeenInside, SeenOutside DEF Ledger!lvars
  <2> QED
    BY <1>4, <2>3, <2>4 DEF Fail
<1> QED
  BY <1>3, <1>4

\* Time passes for both.
LEMMA TickIsPass ==
  ASSUME LedgerInv, Tick
  PROVE  Ledger!LNext
<1>1. /\ frame.pc = "idle" /\ UNCHANGED <<stakes, unbondings, balance, wallet, frame, saved>>
      /\ now' = now + 1
  BY DEF Tick, records, money, call
<1>2. now \in Nat
  BY IInvParts DEF LedgerInv
<1>3. frame'.pc = "idle" /\ AsClaims(unbondings)' = AsClaims(unbondings)
  BY <1>1 DEF AsClaims
<1>4. SeenUndo = <<>> /\ SeenUndo' = <<>>
  BY <1>1, <1>3 DEF SeenUndo
<1>5. Ledger!Pass
  BY <1>1, <1>2, <1>3, <1>4, SeenOutside DEF Ledger!Pass
<1> QED
  BY <1>5 DEF Ledger!LNext

\* Registering, keys, payouts and the owner's parameters are nothing to the
\* ledger: a claim keeps the time it was given.
LEMMA RestIsNothing ==
  ASSUME NEW a \in Addr, Operator(a) \/ Owner(a)
  PROVE  UNCHANGED Ledger!lvars
<1>1. CanCall(a) /\ UNCHANGED <<stakes, unbondings, balance, wallet, frame, saved, now>>
  <2>1. CASE Operator(a)
    BY <2>1 DEF Operator, RegisterOperator, UpdateConsensusKey, UpdatePayout, money, call
  <2>2. CASE Owner(a)
    BY <2>2 DEF Owner, SetJailed, SetMinStake, SetMaxValidators, SetUnbondingPeriod,
         TransferOwnership, records, money, call
  <2> QED
    BY <2>1, <2>2
<1> QED
  BY <1>1, CallerRuns, SeenNeutral

\* The contract starts as an empty ledger.
LEMMA InitIsLedger == Init => Ledger!LInit /\ DrainInv
<1> SUFFICES ASSUME Init PROVE Ledger!LInit /\ DrainInv
  OBVIOUS
<1>1. frame.pc = "idle"
  BY DEF Init, NoFrame
<1>2. B!ToBag(<<>>) = Ledger!EmptyBag
  <2>1. Entries(<<>>) = {} /\ <<>> \in Seq(Entry)
    BY DEF Entries
  <2> QED
    BY <2>1, BagOfQueue DEF Ledger!EmptyBag, Ledger!SetToBag
<1>3. AsClaims(unbondings) = [o \in Addr |-> [s \in Addr |-> Ledger!EmptyBag]]
  <2>1. \A o, s \in Addr : unbondings[o][s] = <<>>
    BY DEF Init
  <2> QED
    BY <1>2, <2>1 DEF AsClaims
<1>4. SeenUndo = <<>>
  BY <1>1 DEF SeenUndo
<1> QED
  BY <1>1, <1>3, <1>4, SeenOutside, ValueAssumption DEF Init, Ledger!LInit, DrainInv

\* Every step is one of the ledger's, or none.
LEMMA StepIsLedger == LedgerInv /\ [Next]_vars => [Ledger!LNext]_(Ledger!lvars)
<1> SUFFICES ASSUME LedgerInv, [Next]_vars
             PROVE  Ledger!LNext \/ UNCHANGED Ledger!lvars
  OBVIOUS
<1>1. IInv
  BY DEF LedgerInv
<1>2. ASSUME NEW a \in Addr, Staker(a)
      PROVE  Ledger!LNext \/ UNCHANGED Ledger!lvars
  BY <1>1, <1>2, StakeIsDeposit, UnstakeIsUnbond, LoopIsNothing DEF Staker
<1>3. CASE UNCHANGED vars
  <2>1. UNCHANGED <<stakes, unbondings, balance, wallet, frame, saved, now, World>>
    BY <1>3 DEF vars, records, params, money, call, World
  <2> QED
    BY <2>1 DEF Ledger!lvars, SeenStaked, SeenClaims, SeenVault, SeenPurse, SeenUndo, Seen, Was,
                AsClaims, AsLedger
<1> QED
  BY <1>1, <1>2, <1>3, RestIsNothing, LoopIsNothing, PayIsWithdraw, EndIsSettleOrUndo, TickIsPass
     DEF Next, Withdrawal

\* The contract implements the ledger: whatever order the queue has and
\* whatever a payee does while it runs, every due claim is paid once and no
\* other, and a failed payment leaves no trace (QikStaking.sol:78-127).
THEOREM LedgerIsImplemented == Spec => ImplementsLedger
<1>1. Init => LedgerInv /\ Ledger!LInit
  BY InitInv, InitIsLedger DEF LedgerInv
<1> QED
  BY <1>1, LedgerInvStep, StepIsLedger, PTL DEF Spec, ImplementsLedger, Ledger!LSpec
----------------------------------------------------------------------------
(* The selection: the two loops of getActiveOperators *)

\* The rounds of the first loop.
LEMMA FilterRounds ==
  ASSUME NEW S, NEW ops \in Seq(S), NEW f, NEW least
  PROVE  \E temp \in [0..Len(ops) -> Seq(S)] :
           /\ temp[0] = <<>>
           /\ \A n \in 1..Len(ops) :
                temp[n] = IF A!Eligible(ops[n], f, least) THEN Append(temp[n - 1], ops[n]) ELSE temp[n - 1]
           /\ A!Filtered(ops, f, least) = temp[Len(ops)]
<1> DEFINE Round(n, s) == IF A!Eligible(ops[n], f, least) THEN Append(s, ops[n]) ELSE s
<1>1. \A n \in 1..Len(ops), s \in Seq(S) : Round(n, s) \in Seq(S)
  OBVIOUS
<1>2. PICK X, a, N : X = Seq(S) /\ a = <<>> /\ N = Len(ops)
  OBVIOUS
<1>3. a \in X /\ N \in Nat /\ \A n \in 1..N, s \in X : Round(n, s) \in X
  BY <1>1, <1>2
<1> HIDE DEF Round
<1> DEFINE g == [n \in 1..N |-> [s \in X |-> Round(n, s)]]
<1>5. \A n \in 1..N, s \in X : g[n][s] = Round(n, s)
  OBVIOUS
<1>6. PICK h \in [0..N -> X] : h[0] = a /\ \A n \in 1..N : h[n] = g[n][h[n - 1]]
  <2>1. g \in [1..N -> [X -> X]]
    BY <1>3
  <2> HIDE DEF g
  <2>2. \E h : IsLoop(h, X, a, N, g)
    BY <1>3, <2>1, RecursionExists, Zenon
  <2> QED
    BY <2>2 DEF IsLoop
<1> HIDE DEF g
<1>7. \A n \in 1..N : n - 1 \in 0..N
  BY <1>3
<1>8. h = [n \in 0..N |-> IF n = 0 THEN a ELSE Round(n, h[n - 1])]
  BY <1>3, <1>5, <1>6, <1>7
<1> DEFINE temp[n \in 0..N] == IF n = 0 THEN a ELSE Round(n, temp[n - 1])
<1>9. temp = [n \in 0..N |-> IF n = 0 THEN a ELSE Round(n, temp[n - 1])]
  BY <1>8, Zenon
<1>10. A!Filtered(ops, f, least) = temp[N]
  BY <1>2, Zenon DEF A!Filtered, Round
<1> HIDE DEF temp
<1>11. temp[0] = a /\ \A n \in 1..N : temp[n] = Round(n, temp[n - 1])
  BY <1>3, <1>9
<1>12. \A n \in 0..N : temp[n] \in X
  <2> DEFINE T == {n \in 0..N : temp[n] \in X}
  <2>1. 0 \in T
    BY <1>3, <1>11
  <2>2. ASSUME NEW n \in 1..N, n - 1 \in T PROVE n \in T
    BY <1>3, <1>11, <2>2
  <2> HIDE DEF T
  <2>3. \A n \in 0..N : n \in T
    BY <1>3, <2>1, <2>2, UpTo
  <2> QED
    BY <2>3 DEF T
<1>13. temp \in [0..N -> X]
  BY <1>9, <1>12
<1> QED
  BY <1>2, <1>10, <1>11, <1>13 DEF Round

\* The rounds of the insertion sort.
LEMMA SortRounds ==
  ASSUME NEW S, NEW may \in Seq(S), NEW f,
         \A s \in Seq(S), key \in S : A!InsertSorted(s, key, f) \in Seq(S)
  PROVE  \E temp \in [0..Len(may) -> Seq(S)] :
           /\ temp[0] = <<>>
           /\ \A n \in 1..Len(may) : temp[n] = A!InsertSorted(temp[n - 1], may[n], f)
           /\ A!Sorted(may, f) = temp[Len(may)]
<1> DEFINE Round(n, s) == A!InsertSorted(s, may[n], f)
<1>1. \A n \in 1..Len(may), s \in Seq(S) : Round(n, s) \in Seq(S)
  OBVIOUS
<1>2. PICK X, a, N : X = Seq(S) /\ a = <<>> /\ N = Len(may)
  OBVIOUS
<1>3. a \in X /\ N \in Nat /\ \A n \in 1..N, s \in X : Round(n, s) \in X
  BY <1>1, <1>2
<1> HIDE DEF Round
<1> DEFINE g == [n \in 1..N |-> [s \in X |-> Round(n, s)]]
<1>5. \A n \in 1..N, s \in X : g[n][s] = Round(n, s)
  OBVIOUS
<1>6. PICK h \in [0..N -> X] : h[0] = a /\ \A n \in 1..N : h[n] = g[n][h[n - 1]]
  <2>1. g \in [1..N -> [X -> X]]
    BY <1>3
  <2> HIDE DEF g
  <2>2. \E h : IsLoop(h, X, a, N, g)
    BY <1>3, <2>1, RecursionExists, Zenon
  <2> QED
    BY <2>2 DEF IsLoop
<1> HIDE DEF g
<1>7. \A n \in 1..N : n - 1 \in 0..N
  BY <1>3
<1>8. h = [n \in 0..N |-> IF n = 0 THEN a ELSE Round(n, h[n - 1])]
  BY <1>3, <1>5, <1>6, <1>7
<1> DEFINE temp[n \in 0..N] == IF n = 0 THEN a ELSE Round(n, temp[n - 1])
<1>9. temp = [n \in 0..N |-> IF n = 0 THEN a ELSE Round(n, temp[n - 1])]
  BY <1>8, Zenon
<1>10. A!Sorted(may, f) = temp[N]
  BY <1>2, Zenon DEF A!Sorted, Round
<1> HIDE DEF temp
<1>11. temp[0] = a /\ \A n \in 1..N : temp[n] = Round(n, temp[n - 1])
  BY <1>3, <1>9
<1>12. \A n \in 0..N : temp[n] \in X
  <2> DEFINE T == {n \in 0..N : temp[n] \in X}
  <2>1. 0 \in T
    BY <1>3, <1>11
  <2>2. ASSUME NEW n \in 1..N, n - 1 \in T PROVE n \in T
    BY <1>3, <1>11, <2>2
  <2> HIDE DEF T
  <2>3. \A n \in 0..N : n \in T
    BY <1>3, <2>1, <2>2, UpTo
  <2> QED
    BY <2>3 DEF T
<1>13. temp \in [0..N -> X]
  BY <1>9, <1>12
<1> QED
  BY <1>2, <1>10, <1>11, <1>13 DEF Round

\* Everyone stands before those that the contract ranks behind them.
InOrder(s, f) == \A i, j \in 1..Len(s) : i < j => A!ComesBefore(s[i], s[j], f)

\* Of two operators exactly one comes before the other, and that is an order.
LEMMA RankingIsAnOrder ==
  ASSUME NEW f \in [Addr -> OperatorInfo]
  PROVE  /\ \A a, b \in Addr : A!ComesBefore(a, b, f) => ~A!ComesBefore(b, a, f) /\ a # b
         /\ \A a, b \in Addr : a # b => A!ComesBefore(a, b, f) \/ A!ComesBefore(b, a, f)
         /\ \A a, b, c \in Addr : A!ComesBefore(a, b, f) /\ A!ComesBefore(b, c, f) => A!ComesBefore(a, c, f)
<1>1. \A a \in Addr : f[a].totalStake \in Nat /\ a \in Nat
  BY DEF OperatorInfo, Addr
<1> QED
  BY <1>1 DEF A!ComesBefore

\* Where InsertSorted puts the key, and what it moves.
LEMMA InsertShape ==
  ASSUME NEW S, NEW s \in Seq(S), NEW key \in S, NEW f
  PROVE  \E p \in 0..Len(s) :
           /\ \A j \in 1..Len(s) : j > p => A!ComesBefore(key, s[j], f)
           /\ p > 0 => ~A!ComesBefore(key, s[p], f)
           /\ A!InsertSorted(s, key, f) \in Seq(S)
           /\ Len(A!InsertSorted(s, key, f)) = Len(s) + 1
           /\ \A i \in 1..(Len(s) + 1) :
                A!InsertSorted(s, key, f)[i] = IF i <= p THEN s[i] ELSE IF i = p + 1 THEN key ELSE s[i - 1]
<1> DEFINE stay == {j \in 1..Len(s) : ~A!ComesBefore(key, s[j], f)}
           p == A!Max(stay \cup {0})
<1>1. Len(s) \in Nat /\ stay \cup {0} \in SUBSET Nat /\ stay \cup {0} \subseteq 0..Len(s)
  OBVIOUS
<1>2. IsFiniteSet(stay \cup {0})
  <2>1. IsFiniteSet(0..Len(s))
    BY <1>1, FS_Interval
  <2> HIDE DEF stay
  <2> QED
    BY <1>1, <2>1, FS_Subset
<1>3. \E m \in stay \cup {0} : \A k \in stay \cup {0} : k <= m
  <2> HIDE DEF stay
  <2> QED
    BY <1>1, <1>2, Largest
<1>4. p \in stay \cup {0} /\ \A k \in stay \cup {0} : p >= k
  <2> HIDE DEF stay
  <2>1. \E m \in stay \cup {0} : \A k \in stay \cup {0} : m >= k
    BY <1>1, <1>3
  <2> QED
    BY <2>1, Zenon DEF A!Max
<1> DEFINE front == SubSeq(s, 1, p)
           back == SubSeq(s, p + 1, Len(s))
<1>5. A!InsertSorted(s, key, f) = front \o <<key>> \o back
  BY DEF A!InsertSorted
<1> HIDE DEF p
<1>6. p \in 0..Len(s) /\ (\A j \in 1..Len(s) : j > p => j \notin stay) /\ (p > 0 => p \in stay)
  BY <1>1, <1>4
<1>7. /\ front \in Seq(S) /\ Len(front) = p /\ \A i \in 1..p : front[i] = s[i]
  BY <1>1, <1>6, SubSeqProperties
<1>8. /\ back \in Seq(S) /\ Len(back) = Len(s) - p /\ \A i \in 1..(Len(s) - p) : back[i] = s[p + i]
  <2>1. \A i \in (p + 1)..Len(s) : s[i] \in S
    BY <1>1, <1>6
  <2>2. /\ back \in Seq(S)
        /\ Len(back) = IF p + 1 <= Len(s) THEN Len(s) - (p + 1) + 1 ELSE 0
        /\ \A i \in 1..(Len(s) - (p + 1) + 1) : back[i] = s[p + 1 + i - 1]
    BY <1>1, <1>6, <2>1, SubSeqProperties
  <2>3. /\ Len(s) - (p + 1) + 1 = Len(s) - p
        /\ (IF p + 1 <= Len(s) THEN Len(s) - (p + 1) + 1 ELSE 0) = Len(s) - p
    BY <1>1, <1>6
  <2>4. \A i \in 1..(Len(s) - p) : p + 1 + i - 1 = p + i
    BY <1>1, <1>6
  <2> HIDE DEF back
  <2> QED
    BY <2>2, <2>3, <2>4
<1> HIDE DEF front, back
<1>9. <<key>> \in Seq(S) /\ Len(<<key>>) = 1 /\ <<key>>[1] = key
  OBVIOUS
<1> DEFINE lead == front \o <<key>>
<1>10. lead \in Seq(S) /\ Len(lead) = p + 1 /\ \A i \in 1..(p + 1) : lead[i] = IF i <= p THEN s[i] ELSE key
  BY <1>6, <1>7, <1>9, ConcatProperties
<1> HIDE DEF lead
<1>11. /\ lead \o back \in Seq(S) /\ Len(lead \o back) = Len(s) + 1
       /\ \A i \in 1..(Len(s) + 1) :
            (lead \o back)[i] = IF i <= p THEN s[i] ELSE IF i = p + 1 THEN key ELSE s[i - 1]
  <2>1. Len(back) = Len(s) - p /\ Len(lead) + Len(back) = Len(s) + 1
    BY <1>1, <1>6, <1>8, <1>10
  <2>2. /\ lead \o back \in Seq(S) /\ Len(lead \o back) = Len(s) + 1
        /\ \A i \in 1..(Len(s) + 1) : (lead \o back)[i] = IF i <= p + 1 THEN lead[i] ELSE back[i - (p + 1)]
    BY <1>8, <1>10, <2>1, ConcatProperties
  <2>3. \A i \in 1..(Len(s) + 1) : i <= p + 1 => i \in 1..(p + 1)
    BY <1>1, <1>6
  <2>4. \A i \in 1..(Len(s) + 1) : ~(i <= p + 1) => i - (p + 1) \in 1..(Len(s) - p) /\ p + (i - (p + 1)) = i - 1
    BY <1>1, <1>6
  <2>5. ASSUME NEW i \in 1..(Len(s) + 1)
        PROVE  (lead \o back)[i] = IF i <= p THEN s[i] ELSE IF i = p + 1 THEN key ELSE s[i - 1]
    <3>1. CASE i <= p + 1
      <4>1. (lead \o back)[i] = lead[i] /\ lead[i] = IF i <= p THEN s[i] ELSE key
        BY <1>10, <2>2, <2>3, <3>1
      <4> QED
        BY <1>6, <3>1, <4>1
    <3>2. CASE ~(i <= p + 1)
      <4>1. (lead \o back)[i] = back[i - (p + 1)] /\ back[i - (p + 1)] = s[i - 1]
        BY <1>8, <2>2, <2>4, <3>2
      <4> QED
        BY <1>6, <3>2, <4>1
    <3> QED
      BY <3>1, <3>2
  <2> QED
    BY <2>2, <2>5
<1>12. A!InsertSorted(s, key, f) = lead \o back
  BY <1>5 DEF lead
<1> QED
  BY <1>6, <1>11, <1>12, ZenonT(60)

\* Who is on a list, and that nobody is on it twice.
On(s) == {s[i] : i \in 1..Len(s)}
NoRepeats(s) == \A i, j \in 1..Len(s) : s[i] = s[j] => i = j

\* Somebody new is added to a list.
LEMMA AppendNew ==
  ASSUME NEW S, NEW s \in Seq(S), NEW x \in S
  PROVE  /\ On(Append(s, x)) = On(s) \cup {x}
         /\ NoRepeats(s) /\ x \notin On(s) => NoRepeats(Append(s, x))
<1>1. /\ Len(s) \in Nat /\ Len(Append(s, x)) = Len(s) + 1
      /\ \A i \in 1..Len(s) : Append(s, x)[i] = s[i]
      /\ Append(s, x)[Len(s) + 1] = x
  BY AppendProperties, LenProperties
<1>2. \A i \in 1..(Len(s) + 1) : i \in 1..Len(s) \/ i = Len(s) + 1
  BY <1>1
<1>3. 1..Len(s) \subseteq 1..(Len(s) + 1) /\ Len(s) + 1 \in 1..(Len(s) + 1)
  BY <1>1
<1>4. On(Append(s, x)) = On(s) \cup {x}
  BY <1>1, <1>2, <1>3, Zenon DEF On
<1>5. ASSUME NoRepeats(s), x \notin On(s) PROVE NoRepeats(Append(s, x))
  BY <1>1, <1>2, <1>5, Zenon DEF On, NoRepeats
<1> QED
  BY <1>4, <1>5

\* The first loop keeps the eligible ones, each once.
LEMMA FilteredIs ==
  ASSUME NEW ops \in Seq(Addr), NoRepeats(ops), NEW f, NEW least
  PROVE  /\ A!Filtered(ops, f, least) \in Seq(Addr)
         /\ NoRepeats(A!Filtered(ops, f, least))
         /\ On(A!Filtered(ops, f, least)) = {o \in On(ops) : A!Eligible(o, f, least)}
<1> DEFINE may(o) == A!Eligible(o, f, least)
<1>1. PICK temp \in [0..Len(ops) -> Seq(Addr)] :
        /\ temp[0] = <<>>
        /\ \A n \in 1..Len(ops) : temp[n] = IF may(ops[n]) THEN Append(temp[n - 1], ops[n]) ELSE temp[n - 1]
        /\ A!Filtered(ops, f, least) = temp[Len(ops)]
  BY FilterRounds, SMTT(30)
<1> HIDE DEF may
<1>2. Len(ops) \in Nat
  OBVIOUS
<1> DEFINE Kept(n) == {ops[j] : j \in {k \in 1..n : may(ops[k])}}
           T == {n \in 0..Len(ops) : NoRepeats(temp[n]) /\ On(temp[n]) = Kept(n)}
<1>3. 0 \in T
  <2>1. 1..0 = {} /\ 0 \in 0..Len(ops)
    BY <1>2
  <2>2. NoRepeats(<<>>) /\ On(<<>>) = {}
    BY DEF NoRepeats, On
  <2> QED
    BY <1>1, <2>1, <2>2
<1>4. ASSUME NEW n \in 1..Len(ops), n - 1 \in T PROVE n \in T
  <2>1. n \in 0..Len(ops) /\ n - 1 \in 0..Len(ops) /\ temp[n - 1] \in Seq(Addr) /\ ops[n] \in Addr
    BY <1>1, <1>2
  <2>2. NoRepeats(temp[n - 1]) /\ On(temp[n - 1]) = Kept(n - 1)
    BY <1>4
  <2>3. \A k : k \in 1..n <=> k \in 1..(n - 1) \/ k = n
    BY <1>2
  <2>4. CASE may(ops[n])
    <3>1. temp[n] = Append(temp[n - 1], ops[n])
      BY <1>1, <2>4
    <3>2. Kept(n) = Kept(n - 1) \cup {ops[n]}
      BY <2>3, <2>4
    <3>3. ops[n] \notin Kept(n - 1)
      <4>1. \A k \in 1..(n - 1) : k \in 1..Len(ops) /\ k # n
        BY <1>2
      <4> QED
        BY <4>1 DEF NoRepeats
    <3> HIDE DEF Kept
    <3>4. On(temp[n]) = Kept(n) /\ NoRepeats(temp[n])
      BY <2>1, <2>2, <3>1, <3>2, <3>3, AppendNew
    <3> QED
      BY <2>1, <3>4
  <2>5. CASE ~may(ops[n])
    <3>1. temp[n] = temp[n - 1]
      BY <1>1, <2>5
    <3>2. Kept(n) = Kept(n - 1)
      BY <2>3, <2>5
    <3> HIDE DEF Kept
    <3> QED
      BY <2>1, <2>2, <3>1, <3>2
  <2> QED
    BY <2>4, <2>5
<1> HIDE DEF T
<1>5. Len(ops) \in T
  <2>1. \A n \in 0..Len(ops) : n \in T
    BY <1>2, <1>3, <1>4, UpTo
  <2> QED
    BY <1>2, <2>1
<1>6. Kept(Len(ops)) = {o \in On(ops) : may(o)}
  BY DEF On
<1> HIDE DEF Kept
<1>7. temp[Len(ops)] \in Seq(Addr)
  BY <1>1, <1>2
<1> QED
  BY <1>1, <1>5, <1>6, <1>7 DEF T, may

\* The key is put where it belongs.
LEMMA InsertKeepsOrder ==
  ASSUME NEW f \in [Addr -> OperatorInfo], NEW s \in Seq(Addr), NEW key \in Addr, key \notin On(s), InOrder(s, f)
  PROVE  /\ A!InsertSorted(s, key, f) \in Seq(Addr)
         /\ Len(A!InsertSorted(s, key, f)) = Len(s) + 1
         /\ On(A!InsertSorted(s, key, f)) = On(s) \cup {key}
         /\ InOrder(A!InsertSorted(s, key, f), f)
<1>1. PICK p \in 0..Len(s) :
        /\ \A j \in 1..Len(s) : j > p => A!ComesBefore(key, s[j], f)
        /\ p > 0 => ~A!ComesBefore(key, s[p], f)
        /\ A!InsertSorted(s, key, f) \in Seq(Addr)
        /\ Len(A!InsertSorted(s, key, f)) = Len(s) + 1
        /\ \A i \in 1..(Len(s) + 1) :
             A!InsertSorted(s, key, f)[i] = IF i <= p THEN s[i] ELSE IF i = p + 1 THEN key ELSE s[i - 1]
  <2>1. PICK S : S = Addr
    OBVIOUS
  <2> HIDE DEF Addr
  <2>2. s \in Seq(S) /\ key \in S
    BY <2>1
  <2> QED
    BY <2>2, InsertShape
<1>2. PICK r : r = A!InsertSorted(s, key, f)
  OBVIOUS
<1> DEFINE Before(a, b) == A!ComesBefore(a, b, f)
<1> HIDE DEF Before
<1>3. Len(s) \in Nat /\ p \in Nat /\ p <= Len(s) /\ Len(r) = Len(s) + 1
  BY <1>1, <1>2
<1>4. \A i \in 1..(Len(s) + 1) :
        /\ i <= p => i \in 1..Len(s) /\ r[i] = s[i]
        /\ i = p + 1 => r[i] = key
        /\ i > p + 1 => i - 1 \in 1..Len(s) /\ i - 1 > p /\ r[i] = s[i - 1]
  BY <1>1, <1>2, <1>3
<1>5. \A j \in 1..Len(s) : s[j] \in Addr /\ s[j] # key
  BY DEF On
<1>6. On(r) = On(s) \cup {key}
  <2>1. On(r) \subseteq On(s) \cup {key}
    <3>1. \A i \in 1..(Len(s) + 1) : i <= p \/ i = p + 1 \/ i > p + 1
      BY <1>3
    <3> QED
      BY <1>3, <1>4, <3>1, ZenonT(60) DEF On
  <2>2. key \in On(r)
    BY <1>3, <1>4 DEF On
  <2>3. ASSUME NEW j \in 1..Len(s) PROVE s[j] \in On(r)
    <3>1. CASE j <= p
      BY <1>3, <1>4, <3>1 DEF On
    <3>2. CASE j > p
      <4>1. j + 1 \in 1..(Len(s) + 1) /\ j + 1 > p + 1 /\ (j + 1) - 1 = j
        BY <1>3, <3>2
      <4> QED
        BY <1>3, <1>4, <4>1 DEF On
    <3> QED
      BY <1>3, <3>1, <3>2
  <2> QED
    BY <2>1, <2>2, <2>3 DEF On
<1>7. \A a, b, c \in Addr : Before(a, b) /\ Before(b, c) => Before(a, c)
  BY RankingIsAnOrder DEF Before
<1>8. \A a, b \in Addr : a # b => Before(a, b) \/ Before(b, a)
  BY RankingIsAnOrder DEF Before
<1>9. \A i, j \in 1..Len(s) : i < j => Before(s[i], s[j])
  BY DEF InOrder, Before
<1>10. \A j \in 1..Len(s) : j <= p => Before(s[j], key)
  <2> SUFFICES ASSUME NEW j \in 1..Len(s), j <= p PROVE Before(s[j], key)
    OBVIOUS
  <2>1. p \in 1..Len(s) /\ Before(s[p], key)
    BY <1>1, <1>3, <1>5, <1>8 DEF Before
  <2>2. j = p \/ j < p
    BY <1>3
  <2> QED
    BY <1>5, <1>7, <1>9, <2>1, <2>2
<1>11. \A i, j \in 1..(Len(s) + 1) : i < j => Before(r[i], r[j])
  <2> SUFFICES ASSUME NEW i \in 1..(Len(s) + 1), NEW j \in 1..(Len(s) + 1), i < j PROVE Before(r[i], r[j])
    OBVIOUS
  <2>1. CASE j <= p
    BY <1>3, <1>4, <1>9, <2>1
  <2>2. CASE j = p + 1
    BY <1>3, <1>4, <1>10, <2>2
  <2>3. CASE j > p + 1
    <3>1. j - 1 \in 1..Len(s) /\ j - 1 > p /\ r[j] = s[j - 1]
      BY <1>4, <2>3
    <3>2. CASE i <= p
      <4>1. i \in 1..Len(s) /\ r[i] = s[i] /\ i < j - 1
        BY <1>3, <1>4, <2>3, <3>2
      <4> QED
        BY <1>9, <3>1, <4>1
    <3>3. CASE i = p + 1
      BY <1>1, <1>4, <3>1, <3>3 DEF Before
    <3>4. CASE i > p + 1
      <4>1. i - 1 \in 1..Len(s) /\ r[i] = s[i - 1] /\ i - 1 < j - 1
        BY <1>3, <1>4, <3>4
      <4> QED
        BY <1>9, <3>1, <4>1
    <3> QED
      BY <1>3, <3>2, <3>3, <3>4
  <2> QED
    BY <1>3, <2>1, <2>2, <2>3
<1> QED
  BY <1>1, <1>2, <1>3, <1>6, <1>11, Zenon DEF InOrder, Before

\* The second loop puts a list in order.
LEMMA SortedIs ==
  ASSUME NEW f \in [Addr -> OperatorInfo], NEW may \in Seq(Addr), NoRepeats(may)
  PROVE  /\ A!Sorted(may, f) \in Seq(Addr)
         /\ On(A!Sorted(may, f)) = On(may)
         /\ InOrder(A!Sorted(may, f), f)
<1>1. \A s \in Seq(Addr), key \in Addr : A!InsertSorted(s, key, f) \in Seq(Addr)
  BY InsertShape
<1>2. PICK temp \in [0..Len(may) -> Seq(Addr)] :
        /\ temp[0] = <<>>
        /\ \A n \in 1..Len(may) : temp[n] = A!InsertSorted(temp[n - 1], may[n], f)
        /\ A!Sorted(may, f) = temp[Len(may)]
  BY <1>1, SortRounds, ZenonT(60)
<1>3. Len(may) \in Nat
  OBVIOUS
<1> DEFINE Taken(n) == {may[j] : j \in 1..n}
           T == {n \in 0..Len(may) : InOrder(temp[n], f) /\ On(temp[n]) = Taken(n)}
<1>4. 0 \in T
  <2>1. 1..0 = {} /\ 0 \in 0..Len(may)
    BY <1>3
  <2>2. InOrder(<<>>, f) /\ On(<<>>) = {}
    BY DEF InOrder, On
  <2> QED
    BY <1>2, <2>1, <2>2
<1>5. ASSUME NEW n \in 1..Len(may), n - 1 \in T PROVE n \in T
  <2>1. n \in 0..Len(may) /\ n - 1 \in 0..Len(may) /\ temp[n - 1] \in Seq(Addr) /\ may[n] \in Addr
    BY <1>2, <1>3
  <2>2. InOrder(temp[n - 1], f) /\ On(temp[n - 1]) = Taken(n - 1)
    BY <1>5
  <2>3. \A k : k \in 1..n <=> k \in 1..(n - 1) \/ k = n
    BY <1>3
  <2>4. Taken(n) = Taken(n - 1) \cup {may[n]}
    BY <2>3
  <2>5. may[n] \notin Taken(n - 1)
    <3>1. \A k \in 1..(n - 1) : k \in 1..Len(may) /\ k # n
      BY <1>3
    <3> QED
      BY <3>1 DEF NoRepeats
  <2> HIDE DEF Taken
  <2>6. InOrder(temp[n], f) /\ On(temp[n]) = Taken(n)
    BY <1>2, <2>1, <2>2, <2>4, <2>5, InsertKeepsOrder
  <2> QED
    BY <2>1, <2>6
<1> HIDE DEF T
<1>6. Len(may) \in T
  <2>1. \A n \in 0..Len(may) : n \in T
    BY <1>3, <1>4, <1>5, UpTo
  <2> QED
    BY <1>3, <2>1
<1>7. Taken(Len(may)) = On(may)
  BY DEF On
<1> HIDE DEF Taken
<1>8. temp[Len(may)] \in Seq(Addr)
  BY <1>2, <1>3
<1> QED
  BY <1>2, <1>6, <1>7, <1>8 DEF T

\* ActiveSet's Cardinality is FiniteSets's.
LEMMA CardSame == ASSUME NEW S PROVE A!Cardinality(S) = Cardinality(S)
BY DEF A!Cardinality, Cardinality

\* On a list in order, the rank of everybody is the place.
LEMMA RankIsPlace ==
  ASSUME NEW f \in [Addr -> OperatorInfo], NEW s \in Seq(Addr), InOrder(s, f), NEW i \in 1..Len(s)
  PROVE  A!Rank(s[i], On(s), f) = i - 1
<1> DEFINE ahead == {p \in On(s) : A!ComesBefore(p, s[i], f)}
           place == [j \in 1..(i - 1) |-> s[j]]
<1>1. A!Rank(s[i], On(s), f) = Cardinality(ahead)
  BY CardSame DEF A!Rank, A!ComesBefore
<1>2. \A j \in 1..Len(s) : s[j] \in Addr
  OBVIOUS
<1>3. Len(s) \in Nat /\ i - 1 \in Nat /\ \A j \in 1..(i - 1) : j \in 1..Len(s) /\ j < i
  OBVIOUS
<1>4. \A j \in 1..Len(s) : A!ComesBefore(s[j], s[i], f) => j \in 1..(i - 1)
  <2> SUFFICES ASSUME NEW j \in 1..Len(s), A!ComesBefore(s[j], s[i], f) PROVE j < i
    BY <1>3
  <2>1. ~A!ComesBefore(s[i], s[j], f) /\ s[i] # s[j]
    BY <1>2, RankingIsAnOrder
  <2>2. ~(i < j) /\ i # j
    BY <2>1 DEF InOrder
  <2> QED
    BY <1>3, <2>2
<1>5. \A j \in 1..(i - 1) : s[j] \in ahead
  BY <1>3 DEF InOrder, On
<1>6. \A p \in ahead : \E j \in 1..(i - 1) : p = s[j]
  BY <1>4 DEF On
<1>7. \A j, k \in 1..(i - 1) : s[j] = s[k] => j = k
  <2> SUFFICES ASSUME NEW j \in 1..(i - 1), NEW k \in 1..(i - 1), j < k PROVE s[j] # s[k]
    BY <1>3
  <2> QED
    BY <1>2, <1>3, RankingIsAnOrder DEF InOrder
<1> HIDE DEF ahead
<1>8. place \in [1..(i - 1) -> ahead] /\ \A j \in 1..(i - 1) : place[j] = s[j]
  BY <1>5
<1> HIDE DEF place
<1>9. place \in Injection(1..(i - 1), ahead)
  BY <1>7, <1>8 DEF Injection, IsInjective
<1>10. place \in Surjection(1..(i - 1), ahead)
  BY <1>6, <1>8 DEF Surjection
<1>11. PICK n \in Nat : n = i - 1
  BY <1>3
<1>12. IsFiniteSet(1..n) /\ Cardinality(1..n) = n
  BY FS_Interval
<1>13. Cardinality(ahead) = i - 1
  BY <1>9, <1>10, <1>11, <1>12, FS_Bijection DEF ExistsBijection, Bijection
<1> QED
  BY <1>1, <1>13

\* The first of a list in order are those of the lowest ranks.
LEMMA CutIsTop ==
  ASSUME NEW f \in [Addr -> OperatorInfo], NEW s \in Seq(Addr), InOrder(s, f), NEW max \in Nat,
         NEW limit, limit = IF Len(s) > max THEN max ELSE Len(s)
  PROVE  /\ SubSeq(s, 1, limit) \in Seq(Addr)
         /\ InOrder(SubSeq(s, 1, limit), f)
         /\ A!TopRanked(SubSeq(s, 1, limit), On(s), max, f)
<1>1. Len(s) \in Nat /\ limit \in Nat /\ limit <= Len(s) /\ limit <= max /\ (limit = max \/ limit = Len(s))
  OBVIOUS
<1>2. PICK t : t = SubSeq(s, 1, limit)
  OBVIOUS
<1>3. t \in Seq(Addr) /\ Len(t) = limit /\ \A i \in 1..limit : t[i] = s[i]
  BY <1>1, <1>2, SubSeqProperties
<1>4. \A i \in 1..limit : i \in 1..Len(s)
  BY <1>1
<1>5. \A i \in 1..Len(s) : A!Rank(s[i], On(s), f) = i - 1
  BY RankIsPlace
<1>6. \A i \in 1..Len(t) : A!Rank(t[i], On(s), f) = i - 1
  <2> HIDE DEF On
  <2> QED
    BY <1>3, <1>4, <1>5
<1>7. A!ToSet(t) = {o \in On(s) : A!Rank(o, On(s), f) < max}
  <2>1. A!ToSet(t) = {s[i] : i \in 1..limit}
    BY <1>1, <1>3, LenProperties DEF A!ToSet
  <2>2. \A i \in 1..Len(s) : i \in 1..limit <=> i - 1 < max
    BY <1>1
  <2>3. \A i \in 1..Len(s) : i \in 1..limit <=> A!Rank(s[i], On(s), f) < max
    BY <1>5, <2>2
  <2> QED
    BY <1>4, <2>1, <2>3, Zenon DEF On
<1>8. InOrder(t, f)
  BY <1>1, <1>3, <1>4 DEF InOrder
<1> QED
  BY <1>2, <1>3, <1>6, <1>7, <1>8 DEF A!TopRanked

----------------------------------------------------------------------------
(* Who is registered *)

\* The list of registrations: whoever is registered is on it, once, and has a
\* key.
Registry(ops, f) ==
  /\ NoRepeats(ops)
  /\ On(ops) = {o \in Addr : f[o].registered}
  /\ \A o \in Addr : f[o].registered => f[o].consensusKey # NoKey

\* It is so in every state, and in the one a failure would restore.
SelectionInv ==
  /\ TypeOK
  /\ Registry(registeredOperators, info)
  /\ frame.pc # "idle" => Registry(saved[1].registeredOperators, saved[1].info)

\* A step that registers nobody and leaves keys and the open call alone keeps
\* the list.
LEMMA SameRegistry ==
  ASSUME SelectionInv, TypeOK', UNCHANGED registeredOperators,
         \A o \in Addr : info'[o].registered = info[o].registered /\ info'[o].consensusKey = info[o].consensusKey,
         frame'.pc # "idle" => frame.pc # "idle" /\ saved' = saved
  PROVE  SelectionInv'
BY DEF SelectionInv, Registry

\* Before the first registration the list is empty.
LEMMA InitSelection == Init => SelectionInv
<1> SUFFICES ASSUME Init PROVE SelectionInv
  OBVIOUS
<1>1. On(<<>>) = {} /\ NoRepeats(<<>>)
  BY DEF On, NoRepeats
<1>2. Registry(registeredOperators, info)
  BY <1>1 DEF Init, Registry, NoOperator
<1>3. frame.pc = "idle"
  BY DEF Init, NoFrame
<1> QED
  BY <1>2, <1>3, InitTypes DEF SelectionInv

\* A registration adds one who was not on the list.
LEMMA RegisterSelection ==
  ASSUME SelectionInv, TypeOK', NEW a \in Addr, NEW key, NEW payout, RegisterOperator(a, key, payout)
  PROVE  SelectionInv'
<1>1. info \in [Addr -> OperatorInfo] /\ registeredOperators \in Seq(Addr)
  BY WorldTypes DEF SelectionInv, TypeOK
<1>2. /\ NoRepeats(registeredOperators) /\ On(registeredOperators) = {o \in Addr : info[o].registered}
      /\ \A o \in Addr : info[o].registered => info[o].consensusKey # NoKey
  BY DEF SelectionInv, Registry
<1>3. /\ ~info[a].registered /\ key # NoKey
      /\ registeredOperators' = Append(registeredOperators, a)
      /\ info' = [info EXCEPT ![a] = [@ EXCEPT !.payout = payout, !.consensusKey = key, !.registered = TRUE]]
      /\ frame' = frame /\ saved' = saved
  BY DEF RegisterOperator, call
<1>4. info'[a].registered /\ info'[a].consensusKey = key /\ \A o \in Addr \ {a} : info'[o] = info[o]
  BY <1>1, <1>3 DEF OperatorInfo
<1>5. NoRepeats(registeredOperators') /\ On(registeredOperators') = On(registeredOperators) \cup {a}
  BY <1>1, <1>2, <1>3, AppendNew
<1>6. Registry(registeredOperators, info)'
  BY <1>2, <1>3, <1>4, <1>5 DEF Registry
<1> QED
  BY <1>3, <1>6 DEF SelectionInv

LEMMA OperatorSelection ==
  ASSUME SelectionInv, TypeOK', NEW a \in Addr, Operator(a)
  PROVE  SelectionInv'
<1>1. info \in [Addr -> OperatorInfo]
  BY WorldTypes DEF SelectionInv, TypeOK
<1>2. ASSUME NEW key, UpdateConsensusKey(a, key)
      PROVE  SelectionInv'
  <2>1. /\ key # NoKey /\ info' = [info EXCEPT ![a].consensusKey = key]
        /\ registeredOperators' = registeredOperators /\ frame' = frame /\ saved' = saved
    BY <1>2 DEF UpdateConsensusKey, call
  <2>2. /\ \A o \in Addr : info'[o].registered = info[o].registered
        /\ \A o \in Addr : info'[o].consensusKey \in {info[o].consensusKey, key}
    BY <1>1, <2>1 DEF OperatorInfo
  <2>3. Registry(registeredOperators, info)'
    BY <2>1, <2>2 DEF SelectionInv, Registry
  <2> QED
    BY <2>1, <2>3 DEF SelectionInv
<1>3. ASSUME NEW payout, UpdatePayout(a, payout)
      PROVE  SelectionInv'
  <2>1. \A o \in Addr : info'[o].registered = info[o].registered /\ info'[o].consensusKey = info[o].consensusKey
    BY <1>1, <1>3 DEF UpdatePayout, OperatorInfo
  <2> QED
    BY <1>3, <2>1, SameRegistry DEF UpdatePayout, call
<1> QED
  BY <1>2, <1>3, RegisterSelection DEF Operator

LEMMA StakerSelection ==
  ASSUME SelectionInv, TypeOK', NEW a \in Addr, Staker(a)
  PROVE  SelectionInv'
<1>1. info \in [Addr -> OperatorInfo]
  BY WorldTypes DEF SelectionInv, TypeOK
<1>2. ASSUME NEW o \in Addr, NEW s, NEW v, StakeFor(a, o, s, v)
      PROVE  SelectionInv'
  <2>1. \A p \in Addr : info'[p].registered = info[p].registered /\ info'[p].consensusKey = info[p].consensusKey
    BY <1>1, <1>2 DEF StakeFor, OperatorInfo
  <2> QED
    BY <1>2, <2>1, SameRegistry DEF StakeFor, call
<1>3. ASSUME NEW o \in Addr, NEW v, RequestUnstake(a, o, v)
      PROVE  SelectionInv'
  <2>1. \A p \in Addr : info'[p].registered = info[p].registered /\ info'[p].consensusKey = info[p].consensusKey
    BY <1>1, <1>3 DEF RequestUnstake, OperatorInfo
  <2> QED
    BY <1>3, <2>1, SameRegistry DEF RequestUnstake, call
<1>4. ASSUME NEW o \in Addr, WithdrawUnstaked(a, o)
      PROVE  SelectionInv'
  <2>1. info' = info /\ registeredOperators' = registeredOperators /\ saved'[1] = World
    BY <1>4 DEF WithdrawUnstaked, records
  <2> QED
    BY <2>1 DEF SelectionInv, World
<1> QED
  BY <1>2, <1>3, <1>4 DEF Staker

\* Every step keeps the invariant.
LEMMA NextSelection == SelectionInv /\ [Next]_vars => SelectionInv'
<1> SUFFICES ASSUME SelectionInv, [Next]_vars PROVE SelectionInv'
  OBVIOUS
<1>1. TypeOK'
  BY NextTypes DEF SelectionInv
<1>2. info \in [Addr -> OperatorInfo]
  BY WorldTypes DEF SelectionInv, TypeOK
<1>3. ASSUME NEW a \in Addr, Owner(a) PROVE SelectionInv'
  <2>1. ASSUME NEW o \in Addr, NEW jailed, SetJailed(a, o, jailed) PROVE SelectionInv'
    <3>1. \A p \in Addr : info'[p].registered = info[p].registered /\ info'[p].consensusKey = info[p].consensusKey
      BY <1>2, <2>1 DEF SetJailed, OperatorInfo
    <3> QED
      BY <1>1, <2>1, <3>1, SameRegistry DEF SetJailed, call
  <2>2. ASSUME NEW p, SetMinStake(a, p) \/ SetMaxValidators(a, p)
                      \/ SetUnbondingPeriod(a, p) \/ TransferOwnership(a, p)
        PROVE SelectionInv'
    BY <1>1, <2>2, SameRegistry
       DEF SetMinStake, SetMaxValidators, SetUnbondingPeriod, TransferOwnership, records, call
  <2> QED
    BY <1>3, <2>1, <2>2 DEF Owner
<1>4. ASSUME Withdrawal PROVE SelectionInv'
  <2>1. CASE DrainMature \/ DrainKeep \/ Pay \/ Return
    <3>1. UNCHANGED <<info, registeredOperators>>
      BY <2>1 DEF DrainMature, DrainKeep, Pay, Return, records
    <3>2. frame'.pc # "idle" => frame.pc # "idle" /\ saved' = saved
      BY <2>1 DEF DrainMature, DrainKeep, Pay, Return, NoFrame
    <3> QED
      BY <1>1, <3>1, <3>2, SameRegistry
  <2>2. CASE Fail
    <3>1. /\ info' = saved[1].info /\ registeredOperators' = saved[1].registeredOperators
          /\ frame.pc # "idle" /\ frame'.pc = "idle"
      BY <2>2 DEF Fail, RollBack, NoFrame
    <3> QED
      BY <1>1, <3>1 DEF SelectionInv
  <2> QED
    BY <1>4, <2>1, <2>2 DEF Withdrawal
<1>5. CASE Tick \/ UNCHANGED vars
  BY <1>1, <1>5, SameRegistry DEF Tick, vars, records, call
<1> QED
  BY <1>1, <1>3, <1>4, <1>5, OperatorSelection, StakerSelection DEF Next

----------------------------------------------------------------------------
(* The active set *)

\* What a call of getActiveOperators returns: eligible operators in order,
\* the best of the candidates.
LEMMA ActiveIs ==
  ASSUME SelectionInv
  PROVE  /\ ActiveOperators \in Seq(Addr)
         /\ InOrder(ActiveOperators, info)
         /\ A!TopRanked(ActiveOperators, Candidates, maxValidators, info)
<1>1. /\ info \in [Addr -> OperatorInfo] /\ registeredOperators \in Seq(Addr) /\ maxValidators \in Nat
      /\ NoRepeats(registeredOperators) /\ On(registeredOperators) = {o \in Addr : info[o].registered}
  BY WorldTypes DEF SelectionInv, TypeOK, Registry
<1>2. PICK may : may = A!Filtered(registeredOperators, info, minStake)
  OBVIOUS
<1>3. may \in Seq(Addr) /\ NoRepeats(may)
  BY <1>1, <1>2, FilteredIs
<1>4. On(may) = Candidates
  <2>1. On(may) = {o \in On(registeredOperators) : A!Eligible(o, info, minStake)}
    BY <1>1, <1>2, FilteredIs
  <2> QED
    BY <1>1, <2>1 DEF Candidates, A!Eligible
<1>5. PICK ranked : ranked = A!Sorted(may, info)
  OBVIOUS
<1>6. ranked \in Seq(Addr) /\ On(ranked) = Candidates /\ InOrder(ranked, info)
  BY <1>1, <1>3, <1>4, <1>5, SortedIs
<1>7. PICK limit : limit = IF Len(ranked) > maxValidators THEN maxValidators ELSE Len(ranked)
  OBVIOUS
<1>8. ActiveOperators = SubSeq(ranked, 1, limit)
  BY <1>2, <1>5, <1>7, Zenon DEF ActiveOperators, A!GetActiveOperators
<1>9. /\ SubSeq(ranked, 1, limit) \in Seq(Addr) /\ InOrder(SubSeq(ranked, 1, limit), info)
      /\ A!TopRanked(SubSeq(ranked, 1, limit), On(ranked), maxValidators, info)
  BY <1>1, <1>6, <1>7, CutIsTop
<1> QED
  BY <1>6, <1>8, <1>9

\* Nobody is on a list in order twice, so that it is as long as it has
\* members.
LEMMA InOrderCounts ==
  ASSUME NEW f \in [Addr -> OperatorInfo], NEW s \in Seq(Addr), InOrder(s, f)
  PROVE  Cardinality(On(s)) = Len(s)
<1>1. \A j, k \in 1..Len(s) : s[j] = s[k] => j = k
  <2> SUFFICES ASSUME NEW j \in 1..Len(s), NEW k \in 1..Len(s), j < k PROVE s[j] # s[k]
    OBVIOUS
  <2>1. s[j] \in Addr /\ s[k] \in Addr /\ A!ComesBefore(s[j], s[k], f)
    BY DEF InOrder
  <2> QED
    BY <2>1, RankingIsAnOrder
<1> DEFINE place == [j \in 1..Len(s) |-> s[j]]
<1>2. place \in [1..Len(s) -> On(s)] /\ \A j \in 1..Len(s) : place[j] = s[j]
  BY DEF On
<1>3. \A p \in On(s) : \E j \in 1..Len(s) : p = s[j]
  BY DEF On
<1> HIDE DEF place
<1>4. place \in Injection(1..Len(s), On(s))
  BY <1>1, <1>2 DEF Injection, IsInjective
<1>5. place \in Surjection(1..Len(s), On(s))
  BY <1>2, <1>3 DEF Surjection
<1>6. PICK n \in Nat : n = Len(s)
  OBVIOUS
<1>7. IsFiniteSet(1..n) /\ Cardinality(1..n) = n
  BY FS_Interval
<1> QED
  BY <1>4, <1>5, <1>6, <1>7, FS_Bijection DEF ExistsBijection, Bijection

\* The two lists and the positions of the view agree.
LEMMA SelectionHolds == SelectionInv => ActiveSetIsTopRanked
<1> SUFFICES ASSUME SelectionInv PROVE ActiveSetIsTopRanked
  OBVIOUS
<1>1. /\ info \in [Addr -> OperatorInfo] /\ \A o \in Addr : info[o].registered => info[o].consensusKey # NoKey
  BY WorldTypes DEF SelectionInv, TypeOK, Registry
<1>2. PICK active : active = ActiveOperators
  OBVIOUS
<1>3. /\ active \in Seq(Addr) /\ InOrder(active, info)
      /\ A!TopRanked(active, Candidates, maxValidators, info)
  BY <1>2, ActiveIs
<1>4. active = A!GetActiveOperators(registeredOperators, info, minStake, maxValidators)
  BY <1>2 DEF ActiveOperators
<1>5. A!ToSet(active) = On(active)
  BY <1>3, LenProperties DEF A!ToSet, On
<1>6. On(active) \subseteq Candidates
  BY <1>3, <1>5 DEF A!TopRanked
<1>7. \A i \in 1..Len(active) : active[i] \in Candidates
  BY <1>6 DEF On
<1>8. A!ToSet(active) =
        {o \in Addr : A!IsActiveOperator(o, registeredOperators, info, minStake, maxValidators)}
  BY <1>4, <1>5, <1>6 DEF A!IsActiveOperator, Candidates
<1>9. PICK keys : keys = A!GetActiveConsensusKeys(registeredOperators, info, minStake, maxValidators)
  OBVIOUS
<1>10. keys = [i \in 1..Len(active) |-> info[active[i]].consensusKey]
  BY <1>4, <1>9, Zenon DEF A!GetActiveConsensusKeys
<1>11. NoKey \notin A!ToSet(keys)
  <2>1. \A i \in 1..Len(active) : keys[i] # NoKey
    BY <1>1, <1>7, <1>10 DEF Candidates, A!Eligible
  <2>2. DOMAIN keys = 1..Len(active)
    BY <1>10
  <2>3. A!ToSet(keys) = {keys[i] : i \in 1..Len(active)}
    BY <2>2 DEF A!ToSet
  <2> QED
    BY <2>1, <2>3
<1>12. PICK count : count = A!ValidatorCount(registeredOperators, info, minStake, maxValidators)
  OBVIOUS
<1>13. count = Len(active)
  BY <1>4, <1>12 DEF A!ValidatorCount
<1>14. count = Cardinality(A!ToSet(active))
  BY <1>1, <1>3, <1>5, <1>13, InOrderCounts
<1>15. ASSUME NEW idx \in 0..count
       PROVE  A!GetValidatorAt(idx, registeredOperators, info, minStake, maxValidators) =
                IF idx < count THEN <<active[idx + 1], keys[idx + 1]>> ELSE <<>>
  <2>1. A!GetValidatorAt(idx, registeredOperators, info, minStake, maxValidators) =
          IF idx < Len(active) THEN <<active[idx + 1], info[active[idx + 1]].consensusKey>> ELSE <<>>
    BY <1>4, Zenon DEF A!GetValidatorAt
  <2>2. idx < count => keys[idx + 1] = info[active[idx + 1]].consensusKey
    <3>1. Len(active) \in Nat /\ (idx < count => idx + 1 \in 1..Len(active))
      BY <1>3, <1>13
    <3> QED
      BY <1>10, <3>1
  <2> QED
    BY <1>13, <2>1, <2>2
<1> QED
  BY <1>2, <1>3, <1>8, <1>9, <1>11, <1>12, <1>14, <1>15, Zenon DEF ActiveSetIsTopRanked

\* In every reachable state the list of registrations, and the one a failure
\* would restore, name whoever is registered, once, with a key.
THEOREM SelectionInvariant == Spec => []SelectionInv
<1> QED
  BY InitSelection, NextSelection, PTL DEF Spec

\* getActiveOperators returns the best eligible operators in rank order, and
\* whatever reads the set one by one gets the same (QikStaking.sol:181-252,
\* QikValidatorSet.sol:15-36).
THEOREM ActiveSetIsRanked == Spec => []ActiveSetIsTopRanked
<1> QED
  BY SelectionInvariant, SelectionHolds, PTL
=============================================================================
