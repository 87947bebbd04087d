-------------------------- MODULE PosStakingProofs --------------------------
(***************************************************************************)
(* The stake manager of PosStaking can always pay: for any finite number   *)
(* of operators, any supply, amounts, delays and epochs.                   *)
(***************************************************************************)
EXTENDS PosStakingSafety, SumsProofs

----------------------------------------------------------------------------
(* Lists of withdrawals *)

\* What is unpaid of a list is a natural.
LEMMA UnpaidType ==
  ASSUME NEW q \in Seq(PendingWithdrawal)
  PROVE  /\ Unpaid(q) \in Nat
         /\ \A j \in 1..Len(q) : q[j].amount \in Nat /\ q[j] \in PendingWithdrawal
<1>1. \A j \in 1..Len(q) : q[j].amount \in Nat /\ q[j] \in PendingWithdrawal
  <2> TAKE j \in 1..Len(q)
  <2>1. q[j] \in PendingWithdrawal
    OBVIOUS
  <2>2. QED
    BY <2>1 DEF PendingWithdrawal
<1> DEFINE f == [i \in 1..Len(q) |-> IF q[i].withdrawn THEN 0 ELSE q[i].amount]
<1>2. IsFiniteSet(1..Len(q)) /\ \A j \in 1..Len(q) : f[j] \in Nat
  BY <1>1, FS_Interval
<1>3. Sum(f, 1..Len(q)) \in Nat
  BY <1>2, SumType
<1>4. QED
  BY <1>1, <1>3 DEF Unpaid

\* A withdrawal that begins adds its amount.
LEMMA UnpaidAppend ==
  ASSUME NEW q \in Seq(PendingWithdrawal), NEW e \in PendingWithdrawal, ~e.withdrawn
  PROVE  Append(q, e) \in Seq(PendingWithdrawal) /\ Unpaid(Append(q, e)) = Unpaid(q) + e.amount
<1> DEFINE n == Len(q)
           f == [i \in 1..(n + 1) |-> IF Append(q, e)[i].withdrawn THEN 0 ELSE Append(q, e)[i].amount]
           g == [i \in 1..n |-> IF q[i].withdrawn THEN 0 ELSE q[i].amount]
<1>1. Append(q, e) \in Seq(PendingWithdrawal) /\ Len(Append(q, e)) = n + 1 /\ n \in Nat
  OBVIOUS
<1>2. \A j \in 1..(n + 1) : f[j] \in Nat
  BY <1>1, UnpaidType
<1>3. /\ IsFiniteSet(1..(n + 1))
      /\ n + 1 \in 1..(n + 1) /\ (1..(n + 1)) \ {n + 1} = 1..n
  <2>1. IsFiniteSet(1..(n + 1))
    BY <1>1, n + 1 \in Int, FS_Interval
  <2>2. QED
    BY <1>1, <2>1
<1>4. Sum(f, 1..(n + 1)) = f[n + 1] + Sum(f, 1..n)
  BY <1>2, <1>3, SumSplit, SMTT(30)
<1>5. Sum(f, 1..n) = Sum(g, 1..n)
  <2>1. \A j \in 1..n : f[j] = g[j]
    BY <1>1
  <2>2. QED
    BY <2>1, SumSame
<1>6. f[n + 1] = e.amount /\ e.amount \in Nat
  BY <1>1 DEF PendingWithdrawal
<1>7. Unpaid(q) \in Nat
  BY UnpaidType
<1>8. Sum(g, 1..n) = Unpaid(q) /\ Sum(f, 1..(n + 1)) = Unpaid(Append(q, e))
  BY <1>1 DEF Unpaid
<1> HIDE DEF f, g, n
<1>9. QED
  BY <1>1, <1>4, <1>5, <1>6, <1>7, <1>8

\* A withdrawal that is paid takes its amount away.
LEMMA UnpaidMark ==
  ASSUME NEW q \in Seq(PendingWithdrawal), NEW id \in 1..Len(q), ~q[id].withdrawn
  PROVE  LET r == [q EXCEPT ![id].withdrawn = TRUE]
         IN /\ r \in Seq(PendingWithdrawal)
            /\ Unpaid(r) = Unpaid(q) - q[id].amount
            /\ q[id].amount <= Unpaid(q)
<1> DEFINE r == [q EXCEPT ![id].withdrawn = TRUE]
           S == 1..Len(q)
           f == [i \in S |-> IF q[i].withdrawn THEN 0 ELSE q[i].amount]
           g == [i \in S |-> IF r[i].withdrawn THEN 0 ELSE r[i].amount]
<1>1. \A j \in S : q[j] \in PendingWithdrawal /\ q[j].amount \in Nat
  BY UnpaidType
<1>2. [q[id] EXCEPT !.withdrawn = TRUE] \in PendingWithdrawal
  BY <1>1 DEF PendingWithdrawal
<1>3. r \in Seq(PendingWithdrawal) /\ Len(r) = Len(q)
  BY <1>2
<1>4. /\ r[id].withdrawn
      /\ \A j \in S \ {id} : r[j] = q[j]
  BY <1>1, <1>2 DEF PendingWithdrawal
<1>5. g[id] = 0 /\ f[id] = q[id].amount
  BY <1>4
<1>6. \A j \in S \ {id} : g[j] = f[j]
  BY <1>4
<1>7. \A j \in S : f[j] \in Nat
  BY <1>1
<1>8. IsFiniteSet(S) /\ id \in S
  BY FS_Interval
<1>9. Sum(f, S) = Unpaid(q) /\ Sum(g, S) = Unpaid(r)
  BY <1>3 DEF Unpaid
<1>10. q[id].amount \in Nat
  BY <1>1
<1> HIDE DEF f, g, r, S
<1>11. \A j \in S : g[j] \in Nat
  BY <1>5, <1>6, <1>7
<1>12. Sum(f, S) = f[id] + Sum(f, S \ {id})
  BY <1>7, <1>8, SumSplit
<1>13. Sum(g, S) = g[id] + Sum(g, S \ {id})
  BY <1>8, <1>11, SumSplit
<1>14. Sum(g, S \ {id}) = Sum(f, S \ {id})
  BY <1>6, SumSame
<1>15. Sum(f, S \ {id}) \in Nat
  BY <1>7, <1>8, SumType, FS_RemoveElement
<1>16. /\ Unpaid(r) = Unpaid(q) - q[id].amount
       /\ q[id].amount <= Unpaid(q)
  BY <1>5, <1>9, <1>10, <1>12, <1>13, <1>14, <1>15
<1>17. QED
  BY <1>3, <1>16 DEF r

\* What is unpaid to all changes by what is unpaid to one.
LEMMA UnpaidUpdate ==
  ASSUME NEW p \in [Operator -> Seq(PendingWithdrawal)], NEW o \in Operator,
         NEW q \in Seq(PendingWithdrawal)
  PROVE  /\ UnpaidOf(p) \in Nat
         /\ UnpaidOf([p EXCEPT ![o] = q]) = UnpaidOf(p) - Unpaid(p[o]) + Unpaid(q)
         /\ Unpaid(p[o]) <= UnpaidOf(p)
<1> DEFINE r == [p EXCEPT ![o] = q]
           f == [x \in Operator |-> Unpaid(p[x])]
           g == [x \in Operator |-> Unpaid(r[x])]
<1>1. IsFiniteSet(Operator)
  BY PosAssumption
<1>2. (\A x \in Operator : f[x] \in Nat) /\ (\A x \in Operator : g[x] \in Nat)
  <2>1. \A x \in Operator : p[x] \in Seq(PendingWithdrawal) /\ r[x] \in Seq(PendingWithdrawal)
    OBVIOUS
  <2>2. QED
    BY <2>1, UnpaidType
<1>3. g[o] = Unpaid(q) /\ f[o] = Unpaid(p[o])
  OBVIOUS
<1>4. \A x \in Operator \ {o} : g[x] = f[x]
  OBVIOUS
<1>5. UnpaidOf(p) = Sum(f, Operator) /\ UnpaidOf(r) = Sum(g, Operator)
  BY DEF UnpaidOf
<1> HIDE DEF f, g, r
<1>6. Sum(f, Operator) = f[o] + Sum(f, Operator \ {o})
  BY <1>1, <1>2, SumSplit
<1>7. Sum(g, Operator) = g[o] + Sum(g, Operator \ {o})
  BY <1>1, <1>2, SumSplit
<1>8. Sum(g, Operator \ {o}) = Sum(f, Operator \ {o})
  BY <1>4, SumSame
<1>9. Sum(f, Operator \ {o}) \in Nat
  BY <1>1, <1>2, SumType, FS_RemoveElement
<1>10. f[o] \in Nat /\ g[o] \in Nat
  BY <1>2
<1>11. UnpaidOf(p) \in Nat /\ UnpaidOf(r) = UnpaidOf(p) - Unpaid(p[o]) + Unpaid(q) /\ Unpaid(p[o]) <= UnpaidOf(p)
  BY <1>3, <1>5, <1>6, <1>7, <1>8, <1>9, <1>10
<1>12. QED
  BY <1>11 DEF r

\* What is unpaid to all is a natural.
LEMMA UnpaidOfType ==
  ASSUME NEW p \in [Operator -> Seq(PendingWithdrawal)]
  PROVE  UnpaidOf(p) \in Nat
<1> DEFINE f == [x \in Operator |-> Unpaid(p[x])]
<1>1. \A x \in Operator : f[x] \in Nat
  BY UnpaidType
<1>2. Sum(f, Operator) \in Nat
  BY <1>1, PosAssumption, SumType
<1>3. QED
  BY <1>2 DEF UnpaidOf

\* The total of the stakes is a natural and follows the change of one.
LEMMA StakesUpdate ==
  ASSUME NEW st \in [Operator -> Nat], NEW o \in Operator, NEW n \in Nat
  PROVE  /\ Sum(st, Operator) \in Nat
         /\ Sum([st EXCEPT ![o] = n], Operator) = Sum(st, Operator) - st[o] + n
         /\ st[o] <= Sum(st, Operator)
<1> DEFINE g == [st EXCEPT ![o] = n]
<1>1. IsFiniteSet(Operator)
  BY PosAssumption
<1>2. \A x \in Operator : st[x] \in Nat
  OBVIOUS
<1>3. \A x \in Operator : g[x] \in Nat
  OBVIOUS
<1>4. g[o] = n /\ \A x \in Operator \ {o} : g[x] = st[x]
  OBVIOUS
<1> HIDE DEF g
<1>5. Sum(g, Operator) = Sum(st, Operator) - st[o] + g[o]
  BY <1>1, <1>2, <1>3, <1>4, SumUpdate
<1>6. Sum(st, Operator) \in Nat
  BY <1>1, <1>2, SumType
<1>7. st[o] <= Sum(st, Operator)
  BY <1>1, <1>2, SumBound
<1>8. QED
  BY <1>4, <1>5, <1>6, <1>7 DEF g

----------------------------------------------------------------------------
(* The steps *)

\* A transfer that is covered leaves balances that are naturals.
LEMMA MovedType ==
  ASSUME balanceOf \in [Holder -> Nat], NEW from \in Holder, NEW to \in Holder,
         NEW amount \in Nat, amount <= balanceOf[from]
  PROVE  /\ Moved(from, to, amount) \in [Holder -> Nat]
         /\ from # to => /\ Moved(from, to, amount)[from] = balanceOf[from] - amount
                         /\ Moved(from, to, amount)[to] = balanceOf[to] + amount
         /\ from # Manager => Moved(from, to, amount)[Manager] >= balanceOf[Manager]
<1>1. \A h \in Holder : balanceOf[h] \in Nat
  OBVIOUS
<1>2. Manager \in Holder
  BY DEF Holder
<1>3. QED
  BY <1>1, <1>2 DEF Moved

\* The initial state.
LEMMA InitInv == Init => PosInv
<1> SUFFICES ASSUME Init PROVE PosInv
  OBVIOUS
<1>1. TypeOK
  <2>1. validators \in [Operator -> ValidatorInfo]
    BY DEF Init, ValidatorInfo, Unknown
  <2>2. /\ totalSupply \in Nat /\ balanceOf \in [Holder -> Nat] /\ allowance \in [Operator -> Nat]
        /\ stakeOf \in [Operator -> Nat] /\ totalStaked \in Nat
    BY DEF Init
  <2>3. pendingWithdrawals \in [Operator -> Seq(PendingWithdrawal)]
    BY DEF Init
  <2>4. /\ activeSet \in [Epochs -> Seq(Operator)]
        /\ activeSetHash \in [Epochs -> {NoHash} \cup {Hash(l) : l \in Listed}]
    BY DEF Init
  <2>5. block \in 0..MaxBlock
    BY PosAssumption DEF Init
  <2>6. QED
    BY <2>1, <2>2, <2>3, <2>4, <2>5 DEF TypeOK
<1>2. \A o \in Operator : stakeOf[o] = 0
  BY DEF Init
<1>3. Sum(stakeOf, Operator) = 0
  BY <1>2, SumZero
<1>4. Unpaid(<<>>) = 0
  <2>1. \A i \in 1..Len(<<>>) : FALSE
    OBVIOUS
  <2>2. QED
    BY <2>1, SumZero DEF Unpaid
<1>5. UnpaidOf(pendingWithdrawals) = 0
  <2> DEFINE f == [o \in Operator |-> Unpaid(pendingWithdrawals[o])]
  <2>1. \A o \in Operator : f[o] = 0
    BY <1>4 DEF Init
  <2>2. Sum(f, Operator) = 0
    BY <2>1, SumZero
  <2>3. QED
    BY <2>2 DEF UnpaidOf
<1>6. balanceOf[Manager] = 0 /\ totalStaked = 0
  BY DEF Init, Holder
<1>7. QED
  BY <1>1, <1>3, <1>5, <1>6 DEF PosInv, PosSolvent, TotalStakedIsSum

\* What the stake manager keeps is untouched, and it has no fewer tokens.
LEMMA OtherStep ==
  ASSUME PosInv, TypeOK', UNCHANGED manager, balanceOf'[Manager] >= balanceOf[Manager]
  PROVE  PosInv'
<1>1. UnpaidOf(pendingWithdrawals)' = UnpaidOf(pendingWithdrawals)
  BY DEF manager
<1>2. Sum(stakeOf, Operator)' = Sum(stakeOf, Operator) /\ totalStaked' = totalStaked
  BY DEF manager
<1> DEFINE owed == totalStaked + UnpaidOf(pendingWithdrawals)
<1>3. owed' = owed
  BY <1>1, <1>2
<1>4. balanceOf[Manager] \in Nat /\ balanceOf'[Manager] \in Nat /\ owed \in Nat
  <2>1. balanceOf[Manager] \in Nat /\ balanceOf'[Manager] \in Nat /\ totalStaked \in Nat
    BY DEF PosInv, TypeOK, Holder
  <2>2. UnpaidOf(pendingWithdrawals) \in Nat
    <3>1. pendingWithdrawals \in [Operator -> Seq(PendingWithdrawal)]
      BY DEF PosInv, TypeOK
    <3>2. QED
      BY <3>1, UnpaidOfType
  <2>3. QED
    BY <2>1, <2>2
<1>5. balanceOf[Manager] >= owed
  BY DEF PosInv, PosSolvent
<1>6. PosSolvent'
  <2>1. balanceOf'[Manager] >= owed'
    <3> HIDE DEF owed
    <3>1. QED
      BY <1>3, <1>4, <1>5
  <2>2. QED
    BY <2>1 DEF PosSolvent
<1>7. TotalStakedIsSum'
  BY <1>2 DEF PosInv, TotalStakedIsSum
<1>8. QED
  BY <1>6, <1>7 DEF PosInv

\* Registering, updating, and the snapshots of the epoch manager.
LEMMA RegistryInv ==
  ASSUME PosInv, NEW o \in Operator, NEW nodeId \in NodeIds,
         RegisterValidator(o, nodeId) \/ UpdateValidator(o, nodeId)
  PROVE  PosInv'
<1>1. validators' \in [Operator -> ValidatorInfo]
  <2>1. CASE RegisterValidator(o, nodeId)
    <3>1. block \in Nat
      BY PosAssumption DEF PosInv, TypeOK
    <3>2. [nodeId |-> nodeId, registeredAtBlock |-> block, exists |-> TRUE] \in ValidatorInfo
      BY <3>1 DEF ValidatorInfo
    <3>3. QED
      BY <2>1, <3>2 DEF RegisterValidator, PosInv, TypeOK
  <2>2. CASE UpdateValidator(o, nodeId)
    <3>1. [validators[o] EXCEPT !.nodeId = nodeId] \in ValidatorInfo
      BY DEF PosInv, TypeOK, ValidatorInfo
    <3>2. QED
      BY <2>2, <3>1 DEF UpdateValidator, PosInv, TypeOK
  <2>3. QED
    BY <2>1, <2>2
<1>2. UNCHANGED <<token, manager, epochs, block>>
  BY DEF RegisterValidator, UpdateValidator
<1>3. TypeOK'
  BY <1>1, <1>2 DEF PosInv, TypeOK, token, manager, epochs
<1>4. balanceOf'[Manager] = balanceOf[Manager] /\ balanceOf[Manager] \in Nat
  BY <1>2 DEF token, PosInv, TypeOK, Holder
<1>5. QED
  BY <1>2, <1>3, <1>4, OtherStep

\* A snapshot, and a new block.
LEMMA ChainInv ==
  ASSUME PosInv,
         \/ \E epoch \in Epochs, operators \in Listed : SnapshotActiveSet(epoch, operators)
         \/ NextBlock
  PROVE  PosInv'
<1>1. UNCHANGED <<validators, token, manager>>
  BY DEF SnapshotActiveSet, NextBlock
<1>2. TypeOK'
  <2>1. CASE \E epoch \in Epochs, operators \in Listed : SnapshotActiveSet(epoch, operators)
    <3>1. PICK epoch \in Epochs, operators \in Listed : SnapshotActiveSet(epoch, operators)
      BY <2>1
    <3>2. operators \in Seq(Operator)
      BY PosAssumption
    <3>3. activeSet' \in [Epochs -> Seq(Operator)]
      BY <3>1, <3>2 DEF SnapshotActiveSet, PosInv, TypeOK
    <3>4. activeSetHash' \in [Epochs -> {NoHash} \cup {Hash(l) : l \in Listed}]
      BY <3>1 DEF SnapshotActiveSet, PosInv, TypeOK
    <3>5. block' = block
      BY <3>1 DEF SnapshotActiveSet
    <3>6. QED
      BY <1>1, <3>3, <3>4, <3>5 DEF PosInv, TypeOK, token, manager
  <2>2. CASE NextBlock
    <3>1. block' \in 0..MaxBlock /\ UNCHANGED epochs
      BY <2>2, PosAssumption DEF NextBlock, PosInv, TypeOK
    <3>2. QED
      BY <1>1, <3>1 DEF PosInv, TypeOK, token, manager, epochs
  <2>3. QED
    BY <2>1, <2>2
<1>3. balanceOf'[Manager] = balanceOf[Manager] /\ balanceOf[Manager] \in Nat
  BY <1>1 DEF token, PosInv, TypeOK, Holder
<1>4. QED
  BY <1>1, <1>2, <1>3, OtherStep

\* The token: minting, approving, and transfers of others than the manager.
LEMMA TokenInv ==
  ASSUME PosInv,
         \/ \E to \in Holder, amount \in Amounts : Mint(to, amount)
         \/ \E o \in Operator, amount \in Approvals : Approve(o, amount)
         \/ \E o \in Operator, amount \in Amounts, to \in Holder : Transfer(o, to, amount)
  PROVE  PosInv'
<1>1. UNCHANGED <<validators, manager, epochs, block>>
  BY DEF Mint, Approve, Transfer
<1>2. /\ totalSupply' \in Nat /\ balanceOf' \in [Holder -> Nat] /\ allowance' \in [Operator -> Nat]
      /\ balanceOf'[Manager] >= balanceOf[Manager]
  <2>0. /\ totalSupply \in Nat /\ balanceOf \in [Holder -> Nat] /\ allowance \in [Operator -> Nat]
        /\ Manager \in Holder /\ balanceOf[Manager] \in Nat
    BY DEF PosInv, TypeOK, Holder
  <2>1. CASE \E to \in Holder, amount \in Amounts : Mint(to, amount)
    BY <2>0, <2>1, PosAssumption DEF Mint
  <2>2. CASE \E o \in Operator, amount \in Approvals : Approve(o, amount)
    BY <2>0, <2>2, PosAssumption DEF Approve
  <2>3. CASE \E o \in Operator, amount \in Amounts, to \in Holder : Transfer(o, to, amount)
    <3>1. PICK o \in Operator, amount \in Amounts, to \in Holder : Transfer(o, to, amount)
      BY <2>3
    <3>2. amount \in Nat /\ o \in Holder /\ o # Manager /\ balanceOf[o] \in Nat
      BY <2>0, PosAssumption DEF Holder
    <3>3. amount <= balanceOf[o] /\ balanceOf' = Moved(o, to, amount) /\ UNCHANGED <<totalSupply, allowance>>
      BY <3>1, <3>2 DEF Transfer
    <3>4. /\ Moved(o, to, amount) \in [Holder -> Nat]
          /\ Moved(o, to, amount)[Manager] >= balanceOf[Manager]
      BY <2>0, <3>2, <3>3, MovedType
    <3>5. QED
      BY <2>0, <3>3, <3>4
  <2>4. QED
    BY <2>1, <2>2, <2>3
<1>3. TypeOK'
  BY <1>1, <1>2 DEF PosInv, TypeOK, manager, epochs
<1>4. QED
  BY <1>1, <1>2, <1>3, OtherStep

\* Staking moves as many tokens to the manager as it adds to the total.
LEMMA StakeInv ==
  ASSUME PosInv, NEW o \in Operator, NEW amount \in 0..MaxSupply, Stake(o, amount)
  PROVE  PosInv'
<1> DEFINE unpaid == UnpaidOf(pendingWithdrawals)
<1>1. /\ amount \in Nat /\ o \in Holder /\ Manager \in Holder /\ o # Manager
      /\ balanceOf \in [Holder -> Nat] /\ allowance \in [Operator -> Nat]
      /\ stakeOf \in [Operator -> Nat] /\ totalStaked \in Nat
      /\ stakeOf[o] \in Nat /\ balanceOf[Manager] \in Nat /\ allowance[o] \in Nat /\ balanceOf[o] \in Nat
  BY PosAssumption DEF PosInv, TypeOK, Holder
<1>2. /\ amount <= allowance[o] /\ amount <= balanceOf[o]
      /\ allowance' = [allowance EXCEPT ![o] = allowance[o] - amount]
      /\ balanceOf' = Moved(o, Manager, amount)
      /\ stakeOf' = [stakeOf EXCEPT ![o] = stakeOf[o] + amount]
      /\ totalStaked' = totalStaked + amount
      /\ UNCHANGED <<validators, totalSupply, pendingWithdrawals, epochs, block>>
  BY <1>1 DEF Stake
<1>3. balanceOf' \in [Holder -> Nat] /\ balanceOf'[Manager] = balanceOf[Manager] + amount
  BY <1>1, <1>2, MovedType
<1>4. allowance' \in [Operator -> Nat] /\ stakeOf' \in [Operator -> Nat] /\ totalStaked' \in Nat
  BY <1>1, <1>2
<1>5. TypeOK'
  BY <1>2, <1>3, <1>4 DEF PosInv, TypeOK, epochs
<1>6. Sum(stakeOf', Operator) = Sum(stakeOf, Operator) - stakeOf[o] + (stakeOf[o] + amount)
  <2>1. stakeOf[o] + amount \in Nat
    BY <1>1
  <2>2. QED
    BY <1>1, <1>2, <2>1, StakesUpdate
<1>7. totalStaked = Sum(stakeOf, Operator)
  BY DEF PosInv, TotalStakedIsSum
<1>8. totalStaked' = Sum(stakeOf', Operator)
  BY <1>1, <1>2, <1>6, <1>7
<1>9. unpaid' = unpaid
  BY <1>2
<1>10. unpaid \in Nat /\ balanceOf[Manager] >= totalStaked + unpaid
  BY UnpaidOfType DEF PosInv, TypeOK, PosSolvent
<1> HIDE DEF unpaid
<1>11. balanceOf'[Manager] >= totalStaked' + unpaid'
  BY <1>1, <1>2, <1>3, <1>9, <1>10
<1>12. QED
  BY <1>5, <1>8, <1>11 DEF PosInv, PosSolvent, TotalStakedIsSum, unpaid

\* What leaves the total of the stakes goes to the unpaid withdrawals.
LEMMA BeginUnstakeInv ==
  ASSUME PosInv, NEW o \in Operator, NEW amount \in 0..MaxSupply, BeginUnstake(o, amount)
  PROVE  PosInv'
<1> DEFINE q == pendingWithdrawals[o]
           r == Append(q, Pending(amount))
           unpaid == UnpaidOf(pendingWithdrawals)
<1>1. /\ amount \in Nat \ {0} /\ block \in Nat /\ UnbondingBlocks \in Nat
      /\ stakeOf \in [Operator -> Nat] /\ totalStaked \in Nat /\ stakeOf[o] \in Nat
      /\ balanceOf[Manager] \in Nat
  BY PosAssumption DEF PosInv, TypeOK, BeginUnstake, Holder
<1>2. pendingWithdrawals \in [Operator -> Seq(PendingWithdrawal)] /\ q \in Seq(PendingWithdrawal)
  BY DEF PosInv, TypeOK
<1>3. /\ amount <= stakeOf[o] /\ amount <= totalStaked
      /\ stakeOf' = [stakeOf EXCEPT ![o] = stakeOf[o] - amount]
      /\ totalStaked' = totalStaked - amount
      /\ pendingWithdrawals' = [pendingWithdrawals EXCEPT ![o] = r]
      /\ UNCHANGED <<validators, token, epochs, block>>
  BY <1>1 DEF BeginUnstake
<1>4. Pending(amount) \in PendingWithdrawal /\ ~Pending(amount).withdrawn /\ Pending(amount).amount = amount
  BY <1>1 DEF Pending, PendingWithdrawal
<1>5. r \in Seq(PendingWithdrawal) /\ Unpaid(r) = Unpaid(q) + amount
  BY <1>2, <1>4, UnpaidAppend
<1>6. Unpaid(q) \in Nat
  BY <1>2, UnpaidType
<1>7. /\ unpaid \in Nat
      /\ UnpaidOf([pendingWithdrawals EXCEPT ![o] = r]) = unpaid - Unpaid(q) + Unpaid(r)
  BY <1>2, <1>5, UnpaidUpdate
<1>8. unpaid' = unpaid + amount
  <2>1. unpaid' = unpaid - Unpaid(q) + Unpaid(r)
    BY <1>3, <1>7
  <2> HIDE DEF unpaid, q, r
  <2>2. QED
    BY <1>1, <1>5, <1>6, <1>7, <2>1
<1>9. stakeOf' \in [Operator -> Nat] /\ totalStaked' \in Nat
  BY <1>1, <1>3
<1>10. pendingWithdrawals' \in [Operator -> Seq(PendingWithdrawal)]
  BY <1>2, <1>3, <1>5
<1>11. TypeOK'
  BY <1>3, <1>9, <1>10 DEF PosInv, TypeOK, token, epochs
<1>12. totalStaked' = Sum(stakeOf', Operator)
  <2>1. totalStaked = Sum(stakeOf, Operator)
    BY DEF PosInv, TotalStakedIsSum
  <2>2. stakeOf[o] - amount \in Nat
    BY <1>1, <1>3
  <2>3. Sum(stakeOf', Operator) = Sum(stakeOf, Operator) - stakeOf[o] + (stakeOf[o] - amount)
    BY <1>1, <1>3, <2>2, StakesUpdate
  <2>4. QED
    BY <1>1, <1>3, <2>1, <2>3
<1>13. balanceOf[Manager] >= totalStaked + unpaid /\ balanceOf' = balanceOf
  BY <1>3 DEF PosInv, PosSolvent, token
<1>14. balanceOf'[Manager] >= totalStaked' + unpaid'
  <2> HIDE DEF unpaid
  <2>1. QED
    BY <1>1, <1>3, <1>7, <1>8, <1>13
<1>15. QED
  BY <1>11, <1>12, <1>14 DEF PosInv, PosSolvent, TotalStakedIsSum

\* A withdrawal that is paid leaves the unpaid ones with its tokens.
LEMMA WithdrawInv ==
  ASSUME PosInv, NEW o \in Operator, NEW id \in DOMAIN pendingWithdrawals[o], Withdraw(o, id)
  PROVE  PosInv'
<1> DEFINE q == pendingWithdrawals[o]
           r == [q EXCEPT ![id].withdrawn = TRUE]
           unpaid == UnpaidOf(pendingWithdrawals)
<1>1. /\ balanceOf \in [Holder -> Nat] /\ balanceOf[Manager] \in Nat /\ totalStaked \in Nat
      /\ o \in Holder /\ Manager \in Holder /\ o # Manager
  BY PosAssumption DEF PosInv, TypeOK, Holder
<1>2. /\ pendingWithdrawals \in [Operator -> Seq(PendingWithdrawal)]
      /\ q \in Seq(PendingWithdrawal) /\ id \in 1..Len(q)
  BY DEF PosInv, TypeOK
<1>3. /\ ~q[id].withdrawn /\ q[id].amount <= balanceOf[Manager]
      /\ pendingWithdrawals' = [pendingWithdrawals EXCEPT ![o] = r]
      /\ balanceOf' = Moved(Manager, o, q[id].amount)
      /\ UNCHANGED <<validators, totalSupply, allowance, stakeOf, totalStaked, epochs, block>>
  <2>1. q[id].amount \in Nat
    BY <1>2, UnpaidType
  <2>2. QED
    BY <1>1, <1>2, <2>1 DEF Withdraw
<1>4. /\ r \in Seq(PendingWithdrawal) /\ Unpaid(r) = Unpaid(q) - q[id].amount
      /\ q[id].amount <= Unpaid(q) /\ q[id].amount \in Nat /\ Unpaid(q) \in Nat
  BY <1>2, <1>3, UnpaidMark, UnpaidType
<1>5. /\ unpaid \in Nat /\ Unpaid(q) <= unpaid
      /\ UnpaidOf([pendingWithdrawals EXCEPT ![o] = r]) = unpaid - Unpaid(q) + Unpaid(r)
  BY <1>2, <1>4, UnpaidUpdate
<1>6. unpaid' = unpaid - q[id].amount
  <2>1. unpaid' = unpaid - Unpaid(q) + Unpaid(r)
    BY <1>3, <1>5
  <2> HIDE DEF unpaid, q, r
  <2>2. QED
    BY <1>4, <1>5, <2>1
<1>7. balanceOf' \in [Holder -> Nat] /\ balanceOf'[Manager] = balanceOf[Manager] - q[id].amount
  BY <1>1, <1>3, <1>4, MovedType
<1>8. pendingWithdrawals' \in [Operator -> Seq(PendingWithdrawal)]
  BY <1>2, <1>3, <1>4
<1>9. TypeOK'
  BY <1>3, <1>7, <1>8 DEF PosInv, TypeOK, epochs
<1>10. balanceOf[Manager] >= totalStaked + unpaid
  BY DEF PosInv, PosSolvent
<1>11. balanceOf'[Manager] >= totalStaked' + unpaid'
  <2> DEFINE a == q[id].amount
  <2>1. /\ a \in Nat /\ unpaid' = unpaid - a /\ totalStaked' = totalStaked
        /\ balanceOf'[Manager] = balanceOf[Manager] - a
    BY <1>3, <1>4, <1>6, <1>7
  <2> HIDE DEF unpaid, a
  <2>2. QED
    BY <1>1, <1>5, <1>10, <2>1
<1>12. totalStaked' = Sum(stakeOf', Operator)
  BY <1>3 DEF PosInv, TotalStakedIsSum
<1>13. QED
  BY <1>9, <1>11, <1>12 DEF PosInv, PosSolvent, TotalStakedIsSum

----------------------------------------------------------------------------
(* The theorems *)

\* Every call of the four contracts and every block keeps the invariant.
LEMMA NextInv == PosInv /\ [Next]_vars => PosInv'
<1> SUFFICES ASSUME PosInv, [Next]_vars PROVE PosInv'
  OBVIOUS
<1>1. CASE \E o \in Operator : Account(o)
  <2>1. PICK o \in Operator : Account(o)
    BY <1>1
  <2>2. CASE \E nodeId \in NodeIds : RegisterValidator(o, nodeId) \/ UpdateValidator(o, nodeId)
    BY <2>2, RegistryInv
  <2>3. CASE \/ \E amount \in Approvals : Approve(o, amount)
             \/ \E amount \in Amounts, to \in Holder : Transfer(o, to, amount)
    BY <2>3, TokenInv
  <2>4. CASE \E amount \in 0..MaxSupply : Stake(o, amount) \/ BeginUnstake(o, amount)
    BY <2>4, StakeInv, BeginUnstakeInv
  <2>5. CASE \E id \in DOMAIN pendingWithdrawals[o] : Withdraw(o, id)
    BY <2>5, WithdrawInv
  <2>6. QED
    BY <2>1, <2>2, <2>3, <2>4, <2>5 DEF Account
<1>2. CASE Owner
  BY <1>2, TokenInv, ChainInv DEF Owner
<1>3. CASE NextBlock
  BY <1>3, ChainInv
<1>4. CASE UNCHANGED vars
  <2>1. TypeOK'
    BY <1>4 DEF PosInv, TypeOK, vars, token, manager, epochs
  <2>2. UNCHANGED manager /\ balanceOf'[Manager] = balanceOf[Manager] /\ balanceOf[Manager] \in Nat
    BY <1>4 DEF PosInv, TypeOK, vars, token, Holder
  <2>3. QED
    BY <2>1, <2>2, OtherStep
<1>5. QED
  BY <1>1, <1>2, <1>3, <1>4 DEF Next

\* Types, solvency and the total are invariants together: what is paid out
\* of the pool is covered because what was unpaid was
\* (StakeManager.sol:42-92).
THEOREM PosInvHolds == Spec => []PosInv
<1>1. Init => PosInv
  BY InitInv
<1>2. PosInv /\ [Next]_vars => PosInv'
  BY NextInv
<1>3. QED
  BY <1>1, <1>2, PTL DEF Spec

\* The stake manager always holds enough tokens for every stake and every
\* unpaid withdrawal (StakeManager.sol:42-92).
THEOREM PoolCoversAll == Spec => []PosSolvent
<1>1. PosInv => PosSolvent
  BY DEF PosInv
<1>2. QED
  BY <1>1, PosInvHolds, PTL

\* totalStaked never drifts from the stakes (StakeManager.sol:49-66).
THEOREM TotalNeverDrifts == Spec => []TotalStakedIsSum
<1>1. PosInv => TotalStakedIsSum
  BY DEF PosInv
<1>2. QED
  BY <1>1, PosInvHolds, PTL

\* Only a withdrawal pays out, and only the entry that it marks.
LEMMA PaidOnceStep ==
  ASSUME PosInv, [Next]_vars
  PROVE  /\ \A o \in Operator : \A id \in DOMAIN pendingWithdrawals[o] :
              LET was == pendingWithdrawals[o][id]
                  is == pendingWithdrawals'[o][id]
              IN /\ id \in DOMAIN pendingWithdrawals'[o]
                 /\ is # was =>
                      /\ is = [was EXCEPT !.withdrawn = TRUE]
                      /\ block >= was.unlockBlock
                      /\ balanceOf'[o] = balanceOf[o] + was.amount
         /\ balanceOf'[Manager] < balanceOf[Manager] =>
              \E o \in Operator : \E id \in DOMAIN pendingWithdrawals[o] : Turned(o, id)
<1> DEFINE Kept == /\ pendingWithdrawals' = pendingWithdrawals
                   /\ ~(balanceOf'[Manager] < balanceOf[Manager])
           Grown(o, id) == /\ id \in DOMAIN pendingWithdrawals'[o]
                           /\ pendingWithdrawals'[o][id] = pendingWithdrawals[o][id]
           Paid(o, id) ==
             /\ id \in DOMAIN pendingWithdrawals'[o]
             /\ pendingWithdrawals'[o][id] # pendingWithdrawals[o][id] =>
                  /\ pendingWithdrawals'[o][id] = [pendingWithdrawals[o][id] EXCEPT !.withdrawn = TRUE]
                  /\ block >= pendingWithdrawals[o][id].unlockBlock
                  /\ balanceOf'[o] = balanceOf[o] + pendingWithdrawals[o][id].amount
           Goal == /\ \A o \in Operator : \A id \in DOMAIN pendingWithdrawals[o] : Paid(o, id)
                   /\ balanceOf'[Manager] < balanceOf[Manager] =>
                        \E o \in Operator : \E id \in DOMAIN pendingWithdrawals[o] : Turned(o, id)
<1> SUFFICES Goal
  OBVIOUS
<1>1. /\ balanceOf \in [Holder -> Nat] /\ balanceOf[Manager] \in Nat
      /\ Manager \in Holder /\ Operator \subseteq Holder /\ Manager \notin Operator
      /\ pendingWithdrawals \in [Operator -> Seq(PendingWithdrawal)]
  BY PosAssumption DEF PosInv, TypeOK, Holder
<1>2. Kept => Goal
  OBVIOUS
<1>3. CASE \E o \in Operator : Account(o)
  <2>1. PICK o \in Operator : Account(o)
    BY <1>3
  <2>2. CASE \E nodeId \in NodeIds : RegisterValidator(o, nodeId) \/ UpdateValidator(o, nodeId)
    BY <1>1, <1>2, <2>2 DEF RegisterValidator, UpdateValidator, token, manager
  <2>3. CASE \E amount \in Approvals : Approve(o, amount)
    BY <1>1, <1>2, <2>3 DEF Approve, manager
  <2>4. ASSUME NEW amount \in Amounts, NEW to \in Holder, Transfer(o, to, amount)
        PROVE  Goal
    <3>1. amount \in Nat /\ o # Manager /\ o \in Holder
      BY <1>1, PosAssumption
    <3>2. ~(balanceOf'[Manager] < balanceOf[Manager])
      <4>1. balanceOf'[Manager] \in Nat /\ balanceOf'[Manager] >= balanceOf[Manager]
        BY <1>1, <2>4, <3>1, MovedType DEF Transfer
      <4> QED
        BY <1>1, <4>1
    <3>3. QED
      BY <1>2, <2>4, <3>2 DEF Transfer, manager
  <2>5. ASSUME NEW amount \in 0..MaxSupply, Stake(o, amount) PROVE Goal
    <3>1. amount \in Nat /\ o # Manager /\ o \in Holder /\ amount <= balanceOf[o]
      BY <1>1, <2>5, PosAssumption DEF Stake
    <3>2. balanceOf'[Manager] = balanceOf[Manager] + amount
      BY <1>1, <2>5, <3>1, MovedType DEF Stake
    <3>3. QED
      BY <1>1, <1>2, <2>5, <3>1, <3>2 DEF Stake
  <2>6. ASSUME NEW amount \in 0..MaxSupply, BeginUnstake(o, amount) PROVE Goal
    <3> DEFINE q == pendingWithdrawals[o]
               e == Pending(amount)
    <3>1. pendingWithdrawals' = [pendingWithdrawals EXCEPT ![o] = Append(q, e)] /\ balanceOf' = balanceOf
      BY <2>6 DEF BeginUnstake, token
    <3>2. q \in Seq(PendingWithdrawal)
      BY <1>1
    <3>3. \A id \in DOMAIN q : id \in DOMAIN Append(q, e) /\ Append(q, e)[id] = q[id]
      BY <3>2
    <3> HIDE DEF e
    <3>4. \A p \in Operator : \A id \in DOMAIN pendingWithdrawals[p] : Grown(p, id)
      BY <1>1, <3>1, <3>3
    <3>5. QED
      BY <1>1, <3>1, <3>4
  <2>7. ASSUME NEW id \in DOMAIN pendingWithdrawals[o], Withdraw(o, id) PROVE Goal
    <3> DEFINE q == pendingWithdrawals[o]
               w == [q[id] EXCEPT !.withdrawn = TRUE]
    <3>1. /\ q \in Seq(PendingWithdrawal) /\ id \in 1..Len(q)
          /\ q[id] \in PendingWithdrawal /\ q[id].amount \in Nat
      BY <1>1, UnpaidType
    <3>2. /\ ~q[id].withdrawn /\ block >= q[id].unlockBlock /\ q[id].amount <= balanceOf[Manager]
          /\ pendingWithdrawals' = [pendingWithdrawals EXCEPT ![o] = [q EXCEPT ![id] = w]]
          /\ balanceOf' = Moved(Manager, o, q[id].amount)
      BY <1>1, <2>7, <3>1 DEF Withdraw
    <3>3. balanceOf'[o] = balanceOf[o] + q[id].amount
      <4>1. o \in Holder /\ Manager # o
        BY <1>1
      <4> HIDE DEF q
      <4> QED
        BY <1>1, <3>1, <3>2, <4>1, MovedType
    <3>4. w.withdrawn
      BY <3>1 DEF PendingWithdrawal
    <3> HIDE DEF w
    <3>5. pendingWithdrawals'[o][id] = w /\ id \in DOMAIN pendingWithdrawals'[o]
      BY <1>1, <3>1, <3>2
    <3>6. \A p \in Operator : \A i \in DOMAIN pendingWithdrawals[p] :
            p # o \/ i # id => Grown(p, i)
      BY <1>1, <3>1, <3>2
    <3>7. Paid(o, id)
      BY <3>2, <3>3, <3>5 DEF w
    <3>8. \A p \in Operator : \A i \in DOMAIN pendingWithdrawals[p] : Paid(p, i)
      BY <3>6, <3>7
    <3>9. Turned(o, id)
      BY <3>2, <3>4, <3>5 DEF Turned
    <3>10. QED
      BY <3>8, <3>9
  <2>8. QED
    BY <2>1, <2>2, <2>3, <2>4, <2>5, <2>6, <2>7 DEF Account
<1>4. CASE Owner
  <2>1. ASSUME NEW to \in Holder, NEW amount \in Amounts, Mint(to, amount) PROVE Goal
    <3>1. amount \in Nat
      BY PosAssumption
    <3>2. ~(balanceOf'[Manager] < balanceOf[Manager])
      BY <1>1, <2>1, <3>1 DEF Mint
    <3>3. QED
      BY <1>2, <2>1, <3>2 DEF Mint, manager
  <2>2. ASSUME NEW epoch \in Epochs, NEW operators \in Listed, SnapshotActiveSet(epoch, operators)
        PROVE  Goal
    BY <1>1, <1>2, <2>2 DEF SnapshotActiveSet, token, manager
  <2>3. QED
    BY <1>4, <2>1, <2>2 DEF Owner
<1>5. CASE NextBlock
  BY <1>1, <1>2, <1>5 DEF NextBlock, token, manager
<1>6. CASE UNCHANGED vars
  BY <1>1, <1>2, <1>6 DEF vars, token, manager
<1> QED
  BY <1>3, <1>4, <1>5, <1>6 DEF Next

\* Every withdrawal is paid at most once, in full, when it is due and to its
\* owner, and nothing else takes tokens from the manager
\* (StakeManager.sol:68-92).
THEOREM PaidOnceAndInFull == Spec => PaidOnce
<1>1. PosInv /\ [Next]_vars => PaidOnce!1
  BY PaidOnceStep
<1> QED
  BY <1>1, PosInvHolds, PTL DEF Spec, PaidOnce

\* The boundary block of an epoch is its number times the length.
LEMMA BoundaryBlock ==
  ASSUME NEW b \in Nat, IsEpochBoundary(b)
  PROVE  b = EpochAtBlock(b) * EpochLength
BY PosAssumption DEF IsEpochBoundary, EpochAtBlock

\* Only the boundary block of an epoch can write its active set, so that the
\* set of an epoch in progress is frozen (EpochManager.sol:23-35).
THEOREM EpochsAreFrozen == Spec => PastEpochsFrozen
<1> DEFINE Frozen == \A e \in Epochs : activeSet'[e] # activeSet[e] => block = e * EpochLength
<1>1. PosInv /\ [Next]_vars => [Frozen]_vars
  <2> SUFFICES ASSUME PosInv, [Next]_vars, NEW e \in Epochs, activeSet'[e] # activeSet[e]
               PROVE  block = e * EpochLength
    OBVIOUS
  <2>1. ~(\E o \in Operator : Account(o)) /\ ~NextBlock /\ ~(UNCHANGED vars)
    BY DEF Account, RegisterValidator, UpdateValidator, Approve, Transfer, Stake, BeginUnstake,
           Withdraw, NextBlock, vars, epochs
  <2>2. PICK epoch \in Epochs, operators \in Listed : SnapshotActiveSet(epoch, operators)
    BY <2>1 DEF Next, Owner, Mint, epochs
  <2>3. e = epoch
    BY <2>2 DEF SnapshotActiveSet, PosInv, TypeOK
  <2>4. block \in Nat
    BY PosAssumption DEF PosInv, TypeOK
  <2> QED
    BY <2>2, <2>3, <2>4, BoundaryBlock DEF SnapshotActiveSet
<1> QED
  BY <1>1, PosInvHolds, PTL DEF Spec, PastEpochsFrozen
=============================================================================
