------------------------- MODULE PosStakingSafety -------------------------
(***************************************************************************)
(* What must hold of every state and step of PosStaking.                   *)
(***************************************************************************)
EXTENDS PosStaking, Sums

Unpaid(q) ==
  Sum([i \in 1..Len(q) |-> IF q[i].withdrawn THEN 0 ELSE q[i].amount], 1..Len(q))
UnpaidOf(pending) == Sum([o \in Operator |-> Unpaid(pending[o])], Operator)

\* The stake manager always holds enough tokens to give every stake and every
\* unpaid withdrawal back (StakeManager.sol:42-92); tokens sent to it by a
\* plain transfer only add to that.
PosSolvent == balanceOf[Manager] >= totalStaked + UnpaidOf(pendingWithdrawals)

\* totalStaked is the sum of stakeOf, whatever operators stake and unstake
\* (StakeManager.sol:49-51, 65-66).
TotalStakedIsSum == totalStaked = Sum(stakeOf, Operator)

PosInv == TypeOK /\ PosSolvent /\ TotalStakedIsSum

Turned(o, id) ==
  ~pendingWithdrawals[o][id].withdrawn /\ pendingWithdrawals'[o][id].withdrawn

\* A withdrawal is paid at most once, in full, to the operator that began it
\* and not before its block; until then nobody changes it and no later one
\* takes its id; and no token leaves the manager in any other way
\* (StakeManager.sol:68-92).
PaidOnce ==
  [][/\ \A o \in Operator : \A id \in DOMAIN pendingWithdrawals[o] :
          LET was == pendingWithdrawals[o][id]
              is == pendingWithdrawals'[o][id]
          IN /\ id \in DOMAIN pendingWithdrawals'[o]
             /\ is # was =>
                  /\ is = [was EXCEPT !.withdrawn = TRUE]
                  /\ block >= was.unlockBlock
                  /\ balanceOf'[o] = balanceOf[o] + was.amount
     /\ balanceOf'[Manager] < balanceOf[Manager] =>
          \E o \in Operator : \E id \in DOMAIN pendingWithdrawals[o] : Turned(o, id)]_vars

\* The active set of an epoch is fixed once its first block is over: no
\* later call rewrites it or fills one that was missed (EpochManager.sol:
\* 23-35), so every reader of an epoch in progress reads the same set.
PastEpochsFrozen ==
  [][\A e \in Epochs : activeSet'[e] # activeSet[e] => block = e * EpochLength]_vars

\* A withdrawal that has begun is paid, if its operator asks often enough:
\* nothing the others do can lock it in.
ExitCompletes ==
  \A o \in Operator : \A id \in 1..MaxPending :
    (id \in DOMAIN pendingWithdrawals[o] /\ block + UnbondingBlocks <= MaxBlock)
      ~> (id \in DOMAIN pendingWithdrawals[o] /\ pendingWithdrawals[o][id].withdrawn)
=============================================================================
