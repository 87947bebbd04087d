----------------------------- MODULE ActiveSet -----------------------------
(***************************************************************************)
(* The selection of the active validator set, contracts/QikStaking.sol     *)
(* getActiveOperators, getActiveConsensusKeys and isActiveOperator, as     *)
(* operators on what the contract stores: the registration list "ops", the *)
(* operator records "info" and the two parameters.  Addresses are naturals,*)
(* because the contract compares them with <.                              *)
(***************************************************************************)
EXTENDS Integers, Sequences, SequencesExt

\* The filter of the first loop: who may be ranked at all.
Eligible(o, info, minStake) ==
  /\ info[o].registered
  /\ ~info[o].jailed
  /\ info[o].totalStake >= minStake

\* MUTANT: the tie-break on the address is lost.
ComesBeforeNoTie(a, b, info) == info[a].totalStake > info[b].totalStake

\* The strict order of the insertion sort: more stake first, then the
\* smaller address.
ComesBefore(a, b, info) ==
  \/ info[a].totalStake > info[b].totalStake
  \/ info[a].totalStake = info[b].totalStake /\ a < b

\* One outer round of the sort: key moves left over every element it comes
\* before, and stops at the first one it does not.
InsertSorted(sorted, key, info) ==
  LET stay == {j \in 1..Len(sorted) : ~ComesBefore(key, sorted[j], info)}
      p == Max(stay \cup {0})
  IN SubSeq(sorted, 1, p) \o <<key>> \o SubSeq(sorted, p + 1, Len(sorted))

\* The first loop keeps who may be ranked, in the order of registration:
\* temp[n] is what it has kept after n operators.
Filtered(ops, info, minStake) ==
  LET temp[n \in 0..Len(ops)] ==
        IF n = 0 THEN <<>>
        ELSE IF Eligible(ops[n], info, minStake) THEN Append(temp[n - 1], ops[n]) ELSE temp[n - 1]
  IN temp[Len(ops)]

\* The second loop: temp[n] is the sorted part after n rounds.
Sorted(may, info) ==
  LET temp[n \in 0..Len(may)] == IF n = 0 THEN <<>> ELSE InsertSorted(temp[n - 1], may[n], info)
  IN temp[Len(may)]

\* getActiveOperators: filter, rank, cut at the limit.
GetActiveOperators(ops, info, minStake, maxValidators) ==
  LET ranked == Sorted(Filtered(ops, info, minStake), info)
      limit == IF Len(ranked) > maxValidators THEN maxValidators ELSE Len(ranked)
  IN SubSeq(ranked, 1, limit)

\* getActiveConsensusKeys: position by position the key of the operator.
GetActiveConsensusKeys(ops, info, minStake, maxValidators) ==
  LET active == GetActiveOperators(ops, info, minStake, maxValidators)
  IN [i \in 1..Len(active) |-> info[active[i]].consensusKey]

\* isActiveOperator: a quick refusal, then membership of the computed list.
IsActiveOperator(o, ops, info, minStake, maxValidators) ==
  /\ Eligible(o, info, minStake)
  /\ o \in ToSet(GetActiveOperators(ops, info, minStake, maxValidators))

----------------------------------------------------------------------------
(* contracts/QikValidatorSet.sol, which asks the staking contract: a caller *)
(* reads the set position by position, or as two lists.                     *)

ValidatorCount(ops, info, minStake, maxValidators) ==
  Len(GetActiveOperators(ops, info, minStake, maxValidators))

\* getValidatorAt computes the list again for every position; <<>> stands for
\* the revert "idx oob".
GetValidatorAt(idx, ops, info, minStake, maxValidators) ==
  LET active == GetActiveOperators(ops, info, minStake, maxValidators)
  IN IF idx < Len(active) THEN <<active[idx + 1], info[active[idx + 1]].consensusKey>> ELSE <<>>

----------------------------------------------------------------------------
(* What docs/staking-interface.md promises of the result, with no           *)
(* reference to how it is computed: the rank of an operator is the number   *)
(* of eligible operators that come before it.                               *)

Rank(o, may, info) ==
  Cardinality({p \in may :
    \/ info[p].totalStake > info[o].totalStake
    \/ info[p].totalStake = info[o].totalStake /\ p < o})

TopRanked(active, may, maxValidators, info) ==
  /\ ToSet(active) = {o \in may : Rank(o, may, info) < maxValidators}
  /\ \A i \in 1..Len(active) : Rank(active[i], may, info) = i - 1
=============================================================================
