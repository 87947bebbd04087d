---------------------------- MODULE QikSelection ----------------------------
(***************************************************************************)
(* What QikStaking's state selects as the active validator set, and what   *)
(* must hold of it.                                                        *)
(***************************************************************************)
EXTENDS QikStaking

A == INSTANCE ActiveSet

ActiveOperators == A!GetActiveOperators(registeredOperators, info, minStake, maxValidators)
Candidates == {o \in Addr : A!Eligible(o, info, minStake)}

\* getActiveOperators returns the maxValidators best eligible operators in
\* rank order, each once, whatever order they registered in and however
\* stakes, jailing and parameters moved since; isActiveOperator agrees with it,
\* and whoever reads the view position by position gets the same operators with
\* the same keys as from its two lists, and nothing behind them
\* (QikStaking.sol:181-252, QikValidatorSet.sol:15-36, docs/staking-interface.md).
ActiveSetIsTopRanked ==
  /\ A!TopRanked(ActiveOperators, Candidates, maxValidators, info)
  /\ A!ToSet(ActiveOperators) =
       {o \in Addr : A!IsActiveOperator(o, registeredOperators, info, minStake, maxValidators)}
  /\ LET keys == A!GetActiveConsensusKeys(registeredOperators, info, minStake, maxValidators)
         count == A!ValidatorCount(registeredOperators, info, minStake, maxValidators)
     IN /\ NoKey \notin A!ToSet(keys)
        /\ count = Cardinality(A!ToSet(ActiveOperators))
        /\ \A idx \in 0..count :
             A!GetValidatorAt(idx, registeredOperators, info, minStake, maxValidators) =
               IF idx < count THEN <<ActiveOperators[idx + 1], keys[idx + 1]>> ELSE <<>>
=============================================================================
