-------------------------- MODULE QikStakingSafety --------------------------
(***************************************************************************)
(* What must hold of every state and step of QikStaking: where the money   *)
(* is, and what a withdrawal pays.                                         *)
(***************************************************************************)
EXTENDS QikStaking, Sums

EntrySum(q) == Sum([i \in 1..Len(q) |-> q[i].amount], 1..Len(q))

\* The part of a queue that is payable at time t.
DueSum(q, t) ==
  Sum([i \in 1..Len(q) |-> IF q[i].unlockTime <= t THEN q[i].amount ELSE 0], 1..Len(q))

\* What the contract owes the stakers of one operator, and altogether.
StakedWith(st, o) == Sum(st[o], Addr)
ClaimedFrom(u, o) == Sum([s \in Addr |-> EntrySum(u[o][s])], Addr)
Owed(st, u) == Sum([o \in Addr |-> StakedWith(st, o) + ClaimedFrom(u, o)], Addr)

Backed(w, inFlight) == w.balance = Owed(w.stakes, w.unbondings) + inFlight
TotalsMatch(w) == \A o \in Addr : w.info[o].totalStake = StakedWith(w.stakes, o)

\* What the loop of a withdrawal has taken out of the queue, not yet paid.
InFlight == IF frame.pc = "drain" THEN frame.total ELSE 0

\* The contract holds, to the coin, every amount at stake and every amount
\* waiting to be paid, also in the middle of a withdrawal and of the calls
\* nested in it (QikStaking.sol:78-127).
Solvent == Backed(World, InFlight)

\* An operator is ranked by what its stakers have at stake: the running
\* total _operators[o].totalStake never drifts from the sum of _stakes[o]
\* (QikStaking.sol:85-98), whoever staked for whom.
TotalStakeIsSum == TotalsMatch(World)

\* The queue of the running withdrawal as it was when the call began.
QueueBefore == saved[1].unbondings[frame.operator][frame.sender]

\* The loop invariant of withdrawUnstaked: the entries before the index are
\* not due, and what was taken plus what is still due is what was due.
LoopInv ==
  /\ frame.i <= Len(Queue) + 1
  /\ \A j \in 1..(frame.i - 1) : Queue[j].unlockTime > now
  /\ frame.total + DueSum(Queue, now) = DueSum(QueueBefore, now)

\* Solvency as an inductive invariant: it also holds of the state a failure
\* would restore, and the loop has its own.
IInv ==
  /\ TypeOK
  /\ Solvent
  /\ TotalStakeIsSum
  /\ frame.pc # "idle" => Backed(saved[1], 0) /\ TotalsMatch(saved[1])
  /\ frame.pc = "drain" => LoopInv

\* A withdrawal pays the sum of the entries that were due when it was called:
\* each once, none early, none forgotten by the swap-and-pop loop, in
\* whatever order their unlock times are (QikStaking.sol:109-123).
PaysExactlyDue == [][Pay => frame.total = DueSum(QueueBefore, now)]_vars

\* A withdrawal fails only when nothing was due or when the payee itself
\* refused: never because others left too little in the contract or because
\* the loop missed what was due (QikStaking.sol:121-124).
FailsOnlyWithReason ==
  [][Fail => DueSum(QueueBefore, now) = 0 \/ frame.sender \in Contracts]_vars
=============================================================================
