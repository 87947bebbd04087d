----------------------------- MODULE QikLedger -----------------------------
(***************************************************************************)
(* How a state of QikStaking is seen as a state of StakeLedger: the order  *)
(* of a queue is forgotten, and a withdrawal has happened when it pays.    *)
(***************************************************************************)
EXTENDS QikStakingSafety

B == INSTANCE SequencesExt

Was == IF saved = <<>> THEN World ELSE saved[1]

\* While the loop drains the queue nothing has happened yet to the ledger.
Seen(now_, before) == IF frame.pc = "drain" THEN before ELSE now_

AsClaims(u) == [o \in Addr |-> [s \in Addr |-> B!ToBag(u[o][s])]]
AsLedger(w) == [staked |-> w.stakes, claims |-> AsClaims(w.unbondings),
                vault |-> w.balance, purse |-> w.wallet]

SeenStaked == Seen(stakes, Was.stakes)
SeenClaims == AsClaims(Seen(unbondings, Was.unbondings))
SeenVault == Seen(balance, Was.balance)
SeenPurse == Seen(wallet, Was.wallet)
SeenUndo == IF frame.pc = "call" THEN <<AsLedger(saved[1])>> ELSE <<>>

Ledger == INSTANCE StakeLedger WITH
  Account <- Addr, staked <- SeenStaked, claims <- SeenClaims, vault <- SeenVault,
  purse <- SeenPurse, clock <- now, undo <- SeenUndo

\* The contract implements StakeLedger: the swap-and-pop loop pays every due
\* claim once and no other, a claim keeps the time it was given whatever the
\* owner does to the period, and a failed payment leaves no trace
\* (QikStaking.sol:78-127).
ImplementsLedger == Ledger!LSpec
=============================================================================
