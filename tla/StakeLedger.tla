---------------------------- MODULE StakeLedger ----------------------------
(***************************************************************************)
(* What the staking contract promises to a staker, without queues, loops,  *)
(* loop indices or a re-entrancy flag: an account per operator and staker, *)
(* with an amount at stake and a bag of claims, each with the earliest time*)
(* it can be paid.  A withdrawal pays, in one step, exactly the claims     *)
(* that are due; the payee may then act (the "call" is open) and either    *)
(* returns or fails, and a failure undoes everything since the withdrawal  *)
(* began.  QikStaking is shown to implement this specification.            *)
(***************************************************************************)
EXTENDS Integers, FiniteSets, Bags, Sums

CONSTANTS Account      \* addresses

VARIABLES
  staked,      \* [operator -> [staker -> amount at stake]]
  claims,      \* [operator -> [staker -> bag of [amount, unlockTime]]]
  vault,       \* what the contract holds
  purse,       \* [address -> what it holds outside the contract]
  clock,
  undo         \* <<>>, or the state to go back to if the open call fails

lvars == <<staked, claims, vault, purse, clock, undo>>

Claim == [amount : Nat \ {0}, unlockTime : Nat]

Due(bag) == {c \in BagToSet(bag) : c.unlockTime <= clock}

Worth(bag, cs) == Sum([c \in cs |-> c.amount * bag[c]], cs)

LInit ==
  /\ staked = [o \in Account |-> [s \in Account |-> 0]]
  /\ claims = [o \in Account |-> [s \in Account |-> EmptyBag]]
  /\ vault = 0
  /\ purse \in [Account -> Nat]
  /\ clock \in Nat
  /\ undo = <<>>

Deposit(payer, o, s, v) ==
  /\ v > 0
  /\ purse[payer] >= v
  /\ staked' = [staked EXCEPT ![o][s] = @ + v]
  /\ purse' = [purse EXCEPT ![payer] = @ - v]
  /\ vault' = vault + v
  /\ UNCHANGED <<claims, clock, undo>>

Unbond(o, s, c) ==
  /\ staked[o][s] >= c.amount
  /\ c.unlockTime >= clock
  /\ staked' = [staked EXCEPT ![o][s] = @ - c.amount]
  /\ claims' = [claims EXCEPT ![o][s] = @ (+) SetToBag({c})]
  /\ UNCHANGED <<vault, purse, clock, undo>>

Withdraw(o, s) ==
  LET bag == claims[o][s]
      total == Worth(bag, Due(bag))
  IN /\ undo = <<>>
     /\ total > 0
     /\ undo' = <<[staked |-> staked, claims |-> claims, vault |-> vault,
                   purse |-> purse]>>
     /\ claims' = [claims EXCEPT ![o][s] =
                     [c \in BagToSet(bag) \ Due(bag) |-> bag[c]]]
     /\ vault' = vault - total
     /\ purse' = [purse EXCEPT ![s] = @ + total]
     /\ UNCHANGED <<staked, clock>>

Settle ==
  /\ undo # <<>>
  /\ undo' = <<>>
  /\ UNCHANGED <<staked, claims, vault, purse, clock>>

Undo ==
  /\ undo # <<>>
  /\ staked' = undo[1].staked
  /\ claims' = undo[1].claims
  /\ vault' = undo[1].vault
  /\ purse' = undo[1].purse
  /\ undo' = <<>>
  /\ UNCHANGED clock

\* Time passes between transactions only.
Pass ==
  /\ undo = <<>>
  /\ clock' > clock
  /\ UNCHANGED <<staked, claims, vault, purse, undo>>

\* The claim a step adds, read off the two states so that TLC need not
\* enumerate every claim there could be.
NewClaims(o, s) == BagToSet(claims'[o][s] (-) claims[o][s])

LNext ==
  \/ \E payer, o, s \in Account :
       \E v \in 0..purse[payer] : Deposit(payer, o, s, v)
  \/ \E o, s \in Account : \E c \in NewClaims(o, s) : Unbond(o, s, c)
  \/ \E o, s \in Account : Withdraw(o, s)
  \/ Settle
  \/ Undo
  \/ Pass

LSpec == LInit /\ [][LNext]_lvars
=============================================================================
