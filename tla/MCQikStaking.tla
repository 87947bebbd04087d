--------------------------- MODULE MCQikStaking ---------------------------
(***************************************************************************)
(* QikStaking on small instances, the constants they take.                 *)
(***************************************************************************)
EXTENDS QikLedger, QikSelection

\* The coins of the instances: spread over the stakers, or in one hand.
SpreadFunds == [a \in Addr |-> IF a = 1 THEN 2 ELSE 1]
OneHand == [a \in Addr |-> IF a = 1 THEN 3 ELSE 0]
=============================================================================
