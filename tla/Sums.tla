-------------------------------- MODULE Sums --------------------------------
(***************************************************************************)
(* The sum of a function of naturals over a finite set, defined as the     *)
(* number of its units: f[x] numbered coins for every x in S.  This needs  *)
(* no recursion, so the theorems about finite sets carry the proofs.       *)
(***************************************************************************)
EXTENDS Integers, FiniteSets

Coins(f, S) == UNION {{x} \X (1..f[x]) : x \in S}

Sum(f, S) == Cardinality(Coins(f, S))
=============================================================================
