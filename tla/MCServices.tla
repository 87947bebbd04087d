----------------------------- MODULE MCServices -----------------------------
(***************************************************************************)
(* The two servers beside a devnet on small instances: the status page's,  *)
(* StatusUi, and the faucet, Faucet.  They share nothing, and a behaviour  *)
(* is one of either.                                                       *)
(***************************************************************************)
EXTENDS StatusUi, Faucet, TLC

ServicesInit == Init /\ FaucetInit
ServicesNext ==
  \/ FaucetInit /\ Next /\ UNCHANGED faucetVars
  \/ Init /\ asked = "tx" /\ FaucetNext /\ UNCHANGED vars

ServicesSpec == ServicesInit /\ [][ServicesNext]_<<vars, faucetVars>>

\* Nodes are alike, and so are the clients of each server and the addresses.
Alike == Permutations(Nodes) \cup Permutations(Ips) \cup Permutations(Tos)
=============================================================================
