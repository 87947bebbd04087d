------------------------------ MODULE MCTxLab ------------------------------
(***************************************************************************)
(* TxLab on small instances, and what must hold of it.                     *)
(***************************************************************************)
EXTENDS TxLab

CONSTANTS alice, ghost

\* Every run comes to an end, unless an unknown label takes the whole
\* process down (txlab.js:154, 168).
RunEnds ==
  \A r \in Runs : run[r].status = "running" ~> (run[r].status # "running" \/ crashed)

----------------------------------------------------------------------------
Sc(n, conc, tps, senders, wait) ==
  [txCount |-> n, concurrency |-> conc, rateLimitTps |-> tps, senders |-> senders,
   waitReceipt |-> wait]

\* The first run is the interesting one; the second overlaps its end.
Mixed == [r \in Runs |-> IF r = 1
  THEN {Sc(2, 2, 0, <<alice>>, FALSE), Sc(2, 1, 0, <<alice>>, TRUE), Sc(2, 1, 1, <<alice>>, FALSE)}
  ELSE {Sc(1, 1, 0, <<alice>>, FALSE), Sc(1, 1, 0, <<ghost>>, FALSE)}]
=============================================================================
