--------------------------- MODULE MCPosStaking ---------------------------
(* PosStaking on small instances. *)
EXTENDS PosStakingSafety

CONSTANTS v1, v2

OneList == {<<v1>>}
=============================================================================
