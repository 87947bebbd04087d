------------------------------ MODULE MCDocker ------------------------------
(***************************************************************************)
(* Docker with three containers.                                           *)
(***************************************************************************)
EXTENDS Docker

CONSTANTS node1, node2, node3
=============================================================================
