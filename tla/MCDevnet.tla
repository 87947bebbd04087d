------------------------------ MODULE MCDevnet ------------------------------
(***************************************************************************)
(* Devnet on small instances, and which of its commands end.               *)
(***************************************************************************)
EXTENDS Devnet

\* Every command that is let run ends, however processes die meanwhile
\* (up.sh:57-69); for RESET=1 make up see the next property.
UpEnds == sh.pc # "idle" /\ sh.cmd # "up-RESET=1" ~> sh.pc = "idle"

\* "make up RESET=1 behaves like reset" (README.md:258): it ends as well.
ResetEnds == sh.cmd = "up-RESET=1" ~> sh.pc = "idle"
=============================================================================
