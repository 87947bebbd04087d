------------------------------ MODULE TxHelper ------------------------------
(***************************************************************************)
(* The programs that send a transaction of the funder: cmd/txhelper, which *)
(* the status server or a user starts, and cmd/txsmoke.  Several run at a  *)
(* time, each a process that goes through the calls of ethclient in order; *)
(* any call may fail or run into the program's timeout, the server kills   *)
(* a helper that takes too long, and an answer may be lost while what was  *)
(* sent arrives, even after the sender has ended.                          *)
(*                                                                         *)
(* A job is [tool, action, args, wait, cap, server]: txsmoke or txhelper;  *)
(* burn, deploy or raw; "good", "wrong" or "unreadable" arguments; whether *)
(* the receipt is waited for; whether deployGasCap is below what a deploy  *)
(* needs; whether the server started it.  Keys, fees and amounts are left  *)
(* out, but for the base fee that a chain may not have.                    *)
(***************************************************************************)
EXTENDS Integers, Sequences, SequencesExt

CONSTANTS
  Jobs,
  NumSenders,    \* bound on the processes, numbered as they start
  MaxRestarts,   \* bound on the node's restarts
  Unset

JobKinds == [tool : {"txhelper", "txsmoke"}, action : {"burn", "deploy", "raw"}, args : {"good", "wrong", "unreadable"},
             wait : BOOLEAN, cap : BOOLEAN, server : BOOLEAN]

ASSUME SendersAssumption ==
  /\ {NumSenders, MaxRestarts} \subseteq Nat
  /\ Jobs \subseteq JobKinds /\ Unset \notin Nat \cup BOOLEAN \cup Jobs

Senders == 1..NumSenders

VARIABLES
  baseFee,     \* whether the chain's blocks have one
  blocks,      \* the funder's transactions in blocks, in order: [by, ok]
  pool,        \* those that wait: from nonces to senders
  restarts,
  proc,        \* of each sender, what it is doing
  afloat,      \* senders whose transaction was sent and may still arrive
  took         \* history: senders whose transaction the node has accepted

chain == <<baseFee, blocks, pool, restarts>>
sendVars == <<chain, proc, afloat, took>>

\* told: what was printed of the receipt; refused: the node wanted another
\* nonce; after: those that had ended when it started.
NotStarted == [pc |-> "new", job |-> Unset, nonce |-> Unset, capped |-> FALSE, exit |-> Unset,
               told |-> Unset, refused |-> FALSE, after |-> {}]
Unmined == [mined |-> FALSE, ok |-> Unset, address |-> Unset]

SendInit ==
  /\ baseFee \in BOOLEAN
  /\ blocks = <<>> /\ pool = <<>> /\ restarts = 0
  /\ proc = [p \in Senders |-> NotStarted] \/ proc = [p \in Senders |-> [NotStarted EXCEPT !.pc = "off"]]
  /\ afloat = {} /\ took = {}

Busy(p) == proc[p].pc \in {"params", "estimate", "send", "wait"}

----------------------------------------------------------------------------
(* The node.  The funder's next nonce is the number of its transactions in *)
(* blocks; the pool keeps one that is ahead of it until the gap is filled. *)

First(nonces) == CHOOSE n \in nonces : \A m \in nonces : n <= m
PendingNonce == First((Len(blocks)..(Len(blocks) + NumSenders)) \ DOMAIN pool)

Accepts(nonce) == nonce >= Len(blocks) /\ nonce \notin DOMAIN pool
Pooled(p) == [n \in DOMAIN pool \cup {proc[p].nonce} |-> IF n = proc[p].nonce THEN p ELSE pool[n]]

\* A deploy whose gas was capped runs out of it; a transaction that somebody
\* else signed may fail for reasons of its own.
Mine ==
  /\ Len(blocks) \in DOMAIN pool
  /\ LET p == pool[Len(blocks)] IN
       \E ok \in (IF proc[p].capped THEN {FALSE} ELSE IF proc[p].job.action = "raw" THEN BOOLEAN ELSE {TRUE}) :
         blocks' = Append(blocks, [by |-> p, ok |-> ok])
  /\ pool' = [n \in DOMAIN pool \ {Len(blocks)} |-> pool[n]]
  /\ UNCHANGED <<baseFee, restarts, proc, afloat, took>>

\* The pool is in memory.
RestartNode ==
  /\ restarts < MaxRestarts /\ \E p \in Senders : Busy(p)
  /\ restarts' = restarts + 1 /\ pool' = <<>>
  /\ UNCHANGED <<baseFee, blocks, proc, afloat, took>>

\* What was sent arrives late: nobody is told whether it is accepted.
Arrives(p) ==
  /\ p \in afloat
  /\ afloat' = afloat \ {p}
  /\ IF Accepts(proc[p].nonce) THEN pool' = Pooled(p) /\ took' = took \cup {p} ELSE UNCHANGED <<pool, took>>
  /\ UNCHANGED <<baseFee, blocks, restarts, proc>>

----------------------------------------------------------------------------
(* A sender *)

Exit(p, status, told) == [proc[p] EXCEPT !.pc = "exited", !.exit = status, !.told = told]
Becomes(p, state) == proc' = [proc EXCEPT ![p] = state]

\* Arguments are read before anything is asked.  A raw transaction was
\* signed elsewhere, with some nonce.
Launch(p, job) ==
  /\ proc[p].pc = "new" /\ \A q \in 1..(p - 1) : proc[q].pc # "new"
  /\ LET begun == [proc[p] EXCEPT !.job = job, !.after = {q \in Senders : proc[q].pc = "exited"}] IN
     CASE job.args = "unreadable" -> Becomes(p, [begun EXCEPT !.pc = "exited", !.exit = 2])
       [] job.args = "wrong" -> Becomes(p, [begun EXCEPT !.pc = "exited", !.exit = 1])
       [] job.args = "good" /\ job.action # "raw" -> Becomes(p, [begun EXCEPT !.pc = "params"])
       [] job.args = "good" /\ job.action = "raw" ->
            \E n \in 0..PendingNonce : Becomes(p, [begun EXCEPT !.pc = "send", !.nonce = n])
  /\ UNCHANGED <<chain, afloat, took>>

\* MUTANT: the nonce is that of the latest block.
TxParamsLatest(p) ==
  /\ proc[p].pc = "params"
  /\ Becomes(p, IF baseFee THEN [proc[p] EXCEPT !.pc = "estimate", !.nonce = Len(blocks)] ELSE Exit(p, 1, Unset))
  /\ UNCHANGED <<chain, afloat, took>>

\* The pending nonce; then the base fee, without which it ends.
TxParams(p) ==
  /\ proc[p].pc = "params"
  /\ Becomes(p, IF baseFee THEN [proc[p] EXCEPT !.pc = "estimate", !.nonce = PendingNonce] ELSE Exit(p, 1, Unset))
  /\ UNCHANGED <<chain, afloat, took>>

\* A deploy takes deployGasCap if that is less, and is sent all the same.
EstimateGas(p) ==
  /\ proc[p].pc = "estimate"
  /\ Becomes(p, [proc[p] EXCEPT !.pc = "send", !.capped = proc[p].job.action = "deploy" /\ proc[p].job.cap])
  /\ UNCHANGED <<chain, afloat, took>>

Waits(p) == proc[p].job.tool = "txsmoke" \/ proc[p].job.wait

\* The node takes it, and the answer comes or is lost; or it refuses it.
SendTransaction(p) ==
  /\ proc[p].pc = "send"
  /\ IF Accepts(proc[p].nonce)
     THEN /\ pool' = Pooled(p) /\ took' = took \cup {p}
          /\ \/ Becomes(p, IF Waits(p) THEN [proc[p] EXCEPT !.pc = "wait"] ELSE Exit(p, 0, Unmined))
             \/ Becomes(p, Exit(p, 1, Unset))
     ELSE /\ Becomes(p, [Exit(p, 1, Unset) EXCEPT !.refused = TRUE])
          /\ UNCHANGED <<pool, took>>
  /\ UNCHANGED <<baseFee, blocks, restarts, afloat>>

\* A call fails or the program's time is over: it ends with 1, and what it
\* was sending may be on its way.
Fails(p) ==
  /\ proc[p].pc \in {"params", "estimate", "send"}
  /\ Becomes(p, Exit(p, 1, Unset))
  /\ afloat' \in {afloat} \cup (IF proc[p].pc = "send" THEN {afloat \cup {p}} ELSE {})
  /\ UNCHANGED <<chain, took>>

\* waitForReceipt: asked every second; not found, failed and lost are alike.
\* The address of a deploy is the receipt's, whatever its status.
WaitForReceipt(p) ==
  /\ proc[p].pc = "wait"
  /\ \E i \in DOMAIN blocks :
       LET told == [mined |-> TRUE, ok |-> blocks[i].ok, address |-> proc[p].job.action = "deploy"]
       IN /\ blocks[i].by = p
          /\ Becomes(p, Exit(p, IF proc[p].job.tool = "txsmoke" /\ ~blocks[i].ok THEN 1 ELSE 0, told))
  /\ UNCHANGED <<chain, afloat, took>>

\* MUTANT: txsmoke takes the end of its time for success.
WaitTimesOutWell(p) ==
  /\ proc[p].pc = "wait"
  /\ Becomes(p, Exit(p, 0, Unmined))
  /\ UNCHANGED <<chain, afloat, took>>

\* txhelper says that it is not mined, which is no error; for txsmoke it is.
WaitTimesOut(p) ==
  /\ proc[p].pc = "wait"
  /\ Becomes(p, IF proc[p].job.tool = "txsmoke" THEN Exit(p, 1, Unset) ELSE Exit(p, 0, Unmined))
  /\ UNCHANGED <<chain, afloat, took>>

\* runTxHelper: TX_TIMEOUT_MS is over, and the answer is an error.
BySigterm == 143
Killed(p) ==
  /\ Busy(p) /\ proc[p].job.server
  /\ Becomes(p, Exit(p, BySigterm, Unset))
  /\ afloat' \in {afloat} \cup (IF proc[p].pc = "send" THEN {afloat \cup {p}} ELSE {})
  /\ UNCHANGED <<chain, took>>

Sender(p) ==
  \/ \E job \in Jobs : Launch(p, job)
  \/ TxParams(p) \/ EstimateGas(p) \/ SendTransaction(p) \/ Fails(p)
  \/ WaitForReceipt(p) \/ WaitTimesOut(p) \/ Killed(p)

SendNext == Mine \/ RestartNode \/ \E p \in Senders : Sender(p) \/ Arrives(p)

\* A program that runs goes on: its calls and its wait have timeouts.
SendFairness ==
  \A p \in Senders : WF_sendVars(TxParams(p) \/ EstimateGas(p) \/ SendTransaction(p) \/ WaitTimesOut(p))
=============================================================================
