------------------------------- MODULE Devnet -------------------------------
(***************************************************************************)
(* The scripts that start, stop and reset the four-node devnet:            *)
(* scripts/devnet/up.sh, down.sh and reset.sh, scripts/devnet-ibft4.sh and *)
(* devnet-ibft4-stop.sh, and make clean and clean-data.  One user runs one *)
(* command at a time and may interrupt it before any command of a script,  *)
(* and while rm -rf removes the data; node processes die at any time, ids  *)
(* of processes are used again, and a node may outlive the ten seconds a   *)
(* SIGTERM gives it.                                                       *)
(* A kill and the removal of its pid file are one step: what an interrupt  *)
(* between them leaves, a death and an interrupt leave too.                *)
(* A genesis file is what it says: the parameters it was built with and    *)
(* the keys of its validators.  Its SHA-256 stands for the content.        *)
(***************************************************************************)
EXTENDS Integers, FiniteSets

CONSTANTS
  N,            \* nodes are 1..N; node 1 serves the RPC that is asked
  Pids,         \* process ids, positive
  Params,       \* chain parameters a command may be given
  Commands,     \* the commands the user gives
  None,
  MaxCommands,  \* bound on the commands given
  MaxFaults     \* bound on interrupts, deaths, reused ids and failed builds

Nodes == 1..N

ASSUME DevnetAssumption ==
  /\ N \in Nat \ {0}
  /\ Pids \subseteq Nat \ {0} /\ IsFiniteSet(Pids)
  /\ MaxCommands \in Nat /\ MaxFaults \in Nat
  /\ Commands \subseteq {"up", "up-RESET=1", "start-RESET=1", "reset", "down", "clean", "clean-data"}

\* What a genesis file says: its parameters and its validators' keys.
Files == [params : Params \cup {None}, keys : [Nodes -> Nat \cup {None}]]

\* No file, or no key, is neither a file nor a key.
ASSUME NoneAssumption == None \notin Nat /\ None \notin Files

VARIABLES
  genesis,      \* build/genesis.json
  key,          \* consensus/validator.key of each node
  finger,       \* .genesis.sha256 of each node
  chain,        \* the blockchain directory: the genesis it was begun with
  pidFile,      \* server.pid of each node, 0 if there is none
  devnetPid,    \* .pids/devnet.pid
  proc,         \* the process behind each id
  sh,           \* the running command: place, RESET, locals
  lost,         \* history: the nodes whose pid file went, or was never
                \* written, while they ran, or whose data clean-data removed
  parted,       \* history: data was removed and genesis.json was not, and
                \* not both are gone since
  given,        \* commands so far
  faults        \* interrupts, deaths and the like so far

disk == <<genesis, key, finger, chain>>
pids == <<pidFile, devnetPid>>
history == <<lost, parted, given, faults>>
vars == <<disk, pids, proc, sh, history>>

Free == [kind |-> "free"]
Other == [kind |-> "other"]
Broken == [params |-> None, keys |-> [n \in Nodes |-> None]]
Idle == [cmd |-> "none", pc |-> "idle", reset |-> FALSE, had |-> FALSE,
         current |-> None, i |-> 1, pid |-> 0, ret |-> "exit"]

Alive(pid) == pid # 0 /\ proc[pid] # Free
Live == {p \in Pids : proc[p].kind = "node"}

\* Nothing is there yet, or the data of nodes that ran before there were
\* fingerprints, with or without their genesis file.
Init ==
  /\ \/ /\ genesis = None
        /\ key = [n \in Nodes |-> None]
        /\ chain = [n \in Nodes |-> None]
     \/ \E p \in Params : LET old == [params |-> p, keys |-> [n \in Nodes |-> n]] IN
          genesis \in {None, old} /\ key = old.keys /\ chain = [n \in Nodes |-> old]
  /\ finger = [n \in Nodes |-> None]
  /\ pidFile = [n \in Nodes |-> 0]
  /\ devnetPid = 0
  /\ proc = [p \in Pids |-> Free]
  /\ sh = Idle
  /\ lost = {} /\ parted = FALSE /\ given = 0 /\ faults = 0

At(pc) == sh.pc = pc
Goto(pc) == sh' = [sh EXCEPT !.pc = pc, !.i = 1]
\* The next round of a loop over the nodes, or what follows the loop.
NextNode(pc) ==
  sh' = IF sh.i < N THEN [sh EXCEPT !.i = @ + 1] ELSE [sh EXCEPT !.pc = pc, !.i = 1]
Exit == sh' = Idle

Given == At("idle") /\ given < MaxCommands /\ given' = given + 1
Fault == faults < MaxFaults /\ faults' = faults + 1

\* health_check: node 1 answers, or does not, or not yet.
Healthy == {FALSE} \cup {TRUE : p \in {q \in Live : proc[q].node = 1}}

----------------------------------------------------------------------------
(* Commands *)

Begin ==
  /\ Given
  /\ \E cmd \in Commands \ {"clean", "clean-data"} :
       sh' = [Idle EXCEPT !.cmd = cmd, !.reset = cmd \in {"up-RESET=1", "start-RESET=1"},
                          !.pc = CASE cmd \in {"up", "up-RESET=1"} -> "up"
                                   [] cmd = "start-RESET=1" -> "stop"
                                   [] cmd \in {"reset", "down"} -> "down",
                          !.ret = CASE cmd = "reset" -> "reset"
                                    [] cmd = "start-RESET=1" -> "wipe"
                                    [] OTHER -> "exit"]
  /\ UNCHANGED <<disk, pids, proc, lost, parted, faults>>

\* make clean: rm -rf build.
Clean ==
  /\ Given /\ "clean" \in Commands
  /\ genesis' = None
  /\ UNCHANGED <<key, finger, chain, pids, proc, sh, lost, parted, faults>>

\* rm -rf of the nodes' directories, with the pid files in them.
WipeData ==
  /\ key' = [n \in Nodes |-> None]
  /\ finger' = [n \in Nodes |-> None]
  /\ chain' = [n \in Nodes |-> None]
  /\ pidFile' = [n \in Nodes |-> 0]
  /\ parted' = (genesis # None)

\* The same, interrupted: some directories are left, one of them in part.
WipePart ==
  \E whole \in SUBSET Nodes, n \in Nodes :
    \E k, f, c, p \in {whole, whole \cup {n}} :
      /\ key' = [m \in Nodes |-> IF m \in k THEN key[m] ELSE None]
      /\ finger' = [m \in Nodes |-> IF m \in f THEN finger[m] ELSE None]
      /\ chain' = [m \in Nodes |-> IF m \in c THEN chain[m] ELSE None]
      /\ pidFile' = [m \in Nodes |-> IF m \in p THEN pidFile[m] ELSE 0]
      /\ parted' = (parted \/ genesis # None)

\* make clean-data: rm -rf .data/ibft4.
CleanData ==
  /\ Given /\ "clean-data" \in Commands
  /\ \/ WipeData /\ UNCHANGED faults
     \/ WipePart /\ Fault
  /\ lost' = lost \cup Live
  /\ UNCHANGED <<genesis, devnetPid, proc, sh>>

\* The user, or the machine, ends the command where it is.
Interrupt ==
  /\ ~At("idle")
  /\ \/ UNCHANGED <<key, finger, chain, pidFile, parted>>
     \/ sh.pc \in {"rm-data", "wipe-data"} /\ WipePart
  /\ Exit
  /\ Fault
  /\ lost' = IF At("write") THEN lost \cup {sh.pid} ELSE lost
  /\ UNCHANGED <<genesis, devnetPid, proc, given>>

----------------------------------------------------------------------------
(* up.sh *)

\* MUTANT: reset.sh exports RESET=1 to the start it ends with.
WantsResetAlways == sh.cmd # "up"

WantsReset == sh.reset

\* RESET=1 is handed to reset.sh, which inherits it.
UpReset ==
  /\ At("up") /\ WantsReset
  /\ sh' = [sh EXCEPT !.pc = "down", !.ret = "reset"]
  /\ UNCHANGED <<disk, pids, proc, history>>

\* The pid file: an answering devnet is left alone, one that does not answer
\* is stopped, a stale file is removed.
UpPid ==
  /\ At("up") /\ ~WantsReset
  /\ \E healthy \in Healthy :
       \/ Alive(devnetPid) /\ healthy /\ Exit /\ UNCHANGED devnetPid
       \/ /\ Alive(devnetPid) /\ ~healthy
          /\ sh' = [sh EXCEPT !.pc = "down", !.ret = "up"]
          /\ UNCHANGED devnetPid
       \/ ~Alive(devnetPid) /\ Goto("rpc") /\ devnetPid' = 0
  /\ UNCHANGED <<disk, pidFile, proc, history>>

Copied == IF pidFile[1] # 0 THEN pidFile[1] ELSE devnetPid

\* Something answers: the devnet is taken to be running.
UpRpc ==
  /\ At("rpc")
  /\ \E healthy \in Healthy :
       IF healthy
       THEN devnetPid' = Copied /\ Exit
       ELSE Goto("had") /\ UNCHANGED devnetPid
  /\ UNCHANGED <<disk, pidFile, proc, history>>

\* After the start: the pid of node 1 becomes the pid of the devnet.
UpCopy ==
  /\ At("copy")
  /\ devnetPid' = Copied
  /\ IF pidFile[1] # 0 THEN Goto("wait") ELSE Exit
  /\ UNCHANGED <<disk, pidFile, proc, history>>

\* Until the RPC answers or 30 seconds are over.
UpWait ==
  /\ At("wait")
  /\ Exit
  /\ UNCHANGED <<disk, pids, proc, history>>

----------------------------------------------------------------------------
(* down.sh, devnet-ibft4-stop.sh and reset.sh *)

\* SIGTERM, and SIGKILL after ten seconds, to whatever has this id now.
DownKill ==
  /\ At("down")
  /\ proc' = IF Alive(devnetPid) THEN [proc EXCEPT ![devnetPid] = Free] ELSE proc
  /\ Goto("stop")
  /\ UNCHANGED <<disk, pids, history>>

\* What follows the loop over the pid files: with RESET=1 the listeners.
AfterStop == IF sh.ret = "wipe" THEN "ports" ELSE "stopped"

\* MUTANT: the loop ends before the last node.
StopNodeButLast ==
  /\ At("stop")
  /\ proc' = IF Alive(pidFile[sh.i]) /\ sh.i < N THEN [proc EXCEPT ![pidFile[sh.i]] = Free] ELSE proc
  /\ pidFile' = [pidFile EXCEPT ![sh.i] = 0]
  /\ NextNode(AfterStop)
  /\ UNCHANGED <<disk, devnetPid, history>>

\* stop_via_pidfiles: SIGTERM, and SIGKILL only with the FORCE=1 of a start
\* with RESET=1; the pid file goes in any case.
StopNode ==
  /\ At("stop")
  /\ \/ /\ proc' = IF Alive(pidFile[sh.i]) THEN [proc EXCEPT ![pidFile[sh.i]] = Free] ELSE proc
        /\ UNCHANGED <<lost, faults>>
     \/ /\ Alive(pidFile[sh.i]) /\ sh.ret # "wipe"
        /\ Fault /\ lost' = lost \cup {pidFile[sh.i]}
        /\ UNCHANGED proc
  /\ pidFile' = [pidFile EXCEPT ![sh.i] = 0]
  /\ NextNode(AfterStop)
  /\ UNCHANGED <<disk, devnetPid, parted, given>>

\* The end of down.sh, and back to its caller, who does not mind its status.
DownEnd ==
  /\ At("stopped")
  /\ devnetPid' = IF Alive(devnetPid) THEN devnetPid ELSE 0
  /\ \/ sh.ret = "exit" /\ Exit
     \/ sh.ret = "up" /\ Goto("rpc")
     \/ sh.ret = "reset" /\ Goto("rm-genesis")
  /\ UNCHANGED <<disk, pidFile, proc, history>>

RmGenesis ==
  /\ At("rm-genesis")
  /\ genesis' = None
  /\ Goto("rm-data")
  /\ UNCHANGED <<key, finger, chain, pids, proc, history>>

\* reset.sh goes on with up.sh, in its own environment.
RmData ==
  /\ At("rm-data")
  /\ WipeData
  /\ Goto("up")
  /\ UNCHANGED <<genesis, devnetPid, proc, lost, given, faults>>

----------------------------------------------------------------------------
(* devnet-ibft4.sh *)

\* reset_net with RESET=1 stops the nodes as devnet-ibft4-stop.sh does, then
\* kills what listens on the ports; a node that does not listen yet stays.
KillListeners ==
  /\ At("ports")
  /\ \/ /\ proc' = [p \in Pids |-> IF p \in Live THEN Free ELSE proc[p]]
        /\ UNCHANGED faults
     \/ \E deaf \in Live :
          /\ proc' = [p \in Pids |-> IF p \in Live \ {deaf} THEN Free ELSE proc[p]]
          /\ Fault
  /\ Goto("wipe-data")
  /\ UNCHANGED <<disk, pids, lost, parted, given>>

\* rm -rf "$DATA_ROOT"
WipeNet ==
  /\ At("wipe-data")
  /\ WipeData
  /\ Goto("wipe-genesis")
  /\ UNCHANGED <<genesis, devnetPid, proc, lost, given, faults>>

\* rm -f "$GENESIS_OUT", a command of its own
RmArtifacts ==
  /\ At("wipe-genesis")
  /\ genesis' = None /\ parted' = FALSE
  /\ Goto("had")
  /\ UNCHANGED <<key, finger, chain, pids, proc, lost, given, faults>>

Initialized(n) == key[n] # None \/ finger[n] # None \/ chain[n] # None

HasInitialized ==
  /\ At("had")
  /\ sh' = [sh EXCEPT !.pc = "secrets", !.i = 1, !.had = \E n \in Nodes : Initialized(n)]
  /\ UNCHANGED <<disk, pids, proc, history>>

\* A new key is one that no file and no process knows.
NewKey ==
  LET Named == {genesis, sh.current} \cup {finger[n] : n \in Nodes} \cup {chain[n] : n \in Nodes}
                 \cup {proc[p].genesis : p \in Live}
      used == UNION ({{g.keys[n] : n \in Nodes} : g \in Named \ {None}} \cup
                     {{key[n] : n \in Nodes}, {proc[p].key : p \in Live}})
  IN  CHOOSE k \in 1..(Cardinality(used) + 1) : k \notin used

\* MUTANT: secrets are made anew whether they are there or not.
InitSecretsAlways ==
  /\ At("secrets")
  /\ key' = [key EXCEPT ![sh.i] = NewKey]
  /\ NextNode("genesis")
  /\ UNCHANGED <<genesis, finger, chain, pids, proc, history>>

InitSecrets ==
  /\ At("secrets")
  /\ key' = [key EXCEPT ![sh.i] = IF @ = None THEN NewKey ELSE @]
  /\ NextNode("genesis")
  /\ UNCHANGED <<genesis, finger, chain, pids, proc, history>>

\* build_genesis: skipped if the file is there; a file that the checks on
\* extraData refuse stays where it is.
BuildGenesis ==
  /\ At("genesis")
  /\ \/ genesis # None /\ Goto("fingerprint") /\ UNCHANGED <<genesis, faults>>
     \/ /\ genesis = None
        /\ \E p \in Params : genesis' = [params |-> p, keys |-> key]
        /\ Goto("fingerprint") /\ UNCHANGED faults
     \/ genesis = None /\ genesis' = Broken /\ Exit /\ Fault
  /\ UNCHANGED <<key, finger, chain, pids, proc, lost, parted, given>>

\* MUTANT: the fingerprints of initialized nodes are looked at with RESET=1.
FingerprintUnchecked ==
  /\ At("fingerprint")
  /\ sh' = [sh EXCEPT !.pc = IF sh.had /\ sh.reset THEN "check" ELSE "persist",
                      !.current = genesis, !.i = 1]
  /\ UNCHANGED <<disk, pids, proc, history>>

Fingerprint ==
  /\ At("fingerprint")
  /\ sh' = [sh EXCEPT !.pc = IF sh.had /\ ~sh.reset THEN "check" ELSE "persist",
                      !.current = genesis, !.i = 1]
  /\ UNCHANGED <<disk, pids, proc, history>>

\* polygon-edge genesis verify, which not every build has, refuses a genesis
\* without validators and data of another chain.
Verdicts(n) == {FALSE, genesis # Broken /\ chain[n] \in {None, genesis}}

\* MUTANT: a node without a fingerprint passes.
PassesLeniently(n, verified) ==
  Initialized(n) => finger[n] = sh.current \/ finger[n] = None

Passes(n, verified) ==
  Initialized(n) => \/ finger[n] = sh.current
                    \/ finger[n] = None /\ verified

\* check_existing_genesis_fingerprint, one round of its loop.
CheckPasses ==
  /\ At("check")
  /\ \E verified \in Verdicts(sh.i) : Passes(sh.i, verified)
  /\ finger' = [finger EXCEPT ![sh.i] = IF Initialized(sh.i) THEN sh.current ELSE @]
  /\ NextNode("persist")
  /\ UNCHANGED <<genesis, key, chain, pids, proc, history>>

\* fail_genesis_mismatch
CheckFails ==
  /\ At("check")
  /\ \E verified \in Verdicts(sh.i) : ~Passes(sh.i, verified)
  /\ Exit
  /\ UNCHANGED <<disk, pids, proc, history>>

PersistFingerprint ==
  /\ At("persist")
  /\ finger' = [finger EXCEPT ![sh.i] = IF Initialized(sh.i) THEN sh.current ELSE @]
  /\ NextNode("node")
  /\ UNCHANGED <<genesis, key, chain, pids, proc, history>>

AfterNodes == IF sh.cmd = "start-RESET=1" THEN "end" ELSE "copy"

\* start_node: skipped when the id in the pid file is alive.  The node opens
\* its data directory, or begins it with this genesis.  With no id left the
\* shell cannot fork.
StartNode ==
  /\ At("node")
  /\ \/ Alive(pidFile[sh.i]) /\ NextNode(AfterNodes) /\ UNCHANGED <<proc, chain, lost>>
     \/ /\ ~Alive(pidFile[sh.i])
        /\ \E p \in {q \in Pids : proc[q] = Free} :
             /\ proc' = [proc EXCEPT ![p] =
                  [kind |-> "node", node |-> sh.i, genesis |-> genesis, key |-> key[sh.i],
                   data |-> IF chain[sh.i] = None THEN genesis ELSE chain[sh.i]]]
             /\ sh' = [sh EXCEPT !.pc = "write", !.pid = p]
             /\ lost' = lost \ {p}
        /\ chain' = [chain EXCEPT ![sh.i] = IF @ = None THEN genesis ELSE @]
     \/ /\ ~Alive(pidFile[sh.i]) /\ \A p \in Pids : proc[p] # Free
        /\ Exit
        /\ UNCHANGED <<proc, chain, lost>>
  /\ UNCHANGED <<genesis, key, finger, pids, parted, given, faults>>

\* echo "$!" > "$pid_file"
WritePid ==
  /\ At("write")
  /\ pidFile' = [pidFile EXCEPT ![sh.i] = sh.pid]
  /\ sh' = IF sh.i < N THEN [sh EXCEPT !.pc = "node", !.i = @ + 1, !.pid = 0]
                       ELSE [sh EXCEPT !.pc = AfterNodes, !.i = 1, !.pid = 0]
  /\ UNCHANGED <<disk, devnetPid, proc, history>>

StartEnd == At("end") /\ Exit /\ UNCHANGED <<disk, pids, proc, history>>

----------------------------------------------------------------------------
(* The machine *)

Dies(p) ==
  /\ proc[p] # Free
  /\ Fault
  /\ proc' = [proc EXCEPT ![p] = Free]
  /\ UNCHANGED <<disk, pids, sh, lost, parted, given>>

\* An id that a pid file still names is given to another program.
Reused(p) ==
  /\ proc[p] = Free
  /\ p = devnetPid \/ \E n \in Nodes : pidFile[n] = p
  /\ Fault
  /\ proc' = [proc EXCEPT ![p] = Other]
  /\ UNCHANGED <<disk, pids, sh, lost, parted, given>>

Up == UpReset \/ UpPid \/ UpRpc \/ UpCopy \/ UpWait
Down == DownKill \/ StopNode \/ DownEnd \/ RmGenesis \/ RmData
Start == KillListeners \/ WipeNet \/ RmArtifacts \/ HasInitialized \/ InitSecrets \/ BuildGenesis \/ Fingerprint
  \/ CheckPasses \/ CheckFails \/ PersistFingerprint \/ StartNode \/ WritePid \/ StartEnd
Script == Up \/ Down \/ Start

Next ==
  \/ Begin \/ Clean \/ CleanData \/ Interrupt
  \/ Script
  \/ \E p \in Pids : Dies(p) \/ Reused(p)

Spec == Init /\ [][Next]_vars

\* A script that is not interrupted goes on.
FairSpec == Spec /\ WF_vars(Script)

----------------------------------------------------------------------------
(* What must hold *)

\* No node is ever started on the data of another chain: what the stored
\* fingerprints are for (devnet-ibft4.sh:192-218), however commands are
\* interrupted, repeated and mixed with make clean and clean-data.
NodeOnItsChain == \A p \in Live : proc[p].data = proc[p].genesis

\* A stored fingerprint is that of the chain the node's data belongs to
\* (devnet-ibft4.sh:161-170).
FingerprintsTrue ==
  \A n \in Nodes : finger[n] # None /\ chain[n] # None => finger[n] = chain[n]

\* A node is started with a key its genesis names as a validator's, or the
\* network could not seal a block, whatever happened before: only data that
\* was removed without genesis.json, by make clean-data or by an interrupt
\* within reset_net, can part them, and only until a reset has removed both
\* (devnet-ibft4.sh:106-122, :221-239).
ValidatorsInGenesis ==
  [][\A p \in Pids : p \notin Live /\ p \in Live' /\ ~parted =>
       proc'[p].key = proc'[p].genesis.keys[proc'[p].node]]_vars

\* All running nodes are on one chain, but for those the scripts lost: a node
\* that outlived its SIGTERM or was left without a pid file, and nodes whose
\* data make clean-data removed (devnet-ibft4-stop.sh:65-89).  What is
\* started beside a lost node still is on one chain.
OneChain == \A p, q \in Live \ lost : proc[p].genesis = proc[q].genesis

\* "Devnet stopped." is true: no node runs then that was not lost
\* (down.sh:32-48).
DownStopsAll ==
  [][DownEnd /\ sh.cmd = "down" /\ devnetPid' = 0 => Live \subseteq lost]_vars
=============================================================================
