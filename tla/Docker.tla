------------------------------- MODULE Docker -------------------------------
(***************************************************************************)
(* The containers of docker-compose.yml: entrypoints that run side by side *)
(* and meet in a shared volume.  Everyone publishes its keys there, node 1 *)
(* makes the genesis of all keys, the others wait for it, and each then    *)
(* becomes a polygon-edge server.                                          *)
(*                                                                         *)
(* A file that was opened for writing exists and is Torn until it is       *)
(* written: `>` and polygon-edge empty a file before they fill it.         *)
(***************************************************************************)
EXTENDS Naturals, FiniteSets

CONSTANTS Nodes, First,          \* First is node1
          NoFile, Torn,
          MaxUps, MaxKills, MaxWipes

ASSUME DockerAssumption ==
  First \in Nodes /\ IsFiniteSet(Nodes) /\ {MaxUps, MaxKills, MaxWipes} \subseteq Nat

\* A file that is not there and one that is torn hold neither keys nor a genesis.
ASSUME FileAssumption ==
  /\ NoFile # Torn
  /\ NoFile \notin Nat /\ Torn \notin Nat
  /\ NoFile \notin [Nodes -> Nat] /\ Torn \notin [Nodes -> Nat]

VARIABLES pc,                    \* where each container is
          key,                   \* its own volume: NoFile, Torn (a part) or its keys
          chain,                 \* the genesis its blocks are built on
          read,                  \* node1's validators and node1_id: what it read of info
          info,                  \* shared: what each node published
          multiaddr, genesis,    \* shared: of node 1, of all
          ups, kills, wipes      \* bounds: `up`, kills, `down -v`

own == <<key, chain, read>>
shared == <<info, multiaddr, genesis>>
bounds == <<ups, kills, wipes>>
composeVars == <<pc, own, shared, bounds>>

Waiting == {"waitInfo", "waitGenesis", "waitMultiaddr"}
Ended == {"down", "running", "failed"}
Goto(n, label) == pc' = [pc EXCEPT ![n] = label]

ComposeInit ==
  /\ pc = [n \in Nodes |-> "down"]
  /\ key = [n \in Nodes |-> NoFile] /\ chain = [n \in Nodes |-> NoFile]
  /\ read = [n \in Nodes |-> NoFile] /\ info = [n \in Nodes |-> NoFile]
  /\ multiaddr = NoFile /\ genesis = NoFile
  /\ ups = 0 /\ kills = 0 /\ wipes = 0

----------------------------------------------------------------------------
(* Docker *)

\* `docker compose up`: every container that does not run is started.
ComposeUp ==
  /\ ups < MaxUps /\ \E n \in Nodes : pc[n] \in {"down", "failed"}
  /\ ups' = ups + 1
  /\ pc' = [n \in Nodes |-> IF pc[n] \in {"down", "failed"} THEN "secrets" ELSE pc[n]]
  /\ UNCHANGED <<own, shared, kills, wipes>>

\* A container is stopped or dies, wherever it is.
Kill(n) ==
  /\ kills < MaxKills /\ pc[n] # "down"
  /\ kills' = kills + 1
  /\ Goto(n, "down")
  /\ UNCHANGED <<own, shared, ups, wipes>>

\* `docker compose down -v`
DownVolumes ==
  /\ wipes < MaxWipes /\ ups > 0
  /\ wipes' = wipes + 1
  /\ pc' = [n \in Nodes |-> "down"]
  /\ key' = [n \in Nodes |-> NoFile] /\ chain' = [n \in Nodes |-> NoFile] /\ info' = [n \in Nodes |-> NoFile]
  /\ read' = [n \in Nodes |-> NoFile]
  /\ multiaddr' = NoFile /\ genesis' = NoFile
  /\ UNCHANGED <<ups, kills>>

----------------------------------------------------------------------------
(* The entrypoint *)

\* ensure_secrets: the first of the keys on disk counts as all of them.
EnsureSecrets(n) ==
  /\ pc[n] = "secrets"
  /\ IF key[n] = NoFile THEN key' = [key EXCEPT ![n] = Torn] /\ Goto(n, "secretsInit")
     ELSE UNCHANGED key /\ Goto(n, "publish")
  /\ UNCHANGED <<chain, read, shared, bounds>>

\* New keys differ from those before the volumes were removed.
SecretsInit(n) ==
  /\ pc[n] = "secretsInit"
  /\ key' = [key EXCEPT ![n] = wipes]
  /\ Goto(n, "publish")
  /\ UNCHANGED <<chain, read, shared, bounds>>

\* publish_secrets_output
OpenInfo(n) ==
  /\ pc[n] = "publish"
  /\ info' = [info EXCEPT ![n] = Torn]
  /\ Goto(n, "publishing")
  /\ UNCHANGED <<own, multiaddr, genesis, bounds>>

WriteInfo(n) ==
  /\ pc[n] = "publishing"
  /\ info' = [info EXCEPT ![n] = key[n]]
  /\ Goto(n, IF n = First THEN "build" ELSE "waitGenesis")
  /\ UNCHANGED <<own, multiaddr, genesis, bounds>>

\* MUTANT: the genesis is made at every start.
BuildGenesisAlways(n) ==
  /\ pc[n] = "build"
  /\ Goto(n, "waitInfo")
  /\ UNCHANGED <<own, shared, bounds>>

\* build_genesis_if_node1: two files that exist are taken as they are.
BuildGenesis(n) ==
  /\ pc[n] = "build"
  /\ Goto(n, IF genesis # NoFile /\ multiaddr # NoFile THEN "server" ELSE "waitInfo")
  /\ UNCHANGED <<own, shared, bounds>>

AllInfo(n) == pc[n] = "waitInfo" /\ \A m \in Nodes : info[m] # NoFile

\* MUTANT: fields that are missing are not noticed.
ReadInfoUnchecked(n) ==
  /\ AllInfo(n)
  /\ read' = info
  /\ Goto(n, "writeMultiaddr")
  /\ UNCHANGED <<key, chain, shared, bounds>>

\* A file without one of the three fields ends the start.
ReadInfo(n) ==
  /\ AllInfo(n)
  /\ read' = info
  /\ Goto(n, IF \E m \in Nodes : info[m] = Torn THEN "failed" ELSE "writeMultiaddr")
  /\ UNCHANGED <<key, chain, shared, bounds>>

OpenMultiaddr(n) ==
  /\ pc[n] = "writeMultiaddr"
  /\ multiaddr' = Torn
  /\ Goto(n, "writingMultiaddr")
  /\ UNCHANGED <<own, info, genesis, bounds>>

WriteMultiaddr(n) ==
  /\ pc[n] = "writingMultiaddr"
  /\ multiaddr' = read[First]
  /\ Goto(n, "genesis")
  /\ UNCHANGED <<own, info, genesis, bounds>>

OpenGenesis(n) ==
  /\ pc[n] = "genesis"
  /\ genesis' = Torn
  /\ Goto(n, "writingGenesis")
  /\ UNCHANGED <<own, info, multiaddr, bounds>>

WriteGenesis(n) ==
  /\ pc[n] = "writingGenesis"
  /\ genesis' = read
  /\ Goto(n, "server")
  /\ UNCHANGED <<own, info, multiaddr, bounds>>

\* wait_for_file, of the others: a file that exists is enough.
SeesGenesis(n) ==
  /\ pc[n] = "waitGenesis" /\ genesis # NoFile
  /\ Goto(n, "waitMultiaddr")
  /\ UNCHANGED <<own, shared, bounds>>

SeesMultiaddr(n) ==
  /\ pc[n] = "waitMultiaddr" /\ multiaddr # NoFile
  /\ Goto(n, "server")
  /\ UNCHANGED <<own, shared, bounds>>

\* MUTANT: the loop has no end.
WaitOn(n) ==
  /\ pc[n] \in Waiting
  /\ UNCHANGED composeVars

\* The seconds of a wait are over.
TimedOut(n) ==
  /\ \/ pc[n] = "waitInfo" /\ \E m \in Nodes : info[m] = NoFile
     \/ pc[n] = "waitGenesis" /\ genesis = NoFile
     \/ pc[n] = "waitMultiaddr" /\ multiaddr = NoFile
  /\ Goto(n, "failed")
  /\ UNCHANGED <<own, shared, bounds>>

\* exec polygon-edge: it ends at once on a genesis that is torn, and with
\* blocks of another genesis.
Server(n) ==
  /\ pc[n] = "server"
  /\ IF genesis = Torn \/ chain[n] \notin {NoFile, genesis}
     THEN Goto(n, "failed") /\ UNCHANGED chain
     ELSE Goto(n, "running") /\ chain' = [chain EXCEPT ![n] = genesis]
  /\ UNCHANGED <<key, read, shared, bounds>>

Entrypoint(n) ==
  \/ EnsureSecrets(n) \/ SecretsInit(n) \/ OpenInfo(n) \/ WriteInfo(n)
  \/ BuildGenesis(n) \/ ReadInfo(n) \/ OpenMultiaddr(n) \/ WriteMultiaddr(n) \/ OpenGenesis(n) \/ WriteGenesis(n)
  \/ SeesGenesis(n) \/ SeesMultiaddr(n) \/ TimedOut(n) \/ Server(n)

ComposeNext == ComposeUp \/ DownVolumes \/ \E n \in Nodes : Kill(n) \/ Entrypoint(n)

ComposeSpec == ComposeInit /\ [][ComposeNext]_composeVars

\* A container that is not killed goes on.
ComposeFairSpec == ComposeSpec /\ \A n \in Nodes : WF_composeVars(Entrypoint(n))

----------------------------------------------------------------------------
(* Correctness *)

\* Whoever runs is on the one genesis of the shared volume, and its keys are
\* those of a validator there, also after restarts and after the volumes
\* were removed (entrypoint.sh:73, 92).
RunningAgree ==
  \A n \in Nodes : pc[n] = "running" =>
    genesis \notin {NoFile, Torn} /\ chain[n] = genesis /\ genesis[n] = key[n]

\* A genesis that is complete stays what it is until the volumes are removed,
\* whatever restarts (entrypoint.sh:73).
GenesisStays ==
  [][genesis \notin {NoFile, Torn} /\ wipes' = wipes => genesis' = genesis]_composeVars

\* No start waits for ever, also if those it waits for are dead
\* (entrypoint.sh:36-46).
StartsEnd == \A n \in Nodes : pc[n] = "secrets" ~> pc[n] \in Ended
=============================================================================
