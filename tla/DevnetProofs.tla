---------------------------- MODULE DevnetProofs ----------------------------
(***************************************************************************)
(* The devnet scripts for any number of nodes, process ids and commands,   *)
(* and any faults: no node runs on the data of another chain, fingerprints *)
(* tell the truth, validators are those of their genesis, and what is      *)
(* stopped is stopped.                                                     *)
(***************************************************************************)
EXTENDS Devnet, FiniteSetTheorems, TLAPS

Places == {"idle", "up", "rpc", "had", "secrets", "genesis", "fingerprint", "check", "persist", "node",
           "write", "copy", "wait", "ports", "wipe-data", "wipe-genesis", "end", "down", "stop", "stopped",
           "rm-genesis", "rm-data"}

Keys == Nat \cup {None}

Server == [kind : {"node"}, node : Nodes, genesis : Files, key : Keys, data : Files]

Scripts == [cmd : Commands \cup {"none"}, pc : Places, reset : BOOLEAN, had : BOOLEAN, current : Files \cup {None},
            i : Nodes, pid : Pids \cup {0}, ret : {"exit", "up", "reset", "wipe"}]

TypeOK ==
  /\ genesis \in Files \cup {None}
  /\ key \in [Nodes -> Keys]
  /\ finger \in [Nodes -> Files \cup {None}]
  /\ chain \in [Nodes -> Files \cup {None}]
  /\ pidFile \in [Nodes -> Pids \cup {0}]
  /\ devnetPid \in Pids \cup {0}
  /\ proc \in [Pids -> {Free, Other} \cup Server]
  /\ sh \in Scripts

\* A start with RESET=1 finds no directory in use: it has wiped them, and a
\* reset that goes round by up.sh never reaches the start.
ResetOK ==
  /\ sh.ret = "up" => ~sh.reset
  /\ At("rpc") => ~sh.reset
  /\ At("wipe-genesis") => \A n \in Nodes : ~Initialized(n)
  /\ At("had") /\ sh.reset => \A n \in Nodes : ~Initialized(n)
  /\ sh.pc \in {"secrets", "genesis", "fingerprint"} /\ sh.reset => ~sh.had

\* What a start has done when it comes to a place.
KeysMade ==
  /\ At("secrets") => \A n \in Nodes : n < sh.i => key[n] # None
  /\ sh.pc \in {"genesis", "fingerprint", "check", "persist", "node", "write"} =>
       \A n \in Nodes : key[n] # None

GenesisMade ==
  /\ At("fingerprint") => genesis # None
  /\ sh.pc \in {"check", "persist", "node", "write"} => sh.current = genesis /\ genesis # None

\* The chains of the directories a start has looked at are its own, or not
\* yet begun; where none was in use, there is none to look at.
ChainsSeen ==
  /\ sh.pc \in {"secrets", "genesis", "fingerprint"} /\ ~sh.had =>
       \A n \in Nodes : chain[n] = None /\ finger[n] = None
  /\ At("check") => \A n \in Nodes : n < sh.i => chain[n] \in {None, genesis}
  /\ sh.pc \in {"persist", "node", "write"} => \A n \in Nodes : chain[n] \in {None, genesis}

Printed ==
  /\ At("persist") => \A n \in Nodes : n < sh.i => finger[n] = genesis
  /\ sh.pc \in {"node", "write"} => \A n \in Nodes : finger[n] = genesis

ChainInv == TypeOK /\ ResetOK /\ KeysMade /\ GenesisMade /\ ChainsSeen /\ Printed /\ FingerprintsTrue /\ NodeOnItsChain

\* While data and genesis.json are of one make, the file names the keys that
\* are there, or it is broken, and then keys are there that no start will take
\* it for.
FileOK ==
  /\ genesis # None => \A n \in Nodes : key[n] # None
  /\ genesis \notin {None, Broken} => key = genesis.keys

BrokenUnused ==
  /\ \A n \in Nodes : finger[n] # Broken
  /\ genesis = Broken /\ sh.pc \in {"secrets", "genesis", "fingerprint"} => sh.had
  /\ At("check") /\ sh.i > 1 => genesis # Broken
  /\ sh.pc \in {"persist", "node", "write"} => genesis # Broken

KeyInv ==
  /\ At("rm-data") => genesis = None
  /\ ~parted => FileOK /\ BrokenUnused

\* The stop scripts empty the pid files in their order.
Emptied ==
  /\ At("stop") => \A n \in Nodes : n < sh.i => pidFile[n] = 0
  /\ sh.pc \in {"stopped", "rm-genesis", "rm-data", "ports", "wipe-data"} => \A n \in Nodes : pidFile[n] = 0

\* A pid file names every node that runs and is not lost, but for the one
\* whose pid file is about to be written.
HasPidFile ==
  \A p \in Live \ lost : \/ \E n \in Nodes : pidFile[n] = p /\ (At("write") => n # sh.i)
                         \/ At("write") /\ sh.pid = p

\* A node that runs and is not lost has its chain in its directory.
OnDisk == \A p \in Live \ lost : chain[proc[p].node] = proc[p].genesis

LiveInv == Emptied /\ HasPidFile /\ OnDisk /\ OneChain

DevnetInv == ChainInv /\ KeyInv /\ LiveInv

-----------------------------------------------------------------------------

\* What a finite set is mapped to is finite.
LEMMA ImageFinite ==
  ASSUME NEW S, IsFiniteSet(S), NEW f
  PROVE  IsFiniteSet({f[x] : x \in S})
<1>. DEFINE T == {f[x] : x \in S}
            g == [x \in S |-> f[x]]
<1>1. g \in Surjection(S, T)
  BY DEF Surjection
<1>. QED  BY <1>1, FS_Surjection

LEMMA ServersLive ==
  ASSUME TypeOK
  PROVE  \A p \in Pids : p \in Live <=> proc[p] \in Server
<1>1. \A x \in Server : x.kind = "node"
  BY DEF Server
<1>2. Free.kind = "free" /\ Other.kind = "other"
  BY DEF Free, Other
<1>. QED  BY <1>1, <1>2 DEF TypeOK, Live

\* There always is a new number: finitely many are in use.
LEMMA NewNumber ==
  ASSUME NEW used, IsFiniteSet(used)
  PROVE  \E k \in 1..(Cardinality(used) + 1) : k \notin used
<1>. DEFINE c == Cardinality(used)
<1>1. c \in Nat
  BY FS_CardinalityType
<1>. HIDE DEF c
<1>2. IsFiniteSet(1..(c + 1)) /\ Cardinality(1..(c + 1)) = c + 1
  BY <1>1, FS_Interval
<1>3. ASSUME 1..(c + 1) \subseteq used PROVE FALSE
  <2>1. Cardinality(1..(c + 1)) <= c
    BY <1>3, FS_Subset DEF c
  <2>. QED  BY <1>1, <1>2, <2>1
<1>4. \E k \in 1..(c + 1) : k \notin used
  BY <1>3
<1>. QED  BY <1>4 DEF c

\* There always is a new key: the files and the processes name finitely many.
LEMMA NewKeyIsKey ==
  ASSUME TypeOK
  PROVE  NewKey \in Nat
<1>1. IsFiniteSet(Nodes) /\ IsFiniteSet(Live)
  <2>1. IsFiniteSet(Nodes)
    <3>1. 1 \in Int /\ N \in Int
      BY DevnetAssumption
    <3>2. IsFiniteSet(1..N)
      BY <3>1, FS_Interval
    <3>. QED  BY <3>2 DEF Nodes
  <2>2. IsFiniteSet(Live)
    <3>1. IsFiniteSet(Pids) /\ Live \in SUBSET Pids
      BY DevnetAssumption DEF Live
    <3>. QED  BY <3>1, FS_Subset
  <2>. QED  BY <2>1, <2>2
<1>. DEFINE X == {key[n] : n \in Nodes}
            Y == {proc[p].key : p \in Live}
            F == {finger[n] : n \in Nodes}
            C == {chain[n] : n \in Nodes}
            L == {proc[p].genesis : p \in Live}
<1>2. IsFiniteSet(X) /\ IsFiniteSet(F) /\ IsFiniteSet(C)
  BY <1>1, ImageFinite
<1>3. IsFiniteSet(L) /\ IsFiniteSet(Y)
  <2>. DEFINE f == [p \in Live |-> proc[p].genesis]
              h == [p \in Live |-> proc[p].key]
  <2>1. {f[p] : p \in Live} = L /\ {h[p] : p \in Live} = Y
    OBVIOUS
  <2>. HIDE DEF f, h, L, Y
  <2>2. IsFiniteSet({f[p] : p \in Live}) /\ IsFiniteSet({h[p] : p \in Live})
    BY <1>1, ImageFinite
  <2>. QED  BY <2>1, <2>2
<1>. HIDE DEF X, Y, F, C, L
<1>. DEFINE known == {genesis, sh.current} \cup F \cup C \cup L
<1>4. IsFiniteSet(known \ {None})
  <2>1. IsFiniteSet({genesis, sh.current})
    <3>1. IsFiniteSet({genesis}) /\ IsFiniteSet({sh.current})
      BY FS_Singleton
    <3>2. IsFiniteSet({genesis} \cup {sh.current})
      BY <3>1, FS_Union
    <3>3. {genesis} \cup {sh.current} = {genesis, sh.current}
      OBVIOUS
    <3>. QED  BY <3>2, <3>3
  <2>2. IsFiniteSet({genesis, sh.current} \cup F)
    BY <1>2, <2>1, FS_Union
  <2>3. IsFiniteSet({genesis, sh.current} \cup F \cup C)
    BY <1>2, <2>2, FS_Union
  <2>4. IsFiniteSet(known)
    BY <1>3, <2>3, FS_Union
  <2>. QED  BY <2>4, FS_Difference
<1>. HIDE DEF known
<1>. DEFINE A == {{g.keys[n] : n \in Nodes} : g \in known \ {None}}
<1>5. IsFiniteSet(A)
  <2>. DEFINE f == [g \in known \ {None} |-> {g.keys[n] : n \in Nodes}]
  <2>1. {f[g] : g \in known \ {None}} = A
    BY Zenon
  <2>. HIDE DEF f, A
  <2>2. IsFiniteSet({f[g] : g \in known \ {None}})
    BY <1>4, ImageFinite
  <2>. QED  BY <2>1, <2>2
<1>6. \A T \in A : IsFiniteSet(T)
  <2>1. \A g : IsFiniteSet({g.keys[n] : n \in Nodes})
    BY <1>1, ImageFinite, Zenon
  <2>. QED  BY <2>1, Zenon
<1>. HIDE DEF A
<1>. DEFINE used == UNION (A \cup {X, Y})
<1>7. IsFiniteSet(used)
  <2>1. IsFiniteSet({X}) /\ IsFiniteSet({Y})
    BY FS_Singleton
  <2>2. IsFiniteSet({X} \cup {Y})
    BY <2>1, FS_Union
  <2>3. {X} \cup {Y} = {X, Y}
    OBVIOUS
  <2>4. IsFiniteSet(A \cup {X, Y})
    BY <1>5, <2>2, <2>3, FS_Union
  <2>5. \A T \in A \cup {X, Y} : IsFiniteSet(T)
    BY <1>2, <1>3, <1>6
  <2>. HIDE DEF known
  <2>. QED  BY <2>4, <2>5, FS_UNION
<1>8. NewKey = CHOOSE k \in 1..(Cardinality(used) + 1) : k \notin used
  BY Zenon DEF NewKey, A, X, Y, F, C, L, known
<1>. HIDE DEF used
<1>9. \E k \in 1..(Cardinality(used) + 1) : k \notin used
  BY <1>7, NewNumber
<1>10. NewKey \in 1..(Cardinality(used) + 1)
  BY <1>8, <1>9, Zenon
<1>11. Cardinality(used) \in Nat
  BY <1>7, FS_CardinalityType
<1>. QED  BY <1>10, <1>11

-----------------------------------------------------------------------------

\* The shapes of what the running script may become.
LEMMA ScriptShapes ==
  ASSUME TypeOK
  PROVE  /\ Idle \in Scripts
         /\ \A pc \in Places : Goto(pc) \/ NextNode(pc) => sh' \in Scripts
         /\ Exit => sh' \in Scripts
<1>1. Idle \in Scripts
  BY DevnetAssumption DEF Idle, Scripts, Places, Nodes
<1>2. sh \in Scripts /\ 1 \in Nodes /\ N \in Nat /\ \A j \in Nodes : j \in Nat /\ (j < N => j + 1 \in Nodes)
  BY DevnetAssumption DEF TypeOK, Nodes
<1>3. ASSUME NEW pc \in Places, NEW j \in Nodes PROVE [sh EXCEPT !.pc = pc, !.i = j] \in Scripts
  BY <1>2 DEF Scripts
<1>4. ASSUME NEW pc \in Places, Goto(pc) PROVE sh' \in Scripts
  BY <1>2, <1>3, <1>4 DEF Goto
<1>5. ASSUME NEW pc \in Places, NextNode(pc) PROVE sh' \in Scripts
  <2>1. CASE sh.i < N
    <3>1. sh.i + 1 \in Nodes
      BY <1>2, <2>1 DEF Scripts
    <3>2. [sh EXCEPT !.i = sh.i + 1] \in Scripts
      BY <1>2, <3>1 DEF Scripts
    <3>. QED  BY <1>5, <2>1, <3>2 DEF NextNode
  <2>2. CASE ~(sh.i < N)
    BY <1>2, <1>3, <1>5, <2>2 DEF NextNode
  <2>. QED  BY <2>1, <2>2
<1>. QED  BY <1>1, <1>4, <1>5 DEF Exit

LEMMA WipeType ==
  ASSUME WipeData
  PROVE  /\ key' \in [Nodes -> Keys] /\ finger' \in [Nodes -> Files \cup {None}]
         /\ chain' \in [Nodes -> Files \cup {None}] /\ pidFile' \in [Nodes -> Pids \cup {0}]
BY DEF WipeData, Keys

\* A removal that is interrupted leaves each thing as it is, or takes it.
LEMMA PartGone ==
  ASSUME TypeOK, WipePart
  PROVE  /\ key' \in [Nodes -> Keys] /\ finger' \in [Nodes -> Files \cup {None}]
         /\ chain' \in [Nodes -> Files \cup {None}] /\ pidFile' \in [Nodes -> Pids \cup {0}]
         /\ \A n \in Nodes : finger'[n] \in {finger[n], None} /\ chain'[n] \in {chain[n], None}
         /\ parted' = (parted \/ genesis # None)
<1>1. PICK k, f, c, p \in SUBSET Nodes :
        /\ key' = [m \in Nodes |-> IF m \in k THEN key[m] ELSE None]
        /\ finger' = [m \in Nodes |-> IF m \in f THEN finger[m] ELSE None]
        /\ chain' = [m \in Nodes |-> IF m \in c THEN chain[m] ELSE None]
        /\ pidFile' = [m \in Nodes |-> IF m \in p THEN pidFile[m] ELSE 0]
        /\ parted' = (parted \/ genesis # None)
  <2>1. PICK whole \in SUBSET Nodes, n \in Nodes : \E k, f, c, p \in {whole, whole \cup {n}} :
          /\ key' = [m \in Nodes |-> IF m \in k THEN key[m] ELSE None]
          /\ finger' = [m \in Nodes |-> IF m \in f THEN finger[m] ELSE None]
          /\ chain' = [m \in Nodes |-> IF m \in c THEN chain[m] ELSE None]
          /\ pidFile' = [m \in Nodes |-> IF m \in p THEN pidFile[m] ELSE 0]
          /\ parted' = (parted \/ genesis # None)
    BY DEF WipePart
  <2>. DEFINE W == {whole, whole \cup {n}}
  <2>2. \A T \in W : T \in SUBSET Nodes
    OBVIOUS
  <2>3. PICK k, f, c, p \in W :
          /\ key' = [m \in Nodes |-> IF m \in k THEN key[m] ELSE None]
          /\ finger' = [m \in Nodes |-> IF m \in f THEN finger[m] ELSE None]
          /\ chain' = [m \in Nodes |-> IF m \in c THEN chain[m] ELSE None]
          /\ pidFile' = [m \in Nodes |-> IF m \in p THEN pidFile[m] ELSE 0]
          /\ parted' = (parted \/ genesis # None)
    BY <2>1
  <2>. HIDE DEF W
  <2>4. k \in SUBSET Nodes /\ f \in SUBSET Nodes /\ c \in SUBSET Nodes /\ p \in SUBSET Nodes
    BY <2>2
  <2>. QED  BY <2>3, <2>4, Zenon
<1>. QED  BY <1>1 DEF TypeOK, Keys

LEMMA InitType ==
  Init => TypeOK
<1>. SUFFICES ASSUME Init PROVE TypeOK
  OBVIOUS
<1>1. Idle \in Scripts
  BY DevnetAssumption DEF Idle, Scripts, Places, Nodes
<1>2. genesis \in Files \cup {None} /\ key \in [Nodes -> Keys] /\ chain \in [Nodes -> Files \cup {None}]
  <2>1. CASE genesis = None /\ key = [n \in Nodes |-> None] /\ chain = [n \in Nodes |-> None]
    BY <2>1 DEF Keys
  <2>2. ASSUME NEW p \in Params, NEW old, old = [params |-> p, keys |-> [n \in Nodes |-> n]],
               genesis \in {None, old}, key = old.keys, chain = [n \in Nodes |-> old]
        PROVE  genesis \in Files \cup {None} /\ key \in [Nodes -> Keys] /\ chain \in [Nodes -> Files \cup {None}]
    <3>1. [n \in Nodes |-> n] \in [Nodes -> Keys]
      BY DevnetAssumption DEF Nodes, Keys
    <3>2. old \in Files
      BY <2>2, <3>1 DEF Files, Keys
    <3>. QED  BY <2>2, <3>1, <3>2
  <2>. QED  BY <2>1, <2>2, ZenonT(60) DEF Init
<1>3. /\ finger \in [Nodes -> Files \cup {None}] /\ pidFile \in [Nodes -> Pids \cup {0}]
      /\ devnetPid \in Pids \cup {0} /\ proc \in [Pids -> {Free, Other} \cup Server]
  BY DEF Init
<1>. QED  BY <1>1, <1>2, <1>3 DEF Init, TypeOK

LEMMA UserType ==
  ASSUME TypeOK, Begin \/ Clean \/ CleanData \/ Interrupt
  PROVE  TypeOK'
<1>. USE DEF disk, pids
<1>1. CASE Begin
  <2>2. sh' \in Scripts
    <3>1. PICK cmd \in Commands \ {"clean", "clean-data"} :
            sh' = [Idle EXCEPT !.cmd = cmd, !.reset = cmd \in {"up-RESET=1", "start-RESET=1"},
                          !.pc = CASE cmd \in {"up", "up-RESET=1"} -> "up"
                                   [] cmd = "start-RESET=1" -> "stop"
                                   [] cmd \in {"reset", "down"} -> "down",
                          !.ret = CASE cmd = "reset" -> "reset"
                                    [] cmd = "start-RESET=1" -> "wipe"
                                    [] OTHER -> "exit"]
      BY <1>1 DEF Begin
    <3>2. cmd \in {"up", "up-RESET=1", "start-RESET=1", "reset", "down"}
      BY DevnetAssumption
    <3>3. (CASE cmd \in {"up", "up-RESET=1"} -> "up"
             [] cmd = "start-RESET=1" -> "stop"
             [] cmd \in {"reset", "down"} -> "down") \in Places
      BY <3>2 DEF Places
    <3>4. (CASE cmd = "reset" -> "reset"
             [] cmd = "start-RESET=1" -> "wipe"
             [] OTHER -> "exit") \in {"exit", "up", "reset", "wipe"}
      OBVIOUS
    <3>5. Idle \in Scripts
      BY ScriptShapes
    <3>6. (cmd \in {"up-RESET=1", "start-RESET=1"}) \in BOOLEAN
      OBVIOUS
    <3>. HIDE DEF Idle
    <3>. QED  BY <3>1, <3>3, <3>4, <3>5, <3>6 DEF Scripts
  <2>. QED  BY <1>1, <2>2 DEF Begin, TypeOK
<1>2. CASE Clean
  BY <1>2 DEF Clean, TypeOK
<1>3. CASE CleanData
  BY <1>3, WipeType, PartGone DEF CleanData, TypeOK
<1>4. CASE Interrupt
  BY <1>4, ScriptShapes, PartGone DEF Interrupt, TypeOK
<1>. QED  BY <1>1, <1>2, <1>3, <1>4

LEMMA UpType ==
  ASSUME TypeOK, Up
  PROVE  TypeOK'
<1>. USE DEF disk, pids
<1>. HIDE DEF Goto, Exit
<1>0. Copied \in Pids \cup {0}
  BY DevnetAssumption DEF Copied, TypeOK, Nodes
<1>1. CASE UpReset
  BY <1>1 DEF UpReset, TypeOK, Scripts, Places
<1>2. CASE UpPid
  <2>1. sh' \in Scripts
    <3>1. CASE Exit \/ Goto("rpc")
      BY <3>1, ScriptShapes DEF Places
    <3>2. CASE sh' = [sh EXCEPT !.pc = "down", !.ret = "up"]
      BY <3>2 DEF TypeOK, Scripts, Places
    <3>. QED  BY <1>2, <3>1, <3>2 DEF UpPid
  <2>. QED  BY <1>2, <2>1 DEF UpPid, TypeOK
<1>3. CASE UpRpc
  BY <1>0, <1>3, ScriptShapes DEF UpRpc, TypeOK, Places
<1>4. CASE UpCopy
  BY <1>0, <1>4, ScriptShapes DEF UpCopy, TypeOK, Places
<1>5. CASE UpWait
  BY <1>5, ScriptShapes DEF UpWait, TypeOK
<1>. QED  BY <1>1, <1>2, <1>3, <1>4, <1>5 DEF Up

LEMMA DownType ==
  ASSUME TypeOK, Down
  PROVE  TypeOK'
<1>. USE DEF disk, pids
<1>1. CASE DownKill
  BY <1>1, ScriptShapes DEF DownKill, TypeOK, Places
<1>2. CASE StopNode
  <2>1. sh' \in Scripts
    BY <1>2, ScriptShapes DEF StopNode, AfterStop, Places
  <2>2. proc' \in [Pids -> {Free, Other} \cup Server]
    BY <1>2 DEF StopNode, TypeOK
  <2>3. pidFile' \in [Nodes -> Pids \cup {0}]
    BY <1>2 DEF StopNode, TypeOK
  <2>. QED  BY <1>2, <2>1, <2>2, <2>3 DEF StopNode, TypeOK
<1>3. CASE DownEnd
  <2>1. sh' \in Scripts
    BY <1>3, ScriptShapes DEF DownEnd, Places
  <2>. QED  BY <1>3, <2>1 DEF DownEnd, TypeOK
<1>4. CASE RmGenesis
  BY <1>4, ScriptShapes DEF RmGenesis, TypeOK, Places
<1>5. CASE RmData
  BY <1>5, ScriptShapes, WipeType DEF RmData, TypeOK, Places
<1>. QED  BY <1>1, <1>2, <1>3, <1>4, <1>5 DEF Down

LEMMA StartType ==
  ASSUME TypeOK, Start, At("node") => genesis # None
  PROVE  TypeOK'
<1>. USE DEF disk, pids
<1>. HIDE DEF Goto, Exit, NextNode
<1>0. 1 \in Nodes /\ sh \in Scripts /\ sh.i \in Nodes /\ AfterNodes \in Places
  BY DevnetAssumption DEF Nodes, TypeOK, Scripts, AfterNodes, Places
<1>1. CASE KillListeners \/ WipeNet \/ RmArtifacts
  <2>1. proc' \in [Pids -> {Free, Other} \cup Server]
    BY <1>1 DEF KillListeners, WipeNet, RmArtifacts, TypeOK
  <2>2. sh' \in Scripts
    BY <1>1, ScriptShapes DEF KillListeners, WipeNet, RmArtifacts, Places
  <2>. QED  BY <1>1, <2>1, <2>2, WipeType DEF KillListeners, WipeNet, RmArtifacts, TypeOK
<1>2. CASE HasInitialized
  <2>1. (\E n \in Nodes : Initialized(n)) \in BOOLEAN
    OBVIOUS
  <2>2. sh' \in Scripts
    BY <1>0, <1>2, <2>1, ZenonT(60) DEF HasInitialized, Scripts, Places
  <2>. QED  BY <1>2, <2>2 DEF HasInitialized, TypeOK
<1>3. CASE InitSecrets
  BY <1>3, NewKeyIsKey, ScriptShapes DEF InitSecrets, TypeOK, Places, Keys
<1>4. CASE BuildGenesis
  <2>1. Broken \in Files
    BY DEF Broken, Files
  <2>2. genesis' \in Files \cup {None}
    BY <1>4, <2>1 DEF BuildGenesis, TypeOK, Files, Keys
  <2>3. sh' \in Scripts
    BY <1>4, ScriptShapes DEF BuildGenesis, Places
  <2>. QED  BY <1>4, <2>2, <2>3 DEF BuildGenesis, TypeOK
<1>5. CASE Fingerprint
  <2>1. sh' \in Scripts
    BY <1>0, <1>5, ZenonT(60) DEF Fingerprint, TypeOK, Scripts, Places
  <2>. QED  BY <1>5, <2>1 DEF Fingerprint, TypeOK
<1>6. CASE CheckPasses \/ PersistFingerprint
  <2>1. sh.current \in Files \cup {None}
    BY DEF TypeOK, Scripts
  <2>2. sh' \in Scripts
    BY <1>6, ScriptShapes DEF CheckPasses, PersistFingerprint, Places
  <2>. QED  BY <1>6, <2>1, <2>2 DEF CheckPasses, PersistFingerprint, TypeOK
<1>7. CASE CheckFails \/ StartEnd
  BY <1>7, ScriptShapes DEF CheckFails, StartEnd, TypeOK
<1>8. CASE StartNode
  <2>0. genesis # None
    BY <1>8 DEF StartNode
  <2>1. genesis \in Files /\ key[sh.i] \in Keys /\ (IF chain[sh.i] = None THEN genesis ELSE chain[sh.i]) \in Files
    BY <1>0, <1>8, <2>0 DEF TypeOK
  <2>2. proc' \in [Pids -> {Free, Other} \cup Server]
    <3>. DEFINE server == [kind |-> "node", node |-> sh.i, genesis |-> genesis, key |-> key[sh.i],
                           data |-> IF chain[sh.i] = None THEN genesis ELSE chain[sh.i]]
    <3>1. server \in Server
      BY <1>0, <2>1 DEF Server
    <3>. HIDE DEF server
    <3>2. proc' = proc \/ \E p \in Pids : proc' = [proc EXCEPT ![p] = server]
      BY <1>8 DEF StartNode, server
    <3>. QED  BY <3>1, <3>2 DEF TypeOK
  <2>3. chain' \in [Nodes -> Files \cup {None}]
    BY <1>8 DEF StartNode, TypeOK
  <2>4. sh' \in Scripts
    <3>1. CASE NextNode(AfterNodes) \/ Exit
      BY <1>0, <3>1, ScriptShapes
    <3>2. CASE \E p \in Pids : sh' = [sh EXCEPT !.pc = "write", !.pid = p]
      BY <1>0, <3>2 DEF Scripts, Places
    <3>. QED  BY <1>8, <3>1, <3>2 DEF StartNode
  <2>. QED  BY <1>8, <2>2, <2>3, <2>4 DEF StartNode, TypeOK
<1>9. CASE WritePid
  <2>1. sh.pid \in Pids \cup {0} /\ (sh.i < N => sh.i + 1 \in Nodes)
    BY <1>0, DevnetAssumption DEF Scripts, Nodes
  <2>2. sh' \in Scripts
    <3>1. sh.i < N => [sh EXCEPT !.pc = "node", !.i = sh.i + 1, !.pid = 0] \in Scripts
      BY <1>0, <2>1 DEF Scripts, Places
    <3>2. [sh EXCEPT !.pc = AfterNodes, !.i = 1, !.pid = 0] \in Scripts
      BY <1>0 DEF Scripts
    <3>. QED  BY <1>9, <3>1, <3>2 DEF WritePid
  <2>. QED  BY <1>9, <2>1, <2>2 DEF WritePid, TypeOK
<1>. QED  BY <1>1, <1>2, <1>3, <1>4, <1>5, <1>6, <1>7, <1>8, <1>9 DEF Start

LEMMA MachineType ==
  ASSUME TypeOK, NEW p \in Pids, Dies(p) \/ Reused(p)
  PROVE  TypeOK'
BY DEF Dies, Reused, TypeOK, disk, pids

-----------------------------------------------------------------------------

\* Where the script goes, and that it takes its settings along.
LEMMA Moves ==
  ASSUME TypeOK
  PROVE  /\ \A pc : Goto(pc) =>
              /\ sh'.pc = pc /\ sh'.i = 1
              /\ sh'.reset = sh.reset /\ sh'.had = sh.had /\ sh'.current = sh.current
              /\ sh'.pid = sh.pid /\ sh'.ret = sh.ret
         /\ \A pc : NextNode(pc) =>
              /\ \/ sh.i < N /\ sh'.pc = sh.pc /\ sh'.i = sh.i + 1
                 \/ sh.i = N /\ sh'.pc = pc /\ sh'.i = 1
              /\ sh'.reset = sh.reset /\ sh'.had = sh.had /\ sh'.current = sh.current
              /\ sh'.pid = sh.pid /\ sh'.ret = sh.ret
         /\ Exit => sh'.pc = "idle" /\ ~sh'.reset /\ sh'.ret = "exit" /\ sh'.i = 1
<1>1. sh \in Scripts /\ sh.i \in Nat /\ N \in Nat /\ sh.i <= N
  BY DevnetAssumption DEF TypeOK, Scripts, Nodes
<1>2. ASSUME NEW pc, Goto(pc)
      PROVE  /\ sh'.pc = pc /\ sh'.i = 1
             /\ sh'.reset = sh.reset /\ sh'.had = sh.had /\ sh'.current = sh.current
             /\ sh'.pid = sh.pid /\ sh'.ret = sh.ret
  BY <1>1, <1>2 DEF Goto, Scripts
<1>3. ASSUME NEW pc, NextNode(pc)
      PROVE  /\ \/ sh.i < N /\ sh'.pc = sh.pc /\ sh'.i = sh.i + 1
                \/ sh.i = N /\ sh'.pc = pc /\ sh'.i = 1
             /\ sh'.reset = sh.reset /\ sh'.had = sh.had /\ sh'.current = sh.current
             /\ sh'.pid = sh.pid /\ sh'.ret = sh.ret
  <2>1. CASE sh.i < N
    BY <1>1, <1>3, <2>1 DEF NextNode, Scripts
  <2>2. CASE ~(sh.i < N)
    BY <1>1, <1>3, <2>2 DEF NextNode, Scripts
  <2>. QED  BY <2>1, <2>2
<1>4. Exit => sh'.pc = "idle" /\ ~sh'.reset /\ sh'.ret = "exit" /\ sh'.i = 1
  BY DEF Exit, Idle
<1>. QED  BY <1>2, <1>3, <1>4

\* No server starts: those that run, ran before.
Fewer == \A p \in Pids : proc'[p] = proc[p] \/ proc'[p] \in {Free, Other}

LEMMA FewerLive ==
  ASSUME Fewer
  PROVE  \A p \in Live' : p \in Live /\ proc'[p] = proc[p]
BY DEF Fewer, Live, Free, Other

\* Places where a start has nothing to answer for.
Elsewhere == {"idle", "up", "copy", "wait", "ports", "wipe-data", "end", "down", "stop", "stopped", "rm-genesis", "rm-data"}

LEMMA ChainElsewhere ==
  ASSUME ChainInv, TypeOK', sh'.pc \in Elsewhere, sh'.ret = "up" => ~sh'.reset, Fewer, FingerprintsTrue'
  PROVE  ChainInv'
<1>1. NodeOnItsChain'
  BY FewerLive DEF ChainInv, NodeOnItsChain
<1>2. (ResetOK /\ KeysMade /\ GenesisMade /\ ChainsSeen /\ Printed)'
  BY DEF ResetOK, KeysMade, GenesisMade, ChainsSeen, Printed, Elsewhere, At
<1>. QED  BY <1>1, <1>2 DEF ChainInv

LEMMA BeginsAt ==
  ASSUME Begin
  PROVE  sh'.pc \in {"up", "stop", "down"} /\ sh'.ret \in {"exit", "reset", "wipe"} /\ sh'.i = 1
<1>1. PICK cmd \in Commands \ {"clean", "clean-data"} :
        sh' = [Idle EXCEPT !.cmd = cmd, !.reset = cmd \in {"up-RESET=1", "start-RESET=1"},
                           !.pc = CASE cmd \in {"up", "up-RESET=1"} -> "up"
                                    [] cmd = "start-RESET=1" -> "stop"
                                    [] cmd \in {"reset", "down"} -> "down",
                           !.ret = CASE cmd = "reset" -> "reset"
                                     [] cmd = "start-RESET=1" -> "wipe"
                                     [] OTHER -> "exit"]
  BY DEF Begin
<1>2. cmd \in {"up", "up-RESET=1", "start-RESET=1", "reset", "down"}
  BY DevnetAssumption
<1>3. /\ sh'.ret = (CASE cmd = "reset" -> "reset"
                      [] cmd = "start-RESET=1" -> "wipe"
                      [] OTHER -> "exit")
      /\ sh'.pc = (CASE cmd \in {"up", "up-RESET=1"} -> "up"
                     [] cmd = "start-RESET=1" -> "stop"
                     [] cmd \in {"reset", "down"} -> "down")
      /\ sh'.i = 1
  BY <1>1 DEF Idle
<1>4. sh'.pc \in {"up", "stop", "down"}
  BY <1>2, <1>3
<1>. QED  BY <1>3, <1>4

LEMMA UserChain ==
  ASSUME ChainInv, Begin \/ Clean \/ CleanData \/ Interrupt
  PROVE  ChainInv'
<1>. USE DEF disk, pids
<1>1. TypeOK /\ TypeOK'
  BY UserType DEF ChainInv
<1>2. Fewer
  BY DEF Begin, Clean, CleanData, Interrupt, Fewer
<1>3. FingerprintsTrue'
  <2>1. CASE WipeData
    BY <2>1 DEF WipeData, FingerprintsTrue
  <2>2. CASE WipePart
    BY <1>1, <2>2, PartGone DEF ChainInv, FingerprintsTrue
  <2>3. CASE UNCHANGED <<finger, chain>>
    BY <2>3 DEF ChainInv, FingerprintsTrue
  <2>. QED  BY <2>1, <2>2, <2>3 DEF Begin, Clean, CleanData, Interrupt
<1>4. sh'.pc \in Elsewhere /\ (sh'.ret = "up" => ~sh'.reset)
  <2>1. CASE Begin
    BY <2>1, BeginsAt DEF Elsewhere
  <2>2. CASE Clean \/ CleanData
    BY <2>2 DEF Clean, CleanData, Given, At, Elsewhere, ChainInv, ResetOK
  <2>3. CASE Interrupt
    BY <1>1, <2>3, Moves DEF Interrupt, Elsewhere
  <2>. QED  BY <2>1, <2>2, <2>3
<1>. QED  BY <1>1, <1>2, <1>3, <1>4, ChainElsewhere

LEMMA UpChain ==
  ASSUME ChainInv, Up
  PROVE  ChainInv'
<1>. USE DEF disk, pids
<1>1. TypeOK /\ TypeOK'
  BY UpType DEF ChainInv
<1>2. Fewer /\ UNCHANGED disk
  BY DEF Up, UpReset, UpPid, UpRpc, UpCopy, UpWait, Fewer
<1>3. FingerprintsTrue'
  BY <1>2 DEF ChainInv, FingerprintsTrue
<1>4. CASE sh'.pc \in Elsewhere /\ (sh'.ret = "up" => ~sh'.reset)
  BY <1>1, <1>2, <1>3, <1>4, ChainElsewhere
<1>5. CASE UpReset
  <2>1. sh'.pc = "down" /\ sh'.ret = "reset"
    BY <1>1, <1>5 DEF UpReset, TypeOK, Scripts
  <2>. QED  BY <2>1, <1>4 DEF Elsewhere
<1>6. CASE UpPid
  <2>1. ~sh.reset
    BY <1>6 DEF UpPid, WantsReset
  <2>2. CASE Exit
    BY <1>1, <1>4, <2>2, Moves DEF Elsewhere
  <2>3. CASE sh' = [sh EXCEPT !.pc = "down", !.ret = "up"]
    <3>1. sh'.pc = "down" /\ ~sh'.reset
      BY <1>1, <2>1, <2>3 DEF TypeOK, Scripts
    <3>. QED  BY <3>1, <1>4 DEF Elsewhere
  <2>4. CASE Goto("rpc")
    <3>1. sh'.pc = "rpc" /\ ~sh'.reset
      BY <1>1, <2>1, <2>4, Moves
    <3>2. NodeOnItsChain'
      BY <1>2, FewerLive DEF ChainInv, NodeOnItsChain
    <3>. QED  BY <1>1, <1>3, <3>1, <3>2 DEF ChainInv, ResetOK, KeysMade, GenesisMade, ChainsSeen, Printed, At
  <2>. QED  BY <1>6, <2>2, <2>3, <2>4 DEF UpPid
<1>7. CASE UpRpc
  <2>1. ~sh.reset
    BY <1>7 DEF UpRpc, ChainInv, ResetOK
  <2>2. CASE Exit
    BY <1>1, <1>4, <2>2, Moves DEF Elsewhere
  <2>3. CASE Goto("had")
    <3>1. sh'.pc = "had" /\ ~sh'.reset
      BY <1>1, <2>1, <2>3, Moves
    <3>2. NodeOnItsChain'
      BY <1>2, FewerLive DEF ChainInv, NodeOnItsChain
    <3>. QED  BY <1>1, <1>3, <3>1, <3>2 DEF ChainInv, ResetOK, KeysMade, GenesisMade, ChainsSeen, Printed, At
  <2>. QED  BY <1>7, <2>2, <2>3 DEF UpRpc
<1>8. CASE UpCopy \/ UpWait
  <2>1. sh'.pc \in Elsewhere
    BY <1>1, <1>8, Moves DEF UpCopy, UpWait, Elsewhere
  <2>2. sh'.ret = "up" => ~sh'.reset
    BY <1>1, <1>8, Moves DEF UpCopy, UpWait, ChainInv, ResetOK
  <2>. QED  BY <1>4, <2>1, <2>2
<1>. QED  BY <1>5, <1>6, <1>7, <1>8 DEF Up

LEMMA DownChain ==
  ASSUME ChainInv, Down
  PROVE  ChainInv'
<1>. USE DEF disk, pids
<1>1. TypeOK /\ TypeOK'
  BY DownType DEF ChainInv
<1>2. Fewer
  BY <1>1 DEF Down, DownKill, StopNode, DownEnd, RmGenesis, RmData, Fewer, TypeOK
<1>3. FingerprintsTrue'
  <2>1. CASE RmData
    BY <2>1 DEF RmData, WipeData, FingerprintsTrue
  <2>2. CASE DownKill \/ StopNode \/ DownEnd \/ RmGenesis
    BY <2>2 DEF DownKill, StopNode, DownEnd, RmGenesis, ChainInv, FingerprintsTrue
  <2>. QED  BY <2>1, <2>2 DEF Down
<1>4. sh.ret = "up" => ~sh.reset
  BY DEF ChainInv, ResetOK
<1>5. CASE sh'.pc \in Elsewhere /\ (sh'.ret = "up" => ~sh'.reset)
  BY <1>1, <1>2, <1>3, <1>5, ChainElsewhere
<1>6. CASE DownKill
  BY <1>1, <1>4, <1>5, <1>6, Moves DEF DownKill, Elsewhere
<1>7. CASE StopNode
  <2>1. sh.pc = "stop" /\ NextNode(AfterStop) /\ AfterStop \in {"ports", "stopped"}
    BY <1>7 DEF StopNode, AfterStop, At
  <2>. QED  BY <1>1, <1>4, <1>5, <2>1, Moves DEF Elsewhere
<1>8. CASE DownEnd
  <2>1. CASE sh.ret = "up"
    <3>1. sh'.pc = "rpc" /\ ~sh'.reset
      BY <1>1, <1>4, <1>8, <2>1, Moves DEF DownEnd
    <3>2. NodeOnItsChain'
      BY <1>2, FewerLive DEF ChainInv, NodeOnItsChain
    <3>. QED  BY <1>1, <1>3, <3>1, <3>2 DEF ChainInv, ResetOK, KeysMade, GenesisMade, ChainsSeen, Printed, At
  <2>2. CASE sh.ret = "exit"
    BY <1>1, <1>5, <1>8, <2>2, Moves DEF DownEnd, Elsewhere
  <2>3. CASE sh.ret = "reset"
    BY <1>1, <1>5, <1>8, <2>3, Moves DEF DownEnd, Elsewhere
  <2>. QED  BY <1>8, <2>1, <2>2, <2>3 DEF DownEnd
<1>9. CASE RmGenesis
  BY <1>1, <1>4, <1>5, <1>9, Moves DEF RmGenesis, Elsewhere
<1>10. CASE RmData
  BY <1>1, <1>4, <1>5, <1>10, Moves DEF RmData, Elsewhere
<1>. QED  BY <1>6, <1>7, <1>8, <1>9, <1>10 DEF Down

LEMMA MachineChain ==
  ASSUME ChainInv, NEW p \in Pids, Dies(p) \/ Reused(p)
  PROVE  ChainInv'
<1>1. TypeOK'
  BY MachineType DEF ChainInv
<1>2. UNCHANGED <<disk, sh>> /\ Fewer
  BY DEF Dies, Reused, Fewer, ChainInv, TypeOK
<1>3. NodeOnItsChain'
  BY <1>2, FewerLive DEF ChainInv, NodeOnItsChain
<1>. QED  BY <1>1, <1>2, <1>3 DEF ChainInv, ResetOK, KeysMade, GenesisMade, ChainsSeen, Printed, FingerprintsTrue, At, Initialized, disk

\* The way through the start script, step by step.
LEMMA StartChain ==
  ASSUME ChainInv, Start
  PROVE  ChainInv'
<1>. USE DEF disk, pids
<1>0. At("node") => genesis # None
  BY DEF ChainInv, GenesisMade, At
<1>1. TypeOK /\ TypeOK' /\ sh.i \in Nodes /\ N \in Nat /\ \A n \in Nodes : n \in Nat /\ 1 <= n /\ n <= N
  BY <1>0, StartType, DevnetAssumption DEF ChainInv, TypeOK, Scripts, Nodes
<1>2. CASE KillListeners \/ WipeNet \/ RmArtifacts
  <2>1. sh'.ret = sh.ret /\ sh'.reset = sh.reset /\ (sh.ret = "up" => ~sh.reset)
    BY <1>1, <1>2, Moves DEF KillListeners, WipeNet, RmArtifacts, ChainInv, ResetOK
  <2>2. Fewer
    BY <1>1, <1>2 DEF KillListeners, WipeNet, RmArtifacts, Fewer, TypeOK
  <2>3. NodeOnItsChain'
    BY <2>2, FewerLive DEF ChainInv, NodeOnItsChain
  <2>4. CASE KillListeners
    <3>1. sh'.pc = "wipe-data" /\ FingerprintsTrue'
      BY <1>1, <2>4, Moves DEF KillListeners, ChainInv, FingerprintsTrue
    <3>. QED  BY <1>1, <2>1, <2>2, <3>1, ChainElsewhere DEF Elsewhere
  <2>5. CASE WipeNet
    <3>1. sh'.pc = "wipe-genesis" /\ \A n \in Nodes : key'[n] = None /\ finger'[n] = None /\ chain'[n] = None
      BY <1>1, <2>5, Moves DEF WipeNet, WipeData
    <3>. QED  BY <1>1, <2>1, <2>3, <3>1
           DEF ChainInv, ResetOK, KeysMade, GenesisMade, ChainsSeen, Printed, FingerprintsTrue, Initialized, At
  <2>6. CASE RmArtifacts
    <3>1. sh'.pc = "had" /\ sh.pc = "wipe-genesis" /\ UNCHANGED <<key, finger, chain>>
      BY <1>1, <2>6, Moves DEF RmArtifacts, At
    <3>2. \A n \in Nodes : key[n] = None /\ finger[n] = None /\ chain[n] = None
      BY <3>1 DEF ChainInv, ResetOK, Initialized, At
    <3>. QED  BY <1>1, <2>1, <2>3, <3>1, <3>2
           DEF ChainInv, ResetOK, KeysMade, GenesisMade, ChainsSeen, Printed, FingerprintsTrue, Initialized, At
  <2>. QED  BY <1>2, <2>4, <2>5, <2>6
<1>3. CASE HasInitialized
  <2>1. /\ sh.pc = "had" /\ sh'.pc = "secrets" /\ sh'.i = 1 /\ sh'.ret = sh.ret /\ sh'.reset = sh.reset
        /\ sh'.had = (\E n \in Nodes : Initialized(n))
        /\ UNCHANGED <<genesis, key, finger, chain, proc>>
    BY <1>1, <1>3 DEF HasInitialized, At, TypeOK, Scripts
  <2>2. FingerprintsTrue' /\ NodeOnItsChain'
    BY <2>1 DEF ChainInv, FingerprintsTrue, NodeOnItsChain, Live
  <2>3. ResetOK'
    BY <2>1 DEF ChainInv, ResetOK, At
  <2>4. (KeysMade /\ GenesisMade /\ ChainsSeen /\ Printed)'
    BY <1>1, <2>1 DEF KeysMade, GenesisMade, ChainsSeen, Printed, Initialized, At
  <2>. QED  BY <1>1, <2>2, <2>3, <2>4 DEF ChainInv
<1>4. CASE InitSecrets
  <2>1. /\ sh.pc = "secrets" /\ UNCHANGED <<genesis, finger, chain, proc>>
        /\ sh'.ret = sh.ret /\ sh'.reset = sh.reset /\ sh'.had = sh.had
        /\ \/ sh.i < N /\ sh'.pc = "secrets" /\ sh'.i = sh.i + 1
           \/ sh.i = N /\ sh'.pc = "genesis" /\ sh'.i = 1
    BY <1>1, <1>4, Moves DEF InitSecrets, At
  <2>2. key'[sh.i] # None /\ \A n \in Nodes : n # sh.i => key'[n] = key[n]
    BY <1>1, <1>4, NewKeyIsKey, NoneAssumption DEF InitSecrets, TypeOK
  <2>3. FingerprintsTrue' /\ NodeOnItsChain'
    BY <2>1 DEF ChainInv, FingerprintsTrue, NodeOnItsChain, Live
  <2>4. ResetOK'
    BY <2>1 DEF ChainInv, ResetOK, At
  <2>5. KeysMade'
    BY <1>1, <2>1, <2>2 DEF ChainInv, KeysMade, At
  <2>6. (GenesisMade /\ ChainsSeen /\ Printed)'
    BY <2>1 DEF ChainInv, GenesisMade, ChainsSeen, Printed, At
  <2>. QED  BY <1>1, <2>3, <2>4, <2>5, <2>6 DEF ChainInv
<1>5. CASE BuildGenesis
  <2>1. UNCHANGED <<key, finger, chain, proc>> /\ sh.pc = "genesis"
    BY <1>5 DEF BuildGenesis, At
  <2>2. FingerprintsTrue' /\ NodeOnItsChain' /\ Fewer
    BY <2>1 DEF ChainInv, FingerprintsTrue, NodeOnItsChain, Live, Fewer
  <2>3. CASE Exit
    BY <1>1, <2>2, <2>3, Moves, ChainElsewhere DEF Elsewhere
  <2>4. CASE Goto("fingerprint") /\ genesis' # None
    <3>1. sh'.pc = "fingerprint" /\ sh'.ret = sh.ret /\ sh'.reset = sh.reset /\ sh'.had = sh.had
      BY <1>1, <2>4, Moves
    <3>. QED  BY <1>1, <2>1, <2>2, <2>4, <3>1
           DEF ChainInv, ResetOK, KeysMade, GenesisMade, ChainsSeen, Printed, At
  <2>5. genesis' # None
    <3>1. \A p \in Params : [params |-> p, keys |-> key] \in Files
      BY <1>1 DEF TypeOK, Files, Keys
    <3>2. Broken \in Files
      BY DEF Broken, Files
    <3>. QED  BY <1>5, <3>1, <3>2, NoneAssumption DEF BuildGenesis
  <2>. QED  BY <1>5, <2>3, <2>4, <2>5 DEF BuildGenesis
<1>6. CASE Fingerprint
  <2>1. /\ sh.pc = "fingerprint" /\ UNCHANGED <<genesis, key, finger, chain, proc>>
        /\ sh'.ret = sh.ret /\ sh'.reset = sh.reset /\ sh'.current = genesis /\ sh'.i = 1
        /\ sh'.pc = IF sh.had /\ ~sh.reset THEN "check" ELSE "persist"
    BY <1>1, <1>6 DEF Fingerprint, At, TypeOK, Scripts
  <2>2. FingerprintsTrue' /\ NodeOnItsChain'
    BY <2>1 DEF ChainInv, FingerprintsTrue, NodeOnItsChain, Live
  <2>3. sh'.pc = "persist" => \A n \in Nodes : chain[n] = None
    BY <2>1 DEF ChainInv, ResetOK, ChainsSeen
  <2>4. ResetOK'
    BY <2>1 DEF ChainInv, ResetOK, At
  <2>5. (KeysMade /\ GenesisMade)'
    BY <2>1 DEF ChainInv, KeysMade, GenesisMade, At
  <2>6. (ChainsSeen /\ Printed)'
    BY <1>1, <2>1, <2>3 DEF ChainsSeen, Printed, At
  <2>. QED  BY <1>1, <2>2, <2>4, <2>5, <2>6 DEF ChainInv
<1>7. CASE CheckPasses
  <2>1. /\ sh.pc = "check" /\ UNCHANGED <<genesis, key, chain, proc>>
        /\ sh'.ret = sh.ret /\ sh'.reset = sh.reset /\ sh'.current = sh.current
        /\ \/ sh.i < N /\ sh'.pc = "check" /\ sh'.i = sh.i + 1
           \/ sh.i = N /\ sh'.pc = "persist" /\ sh'.i = 1
    BY <1>1, <1>7, Moves DEF CheckPasses, At
  <2>2. Initialized(sh.i) /\ sh.current = genesis /\ genesis # None
    BY <1>1, <2>1 DEF ChainInv, KeysMade, GenesisMade, Initialized
  <2>3. chain[sh.i] \in {None, genesis}
    <3>1. finger[sh.i] = genesis \/ chain[sh.i] \in {None, genesis}
      BY <1>7, <2>2 DEF CheckPasses, Passes, Verdicts
    <3>. QED  BY <1>1, <2>2, <3>1 DEF ChainInv, FingerprintsTrue
  <2>4. finger'[sh.i] = genesis /\ \A n \in Nodes : n # sh.i => finger'[n] = finger[n]
    BY <1>1, <1>7, <2>2 DEF CheckPasses, TypeOK
  <2>5. FingerprintsTrue' /\ NodeOnItsChain'
    BY <2>1, <2>3, <2>4 DEF ChainInv, FingerprintsTrue, NodeOnItsChain, Live
  <2>6. ResetOK'
    BY <2>1 DEF ChainInv, ResetOK, At
  <2>7. (KeysMade /\ GenesisMade)'
    BY <2>1 DEF ChainInv, KeysMade, GenesisMade, At
  <2>8. (ChainsSeen /\ Printed)'
    BY <1>1, <2>1, <2>3 DEF ChainInv, ChainsSeen, Printed, At
  <2>. QED  BY <1>1, <2>5, <2>6, <2>7, <2>8 DEF ChainInv
<1>8. CASE CheckFails \/ StartEnd
  <2>1. FingerprintsTrue' /\ Fewer
    BY <1>8 DEF CheckFails, StartEnd, ChainInv, FingerprintsTrue, Fewer
  <2>. QED  BY <1>1, <1>8, <2>1, Moves, ChainElsewhere DEF CheckFails, StartEnd, Elsewhere
<1>9. CASE PersistFingerprint
  <2>1. /\ sh.pc = "persist" /\ UNCHANGED <<genesis, key, chain, proc>>
        /\ sh'.ret = sh.ret /\ sh'.reset = sh.reset /\ sh'.current = sh.current
        /\ \/ sh.i < N /\ sh'.pc = "persist" /\ sh'.i = sh.i + 1
           \/ sh.i = N /\ sh'.pc = "node" /\ sh'.i = 1
    BY <1>1, <1>9, Moves DEF PersistFingerprint, At
  <2>2. Initialized(sh.i) /\ sh.current = genesis /\ genesis # None
    BY <1>1, <2>1 DEF ChainInv, KeysMade, GenesisMade, Initialized
  <2>3. finger'[sh.i] = genesis /\ \A n \in Nodes : n # sh.i => finger'[n] = finger[n]
    BY <1>1, <1>9, <2>2 DEF PersistFingerprint, TypeOK
  <2>4. FingerprintsTrue' /\ NodeOnItsChain'
    BY <1>1, <2>1, <2>3 DEF ChainInv, ChainsSeen, FingerprintsTrue, NodeOnItsChain, Live
  <2>5. ResetOK'
    BY <2>1 DEF ChainInv, ResetOK, At
  <2>6. (KeysMade /\ GenesisMade /\ ChainsSeen)'
    BY <2>1 DEF ChainInv, KeysMade, GenesisMade, ChainsSeen, At
  <2>7. Printed'
    BY <1>1, <2>1, <2>3 DEF ChainInv, Printed, At
  <2>. QED  BY <1>1, <2>4, <2>5, <2>6, <2>7 DEF ChainInv
<1>10. CASE StartNode
  <2>1. /\ sh.pc = "node" /\ UNCHANGED <<genesis, key, finger>> /\ AfterNodes \in {"end", "copy"}
        /\ sh.current = genesis /\ genesis # None
        /\ \A n \in Nodes : chain[n] \in {None, genesis} /\ finger[n] = genesis /\ key[n] # None
    BY <1>1, <1>10 DEF StartNode, AfterNodes, At, ChainInv, KeysMade, GenesisMade, ChainsSeen, Printed
  <2>2. \A n \in Nodes : chain'[n] \in {None, genesis}
    BY <1>1, <1>10, <2>1 DEF StartNode, TypeOK
  <2>3. FingerprintsTrue'
    BY <2>1, <2>2 DEF FingerprintsTrue
  <2>4. NodeOnItsChain'
    <3>1. CASE proc' = proc
      BY <3>1 DEF ChainInv, NodeOnItsChain, Live
    <3>2. CASE proc' # proc
      <4>1. PICK p \in Pids : proc' = [proc EXCEPT ![p] =
              [kind |-> "node", node |-> sh.i, genesis |-> genesis, key |-> key[sh.i],
               data |-> IF chain[sh.i] = None THEN genesis ELSE chain[sh.i]]]
        BY <1>10, <3>2 DEF StartNode
      <4>2. proc'[p].data = genesis /\ proc'[p].genesis = genesis
        BY <1>1, <2>1, <4>1 DEF TypeOK
      <4>3. \A q \in Pids \ {p} : proc'[q] = proc[q]
        BY <1>1, <4>1 DEF TypeOK
      <4>. QED  BY <4>2, <4>3 DEF ChainInv, NodeOnItsChain, Live
    <3>. QED  BY <3>1, <3>2
  <2>5. CASE NextNode(AfterNodes)
    <3>1. /\ sh'.ret = sh.ret /\ sh'.reset = sh.reset /\ sh'.current = sh.current
          /\ sh'.pc \in {"node", "end", "copy"}
      BY <1>1, <2>1, <2>5, Moves
    <3>2. ResetOK'
      BY <3>1 DEF ChainInv, ResetOK, At
    <3>3. (KeysMade /\ GenesisMade /\ ChainsSeen /\ Printed)'
      BY <2>1, <2>2, <3>1 DEF KeysMade, GenesisMade, ChainsSeen, Printed, At
    <3>. QED  BY <1>1, <2>3, <2>4, <3>2, <3>3 DEF ChainInv
  <2>6. CASE \E p \in Pids : sh' = [sh EXCEPT !.pc = "write", !.pid = p]
    <3>1. sh'.ret = sh.ret /\ sh'.reset = sh.reset /\ sh'.current = sh.current /\ sh'.pc = "write"
      BY <1>1, <2>6 DEF TypeOK, Scripts
    <3>2. ResetOK'
      BY <3>1 DEF ChainInv, ResetOK, At
    <3>3. (KeysMade /\ GenesisMade /\ ChainsSeen /\ Printed)'
      BY <2>1, <2>2, <3>1 DEF KeysMade, GenesisMade, ChainsSeen, Printed, At
    <3>. QED  BY <1>1, <2>3, <2>4, <3>2, <3>3 DEF ChainInv
  <2>7. CASE Exit
    <3>1. ResetOK'
      BY <1>1, <2>7, Moves DEF ResetOK, At
    <3>2. (KeysMade /\ GenesisMade /\ ChainsSeen /\ Printed)'
      BY <1>1, <2>7, Moves DEF KeysMade, GenesisMade, ChainsSeen, Printed, At
    <3>. QED  BY <1>1, <2>3, <2>4, <3>1, <3>2 DEF ChainInv
  <2>. QED  BY <1>10, <2>5, <2>6, <2>7 DEF StartNode
<1>11. CASE WritePid
  <2>1. /\ sh.pc = "write" /\ UNCHANGED <<genesis, key, finger, chain, proc>>
        /\ sh'.ret = sh.ret /\ sh'.reset = sh.reset /\ sh'.current = sh.current
        /\ sh'.pc \in {"node", "end", "copy"}
    BY <1>1, <1>11 DEF WritePid, AfterNodes, At, TypeOK, Scripts
  <2>2. FingerprintsTrue' /\ NodeOnItsChain'
    BY <2>1 DEF ChainInv, FingerprintsTrue, NodeOnItsChain, Live
  <2>3. ResetOK'
    BY <2>1 DEF ChainInv, ResetOK, At
  <2>4. (KeysMade /\ GenesisMade /\ ChainsSeen /\ Printed)'
    BY <2>1 DEF ChainInv, KeysMade, GenesisMade, ChainsSeen, Printed, At
  <2>. QED  BY <1>1, <2>2, <2>3, <2>4 DEF ChainInv
<1>. QED  BY <1>2, <1>3, <1>4, <1>5, <1>6, <1>7, <1>8, <1>9, <1>10, <1>11 DEF Start

LEMMA InitChain ==
  Init => ChainInv
<1>. SUFFICES ASSUME Init PROVE ChainInv
  OBVIOUS
<1>1. TypeOK
  BY InitType
<1>2. sh.pc = "idle" /\ sh.ret = "exit" /\ \A n \in Nodes : finger[n] = None
  BY DEF Init, Idle
<1>3. Live = {}
  BY DEF Init, Live, Free
<1>4. (ResetOK /\ KeysMade /\ GenesisMade /\ ChainsSeen /\ Printed)
  BY <1>2 DEF ResetOK, KeysMade, GenesisMade, ChainsSeen, Printed, At
<1>. QED  BY <1>1, <1>2, <1>3, <1>4 DEF ChainInv, FingerprintsTrue, NodeOnItsChain

LEMMA StepChain ==
  ChainInv /\ [Next]_vars => ChainInv'
<1>. SUFFICES ASSUME ChainInv, [Next]_vars PROVE ChainInv'
  OBVIOUS
<1>1. CASE UNCHANGED vars
  BY <1>1 DEF vars, disk, pids, ChainInv, TypeOK, ResetOK, KeysMade, GenesisMade, ChainsSeen, Printed,
       FingerprintsTrue, NodeOnItsChain, Live, Initialized, At
<1>2. CASE Next
  BY <1>2, UserChain, UpChain, DownChain, StartChain, MachineChain DEF Next, Script
<1>. QED  BY <1>1, <1>2

-----------------------------------------------------------------------------

NoBroken == None # Broken /\ Broken \in Files

LEMMA BrokenIsFile ==
  NoBroken
BY NoneAssumption DEF NoBroken, Broken, Files

\* Steps that leave files alone and go where nobody asks for them.
LEMMA KeyElsewhere ==
  ASSUME KeyInv, UNCHANGED <<genesis, key, finger, parted>>,
         sh'.pc \in (Elsewhere \cup {"rpc", "had", "wipe-genesis"}) \ {"rm-data"}
  PROVE  KeyInv'
<1>1. FileOK => FileOK'
  BY DEF FileOK
<1>2. BrokenUnused => BrokenUnused'
  BY DEF BrokenUnused, Elsewhere, At
<1>. QED  BY <1>1, <1>2 DEF KeyInv, At

\* Steps after which there is no genesis file, and no fingerprint that was
\* not there before: none at all, where data and genesis.json were parted.
LEMMA KeyGone ==
  ASSUME KeyInv, genesis' = None, \A n \in Nodes : finger'[n] \in {finger[n], None},
         ~parted' => ~parted \/ \A n \in Nodes : finger'[n] = None,
         sh'.pc \in Elsewhere \cup {"rpc", "had", "wipe-genesis"}
  PROVE  KeyInv'
<1>1. FileOK'
  BY DEF FileOK
<1>2. ~parted' => BrokenUnused'
  BY BrokenIsFile DEF KeyInv, BrokenUnused, Elsewhere, At, NoBroken
<1>. QED  BY <1>1, <1>2 DEF KeyInv, At

\* Removing data keeps the invariant, whether genesis.json is there or not.
LEMMA KeyWiped ==
  ASSUME TypeOK, KeyInv, WipeData \/ WipePart, genesis' = genesis, sh'.pc \in (Elsewhere \cup {"wipe-genesis"}) \ {"rm-data"}
  PROVE  KeyInv'
<1>1. /\ \A n \in Nodes : finger'[n] \in {finger[n], None}
      /\ ~parted' => genesis = None /\ (~parted \/ \A n \in Nodes : finger'[n] = None)
  BY PartGone DEF WipeData
<1>2. CASE genesis = None
  BY <1>1, <1>2, KeyGone
<1>3. CASE genesis # None
  BY <1>1, <1>3 DEF KeyInv, At
<1>. QED  BY <1>2, <1>3

LEMMA UserKeys ==
  ASSUME ChainInv, KeyInv, Begin \/ Clean \/ CleanData \/ Interrupt
  PROVE  KeyInv'
<1>. USE DEF disk, pids
<1>1. TypeOK
  BY DEF ChainInv
<1>2. CASE Begin
  BY <1>2, BeginsAt, KeyElsewhere DEF Begin, Elsewhere
<1>3. CASE Clean
  BY <1>3, KeyGone DEF Clean, Given, At, Elsewhere
<1>4. CASE CleanData
  BY <1>1, <1>4, KeyWiped DEF CleanData, Given, At, Elsewhere
<1>5. CASE Interrupt
  <2>1. sh'.pc = "idle" /\ genesis' = genesis
    BY <1>1, <1>5, Moves DEF Interrupt
  <2>2. CASE WipePart
    BY <1>1, <2>1, <2>2, KeyWiped DEF Elsewhere
  <2>3. CASE UNCHANGED <<key, finger, parted>>
    BY <2>1, <2>3, KeyElsewhere DEF Elsewhere
  <2>. QED  BY <1>5, <2>2, <2>3 DEF Interrupt
<1>. QED  BY <1>2, <1>3, <1>4, <1>5

LEMMA UpKeys ==
  ASSUME ChainInv, KeyInv, Up
  PROVE  KeyInv'
<1>. USE DEF disk, pids
<1>1. TypeOK
  BY DEF ChainInv
<1>2. UNCHANGED <<disk, history>>
  BY DEF Up, UpReset, UpPid, UpRpc, UpCopy, UpWait
<1>3. sh'.pc \in {"idle", "down", "rpc", "had", "wait"}
  <2>1. CASE UpReset
    BY <1>1, <2>1 DEF UpReset, TypeOK, Scripts
  <2>2. CASE UpPid
    <3>1. CASE sh' = [sh EXCEPT !.pc = "down", !.ret = "up"]
      BY <1>1, <3>1 DEF TypeOK, Scripts
    <3>2. CASE Exit \/ Goto("rpc")
      BY <1>1, <3>2, Moves
    <3>. QED  BY <2>2, <3>1, <3>2 DEF UpPid
  <2>3. CASE UpRpc \/ UpCopy \/ UpWait
    BY <1>1, <2>3, Moves DEF UpRpc, UpCopy, UpWait
  <2>. QED  BY <2>1, <2>2, <2>3 DEF Up
<1>. QED  BY <1>2, <1>3, KeyElsewhere DEF Elsewhere, history

LEMMA DownKeys ==
  ASSUME ChainInv, KeyInv, Down
  PROVE  KeyInv'
<1>. USE DEF disk, pids
<1>1. TypeOK
  BY DEF ChainInv
<1>3. CASE DownKill
  BY <1>1, <1>3, Moves, KeyElsewhere DEF DownKill, Elsewhere, history
<1>4. CASE StopNode
  <2>1. sh'.pc \in {"stop", "stopped", "ports"}
    BY <1>1, <1>4, Moves DEF StopNode, AfterStop, At
  <2>. QED  BY <1>4, <2>1, KeyElsewhere DEF StopNode, Elsewhere
<1>5. CASE DownEnd
  <2>1. sh'.pc \in {"idle", "rpc", "rm-genesis"}
    <3>1. CASE sh.ret = "exit"
      BY <1>1, <1>5, <3>1, Moves DEF DownEnd
    <3>2. CASE sh.ret = "up"
      BY <1>1, <1>5, <3>2, Moves DEF DownEnd
    <3>3. CASE sh.ret = "reset"
      BY <1>1, <1>5, <3>3, Moves DEF DownEnd
    <3>. QED  BY <1>5, <3>1, <3>2, <3>3 DEF DownEnd
  <2>. QED  BY <1>5, <2>1, KeyElsewhere DEF DownEnd, Elsewhere, history
<1>6. CASE RmGenesis
  BY <1>1, <1>6, Moves, KeyGone DEF RmGenesis, Elsewhere, history
<1>7. CASE RmData
  <2>1. genesis' = None
    BY <1>7 DEF RmData, KeyInv
  <2>2. \A n \in Nodes : finger'[n] = None
    BY <1>7 DEF RmData, WipeData
  <2>. QED  BY <1>1, <1>7, <2>1, <2>2, Moves, KeyGone DEF RmData, Elsewhere, history
<1>. QED  BY <1>3, <1>4, <1>5, <1>6, <1>7 DEF Down

LEMMA MachineKeys ==
  ASSUME ChainInv, KeyInv, NEW p \in Pids, Dies(p) \/ Reused(p)
  PROVE  KeyInv'
<1>1. UNCHANGED <<genesis, key, finger, sh, parted>>
  BY DEF Dies, Reused, disk
<1>. QED  BY <1>1 DEF KeyInv, FileOK, BrokenUnused, At

LEMMA StartKeys ==
  ASSUME ChainInv, KeyInv, Start
  PROVE  KeyInv'
<1>. USE DEF disk, pids, history
<1>1. TypeOK /\ sh.i \in Nodes /\ 1 \in Nodes /\ N \in Nat /\ \A n \in Nodes : n \in Nat /\ 1 <= n /\ n <= N
  BY DevnetAssumption DEF ChainInv, TypeOK, Scripts, Nodes
<1>2. CASE KillListeners \/ WipeNet \/ RmArtifacts
  <2>1. CASE KillListeners
    BY <1>1, <2>1, Moves, KeyElsewhere DEF KillListeners, Elsewhere
  <2>2. CASE WipeNet
    BY <1>1, <2>2, Moves, KeyWiped DEF WipeNet, Elsewhere
  <2>3. CASE RmArtifacts
    <3>1. \A n \in Nodes : finger'[n] = None
      BY <2>3 DEF RmArtifacts, ChainInv, ResetOK, Initialized
    <3>. QED  BY <1>1, <2>3, <3>1, Moves, KeyGone DEF RmArtifacts
  <2>. QED  BY <1>2, <2>1, <2>2, <2>3
<1>3. CASE CheckFails \/ StartEnd
  BY <1>1, <1>3, Moves, KeyElsewhere DEF CheckFails, StartEnd, Elsewhere
<1>4. CASE sh'.pc \in {"secrets", "genesis", "fingerprint", "check", "persist", "node", "write", "copy", "end", "idle"}
           /\ parted' = parted /\ (~parted => FileOK' /\ BrokenUnused')
  BY <1>4 DEF KeyInv, At
<1>5. CASE parted /\ ~KillListeners /\ ~WipeNet /\ ~RmArtifacts /\ ~CheckFails /\ ~StartEnd
  <2>1. parted' = parted
    BY <1>5 DEF Start, HasInitialized, InitSecrets, BuildGenesis, Fingerprint, CheckPasses, PersistFingerprint, StartNode, WritePid
  <2>2. sh'.pc # "rm-data"
    <3>1. CASE HasInitialized
      BY <1>1, <3>1 DEF HasInitialized, TypeOK, Scripts
    <3>2. CASE InitSecrets \/ CheckPasses \/ PersistFingerprint
      BY <1>1, <3>2, Moves DEF InitSecrets, CheckPasses, PersistFingerprint, At
    <3>3. CASE BuildGenesis
      BY <1>1, <3>3, Moves DEF BuildGenesis
    <3>4. CASE Fingerprint
      BY <1>1, <3>4 DEF Fingerprint, TypeOK, Scripts
    <3>5. CASE StartNode
      <4>1. CASE \E p \in Pids : sh' = [sh EXCEPT !.pc = "write", !.pid = p]
        BY <1>1, <4>1 DEF TypeOK, Scripts
      <4>2. CASE NextNode(AfterNodes) \/ Exit
        <5>1. sh.pc = "node"
          BY <3>5 DEF StartNode, At
        <5>. QED  BY <1>1, <4>2, <5>1, Moves DEF AfterNodes
      <4>. QED  BY <3>5, <4>1, <4>2 DEF StartNode
    <3>6. CASE WritePid
      BY <1>1, <3>6 DEF WritePid, AfterNodes, TypeOK, Scripts
    <3>. QED  BY <1>5, <3>1, <3>2, <3>3, <3>4, <3>5, <3>6 DEF Start
  <2>. QED  BY <1>5, <2>1, <2>2 DEF KeyInv, At
<1>6. ASSUME ~parted, HasInitialized PROVE KeyInv'
  <2>1. /\ UNCHANGED <<genesis, key, finger, parted>> /\ sh'.pc = "secrets"
        /\ sh'.had = \E n \in Nodes : Initialized(n)
    BY <1>1, <1>6 DEF HasInitialized, TypeOK, Scripts
  <2>2. FileOK'
    BY <1>6, <2>1 DEF KeyInv, FileOK
  <2>3. genesis = Broken => sh'.had
    BY <1>1, <1>6, <2>1, BrokenIsFile DEF KeyInv, FileOK, NoBroken, Initialized
  <2>4. BrokenUnused'
    BY <1>6, <2>1, <2>3 DEF KeyInv, BrokenUnused, At
  <2>. QED  BY <1>4, <2>1, <2>2, <2>4
<1>7. ASSUME ~parted, InitSecrets PROVE KeyInv'
  <2>1. /\ UNCHANGED <<genesis, finger, parted>> /\ sh.pc = "secrets"
        /\ sh'.pc \in {"secrets", "genesis"} /\ sh'.had = sh.had
    BY <1>1, <1>7, Moves DEF InitSecrets, At
  <2>2. genesis # None => key' = key
    <3>1. genesis # None => key[sh.i] # None
      BY <1>1, <1>7 DEF KeyInv, FileOK
    <3>. QED  BY <1>1, <1>7, <3>1 DEF InitSecrets, TypeOK
  <2>3. FileOK'
    BY <1>7, <2>1, <2>2 DEF KeyInv, FileOK
  <2>4. BrokenUnused'
    BY <1>7, <2>1 DEF KeyInv, BrokenUnused, At
  <2>. QED  BY <1>4, <2>1, <2>3, <2>4
<1>8. ASSUME ~parted, BuildGenesis PROVE KeyInv'
  <2>1. /\ UNCHANGED <<key, finger, parted>> /\ sh.pc = "genesis" /\ \A n \in Nodes : key[n] # None
        /\ sh'.pc \in {"fingerprint", "idle"} /\ (sh'.pc = "fingerprint" => sh'.had = sh.had)
    BY <1>1, <1>8, Moves DEF BuildGenesis, At, ChainInv, KeysMade
  <2>3. \A p \in Params : [params |-> p, keys |-> key] # Broken
    <3>1. Broken.keys[1] = None
      BY <1>1 DEF Broken
    <3>. QED  BY <1>1, <2>1, <3>1
  <2>4. FileOK'
    BY <1>8, <2>1, <2>3 DEF BuildGenesis, KeyInv, FileOK
  <2>5. BrokenUnused'
    <3>1. CASE sh'.pc = "idle"
      BY <1>8, <2>1, <3>1 DEF KeyInv, BrokenUnused, At
    <3>2. CASE sh'.pc = "fingerprint"
      <4>1. genesis' = genesis \/ genesis' # Broken
        BY <1>1, <1>8, <2>3, <3>2, Moves DEF BuildGenesis
      <4>. QED  BY <1>8, <2>1, <3>2, <4>1 DEF KeyInv, BrokenUnused, At
    <3>. QED  BY <2>1, <3>1, <3>2
  <2>. QED  BY <1>4, <2>1, <2>4, <2>5
<1>9. ASSUME ~parted, Fingerprint PROVE KeyInv'
  <2>1. /\ UNCHANGED <<genesis, key, finger, parted>> /\ sh.pc = "fingerprint" /\ sh'.i = 1
        /\ sh'.pc = IF sh.had /\ ~sh.reset THEN "check" ELSE "persist"
    BY <1>1, <1>9 DEF Fingerprint, At, TypeOK, Scripts
  <2>2. FileOK'
    BY <1>9, <2>1 DEF KeyInv, FileOK
  <2>3. genesis = Broken => sh'.pc = "check"
    BY <1>9, <2>1 DEF KeyInv, BrokenUnused, ChainInv, ResetOK
  <2>4. BrokenUnused'
    BY <1>9, <2>1, <2>3 DEF KeyInv, BrokenUnused, At
  <2>. QED  BY <1>4, <2>1, <2>2, <2>4
<1>10. ASSUME ~parted, CheckPasses PROVE KeyInv'
  <2>1. /\ UNCHANGED <<genesis, key, parted>> /\ sh.pc = "check" /\ sh'.pc \in {"check", "persist"}
    BY <1>1, <1>10, Moves DEF CheckPasses, At
  <2>2. Initialized(sh.i) /\ sh.current = genesis
    BY <1>1, <2>1 DEF ChainInv, KeysMade, GenesisMade, Initialized
  <2>3. genesis # Broken
    <3>1. finger[sh.i] = genesis \/ genesis # Broken
      BY <1>10, <2>2 DEF CheckPasses, Passes, Verdicts
    <3>. QED  BY <1>1, <1>10, <3>1 DEF KeyInv, BrokenUnused
  <2>4. \A n \in Nodes : finger'[n] \in {finger[n], genesis}
    BY <1>1, <1>10, <2>2 DEF CheckPasses, TypeOK
  <2>5. FileOK'
    BY <1>10, <2>1 DEF KeyInv, FileOK
  <2>6. BrokenUnused'
    BY <1>10, <2>1, <2>3, <2>4 DEF KeyInv, BrokenUnused
  <2>. QED  BY <1>4, <2>1, <2>5, <2>6
<1>11. ASSUME ~parted, PersistFingerprint PROVE KeyInv'
  <2>1. /\ UNCHANGED <<genesis, key, parted>> /\ sh.pc = "persist" /\ sh'.pc \in {"persist", "node"}
        /\ genesis # Broken /\ sh.current = genesis
    BY <1>1, <1>11, Moves DEF PersistFingerprint, At, KeyInv, BrokenUnused, ChainInv, GenesisMade
  <2>2. \A n \in Nodes : finger'[n] \in {finger[n], genesis}
    BY <1>1, <1>11, <2>1 DEF PersistFingerprint, TypeOK
  <2>3. FileOK'
    BY <1>11, <2>1 DEF KeyInv, FileOK
  <2>4. BrokenUnused'
    BY <1>11, <2>1, <2>2 DEF KeyInv, BrokenUnused
  <2>. QED  BY <1>4, <2>1, <2>3, <2>4
<1>12. ASSUME ~parted, StartNode PROVE KeyInv'
  <2>1. /\ UNCHANGED <<genesis, key, finger, parted>> /\ sh.pc = "node"
        /\ genesis \notin {None, Broken} /\ key = genesis.keys
    BY <1>12 DEF StartNode, At, KeyInv, FileOK, BrokenUnused, ChainInv, GenesisMade
  <2>2. sh'.pc \in {"node", "write", "copy", "end", "idle"}
    <3>1. CASE \E p \in Pids : sh' = [sh EXCEPT !.pc = "write", !.pid = p]
      BY <1>1, <3>1 DEF TypeOK, Scripts
    <3>2. CASE NextNode(AfterNodes) \/ Exit
      BY <1>1, <2>1, <3>2, Moves DEF AfterNodes
    <3>. QED  BY <1>12, <3>1, <3>2 DEF StartNode
  <2>3. FileOK' /\ BrokenUnused'
    BY <1>12, <2>1, <2>2 DEF KeyInv, FileOK, BrokenUnused, At
  <2>. QED  BY <1>4, <2>1, <2>2, <2>3
<1>13. ASSUME ~parted, WritePid PROVE KeyInv'
  <2>1. /\ UNCHANGED <<genesis, key, finger, parted>> /\ sh.pc = "write" /\ sh'.pc \in {"node", "copy", "end"}
    BY <1>1, <1>13 DEF WritePid, AfterNodes, At, TypeOK, Scripts
  <2>2. FileOK' /\ BrokenUnused'
    BY <1>13, <2>1 DEF KeyInv, FileOK, BrokenUnused, At
  <2>. QED  BY <1>4, <2>1, <2>2
<1>. QED  BY <1>2, <1>3, <1>5, <1>6, <1>7, <1>8, <1>9, <1>10, <1>11, <1>12, <1>13 DEF Start

LEMMA InitKeys ==
  Init => KeyInv
<1>. SUFFICES ASSUME Init PROVE KeyInv
  OBVIOUS
<1>1. sh.pc = "idle" /\ \A n \in Nodes : finger[n] = None
  BY DEF Init, Idle
<1>2. FileOK
  <2>1. CASE genesis = None
    BY <2>1 DEF FileOK
  <2>2. CASE genesis # None
    <3>1. \E p \in Params : genesis = [params |-> p, keys |-> [n \in Nodes |-> n]] /\ key = [n \in Nodes |-> n]
      BY <2>2 DEF Init
    <3>2. \A n \in Nodes : n # None
      BY DevnetAssumption, NoneAssumption DEF Nodes
    <3>. QED  BY <3>1, <3>2 DEF FileOK
  <2>. QED  BY <2>1, <2>2
<1>3. BrokenUnused
  BY <1>1, BrokenIsFile DEF BrokenUnused, NoBroken, At
<1>. QED  BY <1>1, <1>2, <1>3 DEF KeyInv, At

LEMMA StepKeys ==
  ChainInv /\ KeyInv /\ [Next]_vars => KeyInv'
<1>. SUFFICES ASSUME ChainInv, KeyInv, [Next]_vars PROVE KeyInv'
  OBVIOUS
<1>1. CASE UNCHANGED vars
  BY <1>1 DEF vars, disk, history, KeyInv, FileOK, BrokenUnused, At
<1>2. CASE Next
  BY <1>2, UserKeys, UpKeys, DownKeys, StartKeys, MachineKeys DEF Next, Script
<1>. QED  BY <1>1, <1>2

-----------------------------------------------------------------------------

\* Steps that start nothing, wipe nothing and leave the pid files alone: what
\* was found before is found after.
LEMMA LiveStays ==
  ASSUME TypeOK, LiveInv, Fewer, UNCHANGED <<chain, pidFile>>, lost \subseteq lost', At("write") => sh.pid \in lost',
         sh'.pc \notin {"write", "stopped", "rm-genesis", "rm-data", "ports", "wipe-data"}, sh'.pc = "stop" => sh'.i = 1
  PROVE  LiveInv'
<1>1. Emptied'
  BY DevnetAssumption DEF Emptied, At, Nodes
<1>2. \A p \in Live' \ lost' : p \in Live \ lost /\ proc'[p] = proc[p]
  BY FewerLive
<1>3. HasPidFile'
  BY <1>2 DEF LiveInv, HasPidFile, At
<1>4. OnDisk' /\ OneChain'
  BY <1>2 DEF LiveInv, OnDisk, OneChain
<1>. QED  BY <1>1, <1>3, <1>4 DEF LiveInv

\* With nothing running that is not lost there is nothing to find.
LEMMA NoneLive ==
  ASSUME Emptied', Live' \subseteq lost'
  PROVE  LiveInv'
BY DEF LiveInv, HasPidFile, OnDisk, OneChain

\* When every pid file is empty, no node runs that is not lost.
LEMMA EmptiedNoneLive ==
  ASSUME LiveInv, sh.pc \in {"stopped", "rm-genesis", "rm-data", "ports", "wipe-data"}
  PROVE  Live \subseteq lost
BY DevnetAssumption DEF LiveInv, Emptied, HasPidFile, Live, At

LEMMA UserLive ==
  ASSUME ChainInv, LiveInv, Begin \/ Clean \/ CleanData \/ Interrupt
  PROVE  LiveInv'
<1>. USE DEF disk, pids
<1>1. TypeOK
  BY DEF ChainInv
<1>2. Fewer
  BY DEF Begin, Clean, CleanData, Interrupt, Fewer
<1>3. CASE Begin
  <2>1. UNCHANGED <<chain, pidFile, lost>> /\ sh.pc = "idle"
    BY <1>3 DEF Begin, Given, At
  <2>. QED  BY <1>1, <1>2, <1>3, <2>1, BeginsAt, LiveStays DEF At
<1>4. CASE Clean
  <2>1. UNCHANGED <<chain, pidFile, lost, sh>> /\ sh.pc = "idle"
    BY <1>4 DEF Clean, Given, At
  <2>. QED  BY <1>1, <1>2, <2>1, LiveStays DEF At
<1>5. CASE CleanData
  <2>1. sh'.pc = "idle" /\ Live' \subseteq lost'
    BY <1>5 DEF CleanData, Given, At, Live
  <2>. QED  BY <2>1, NoneLive DEF Emptied, At
<1>6. CASE Interrupt
  <2>1. sh'.pc = "idle" /\ proc' = proc /\ lost \subseteq lost' /\ (At("write") => sh.pid \in lost')
    BY <1>1, <1>6, Moves DEF Interrupt
  <2>2. CASE UNCHANGED <<chain, pidFile>>
    BY <1>1, <1>2, <2>1, <2>2, LiveStays
  <2>3. CASE sh.pc \in {"rm-data", "wipe-data"}
    <3>1. Live' \subseteq lost'
      BY <2>1, <2>3, EmptiedNoneLive DEF Live
    <3>. QED  BY <2>1, <3>1, NoneLive DEF Emptied, At
  <2>. QED  BY <1>6, <2>2, <2>3 DEF Interrupt
<1>. QED  BY <1>3, <1>4, <1>5, <1>6

LEMMA UpLive ==
  ASSUME ChainInv, LiveInv, Up
  PROVE  LiveInv'
<1>. USE DEF disk, pids
<1>1. TypeOK
  BY DEF ChainInv
<1>2. Fewer /\ UNCHANGED <<chain, pidFile, history>> /\ sh.pc \in {"up", "rpc", "copy", "wait"}
  BY DEF Up, UpReset, UpPid, UpRpc, UpCopy, UpWait, Fewer, At
<1>3. sh'.pc \in {"idle", "down", "rpc", "had", "wait"}
  <2>1. CASE UpReset
    BY <1>1, <2>1 DEF UpReset, TypeOK, Scripts
  <2>2. CASE UpPid
    <3>1. CASE sh' = [sh EXCEPT !.pc = "down", !.ret = "up"]
      BY <1>1, <3>1 DEF TypeOK, Scripts
    <3>2. CASE Exit \/ Goto("rpc")
      BY <1>1, <3>2, Moves
    <3>. QED  BY <2>2, <3>1, <3>2 DEF UpPid
  <2>3. CASE UpRpc \/ UpCopy \/ UpWait
    BY <1>1, <2>3, Moves DEF UpRpc, UpCopy, UpWait
  <2>. QED  BY <2>1, <2>2, <2>3 DEF Up
<1>. QED  BY <1>1, <1>2, <1>3, LiveStays DEF At, history

LEMMA DownLive ==
  ASSUME ChainInv, LiveInv, Down
  PROVE  LiveInv'
<1>. USE DEF disk, pids
<1>1. TypeOK /\ sh.i \in Nodes /\ \A n \in Nodes : n \in Nat /\ 1 <= n /\ n <= N
  BY DevnetAssumption DEF ChainInv, TypeOK, Scripts, Nodes
<1>2. Fewer
  BY <1>1 DEF Down, DownKill, StopNode, DownEnd, RmGenesis, RmData, Fewer, TypeOK
<1>3. CASE DownKill
  <2>1. UNCHANGED <<chain, pidFile, lost>> /\ sh.pc = "down" /\ sh'.pc = "stop" /\ sh'.i = 1
    BY <1>1, <1>3, Moves DEF DownKill, At, history
  <2>. QED  BY <1>1, <1>2, <2>1, LiveStays DEF At
<1>4. CASE StopNode
  <2>1. /\ chain' = chain /\ sh.pc = "stop" /\ lost \subseteq lost'
        /\ pidFile' = [pidFile EXCEPT ![sh.i] = 0]
        /\ \/ sh.i < N /\ sh'.pc = "stop" /\ sh'.i = sh.i + 1
           \/ sh.i = N /\ sh'.pc \in {"ports", "stopped"} /\ sh'.i = 1
    BY <1>1, <1>4, Moves DEF StopNode, AfterStop, At
  <2>2. pidFile'[sh.i] = 0 /\ \A n \in Nodes : n # sh.i => pidFile'[n] = pidFile[n]
    BY <1>1, <2>1 DEF TypeOK
  <2>3. Emptied'
    BY <1>1, <2>1, <2>2 DEF LiveInv, Emptied, At
  <2>4. \A p \in Live' \ lost' : p \in Live \ lost /\ proc'[p] = proc[p]
    BY <1>2, <2>1, FewerLive
  <2>5. ASSUME NEW p \in Live' \ lost' PROVE p # pidFile[sh.i]
    <3>0. p \in Live
      BY <2>4
    <3>1. p \in Pids /\ p # 0 /\ proc[p] # Free
      BY <3>0, DevnetAssumption DEF Live, Free
    <3>2. CASE lost' = lost \cup {pidFile[sh.i]}
      BY <2>5, <3>2
    <3>3. CASE proc' = IF Alive(pidFile[sh.i]) THEN [proc EXCEPT ![pidFile[sh.i]] = Free] ELSE proc
      <4>1. p = pidFile[sh.i] => proc'[p] = Free
        BY <1>1, <3>1, <3>3 DEF Alive, TypeOK
      <4>. QED  BY <2>5, <4>1 DEF Live, Free
    <3>4. \/ lost' = lost \cup {pidFile[sh.i]}
          \/ proc' = IF Alive(pidFile[sh.i]) THEN [proc EXCEPT ![pidFile[sh.i]] = Free] ELSE proc
      BY <1>4, Zenon DEF StopNode
    <3>. QED  BY <3>2, <3>3, <3>4
  <2>6. HasPidFile'
    <3>1. \A p \in Live \ lost : \E n \in Nodes : pidFile[n] = p
      BY <2>1 DEF LiveInv, HasPidFile, At
    <3>2. \A p \in Live' \ lost' : \E n \in Nodes : pidFile'[n] = p
      BY <2>2, <2>4, <2>5, <3>1
    <3>. QED  BY <2>1, <3>2 DEF HasPidFile, At
  <2>7. OnDisk' /\ OneChain'
    BY <2>1, <2>4 DEF LiveInv, OnDisk, OneChain
  <2>. QED  BY <2>3, <2>6, <2>7 DEF LiveInv
<1>5. CASE DownEnd \/ RmGenesis \/ RmData
  <2>1. lost' = lost /\ sh.pc \in {"stopped", "rm-genesis", "rm-data"} /\ proc' = proc
    BY <1>5 DEF DownEnd, RmGenesis, RmData, At, history
  <2>2. \A n \in Nodes : pidFile'[n] = 0
    BY <1>5 DEF DownEnd, RmGenesis, RmData, WipeData, LiveInv, Emptied, At
  <2>3. Emptied'
    BY <2>2 DEF Emptied
  <2>4. Live' \subseteq lost'
    BY <2>1, EmptiedNoneLive DEF Live
  <2>. QED  BY <2>3, <2>4, NoneLive
<1>. QED  BY <1>3, <1>4, <1>5 DEF Down

LEMMA MachineLive ==
  ASSUME ChainInv, LiveInv, NEW p \in Pids, Dies(p) \/ Reused(p)
  PROVE  LiveInv'
<1>1. UNCHANGED <<chain, pidFile, sh, lost>> /\ Fewer
  BY DEF Dies, Reused, Fewer, ChainInv, TypeOK, disk, pids
<1>2. Emptied'
  BY <1>1 DEF LiveInv, Emptied, At
<1>3. \A q \in Live' \ lost' : q \in Live \ lost /\ proc'[q] = proc[q]
  BY <1>1, FewerLive
<1>4. HasPidFile'
  BY <1>1, <1>3 DEF LiveInv, HasPidFile, At
<1>5. OnDisk' /\ OneChain'
  BY <1>1, <1>3 DEF LiveInv, OnDisk, OneChain
<1>. QED  BY <1>2, <1>4, <1>5 DEF LiveInv

\* A node is started on the chain of those that run: the directories the
\* start looked at are those they have theirs in.
LEMMA StartLive ==
  ASSUME ChainInv, LiveInv, Start
  PROVE  LiveInv'
<1>. USE DEF disk, pids
<1>1. TypeOK /\ sh.i \in Nodes /\ \A n \in Nodes : n \in Nat /\ 1 <= n /\ n <= N
  BY DevnetAssumption DEF ChainInv, TypeOK, Scripts, Nodes
<1>2. CASE KillListeners \/ WipeNet
  <2>1. /\ Fewer /\ lost' = lost /\ sh.pc \in {"ports", "wipe-data"} /\ sh'.pc \in {"wipe-data", "wipe-genesis"}
        /\ sh'.pc = "wipe-data" => pidFile' = pidFile
    BY <1>1, <1>2, Moves DEF KillListeners, WipeNet, Fewer, TypeOK, At
  <2>2. Live' \subseteq lost'
    BY <2>1, EmptiedNoneLive, FewerLive
  <2>3. Emptied'
    BY <2>1 DEF LiveInv, Emptied, At
  <2>. QED  BY <2>2, <2>3, NoneLive
<1>3. CASE RmArtifacts \/ HasInitialized \/ InitSecrets \/ BuildGenesis \/ Fingerprint \/ CheckPasses \/ CheckFails
           \/ PersistFingerprint \/ StartEnd
  <2>1. /\ UNCHANGED <<chain, pidFile, proc, lost>>
        /\ sh.pc \in {"wipe-genesis", "had", "secrets", "genesis", "fingerprint", "check", "persist", "end"}
    BY <1>3 DEF RmArtifacts, HasInitialized, InitSecrets, BuildGenesis, Fingerprint, CheckPasses, CheckFails,
         PersistFingerprint, StartEnd, history, At
  <2>2. sh'.pc \in {"had", "secrets", "genesis", "fingerprint", "check", "persist", "node", "idle"}
    <3>1. CASE HasInitialized
      BY <1>1, <3>1 DEF HasInitialized, TypeOK, Scripts
    <3>2. CASE InitSecrets \/ CheckPasses \/ PersistFingerprint
      BY <1>1, <3>2, Moves DEF InitSecrets, CheckPasses, PersistFingerprint, At
    <3>3. CASE BuildGenesis \/ RmArtifacts
      BY <1>1, <3>3, Moves DEF BuildGenesis, RmArtifacts
    <3>4. CASE Fingerprint
      BY <1>1, <3>4 DEF Fingerprint, TypeOK, Scripts
    <3>5. CASE CheckFails \/ StartEnd
      BY <1>1, <3>5, Moves DEF CheckFails, StartEnd
    <3>. QED  BY <1>3, <3>1, <3>2, <3>3, <3>4, <3>5
  <2>3. Fewer
    BY <2>1 DEF Fewer
  <2>. QED  BY <1>1, <2>1, <2>2, <2>3, LiveStays DEF At
<1>4. CASE StartNode
  <2>1. /\ pidFile' = pidFile /\ sh.pc = "node" /\ AfterNodes \in {"end", "copy"}
        /\ genesis # None /\ \A n \in Nodes : chain[n] \in {None, genesis}
    BY <1>4 DEF StartNode, AfterNodes, At, ChainInv, GenesisMade, ChainsSeen
  <2>2. CASE UNCHANGED <<proc, chain, lost>> /\ (NextNode(AfterNodes) \/ Exit)
    <3>1. sh'.pc \in {"node", "end", "copy", "idle"}
      BY <1>1, <2>1, <2>2, Moves
    <3>2. Fewer
      BY <2>2 DEF Fewer
    <3>. QED  BY <1>1, <2>1, <2>2, <3>1, <3>2, LiveStays DEF At
  <2>3. ASSUME NEW p \in Pids, proc[p] = Free, ~Alive(pidFile[sh.i]),
               proc' = [proc EXCEPT ![p] =
                  [kind |-> "node", node |-> sh.i, genesis |-> genesis, key |-> key[sh.i],
                   data |-> IF chain[sh.i] = None THEN genesis ELSE chain[sh.i]]],
               sh' = [sh EXCEPT !.pc = "write", !.pid = p],
               lost' = lost \ {p},
               chain' = [chain EXCEPT ![sh.i] = IF @ = None THEN genesis ELSE @]
        PROVE  LiveInv'
    <3>1. sh'.pc = "write" /\ sh'.pid = p /\ sh'.i = sh.i
      BY <1>1, <2>3 DEF TypeOK, Scripts
    <3>2. Emptied'
      BY <3>1 DEF Emptied, At
    <3>3. proc'[p].node = sh.i /\ proc'[p].genesis = genesis
      BY <1>1, <2>3 DEF TypeOK
    <3>4. \A q \in Live' \ lost' : q \in Pids /\ (q # p => q \in Live \ lost /\ proc'[q] = proc[q])
      BY <1>1, <2>3 DEF TypeOK, Live
    <3>5. chain'[sh.i] = genesis /\ \A n \in Nodes : chain[n] # None => chain'[n] = chain[n]
      BY <1>1, <2>1, <2>3 DEF TypeOK
    <3>6. HasPidFile'
      <4>1. \A q \in Live : Alive(q)
        BY DevnetAssumption DEF Live, Alive, Free
      <4>2. \A q \in Live \ lost : \E n \in Nodes : pidFile[n] = q /\ n # sh.i
        BY <2>1, <2>3, <4>1 DEF LiveInv, HasPidFile, At
      <4>. QED  BY <2>1, <3>1, <3>4, <4>2 DEF HasPidFile, At
    <3>7. \A q \in Live : proc[q].node \in Nodes /\ proc[q].genesis # None
      BY <1>1, ServersLive, NoneAssumption DEF Server, Live
    <3>8. \A q \in Live \ lost : chain[proc[q].node] = genesis /\ proc[q].genesis = genesis
      BY <2>1, <3>7 DEF LiveInv, OnDisk
    <3>9. OneChain'
      <4>1. \A q \in Live' \ lost' : proc'[q].genesis = genesis
        BY <3>3, <3>4, <3>8
      <4>. QED  BY <4>1 DEF OneChain
    <3>10. OnDisk'
      BY <2>1, <3>3, <3>4, <3>5, <3>7, <3>8 DEF OnDisk
    <3>. QED  BY <3>2, <3>6, <3>9, <3>10 DEF LiveInv
  <2>. QED  BY <1>4, <2>2, <2>3 DEF StartNode
<1>5. CASE WritePid
  <2>1. /\ UNCHANGED <<chain, proc, lost>> /\ sh.pc = "write" /\ sh'.pc \in {"node", "copy", "end"}
        /\ pidFile' = [pidFile EXCEPT ![sh.i] = sh.pid]
    BY <1>1, <1>5 DEF WritePid, AfterNodes, At, TypeOK, Scripts, history
  <2>2. pidFile'[sh.i] = sh.pid /\ \A n \in Nodes : n # sh.i => pidFile'[n] = pidFile[n]
    BY <1>1, <2>1 DEF TypeOK
  <2>3. Emptied'
    BY <2>1 DEF Emptied, At
  <2>4. HasPidFile'
    BY <1>1, <2>1, <2>2 DEF LiveInv, HasPidFile, Live, At
  <2>5. OnDisk' /\ OneChain'
    BY <2>1 DEF LiveInv, OnDisk, OneChain, Live
  <2>. QED  BY <2>3, <2>4, <2>5 DEF LiveInv
<1>. QED  BY <1>2, <1>3, <1>4, <1>5 DEF Start

LEMMA InitLive ==
  Init => LiveInv
BY DEF Init, Idle, Free, Live, LiveInv, Emptied, HasPidFile, OnDisk, OneChain, At

LEMMA StepLive ==
  ChainInv /\ LiveInv /\ [Next]_vars => LiveInv'
<1>. SUFFICES ASSUME ChainInv, LiveInv, [Next]_vars PROVE LiveInv'
  OBVIOUS
<1>1. CASE UNCHANGED vars
  BY <1>1 DEF vars, disk, pids, history, LiveInv, Emptied, HasPidFile, OnDisk, OneChain, Live, At
<1>2. CASE Next
  BY <1>2, UserLive, UpLive, DownLive, StartLive, MachineLive DEF Next, Script
<1>. QED  BY <1>1, <1>2

-----------------------------------------------------------------------------

\* The invariant of the scripts: what a start has made and seen when it comes
\* to a place, which keys the genesis names, and what the pid files say of
\* the nodes that run.
THEOREM DevnetInvHolds ==
  Spec => []DevnetInv
<1>1. Init => DevnetInv
  BY InitChain, InitKeys, InitLive DEF DevnetInv
<1>2. DevnetInv /\ [Next]_vars => DevnetInv'
  BY StepChain, StepKeys, StepLive DEF DevnetInv
<1>. QED  BY <1>1, <1>2, PTL DEF Spec

\* No node runs on the data of another chain, whatever the commands,
\* interrupts and deaths (devnet-ibft4.sh:192-218).
THEOREM NodesStayOnTheirChain ==
  Spec => []NodeOnItsChain
<1>1. DevnetInv => NodeOnItsChain
  BY DEF DevnetInv, ChainInv
<1>. QED  BY <1>1, DevnetInvHolds, PTL

\* A stored fingerprint is that of the chain in the directory
\* (devnet-ibft4.sh:161-170).
THEOREM FingerprintsStayTrue ==
  Spec => []FingerprintsTrue
<1>1. DevnetInv => FingerprintsTrue
  BY DEF DevnetInv, ChainInv
<1>. QED  BY <1>1, DevnetInvHolds, PTL

\* Only start_node makes a node run that did not.
LEMMA OnlyStartNode ==
  ASSUME TypeOK, [Next]_vars, NEW p \in Pids, p \notin Live, p \in Live'
  PROVE  StartNode
<1>. USE DEF disk, pids
<1>1. ~Fewer
  BY FewerLive
<1>2. CASE UNCHANGED vars
  BY <1>1, <1>2 DEF vars, Fewer
<1>3. ASSUME Begin \/ Clean \/ CleanData \/ Interrupt PROVE FALSE
  BY <1>1, <1>3 DEF Begin, Clean, CleanData, Interrupt, Fewer
<1>4. ASSUME Up PROVE FALSE
  BY <1>1, <1>4 DEF Up, UpReset, UpPid, UpRpc, UpCopy, UpWait, Fewer
<1>5. ASSUME Down PROVE FALSE
  BY <1>1, <1>5 DEF Down, DownKill, StopNode, DownEnd, RmGenesis, RmData, Fewer, TypeOK
<1>6. ASSUME NEW q \in Pids, Dies(q) \/ Reused(q) PROVE FALSE
  BY <1>1, <1>6 DEF Dies, Reused, Fewer, TypeOK
<1>7. ASSUME KillListeners \/ WipeNet \/ RmArtifacts PROVE FALSE
  BY <1>1, <1>7 DEF KillListeners, WipeNet, RmArtifacts, Fewer, TypeOK
<1>8. ASSUME HasInitialized \/ InitSecrets \/ BuildGenesis \/ Fingerprint \/ CheckPasses \/ CheckFails
             \/ PersistFingerprint \/ WritePid \/ StartEnd
      PROVE  FALSE
  BY <1>1, <1>8 DEF HasInitialized, InitSecrets, BuildGenesis, Fingerprint, CheckPasses, CheckFails,
       PersistFingerprint, WritePid, StartEnd, Fewer
<1>. QED  BY <1>2, <1>3, <1>4, <1>5, <1>6, <1>7, <1>8 DEF Next, Script, Start

\* Nodes are started with the keys their genesis names, whatever happened
\* before; data that was removed without genesis.json can part them only
\* until a reset has removed both (devnet-ibft4.sh:106-122, :221-239).
THEOREM ValidatorsStayInGenesis ==
  Spec => ValidatorsInGenesis
<1>. DEFINE Named(p) == proc'[p].key = proc'[p].genesis.keys[proc'[p].node]
<1>1. ASSUME DevnetInv, [Next]_vars, ~parted, NEW p \in Pids, p \notin Live, p \in Live' PROVE Named(p)
  <2>1. StartNode /\ TypeOK
    BY <1>1, OnlyStartNode DEF DevnetInv, ChainInv
  <2>2. genesis \notin {None, Broken} /\ key = genesis.keys
    BY <1>1, <2>1 DEF StartNode, At, DevnetInv, KeyInv, FileOK, BrokenUnused, ChainInv, GenesisMade
  <2>3. PICK q \in Pids : proc' = [proc EXCEPT ![q] =
              [kind |-> "node", node |-> sh.i, genesis |-> genesis, key |-> key[sh.i],
               data |-> IF chain[sh.i] = None THEN genesis ELSE chain[sh.i]]]
    BY <1>1, <2>1 DEF StartNode, Live
  <2>4. p = q
    BY <1>1, <2>1, <2>3 DEF TypeOK, Live
  <2>5. proc'[p].key = key[sh.i] /\ proc'[p].genesis = genesis /\ proc'[p].node = sh.i
    BY <2>1, <2>3, <2>4 DEF TypeOK
  <2>. QED  BY <2>2, <2>5
<1>2. DevnetInv /\ [Next]_vars => [\A p \in Pids : p \notin Live /\ p \in Live' /\ ~parted => Named(p)]_vars
  BY <1>1
<1>. QED  BY <1>2, DevnetInvHolds, PTL DEF Spec, ValidatorsInGenesis

\* All nodes that run are on one chain, but for those that were lost
\* (devnet-ibft4-stop.sh:65-89).
THEOREM NodesShareOneChain ==
  Spec => []OneChain
<1>1. DevnetInv => OneChain
  BY DEF DevnetInv, LiveInv
<1>. QED  BY <1>1, DevnetInvHolds, PTL

\* When down.sh says so, the devnet is stopped: only nodes that were lost run
\* (down.sh:32-48).
THEOREM StoppedIsStopped ==
  Spec => DownStopsAll
<1>1. DevnetInv /\ [Next]_vars => [DownEnd /\ sh.cmd = "down" /\ devnetPid' = 0 => Live \subseteq lost]_vars
  <2>. SUFFICES ASSUME DevnetInv, DownEnd PROVE Live \subseteq lost
    OBVIOUS
  <2>1. sh.pc = "stopped"
    BY DEF DownEnd, At
  <2>. QED  BY <2>1, EmptiedNoneLive DEF DevnetInv
<1>. QED  BY <1>1, DevnetInvHolds, PTL DEF Spec, DownStopsAll
=============================================================================
