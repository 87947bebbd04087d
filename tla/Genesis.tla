------------------------------ MODULE Genesis ------------------------------
(***************************************************************************)
(* Runs of `qikchain genesis build` and `chain metadata`, one after        *)
(* another, and the files they leave: who calls them with which arguments, *)
(* the order of the outputs, and what is left when a run is killed or a    *)
(* write fails.                                                            *)
(***************************************************************************)
EXTENDS GenesisTools

CONSTANTS Asks,       \* what users ask the callers for
          Inputs,     \* what may be in config, build and bin
          MaxBuilds,
          NoBuild

ASSUME GenesisAssumption == MaxBuilds \in Nat

VARIABLES files,      \* path |-> [by, doc]: which build wrote it, and what
          build,      \* the run that is writing: what it still has to write
          log         \* the runs that got to writing, and what they were given

vars == <<files, build, log>>

----------------------------------------------------------------------------
(* The callers *)

OutArgs(dir, chain, eth) ==
  <<Arg("out-chain", <<dir, chain>>), Arg("out-genesis", <<dir, eth>>)>>

\* Makefile, targets genesis-poa and genesis-pos.
MakeGenesis(ask) ==
  <<Arg("consensus", ask.consensus), Arg("env", ask.env), Arg("chain-id", ask.chainID)>>
    \o (IF ask.consensus = "pos" THEN <<Arg("pos-deployments", "pos.local.json")>> ELSE <<>>)
    \o OutArgs("build", "chain.json", "genesis-eth.json")

\* scripts/generate-genesis.sh, with or without --dry-run.
GenerateGenesis(ask) ==
  <<Arg("consensus", ask.consensus), Arg("env", ask.env), Arg("base-fee-enabled", ask.baseFee),
    Arg("pos-deployments", "pos.local.json")>>
    \o OutArgs("build", "chain.json", "genesis-eth.json") \o <<Arg("metadata-out", <<"build", "chain-metadata.json">>)>>
    \o (IF ask.chainID = 0 THEN <<>> ELSE <<Arg("chain-id", ask.chainID)>>)
    \o (IF ~ask.dryRun THEN <<>>
        ELSE OutArgs("tmp", "chain.json", "genesis-eth.json") \o <<Arg("metadata-out", <<"tmp", "chain-metadata.json">>)>>)

\* scripts/docker-devnet-entrypoint.sh.
DockerGenesis(ask) ==
  <<Arg("consensus", ask.consensus), Arg("env", ask.env), Arg("chain-id", ask.chainID),
    Arg("base-fee-enabled", ask.baseFee), Arg("out-combined", <<"build", "genesis.json">>)>>
    \o OutArgs("build", "chain.json", "genesis-eth.json") \o <<Arg("metadata-out", <<"build", "chain-metadata.json">>)>>
    \o (IF ask.consensus = "pos" THEN <<Arg("pos-deployments", "pos.local.json")>> ELSE <<>>)

\* Somebody at a prompt.
ByHand(ask) == <<Arg("consensus", ask.consensus), Arg("env", ask.env)>> \o ask.more

CommandLine(ask) ==
  CASE ask.caller = "make" -> MakeGenesis(ask)
    [] ask.caller = "script" -> GenerateGenesis(ask)
    [] ask.caller = "docker" -> DockerGenesis(ask)
    [] ask.caller = "hand" -> ByHand(ask)

----------------------------------------------------------------------------
(* The outputs *)

\* MUTANT: the chain configuration is written first.
OutputsChainFirst(o, combined) ==
  <<[path |-> o["out-chain"], doc |-> ChainDoc(combined, o["out-genesis"])],
    [path |-> o["out-genesis"], doc |-> Sub(combined, <<"genesis">>)],
    [path |-> o["out-combined"], doc |-> combined],
    [path |-> o["metadata-out"], doc |-> Just(Str("token"))]>>

\* What WriteOutputs writes, in its order: chain.json names the file of the
\* genesis, and the addresses go beside it.
Outputs(o, combined) ==
  <<[path |-> o["out-genesis"], doc |-> Sub(combined, <<"genesis">>)],
    [path |-> o["out-combined"], doc |-> combined],
    [path |-> o["out-chain"], doc |-> ChainDoc(combined, o["out-genesis"])],
    [path |-> o["metadata-out"], doc |-> Just(Str("token"))]>>
  \o (IF o["consensus"] = "pos"
      THEN <<[path |-> <<o["out-chain"][1], "pos-addresses.json">>, doc |-> Just(Str("addresses"))]>>
      ELSE <<>>)

Writing == build # NoBuild

Init ==
  /\ files = <<>>
  /\ build = NoBuild
  /\ log = <<>>

\* All inputs are read, and the whole document is made and validated, before
\* anything is written; a run that fails until then leaves no trace.
Build(ask, input) ==
  /\ ~Writing /\ Len(log) < MaxBuilds
  /\ LET o == Options(CommandLine(ask))
         combined == Combined(o, input)
     IN /\ BuildOk(o, input, combined)
        /\ build' = [todo |-> Outputs(o, combined), open |-> FALSE]
        /\ log' = Append(log, [ask |-> ask, input |-> input, options |-> o, total |-> TotalPremine(input.alloc)])
  /\ UNCHANGED files

\* `chain metadata --out`, which writes the one file by itself, whatever
\* token it describes.
ChainMetadata(token, path) ==
  /\ ~Writing /\ Len(log) < MaxBuilds
  /\ build' = [todo |-> <<[path |-> path, doc |-> Just(Str(token))]>>, open |-> FALSE]
  /\ log' = Append(log, [metadata |-> token])
  /\ UNCHANGED files

PutFile(path, doc) ==
  files' = [p \in DOMAIN files \cup {path} |-> IF p = path THEN [by |-> Len(log), doc |-> doc] ELSE files[p]]

\* os.WriteFile empties the file first, and then writes.
Truncate ==
  /\ Writing /\ ~build.open
  /\ PutFile(Head(build.todo).path, Torn)
  /\ build' = [build EXCEPT !.open = TRUE]
  /\ UNCHANGED log

WriteOut ==
  /\ Writing /\ build.open
  /\ PutFile(Head(build.todo).path, Head(build.todo).doc)
  /\ build' = IF Len(build.todo) = 1 THEN NoBuild ELSE [todo |-> Tail(build.todo), open |-> FALSE]
  /\ UNCHANGED log

\* The run is killed, or a write fails and the rest is not written.
Abort ==
  /\ Writing
  /\ build' = NoBuild
  /\ UNCHANGED <<files, log>>

Next ==
  \/ \E ask \in Asks, input \in Inputs : Build(ask, input)
  \/ \E token \in {"token", "another token"} : ChainMetadata(token, <<"build", "chain-metadata.json">>)
  \/ Truncate \/ WriteOut \/ Abort

Spec == Init /\ [][Next]_vars
=============================================================================
