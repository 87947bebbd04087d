--------------------------- MODULE GenesisSafety ---------------------------
(***************************************************************************)
(* What must hold of the files that runs of `qikchain genesis build`       *)
(* leave, and what it takes of the command lines and of the configuration. *)
(***************************************************************************)
EXTENDS Genesis

----------------------------------------------------------------------------
(* Who is asked for what *)

\* The files that somebody asks for, by what they are to hold.
Named(flag) == {Options(CommandLine(ask))[flag] : ask \in Asks}
EthFiles == Named("out-genesis")
ChainFiles == Named("out-chain")
CombinedFiles == Named("out-combined")
OtherFiles ==
  Named("metadata-out") \cup {<<"build", "chain-metadata.json">>} \cup {<<p[1], "pos-addresses.json">> : p \in ChainFiles}

\* No path is given for two kinds of output, and none is empty.
ASSUME NamesAssumption ==
  /\ EthFiles \cap ChainFiles = {} /\ EthFiles \cap CombinedFiles = {} /\ ChainFiles \cap CombinedFiles = {}
  /\ OtherFiles \cap (EthFiles \cup ChainFiles \cup CombinedFiles) = {}
  /\ NoPath \notin EthFiles \cup ChainFiles \cup CombinedFiles

----------------------------------------------------------------------------
(* The configuration *)

EnginePath == <<"params", "engine">>
IbftPath == <<"params", "engine", "ibft">>

\* A template or an overlay is a JSON object, and leaves the allocations to
\* the genesis.
IsConfig(doc) ==
  /\ DOMAIN doc \subseteq Seq(STRING) /\ IsTree(doc) /\ doc[<<>>] = Obj
  /\ <<"alloc">> \notin DOMAIN doc

\* Nothing is said of the engine, and nothing is filled in there.
NoEngine(doc) == IbftPath \notin DOMAIN doc /\ At(doc, EnginePath) \in {Obj, Absent} /\ At(doc, <<"params">>) \in {Obj, Absent}

\* The genesis of the template takes its allocations from the placeholder
\* (config/genesis.template.json:8), overlays say nothing of the genesis, and
\* what the engine is, an overlay says, or nobody (config/consensus).
ASSUME InputsAssumption ==
  \A input \in Inputs :
    /\ IsConfig(input.template) /\ At(input.template, <<"genesis", "alloc">>) = Hole("PREALLOCATIONS")
    /\ \A mode \in {"poa", "pos"} :
         LET overlay == input.overlays[mode] IN
         /\ IsConfig(overlay) /\ <<"genesis">> \notin DOMAIN overlay
         /\ IbftPath \in DOMAIN overlay \/ (NoEngine(overlay) /\ NoEngine(input.template))
    /\ \A file \in DOMAIN input.deployments : DOMAIN input.deployments[file] = {"STAKING_ADDRESS", "VALIDATOR_SET_ADDRESS"}
    /\ input.alloc # Missing
    /\ IsFiniteSet(DOMAIN input.alloc.entries)
    /\ \A e \in DOMAIN input.alloc.entries :
         LET entry == input.alloc.entries[e] IN entry.address.hex \in STRING /\ entry.amount.wei \in Nat

----------------------------------------------------------------------------
(* Properties *)

Complete(p) == p \in DOMAIN files /\ files[p].doc # Torn
Doc(p) == files[p].doc
Origin(p) == log[files[p].by]

\* A chain configuration on disk never names a genesis that is not there or
\* is older than itself, wherever runs were killed (build.go:277-305).
ChainNamesItsGenesis ==
  \A p \in ChainFiles : Complete(p) =>
    LET g == Doc(p)[<<"genesis">>].value IN g \in DOMAIN files /\ files[g].by >= files[p].by

\* Whatever a build wrote, also with validation relaxed, `genesis validate`
\* accepts with its strict default, the way the Makefile (line 347), the
\* container (docker-devnet-entrypoint.sh:119) and the usage text call it;
\* and it refuses a file that is torn, as `genesis print` does
\* (validate.go:30, build.go:137, qikchain/main.go:344-453).
OutputsValidate ==
  LET contents == [p \in DOMAIN files |-> Doc(p)]
      exit(chain, genesis) == GenesisValidate([ValidateLine EXCEPT !.chain = chain, !.genesis = genesis], contents)
  IN /\ \A p \in CombinedFiles : Complete(p) => exit(p, NoPath) = 0
     /\ \A p \in ChainFiles : Complete(p) /\ Complete(Doc(p)[<<"genesis">>].value) =>
          exit(p, NoPath) = 0 /\ exit(p, Doc(p)[<<"genesis">>].value) = 0
     /\ \A p \in DOMAIN files \ {NoPath} : ~Complete(p) =>
          /\ exit(p, NoPath) = 1 /\ \A q \in EthFiles : exit(q, p) = 1
          /\ GenesisValidate([ValidateLine EXCEPT !.file = p], contents) = 1
          /\ GenesisPrint(p, FALSE, contents).exit = 1

\* What a chain says of IBFT (params.engine.ibft) is what the overlay of its
\* mode says and nothing a template adds to it: a chain switched from pos to
\* poa keeps no staking.  Whatever else a template has under params.engine
\* stays beside it (build.go:183-204).
EngineIsTheOverlays ==
  \A p \in ChainFiles \cup CombinedFiles : Complete(p) =>
    LET o == Origin(p).options
        overlay == ApplyPlaceholders(Origin(p).input.overlays[o["consensus"]], Placeholders(o, Origin(p).input))
    IN Sub(Doc(p), IbftPath) = Sub(overlay, IbftPath)

\* The genesis pays every configured account, once, and in sum what the
\* build reports as the premine; and `allocations verify`, `render` and
\* `report`, asked about the same file, agree with it (render.go:22-47,
\* report.go:29-64, validate.go:41-96, qikchain/main.go:455-575).
PremineIsReported ==
  \A p \in EthFiles : Complete(p) =>
    LET cfg == Origin(p).input.alloc
        accounts == Keys(Doc(p), <<"alloc">>)
        balance == [a \in accounts |-> Doc(p)[<<"alloc", a, "balance">>].value]
    IN /\ accounts = {cfg.entries[e].address.hex : e \in DOMAIN cfg.entries}
       /\ Sum([a \in accounts |-> balance[a].wei], accounts) = Origin(p).total
       /\ \A a \in accounts : balance[a].sign = ""
       /\ AllocationsVerify(TRUE, cfg, FALSE) = 0
       /\ AllocationsRender(TRUE, cfg) = Answer(0, Sub(Doc(p), <<"alloc">>))
       /\ LET report == AllocationsReport(TRUE, cfg, FALSE, "read").printed IN
            /\ report.total = Origin(p).total
            /\ \A a \in accounts : \E e \in DOMAIN report.lines :
                 report.lines[e] = [address |-> a, wei |-> balance[a].wei]

\* BASE_FEE_ENABLED is a toggle with the default false (README.md:366): a
\* genesis has the base fee its caller was asked for.
BaseFeeAsAsked ==
  \A p \in EthFiles : Complete(p) /\ Origin(p).ask.caller \in {"script", "docker"} =>
    Doc(p)[<<"baseFeeEnabled">>] = Bool(Origin(p).ask.baseFee)
=============================================================================
