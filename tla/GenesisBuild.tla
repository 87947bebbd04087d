---------------------------- MODULE GenesisBuild ----------------------------
(***************************************************************************)
(* What `qikchain genesis build` computes: reading the command line,       *)
(* verifying and rendering allocations, filling and merging template and   *)
(* consensus overlay, the fork schedule, and the validation that `genesis  *)
(* validate` does as well.                                                 *)
(*                                                                         *)
(* A path of the file system is a pair of directory and name.  An address  *)
(* is its 40 digits in lower case and whether it was spelled otherwise; an *)
(* amount is its number and its sign as written.                           *)
(***************************************************************************)
EXTENDS JsonDoc, Sums

ZeroAddress == "00"
NoAddress == "none"

----------------------------------------------------------------------------
(* Command line (package flag) *)

Arg(flag, value) == [flag |-> flag, value |-> value, joined |-> FALSE]
ArgEq(flag, value) == [flag |-> flag, value |-> value, joined |-> TRUE]

BoolFlags == {"base-fee-enabled", "strict", "accept-legacy-consensus", "allow-missing-pos-addresses"}
BuildFlags ==
  BoolFlags \cup {"consensus", "env", "chain-id", "pos-deployments", "out-combined", "out-chain",
                  "out-genesis", "metadata-out", "gas-limit", "block-gas-limit", "difficulty"}

Default(flag) ==
  CASE flag = "consensus" -> "poa"
    [] flag = "env" -> "devnet"
    [] flag = "chain-id" -> 0
    [] flag = "strict" -> TRUE
    [] flag \in BoolFlags \ {"strict"} -> FALSE
    [] flag = "gas-limit" -> "0x1c9c380"
    [] flag = "block-gas-limit" -> ""
    [] flag = "difficulty" -> "0x1"
    [] flag = "pos-deployments" -> "pos.local.json"
    [] flag = "out-combined" -> <<"build", "genesis.json">>
    [] flag = "out-chain" -> <<"build", "chain.json">>
    [] flag = "out-genesis" -> <<"build", "genesis-eth.json">>
    [] flag = "metadata-out" -> <<"build", "chain-metadata.json">>

\* A boolean flag takes no word after it: the word is an operand, and
\* parsing ends at the first operand.
Parsed(args) ==
  LET ends == {i \in DOMAIN args : args[i].flag \in BoolFlags /\ ~args[i].joined}
  IN IF ends = {} THEN args ELSE SubSeq(args, 1, Min(ends))

Options(args) ==
  LET taken == Parsed(args)
      given(f) == {i \in DOMAIN taken : taken[i].flag = f}
      value(a) == IF a.flag \in BoolFlags /\ ~a.joined THEN TRUE ELSE a.value
  IN [f \in BuildFlags |-> IF given(f) = {} THEN Default(f) ELSE value(taken[Max(given(f))])]

\* The old flag goes before the new one.
GasLimit(o) == IF o["block-gas-limit"] # "" THEN o["block-gas-limit"] ELSE o["gas-limit"]

\* toHexQuantity: decimal digits become hexadecimal ones; what is neither is
\* an error.
HexQuantities == {"0x1", "0x1c9c380"}
IsQuantity(text) == text \in HexQuantities \cup {"30000000"}
ToHexQuantity(text) == IF text = "30000000" THEN "0x1c9c380" ELSE text

\* Exit status 2: a wrong mode, no number, or a main network without an id.
UsageOk(o) ==
  /\ IsQuantity(GasLimit(o)) /\ IsQuantity(o["difficulty"])
  /\ o["consensus"] \in {"poa", "pos"} /\ o["env"] \in {"devnet", "staging", "mainnet"}
  /\ o["env"] = "mainnet" => o["chain-id"] # 0

ChainID(o) == IF o["chain-id"] # 0 THEN o["chain-id"] ELSE IF o["env"] = "devnet" THEN 100 ELSE 101

----------------------------------------------------------------------------
(* Allocations: a set of bucket names among the names of the entries *)

Normalized(a, allowZero) ==
  IF a.hex = ZeroAddress /\ ~allowZero THEN NoAddress ELSE a.hex

ParsesAsDecimal(amount) == amount.sign = "-" => amount.wei = 0

\* MUTANT: duplicates are looked for before letters are made small.
VerifyAsSpelled(cfg, allowZero) ==
  LET address(e) == Normalized(cfg.entries[e].address, allowZero) IN
  /\ cfg.meta /\ cfg.buckets # {}
  /\ \A e \in DOMAIN cfg.entries : address(e) # NoAddress /\ ParsesAsDecimal(cfg.entries[e].amount)
  /\ \A e, f \in DOMAIN cfg.entries : cfg.entries[e].address = cfg.entries[f].address => e = f

Verify(cfg, allowZero) ==
  LET address(e) == Normalized(cfg.entries[e].address, allowZero) IN
  /\ cfg.meta /\ cfg.buckets # {}
  /\ \A e \in DOMAIN cfg.entries : address(e) # NoAddress /\ ParsesAsDecimal(cfg.entries[e].amount)
  /\ \A e, f \in DOMAIN cfg.entries : address(e) = address(f) => e = f

\* The text is a JSON object with one key per address, so of two entries
\* with one address whoever reads it keeps one.
RenderAllocMap(cfg) ==
  LET rendered == {Normalized(cfg.entries[e].address, TRUE) : e \in DOMAIN cfg.entries}
      entry(a) == CHOOSE e \in DOMAIN cfg.entries : Normalized(cfg.entries[e].address, TRUE) = a
  IN [p \in {<<>>} \cup {<<a>> : a \in rendered} \cup {<<a, "balance">> : a \in rendered} |->
        IF Len(p) < 2 THEN Obj ELSE Str(cfg.entries[entry(p[1])].amount)]

TotalPremine(cfg) == Sum([e \in DOMAIN cfg.entries |-> cfg.entries[e].amount.wei], DOMAIN cfg.entries)

----------------------------------------------------------------------------
(* Forks.  host: what is in third_party and bin, each as the set of fork   *)
(* names found in it, or "missing".                                        *)

CONSTANTS DesiredForks, FallbackForks, Missing

ASSUME ForkAssumption == FallbackForks \subseteq DesiredForks /\ DesiredForks \subseteq STRING

DetectFromChainPackage(host) ==
  IF host.chainDir = Missing THEN {}
  ELSE IF host.chainDir # {} THEN host.chainDir ELSE host.tree \cap DesiredForks

DetectSupportedForks(host) ==
  IF DetectFromChainPackage(host) # {} THEN DetectFromChainPackage(host)
  ELSE IF host.binary \notin {Missing, {}} THEN host.binary ELSE FallbackForks

EnsureParamsForks(doc, env, supported) ==
  LET forks == IF env # "devnet" THEN {} ELSE IF supported = {} THEN DesiredForks ELSE DesiredForks \cap supported
      schedule == [p \in {<<>>} \cup {<<f>> : f \in forks} \cup {<<f, "block">> : f \in forks} |->
                     IF Len(p) < 2 THEN Obj ELSE Num(0)]
      d == PutIfNoObject(doc, <<"params">>)
  IN IF IsObject(d, <<"params", "forks">>) THEN d ELSE Put(d, <<"params", "forks">>, schedule)

----------------------------------------------------------------------------
(* Validation.  files: what is on disk, each a document or Torn.           *)

Torn == Just([kind |-> "torn"])
LegacyKeys == {"consensus", "consensusMode", "pos", "consensusRaw"}

\* An amount that carries a sign is not what a balance may look like.
ValidateEthereumGenesis(doc) ==
  /\ IsObject(doc, <<"alloc">>)
  /\ \A a \in Keys(doc, <<"alloc">>) :
       a # NoAddress /\ IsString(doc, <<"alloc", a, "balance">>)
         /\ doc[<<"alloc", a, "balance">>].value.sign = ""
  /\ \A field \in {"gasLimit", "difficulty", "extraData"} : IsString(doc, <<field>>)
  /\ At(doc, <<"baseFeeEnabled">>).kind = "bool"

ValidateForks(doc) ==
  LET forks == <<"params", "forks">> IN
  /\ IsObject(doc, forks)
  /\ \A f \in Keys(doc, forks) : At(doc, forks \o <<f, "block">>).kind = "number"

ValidateEngine(doc, o) ==
  LET ibft == <<"params", "engine", "ibft">> IN
  /\ IsObject(doc, <<"params", "engine">>)
  /\ IF IsObject(doc, ibft) THEN At(doc, ibft \o <<"type">>) \in {Str("PoA"), Str("PoS")}
     ELSE o["accept-legacy-consensus"] /\ At(doc, <<"consensus", "type">>) = Str("ibft")

\* The genesis of a chain is an object, or the path of a file; one that does
\* not exist is not looked at.
ValidateGenesisField(doc, files) ==
  LET g == At(doc, <<"genesis">>) IN
  \/ g.kind = "object" /\ ValidateEthereumGenesis(Sub(doc, <<"genesis">>))
  \/ g.kind \in {"hole", "mixed"}
  \/ g.kind = "string" /\ (g.value \in DOMAIN files => ValidateEthereumGenesis(files[g.value]))

ValidateChainConfig(doc, o, files) ==
  /\ ~(o["strict"] /\ Keys(doc, <<>>) \cap LegacyKeys # {})
  /\ IsObject(doc, <<"params">>)
  /\ \E id \in {"chainID", "chainId"} : At(doc, <<"params", id>>).kind = "number"
  /\ ValidateForks(doc) /\ ValidateEngine(doc, o) /\ ValidateGenesisField(doc, files)

\* The command `genesis validate --chain`.
Validate(doc, o, files) ==
  /\ doc # Torn
  /\ IF <<"alloc">> \in DOMAIN doc THEN ValidateEthereumGenesis(doc) ELSE ValidateChainConfig(doc, o, files)

----------------------------------------------------------------------------
(* Build.  input: the template, the overlay of each mode, whether token    *)
(* metadata are the required ones, the allocations, the deployment files   *)
(* that exist with both addresses, and the host.                           *)

PlaceholderPath == <<"", "__GENESIS_PATH__">>
PosHoles == [STAKING_ADDRESS |-> Hole("STAKING_ADDRESS"), VALIDATOR_SET_ADDRESS |-> Hole("VALIDATOR_SET_ADDRESS")]

\* Without the file of deployments the placeholders stand for themselves.
PosAddresses(o, input) ==
  IF o["pos-deployments"] \in DOMAIN input.deployments THEN input.deployments[o["pos-deployments"]] ELSE PosHoles

Placeholders(o, input) ==
  LET base == [CHAIN_ID |-> Just(Num(ChainID(o))), BLOCK_GAS_LIMIT |-> Just(Str(ToHexQuantity(GasLimit(o)))),
               GENESIS_DIFFICULTY |-> Just(Str(ToHexQuantity(o["difficulty"]))), MIN_GAS_PRICE |-> Just(Str("price")),
               BASE_FEE_ENABLED |-> Just(Bool(o["base-fee-enabled"])),
               PREALLOCATIONS |-> RenderAllocMap(input.alloc),
               POS_BLOCK_REWARD |-> Just(Str("0")), VALIDATOR_EXTRA_DATA |-> Just(Str("extra"))]
      pos == PosAddresses(o, input)
  IN IF o["consensus"] # "pos" THEN base
     ELSE [k \in DOMAIN base \cup DOMAIN pos |-> IF k \in DOMAIN pos THEN Just(pos[k]) ELSE base[k]]

\* MUTANT: only the newest of the old keys is removed.
RemoveConsensusRaw(doc) == Without(doc, <<"consensusRaw">>)

RemoveForbiddenTopLevelKeys(doc) ==
  [p \in {q \in DOMAIN doc : q = <<>> \/ Head(q) \notin LegacyKeys} |-> doc[p]]

\* MUTANT: what the merge made of the engine stays.
KeepMergedEngine(doc, overlay) == PutIfNoObject(PutIfNoObject(doc, <<"params">>), <<"params", "engine">>)

\* Every key of the overlay's engine replaces the merged one as a whole.
EnsureParamsEngineIBFT(doc, overlay) ==
  LET engine == <<"params", "engine">>
      d == PutIfNoObject(PutIfNoObject(doc, <<"params">>), engine)
      mine(p) == Len(p) > 2 /\ IsPrefix(engine, p) /\ p[3] \in Keys(overlay, engine)
  IN IF ~IsObject(overlay, engine) THEN d
     ELSE [p \in {q \in DOMAIN d : ~mine(q)} \cup {q \in DOMAIN overlay : mine(q)} |->
             IF mine(p) THEN overlay[p] ELSE d[p]]

Combined(o, input) ==
  LET values == Placeholders(o, input)
      base == ApplyPlaceholders(input.template, values)
      overlay == ApplyPlaceholders(input.overlays[o["consensus"]], values)
      merged == RemoveForbiddenTopLevelKeys(DeepMerge(base, overlay))
  IN EnsureParamsForks(EnsureParamsEngineIBFT(merged, overlay), o["env"], DetectSupportedForks(input.host))

ChainDoc(combined, path) == Put(combined, <<"genesis">>, Just(Str(path)))

\* What must hold for Build to return no error.
BuildOk(o, input, combined) ==
  LET values == Placeholders(o, input) IN
  /\ UsageOk(o) /\ input.token /\ Verify(input.alloc, FALSE)
  /\ \/ o["consensus"] # "pos" \/ o["allow-missing-pos-addresses"]
     \/ o["pos-deployments"] \in DOMAIN input.deployments
  /\ o["strict"] => /\ Unresolved(input.template, values) = {}
                    /\ Unresolved(input.overlays[o["consensus"]], values) = {}
  /\ IsObject(combined, <<"genesis">>)
  /\ ValidateChainConfig(ChainDoc(combined, PlaceholderPath), o, <<>>)
  /\ ValidateEthereumGenesis(Sub(combined, <<"genesis">>))
=============================================================================
