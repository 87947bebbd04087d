----------------------------- MODULE MCGenesis -----------------------------
(***************************************************************************)
(* Genesis on the shipped configuration and on variations of each part of  *)
(* it.                                                                     *)
(***************************************************************************)
EXTENDS GenesisSafety, TLC

----------------------------------------------------------------------------
(* The shipped files *)

Inner(leaves) == UNION {Prefixes(p) : p \in DOMAIN leaves}
Tree(leaves) == [p \in Inner(leaves) \cup DOMAIN leaves |-> IF p \in DOMAIN leaves THEN leaves[p] ELSE Obj]

Template == Tree(
  <<"name">> :> Str("qikchain") @@ <<"genesis", "gasLimit">> :> Hole("BLOCK_GAS_LIMIT")
  @@ <<"genesis", "difficulty">> :> Hole("GENESIS_DIFFICULTY")
  @@ <<"genesis", "baseFeeEnabled">> :> Hole("BASE_FEE_ENABLED")
  @@ <<"genesis", "extraData">> :> Hole("VALIDATOR_EXTRA_DATA")
  @@ <<"genesis", "alloc">> :> Hole("PREALLOCATIONS") @@ <<"params", "chainID">> :> Hole("CHAIN_ID")
  @@ <<"params", "minGasPrice">> :> Hole("MIN_GAS_PRICE") @@ <<"params", "engine">> :> Obj)

Ibft(key) == <<"params", "engine", "ibft", key>>
IbftTree(leaves) == Tree(leaves) @@ <<"params", "engine", "ibft">> :> Obj
Overlays == [
  poa |-> IbftTree(Ibft("type") :> Str("PoA")),
  pos |-> IbftTree(Ibft("type") :> Str("PoS") @@ Ibft("staking") :> Hole("STAKING_ADDRESS")
                   @@ Ibft("validatorSetContract") :> Hole("VALIDATOR_SET_ADDRESS"))]

Entry(hex, upper, wei, sign) ==
  [address |-> [hex |-> hex, upper |-> upper], amount |-> [wei |-> wei, sign |-> sign]]
Allocations == [meta |-> TRUE, buckets |-> {"treasury"},
                entries |-> [treasury |-> Entry("a1", FALSE, 2, ""), operator |-> Entry("b2", FALSE, 1, ""),
                             deployer |-> Entry("c3", TRUE, 1, "")]]
With(e, entry) == [Allocations EXCEPT !.entries[e] = entry]

Shipped == [template |-> Template, overlays |-> Overlays, token |-> TRUE, alloc |-> Allocations,
            deployments |-> "pos.local.json" :> [STAKING_ADDRESS |-> Str("0xaa"), VALIDATOR_SET_ADDRESS |-> Str("0xbb")],
            host |-> [chainDir |-> Missing, tree |-> {}, binary |-> Missing]]

----------------------------------------------------------------------------
(* Variations of one part at a time *)

Templates == {
  Tree([p \in DOMAIN Template \ {<<"genesis", "difficulty">>} |-> Template[p]]),
  Template @@ <<"params", "forks">> :> Obj @@ <<"params", "forks", "london">> :> Obj
    @@ <<"params", "forks", "london", "block">> :> Num(5),
  Template @@ <<"params", "forks">> :> Obj @@ <<"params", "forks", "london">> :> Num(5),
  Template @@ <<"params", "engine", "ibft">> :> Obj @@ Ibft("type") :> Str("PoS") @@ Ibft("epochSize") :> Num(100),
  Template @@ <<"consensus">> :> Obj @@ <<"consensus", "type">> :> Str("ibft"),
  Template @@ <<"bootnodes">> :> Mixed({"NODE1"})}

Allocs == {
  With("operator", Entry("a1", TRUE, 1, "")), With("operator", Entry("00", FALSE, 1, "")),
  With("operator", Entry("b2", FALSE, 1, "+")), With("operator", Entry("b2", FALSE, 3, "-")),
  With("operator", Entry("b2", FALSE, 0, "-")), With("operator", Entry("b2", TRUE, 3, ""))}

Hosts == {
  [chainDir |-> {"london"}, tree |-> {"london", "londonFix"}, binary |-> Missing],
  [chainDir |-> {}, tree |-> {"londonFix"}, binary |-> Missing],
  [chainDir |-> Missing, tree |-> {}, binary |-> {"homestead", "londonFix"}]}

Variations ==
  {Shipped} \cup {[Shipped EXCEPT !.template = t] : t \in Templates}
  \cup {[Shipped EXCEPT !.alloc = a] : a \in Allocs} \cup {[Shipped EXCEPT !.host = h] : h \in Hosts}
  \cup {[Shipped EXCEPT !.deployments = <<>>], [Shipped EXCEPT !.token = FALSE]}
  \cup {[Shipped EXCEPT !.overlays.poa = Tree(<<"params", "chainID">> :> Num(7))]}

Scripted(caller, mode, fee, dry) ==
  [caller |-> caller, consensus |-> mode, env |-> "devnet", chainID |-> 100, baseFee |-> fee, dryRun |-> dry, more |-> <<>>]
Hand(mode, env, more) ==
  [caller |-> "hand", consensus |-> mode, env |-> env, chainID |-> 0, baseFee |-> FALSE, dryRun |-> FALSE, more |-> more]

Split == <<Arg("out-genesis", <<"tmp", "genesis-eth.json">>), Arg("gas-limit", "30000000")>>
Relaxed == <<ArgEq("strict", FALSE), ArgEq("accept-legacy-consensus", TRUE), ArgEq("allow-missing-pos-addresses", TRUE)>>

AllAsks == {
  Scripted("make", "pos", FALSE, FALSE), Scripted("script", "poa", TRUE, TRUE), Scripted("docker", "poa", TRUE, FALSE),
  Hand("poa", "mainnet", <<>>), Hand("poa", "staging", Split), Hand("pos", "devnet", Relaxed),
  Hand("poa", "devnet", <<Arg("gas-limit", "30000000"), Arg("block-gas-limit", "plenty")>>)}
DefaultAsks == {Scripted("script", "poa", FALSE, FALSE)}
OnlyShipped == {Shipped}
=============================================================================
