# QikChain in TLA+

QikChain is a devnet toolkit around a Polygon Edge chain: staking contracts, a
genesis builder, scripts and a container entrypoint that start a four-node
IBFT network, a faucet, a status page and a transaction lab.  The modules here
model the parts of it that keep state, TLC checks them on small instances, and
TLAPS proves the safety of all of them for any instance (section 6).
Everything is translated from the source; where a document, a comment or a
message says something else, a run shows the difference (section 5).

## 1. Inventory

| Component | Source | State | Operations | What is hard | What makes it correct |
|---|---|---|---|---|---|
| Staking contract | `contracts/QikStaking.sol`, `QikGov.sol` | operator records, stakes, unbonding queues, parameters, native balance, re-entrancy flag | register, update, stake, request and withdraw, govern | control leaves the contract in the middle of a withdrawal; swap-and-pop queue; the owner moves parameters under open requests | always solvent; a withdrawal pays exactly what is due and fails only with reason; the ranking follows the stakes |
| Validator set view | `contracts/QikValidatorSet.sol` | none | five views | a caller reads the set position by position | agrees with the staking contract, and its lists with its positions |
| ERC20 PoS skeleton | `contracts/pos/*.sol` | registry, token balances, stakes, numbered withdrawals, epoch snapshots | register, stake, begin and finish an exit, snapshot | one pool of tokens for all; an exit takes two calls; a snapshot is possible in one block only | the pool covers all; paid once and to the right one; a snapshot never changes later |
| Transaction lab | `apps/status-ui/txlab.js` | runs, counters, nonce reservations, results files | start, stop, the run loop, parallel sends | interleaving at every `await`, lost answers, stop while sending, failing writes | counters tell the truth; completed means complete; nonces of a run differ |
| Devnet scripts | `scripts/devnet-ibft4*.sh`, `scripts/devnet/*.sh`, `Makefile` | genesis file, keys, fingerprints, chain data, pid files, processes | up, start, down, reset, clean | interrupts between any two steps, stale and reused process ids, files that outlive each other | no node on another chain's data; validators are those of the genesis unless only one of the two was removed; down stops everything; commands end |
| Faucet | `tools/faucet/server.js`, `public/app.js` | two maps of rate-limit marks, the funder's nonce | request funds, clean up, poll a status | marks set before and removed after an `await`; one nonce sequence, counted by a provider with a cache | limits hold; nobody is refused for a request that was refused; a nonce is refused only for a request close by |
| Status UI server | `apps/status-ui/server.js` | status cache, refresh in flight, transaction rate window | status, transaction endpoints | single flight, skewed reads of several nodes, child processes with a timeout | what is shown is of one refresh; limits hold |
| Docker devnet | `docker/devnet/entrypoint.sh`, `scripts/docker-devnet-entrypoint.sh`, compose files | shared volume: secrets, genesis, address of node 1 | four entrypoints side by side | files that exist before they are complete; restarts with old volumes | every node starts with the same complete genesis |
| Genesis builder | `internal/genesis`, `allocations`, `edge`, `chainmeta`, the genesis, allocations and chain commands of `cmd/qikchain` | output files | merge, validate, render, write; validate, print and report what is there | order of overrides; crash between output files | outputs belong together; what is validated, printed and reported is what was written; allocations add up |
| Command line tool | `cmd/qikchain`, `internal/rpc`, `internal/edgecaps` | none | RPC queries, conversions, probing the edge binary | two clients and two decoders for one node; widths of hex quantities; a probe of five runs whose errors are ignored | the node that is named is asked, and what is printed is what it said |
| Polling daemon | `cmd/qikchaind` | a ticker, a pending signal | `once`, `run` | a signal during a round of calls, a tick that waits beside it | it ends when told to; a line is of one round |
| Second front end | `internal/cli`, `internal/cobra` | none | the same queries, on the repository's own stand-in for cobra | flags are taken in one pass and stripped in another | both passes agree on what a flag's value is |
| Transaction helper | `cmd/txhelper`, `cmd/txsmoke` | one transaction on its way | send, deploy, forward a raw one, wait for the receipt | several processes and one account; a lost answer, a timeout or a kill after the broadcast; a node that restarts | exit status and output tell the truth; senders clash only if they overlap |
| Wallet tools | `tools/wallet` | key files | create, sign | cryptography | - |
| Status scripts, deploy and bootstrap scripts, tests, CI | `scripts/...`, `script/pos` | none of their own | print, call others | - | - |

How they interact: the scripts (or the containers) write `genesis.json`, keys
and data directories and start the nodes; everything else talks to the nodes
by JSON-RPC.  The deploy scripts put the contracts of `contracts/pos` on the
chain, the staking contract is called by its users and asked by
`QikValidatorSet`.  The status UI hosts the transaction lab in its own process
and spawns `txhelper`; the faucet is a process of its own with
its own funder account.  No two components share memory, and the node is the
only thing all of them share, so each component has its own module and the
node appears in it as the environment.  The composition that matters inside a
component is that of `QikStaking` with `ActiveSet` (selection over the
contract's records) and with the abstract `StakeLedger`.

## 2. Modules

`QikStaking` (contract state machine) extends nothing of the project;
`QikStakingSafety` extends it with `Sums` and states what must hold;
`StakeLedger` is what a staker is promised, and `QikLedger` the refinement
mapping under which the contract implements it; `ActiveSet` is the pure selection,
and `QikSelection` says what it must make of the contract's state.
`PosStaking` and `PosStakingSafety` are the ERC20 skeleton, `TxLab`, `Devnet`,
`Faucet`, `Docker` and `StatusUi` are programs that run; their properties are at
the end of the module.  `JsonDoc` (documents), `GenesisBuild`
(one document out of several), `GenesisTools` (the commands that read) and
`Genesis` (runs of the builder and the files they leave) extend each other, and
`GenesisSafety` states what must hold of those files and what is assumed of the
configuration.  `NodeQueries`, `TxHelper` and `EdgeCaps` are the Go programs;
`GoClients` puts the three side by side and states what they promise.  Each has an
`MC` module with the constants of its runs and what only TLC checks of it; the two
servers beside the chain, `StatusUi` and `Faucet`, share `MCServices`.

The proofs are in `QikStakingProofs` (safety and refinement), `PosStakingProofs`,
`TxLabProofs`, `DevnetProofs`, `ServicesProofs` (the containers and the faucet),
`StatusUiProofs` and `GoProofs` (the Go clients and the genesis builder), each of
which extends the modules it is about.  `SumsProofs` has what several of them need:
sums over finite maps, the smallest and the largest of a finite set of numbers, and
the values of loops over a sequence.

### QikStaking

Variables carry the contract's names.  One action per external function.  A
call a `require` refuses changes nothing and is no step.  `withdrawUnstaked` is
modelled statement by statement: `WithdrawUnstaked` takes the guard,
`DrainMature` and `DrainKeep` are the rounds of the loop, `Pay` moves the money
and starts the payee, which, if it is a contract, may call every function
again (only `withdrawUnstaked` itself carries the guard), and `Return` or `Fail`
ends it.  A failure puts back `saved`, the state at the call's begin, as the
EVM does.  The order of the loop is the code's: the last entry takes the place
of a paid one and the index stays.

Assumed: coins only come in through the payable functions (no forced ether,
and no plain transfer: the contract has no `receive`), stake sums stay below
2^256 (all coins in existence are the bound), `block.timestamp` does not go
back.  Sums that may overflow because a *parameter* is huge (`block.timestamp +
unbondingPeriod`) are modelled with the compiler's check: the call reverts at
`MaxUint`.

### PosStaking

Four contracts in one module because they share token, operators and blocks.
The inherited ERC20 and `Ownable` are external: `Approve`, `Transfer`, `Moved`
do what ERC20 defines, and the owner is whoever calls an owner function.  No
contract of the skeleton hands control to a caller, so a call is a step.  The
snapshot's keccak hash is represented by the list it is the hash of.

### TxLab

Node.js runs one piece of code at a time, so the steps are the stretches
between two `await`s.  `StartRun` and `StopRun` are the API; `Begin`, `Kick`,
`DelayedKick`, `Sleep`, `Again`, `GoesOn`, `End` the loop of `_runAsync`;
`PendingCount`, `TakeCounted`, `Bump`, `Send`, `Receipt`, `Finish` one
transaction; `Persist` and the two failures the writing of results.  The node
is external: it counts, takes, refuses, mines, reverts, or its answer is lost.
`pick` throws outside the `try` for a label that was never loaded: the
rejection is unhandled, and Node.js 15 and later end the process, which is the
variable `crashed`.

### Devnet

One user gives one command at a time.  `sh` is the running script: its place,
its RESET and its local variables; the scripts call each other exactly where
they do (`up` to `down` and to the start script, `reset` to `down` and `up`).
Every step that changes a file or a process is an action, and the user or the
machine may end the script between any two (`Interrupt`).  So a reset removes the
genesis file and the data in two steps: `reset.sh` in this order (`RmGenesis`,
`RmData`), `reset_net` of the start script in the other, after it has stopped what
listens on the nodes' ports (`KillListeners`, `WipeNet`, `RmArtifacts`).  An
`rm -rf` may be ended in the middle (`WipePart`).  Two history variables keep what
the properties have to except: `parted`, that data was removed and the genesis file
was not, and `lost`, the processes no pid file tells of.  Processes die
(`Dies`), ids are given to other programs (`Reused`), and a node may outlive
the ten seconds after SIGTERM (the second disjunct of `StopNode`).  A genesis
file is its parameters and its validators' keys, a fingerprint is the file it
is the hash of, a new key is one nobody has.  `polygon-edge genesis verify` is
external, exists in some builds only and is asked for a directory without a
fingerprint; its verdict is no, or the truth.  The model begins with nothing,
or with data of nodes that ran before there were fingerprints.

### Faucet

The handler of `POST /faucet` runs in one turn up to `wallet.sendTransaction`:
`IpLimited`, `ToLimited` and `Accepted` are its three ways through.  Then come
the two calls of the node, `Nonce` and `Broadcast`, each with other requests in
between, and `Succeeds` or `Catch`.  `CallFails` also happens after the node
took the transaction: the answer was lost.

The wallet asks the node through ethers' `JsonRpcProvider`, which answers equal
calls within 250 ms by one call (its default `cacheTimeout`, which `server.js` does
not change): `Accepted` begins a call or joins the shared one (`cached`), `Counts` is
the node's answer to it (`counted`), `Nonce` the handler going on with that answer,
and `Forget` the provider's timer.  The provider shares equal raw transactions in
the same way; there a second request to one address would be told of the first
one's transaction, where the model refuses its nonce.  The clock is in ticks of a
client window, and a call is forgotten within the tick in which its time
(`CacheTime`) is over.

### JsonDoc, GenesisBuild, Genesis

A JSON document is a function from paths to values, so that the recursion of
`DeepMerge`, `walkReplace` and `cloneMap` over nested maps becomes a statement
about paths and their prefixes.  `GenesisBuild` is the computation of one run:
what the flag package makes of a command line (a boolean flag takes no word, the
first word that is no flag ends the parsing), allocations, placeholders, the
merge in its order, the engine forced into the result, the forks the edge knows,
and the validation.  `Genesis` puts runs after each other.  `Build` is one step,
because everything is read and validated before the first file is opened; then
`Truncate` and `WriteOut` take turns for each output, in the code's order, and
`Abort` ends the run anywhere.  The command lines are those of the `Makefile`,
`generate-genesis.sh` and the container entrypoint, and of a user at a prompt.
`chain metadata` writes one of the files by itself, whatever token it describes
(`ChainMetadata`).  `GenesisTools` has the commands that change nothing, as
functions from a command line and the files to an exit status and what is
printed; the invariants of `GenesisSafety` ask them in every state, also of files a
killed build left torn.

### NodeQueries

One of `qikchain status`, `qikchain block head`, `qikchaind once`, `qikchaind
run` and the two commands of `internal/cli` runs on some command line.
`Settings` is what the command line and the environment are taken for:
`FlagParse` is Go's flag package, `ApplyPersistentFlags` and `StripFlags` are the two passes of
`internal/cobra`.  The first two read a line word by word (`ReadWord`) and differ only
in where a flag may stand.  Then `Call` is one JSON-RPC call, `Report` the decoding and the
output, and, for the daemon, `SelectTick` and `SelectDone` are the two cases of its
`select`.  A reply carries an HTTP status, a body and a text; a text is a prefix
and digits in a small base, so that a quantity that does not fit in an unsigned
integer is five digits long instead of seventeen.  The two clients and the two
decoders are kept apart (`CmdCallString`, `CmdHexToUint64`; `CallString`,
`HexToUint64`), since they do not agree.

### TxHelper

A sender is a process: `Launch` reads the arguments, `TxParams` the nonce,
`EstimateGas`, `SendTransaction` and `WaitForReceipt` follow, and every call may
end in `Fails`, every wait in `WaitTimesOut`.  `Killed` is the status server's
timeout.  What was sent may be refused, accepted, accepted with the answer lost,
or be on its way (`afloat`) when the sender is gone.  The node keeps what is ahead
of the funder's nonce in a pool, in memory, which `RestartNode` empties.

### EdgeCaps

A binary is its two help texts and the forms of the version question it
answers.  `ResolveEdgeBinary`, `FirstVersion` (three tries), `Help` (twice) and
`ReportCaps` are the runs and the reading of the file; `Replace` puts another binary, or
something that is none, at the path in between.  `CutShort` is what a timeout
leaves of a text.  Which forks the report lists is `DetectSupportedForks` in
`GenesisBuild`.

### StatusUi

A refresh is the object `inFlight` points to, named by the request that began
it; the nodes answer one by one (`CheckNode`), and with the last answer
`Computed` stores the result and answers all who wait, in one turn of the event
loop.  A node answers with a head, with something that is no number, or not at
all; timers are on time.  Of `checkNode` only the head is kept.  A transaction
request passes `Unauthorized`, `RateLimited` or `Admitted` in one turn; the
process it starts then is `TxHelper`'s.  `InWindow` is the loop that shifts old
entries out of a client's window: it stops at the first that is young enough, as
the code does.  `CACHE_MS` may be 0; then every answer is of a refresh that was
running, and may be exactly a timeout older than its request, which is why
`AnswersAreCurrent` has two cases.  Status and
transaction requests share nothing but the clock, so a behaviour has one kind
(`asked`), and the three requests of an instance are all of it.

### Docker

`pc[n]` is the line at which the entrypoint of container `n` is.  A redirection
and polygon-edge empty a file before they write it, so each write is two steps
and `Torn` is the file in between; a wait looks only for a file that exists.
`read` is what node 1 read of the others' files, once.  Keys are numbered by the
`down -v` before them: new volumes mean new keys.  polygon-edge is external: a
server ends at once on a genesis it cannot parse, or with the blocks of another
one.

## 3. What the runs check

| Run | Shows | Bounds |
|---|---|---|
| `staking_call` | solvency, totals, loop invariant, exactness of what is paid, failure only with reason; implements `StakeLedger` | two addresses, one with code; three coins at most per amount; queue of 2, time 0..2, unbonding period 0 or 2 (so unlock times come out of order), `MaxUint` 3 (so `now + period` overflows) |
| `staking_select` | the active set is the top of the documented ranking; `isActiveOperator`, the keys and the validator set view agree with it | three operators (ties, gaps, a cut inside a tie), limits 0..2, minimum stake 0 and 2, jailing |
| `pos_staking` | the pool covers everything, totals, one payment per exit, past epochs stay, exits complete | two operators, two tokens, two withdrawals each, two epochs of two blocks |
| `txlab` | counters, completeness, nonces, termination | two runs of at most two transactions; parallel, sequential with receipts, rate-limited, unknown label |
| `devnet` | no node on another chain's data, true fingerprints, validators of the genesis unless the two were parted, one chain, down stops all, commands end | two nodes, three process ids, two parameter sets, three commands, two faults |
| `genesis` | outputs name each other and are valid, `genesis validate` and `genesis print` say so, `params.engine.ibft` is that of the mode asked for, the reported premine is that of the genesis | two builds, or a build and a `chain metadata`; six ways to call, the shipped templates or a change in one part; killed at any file |
| `docker` | whoever runs is on the one genesis that knows its keys; that genesis stays; no start waits for ever | three containers, three `up`, two kills, one `down -v` |
| `services` | the status page: answers are recent and never go back, a degraded page has a cause, the rate limit is exact.  The faucet: limits hold, refusals have a cause, nonces clash only on overlap or within the cache's time | the page: two nodes, three requests, two clients, time 0..3, cache and rate window of 2 ticks, timeout of 1, heads 1..3.  The faucet: three requests, two clients, two addresses, windows of 1 and 2 ticks, cache of 1, time 0..3 |
| `go_clients` | the node that is named is asked (by `qikchaind` only without `--rpc` and `--timeout`); numbers printed are the node's; exit status and output tell what happened; senders clash only on overlap; every program ends | 331 command lines and environments; 12 odd replies, one per round of calls (`MaxOdd`); chains and heads up to 2; base 2 and four digits; two senders (`NumSenders`), one restart of the node (`MaxRestarts`); six binaries, replaced once (`MaxReplaced`) |
| `devnet_reset`, `genesis_basefee`, `go_clients_flags` | disagreements, section 5 | as small as they show it, `go_clients_flags` as `go_clients` |

Why these bounds are enough to be interesting: in each model two actors are
enough for every race in the code, because no handler looks at more than one
other party's state (a queue entry swapped with the last, a reservation of the
same sender, a mark of the same address, the pid of one node).  Queues of two
and three operators reach every branch of the swap-and-pop loop and of the
sort; two faults allow a fault while another one is being recovered from, and
three commands allow a start that is cut off, a removal, and a start or a down after
them.  In `services` a behaviour is one of either server, since they share nothing;
nodes, clients and addresses are interchangeable (all its properties are invariants,
so the symmetry is sound).  The second build of `genesis` meets
every state of the files the first can leave, and a third would meet the same
kinds; three containers are node 1 and two who may be at different places, and
two kills allow node 1 and one whom it waits for to die.
In `go_clients` one odd reply per round is as much as a program meets: it ends, or
forgets the round, with the first; and what is said of two senders is said of every
pair.  The proofs do not depend on any
of these bounds.

`CHECK_DEADLOCK FALSE` is set where the system really stops: all runs of the
lab are over, or the process crashed; the user gives no more commands; all
requests of the faucet or the status server are made and the clock is at its bound; the builds are
over; the containers run or have failed and nobody brings them up again; the Go programs have ended.  In the two
contract models something can always be done.

Conditions inside properties name the exceptions the code has and are part of
the statement: `OneChain` and `DownStopsAll` except a node that outlived SIGTERM
(its pid file is removed all the same), an interrupt between fork and pid file,
and `make clean-data`, which removes pid files (all of these are the variable
`lost`); `ValidatorsInGenesis` while data was removed and `genesis.json` of the old
keys was not (`parted`), by `make clean-data` or by an interrupt within `reset_net`;
`NonceClashNeedsOverlap` within the time of the provider's cache;
`SequentialNonces` except two transactions of one parallel run that both asked
the node; `SerialSendsNeverClash` except a late arrival of what a failed or
killed sender had sent; `NumbersAreTheNodes` except the decoder of
`cmd/qikchain` for what does not fit or is no number; `AsksNamedNode` says nothing
of `qikchaind` with `--rpc` or `--timeout`, of which `DaemonTakesFlags` says what it
should and is violated (section 5); `RunEnds` except a crash of the process;
`ExitTellsTruth` except a transaction the pool lost in a restart, an account for
which somebody else signs too, a deploy whose gas was capped, and a binary
replaced during the probe; `LimitsHold`
unless some request of that client or address was answered with an error in
between, since an error lifts the limit for everyone.

Every property of a passing run has a mutant of the code (marked `MUTANT` in the
modules) that breaks it.

## 4. Fairness

* `QikStaking`, `Genesis`, `Faucet`, `StatusUi`: none, only safety is checked.
* `PosStaking`: blocks keep coming, and for `ExitCompletes` the operator keeps
  asking for an exit that is unlocked; the property says nobody else can
  prevent it.
* `TxLab`: timers fire and every RPC is answered or times out.  Users are not
  fair.
* `Docker`: a container that is not killed goes on with its next line.  Kills,
  `up` and `down -v` are not fair.
* `NodeQueries`: a program goes on; a call ends if the client has a timeout
  (`--timeout 0s` means none, and nothing is claimed of it); the ticker fires.
  The daemon's `select` chooses at random among the cases that are ready, so
  `SelectDone`, ready again after each round, is strongly fair.  Blocks, resets
  and signals are not fair.
* `TxHelper`, `EdgeCaps`: calls, waits and the runs of the binary have timeouts.
  Mining is not fair: a sender ends whether its transaction is mined or not.
* `Devnet`: a script that is not interrupted goes on.  Interrupts, deaths and
  users are not fair.  The counterexample of `devnet_reset` contains no fault.

## 5. Disagreements found while modelling

* `go_clients_flags`: `qikchaind` accepts `--rpc` and `--timeout` and ignores both.
  `bindCommonFlags` binds them to a local variable and returns a copy of it before
  the line is parsed (`qikchaind/main.go:171`).  The usage text promises
  `qikchaind once --rpc <url> [--timeout 5s]` (`:65`), and the flags' own texts what
  they are for (`:169`).
* `devnet_reset`: `RESET=1 make up` never ends: `reset.sh` calls `up.sh` with
  `RESET=1` still in its environment (`README.md:258`).
* `genesis_basefee`: `generate-genesis.sh:37` and
  `docker-devnet-entrypoint.sh:105` pass `--base-fee-enabled "$BASE_FEE_ENABLED"`
  as two words.  Go's flag package takes the flag alone as true and ends the
  parsing at the word `false`: the base fee is on and the options behind it
  (among them the outputs of a dry run) are ignored (`README.md:366`).

Met while modelling, without a run of its own (a property names it as its
exception where there is one).  `TxLab`: two parallel transactions of one sender
both find no reservation, both ask the node and take the same nonce
(`txlab.js:148`; `txlab.js:146` and `README.md:683` promise a reservation; the
exception of `SequentialNonces`).  The faucet: a request within 250 ms of another,
though that one is answered, is given the same count by the provider, and its
transaction is refused (`tools/faucet/server.js:153`; the exception of
`NonceClashNeedsOverlap`).  `QIKCHAIN_TIMEOUT` may be a number of seconds for
`internal/cli` (`root.go:91`) and has to be a duration for `qikchaind` (`:161`).
`cmd/qikchain` ignores the errors of its decoder and keeps the last 64 bits of a
longer number (`qikchain/main.go:649`, `:781`), takes 200 only where `internal/rpc` takes
any 2xx, and refuses an answer without a result, which is an empty string for the other.
`internal/cli` takes an error of the node whose text has one of its words for a
usage error (`root.go:56`).  `txhelper` deploys with less gas than the estimate
if `--deployGasCap` says so, and reports the address of a contract that is not
there (`txhelper/main.go:131`, `:157`); it ends with 0 when the wait is over and
nothing is mined, where `txsmoke` ends with 1.  Both refuse a chain without a base
fee, which is what a devnet is by default according to `README.md:366`.  `genesis print --json`
prints a torn file as it is and ends with 0.  `edge caps` takes version and flags from
`--edge-bin` and the forks from the sources or `./bin/polygon-edge`
(`caps.go:41`).  `TxLab`: the file of a stopped
run is written while its transactions are in flight, and their outcomes never
reach it (`txlab.js:169`, `README.md:685`).  `StatusUi`: the server asks for
`TX_FROM_PRIVATE_KEY` (`server.js:375`), but `txhelper` signs with
`CI_FUNDER_PRIVKEY` or a built-in key (`txhelper/main.go:244`).  `Devnet`: a first
start that is
interrupted between the secrets and the fingerprints leaves directories every
later start refuses with "Genesis changed since this data dir was initialized"
(`devnet-ibft4.sh:186`), although it did not change; and an interrupt of
`reset_net` between its two removals (`devnet-ibft4.sh:115`, `:118`) leaves a
`genesis.json` of keys that are gone, with which later starts run nodes that are
not validators of their genesis until the next reset (the exception of
`ValidatorsInGenesis`).  And `Docker`: a genesis
that a killed node 1 left empty is reused by every later start, which fails, until
`down -v`.

## 6. What is proved

Each theorem is about the specification with arbitrary constants.  All it rests
on are the assumptions its component's module names, which give the constants
their types and are evaluated by TLC on that component's run.  The
inductive invariants were checked by TLC on small instances before they were proved;
for each, one lemma per action or group of actions gives its step.

### The native staking contract

`QikStakingProofs`, about `QikStaking`: any number of addresses, coins,
parameters, queue lengths, block times, and any set of contracts that re-enter.
From `AddrAssumption` and `ValueAssumption`.

* `TypeCorrect` - types, and that guard, locals and snapshot exist together.
* `InvariantHolds` - the inductive invariant `IInv`.
* `Solvency`, `RankedByStake` - the contract's balance is what it owes, and
  `totalStake` is the sum of the stakers' amounts, in every state.
* `WithdrawalsAreExact`, `WithdrawalsSucceed` - what a withdrawal pays and when
  it may fail.
* `LedgerIsImplemented` - the contract implements `StakeLedger`.
* `SelectionInvariant`, `ActiveSetIsRanked` - the active set is the top of the
  documented ranking, and every view of it agrees.

`Solvent` alone is not inductive for two reasons.  A failing payee brings back
the state from before the call, so the invariant must also hold of `saved`; and
in the middle of the loop some money has left the queue and not yet the
contract, so it needs the loop's own invariant (`LoopInv`: what was taken and
what is still due make up what was due).  `IInv` adds both.  The argument is
about sums over finite maps: `Sums` defines `Sum(f, S)` as the number of coins
in `S` piles, so that no recursion is needed, and `SumsProofs` derives that a
sum changes by what one pile changes (`SumUpdate`) and does not depend on other
piles (`SumSame`).  On top of it `AppendSum` and `SwapAndPopSum` say what the two
changes of a queue do to its sum, `OwedStake` and `OwedQueue` what a change of
one account does to the total, and one lemma per action (`StakeInv`,
`UnstakeInv`, `DrainMatureInv`, ...) gives its step; `NextInv` joins them.

The refinement forgets the order of a queue: it is the bag of its entries.  While
the loop runs the ledger shows the state from before the call, so the rounds of
the loop stutter and `Pay` is the ledger's whole withdrawal.  That needs a second
invariant, which relates the queue in the middle of the loop to the one before:
they differ exactly by due claims that were taken, and when the loop is over none
that is due is left.  Swap and pop takes one entry out of the bag whatever
position it has, and the sum over positions is the worth of the bag.

The selection needs of the contract only that the list of registrations names
whoever is registered, once (`SelectionInv`, of the list that a failure would
restore as well).  The sort and the scan are recursive functions; `RecursionExists`
in `SumsProofs` gives a bounded recursion its values, one round after the other,
and what holds of every round's result (a permutation of the eligible, in the
order of the rank) is then an induction over the numbers.

### The ERC20 skeleton

`PosStakingProofs`, about `PosStaking`: any finite set of operators, any supply,
amounts, withdrawal delay and epoch length.  From `PosAssumption` (the operators
are finite in number, so that their stakes have a sum).

* `PosInvHolds` - the inductive invariant `PosInv`.
* `PoolCoversAll` - the manager holds at least the active stakes and the
  withdrawals not yet paid together, so no withdrawal is ever short of tokens.
  It holds more after a plain transfer of tokens to it.
* `TotalNeverDrifts` - `totalStaked` is the sum of the stakes.
* `PaidOnceAndInFull` - a step takes tokens from the manager exactly if it marks
  one due withdrawal as paid, and then its owner has its amount.
* `EpochsAreFrozen` - the snapshot of an epoch never changes after the epoch's first block.
  (That one is taken at all nobody promises: a later call is refused.)

The first two are proved together: an amount that leaves the stakes enters a list
of withdrawals, and only what is said of the pool sees both sides.  `UnpaidAppend` and
`UnpaidMark` say what the two changes of a list (a new entry, an entry marked
paid) do to what it still promises, `UnpaidUpdate` and `StakesUpdate` lift that
to the sum over all operators, and there is one lemma per call.  The last two are
properties of steps, by cases on the call; the epochs need that a boundary
block is the first of its epoch.

### The transaction lab

`TxLabProofs`, about `TxLab`: any set of runs, scenarios and accounts, any number
of transactions.  From `ScenarioAssumption` (what `_validateScenario` lets
through).

* `LabInvHolds` - the inductive invariant `LabInv`.
* `CountersAlwaysAgree`, `CompletedRunsAreComplete`, `NoncesAreSequential`.

A step belongs to one run (`Own`), and the invariant of the others does not
look at what it changes (`SameRun`), so it is proved for one run.
The counters agree because transactions begin in order: `Balanced` says that
exactly those up to `cursor` have begun.  A run is completed only when nothing is
in flight, and then `Balanced` makes every transaction done.  For the nonces the
invariant says more than the property, namely that what is reserved of an account
is above every nonce handed out, unless two transactions asked the node; the
nonces are not in order otherwise.

### The devnet scripts

`DevnetProofs`, about `Devnet`: any number of nodes, process ids, parameters,
commands and faults.  From `DevnetAssumption` and `NoneAssumption`.

* `DevnetInvHolds` - the inductive invariant `DevnetInv`.
* `NodesStayOnTheirChain`, `FingerprintsStayTrue`, `ValidatorsStayInGenesis`,
  `NodesShareOneChain`, `StoppedIsStopped`.

A script knows what it has checked only by where it is, so the invariant says of
each place what the start has made and seen (`KeysMade`, `GenesisMade`,
`ChainsSeen`, `Printed`); an interrupt goes back to a place that promises
nothing.  `ResetOK` says why a reset finds no directory in use.  That the keys
are those of the genesis needs `BrokenUnused` (no start gets as far as its nodes
with the file a failed build left) and holds of the files unless they are `parted`;
that down stops everything needs `HasPidFile` (every live node that is not `lost`
has its pid file, or the script is about to write it).  `Emptied` says what is left
after the data was removed, and `OnDisk` that a node that is not lost runs on what
its directory says, from which all of them are on one chain.

### The containers

`ServicesProofs`, about `Docker`: any finite number of containers, starts, kills and
removed volumes.  From `DockerAssumption` and `FileAssumption`.

* `DockerInvariant` - the inductive invariant `DockerInv`.
* `DockerRunningAgree`, `DockerGenesisStays`.

That whoever runs agrees follows from what node 1 read: `ReadOK` says that the keys it
read are still those on disk when it writes, because a container replaces a key only
if it is incomplete, and `GenesisOK` that there is no genesis while node 1 is
before it.

### The faucet

`ServicesProofs`, about `Faucet`: any number of requests, clients and addresses, any
two windows and any time of the provider's cache.  From `FaucetAssumption`.

* `FaucetInvHolds` - the inductive invariant `FaucetInv`.
* `LimitsAlwaysHold`, `RefusalsHaveCause`, `ClashesNeedOverlap`.

The limits are about pairs of requests, the code keeps one mark.  `Covered` says
that a request served within the window still has a mark at least as young,
unless an error took it away, and `Earned` that a mark is that of a request that
was served; the first gives the limits, the second the causes.  For the nonces,
`CachedOK` says that the call the provider shares is not older than its time,
`CallsOK` that who waits for a call joined it while it was shared, and `CountedOK`
that an answer is behind the node's count only if a transaction was taken since the
call was begun (`Since`).  So a nonce that waits to be sent is the next one unless
another request overlaps or ended within the cache's time (`Behind`).

### The status page

`StatusUiProofs`, about `StatusUi`: any finite set of nodes, any clients, requests,
times, timeouts, windows and limits, a cache time of 0 included.  From
`StatusUiAssumption` (among it that there is a node: `parseRpcUrls` has a default).

* `PageInvHolds` - the inductive invariant `PageInv`.
* `AnswersStayCurrent`, `DivergenceStaysReal` - what the page shows.
* `RateInvHolds`, `RateStaysExact` - the rate limit.

An answer never goes back because there is one refresh at a time, and what it has
read is not behind what is stored or was ever shown (`Behind`, `CacheOK`).  The
verdict compares heads read at different moments; `RefreshOK` keeps each of them
between the lowest head at the refresh's begin and the node's present one, and
`VerdictHolds` concludes that heads further apart than the threshold mean that two
nodes were.  For the rate, the window of a client is matched with its admitted
requests one to one (`Kept`): it is in order, so shifting from the front drops
exactly what is old (`Shifted`), and what is left is as long as there are admitted
requests of the last window (`ShiftedCount`).

### The Go clients

`GoProofs`, about `GoClients`: any command lines, replies, bases and word widths;
any number of senders, jobs and restarts; any binaries and flags.  From
`QueriesAssumption`, `SendersAssumption`, `CapsAssumption` and `LinesAssumption`.

* `NamedNodeIsAsked` - what a command line is taken for; of `qikchaind`, only without
  `--rpc` and `--timeout`, with which it is not so (section 5).
* `QueryInvariant`, `NumbersAreRight`, `QueriesTellTruth` - programs that ask.
* `SendersInvariant`, `SerialSendsSafe`, `SendersTellTruth` - programs that send.
* `CapsInvariant`, `CapsAreReported` - the probe of the edge binary.
* `ExitIsTrue` - the three of them together.

A command line is given as it was meant: a sequence of parts, each a flag with its
value or an operand, and the words these are written with (`Written`, `Spells`).  A
flag is written `--flag value` or `--flag=value`; what else the flag package takes (a
single dash, `--` as the end of the flags, `--json=false`) is left out.
`LinesAssumption` says which lines are meant: a flag that is written with an `=` has a
value behind it; an operand is not the name of another command; and, for the two
programs that use the flag package, the command is first and no flag is behind an
operand, where the package does not look.  What is unknown, lacks its value or has a
wrong one is left in: then the usage is shown, and nobody is asked.  The proof goes
along the parts.  `OneMoreTaken` says of one part, read by one or two steps of
`ReadWord`, that the values taken so far are those of the last flags given
(`LineTaken`); `OneMoreStripped` says of the same part that `StripWord` takes the same
words for flags and values, so that the command is left where it is looked for
(`LineStripped`).  These are inductions over the positions of a line that is fixed, with the
recursive functions of `NodeQueries` as the sequence of states: no induction over
all lines is needed.

For the numbers the two ways of reading digits are compared: `Reading` says what
the fold over the digits is, and the decoder that shifts bytes gives the same
modulo the width, hence the same number if that fits; writing is the inverse
(`Writes`).  The invariant of the programs that ask says that the texts of a round
are those of its replies (`Heard`), so what is printed is compared with the
replies themselves.  For the senders, `SentOK` says of each what became of its
transaction, `PlacedOK` and `GapOK` where the block or the pool has it, and
`RefusedOK` who can have taken the nonce of one that was refused: `Blames` relates
the two by when they ran, and no step of a third changes that (`OthersSame`).

### The genesis builder

`GoProofs`, about `GenesisSafety`: any command lines, any number of builds, any
templates, overlays, allocations and deployments.  From `GenesisAssumption`,
`ForkAssumption`, and two more that say what is asked for and of what:
`NamesAssumption` (no path is given for two kinds of output) and
`InputsAssumption` (template and overlays are JSON objects; the template's
allocations are the placeholder of `config/genesis.template.json:8`; overlays leave
the genesis alone; the overlays of `config/consensus` say what the engine is).  TLC
evaluates both on the shipped configuration and on its variations.

* `GenesisInvariantHolds` - the inductive invariant `GenesisInvariant`.
* `ChainHasItsGenesis` - a chain names a genesis that is there and no older.
* `EngineIsAsked` - its `params.engine.ibft` is that of the overlay of the mode asked
  for, and no more.  Other keys a template has under `params.engine` stay, and
  nothing is said of them.
* `OutputsPass` - what was written validates, what is torn does not.
* `PremineIsPaid` - the genesis pays what is configured and reported.

The invariant: a run of the log is a build that passed its checks or a metadata
file (`RunsOK`); every file is an output of the run that is named for it, or torn
(`FilesOK`); the run that is writing has its first outputs on disk and the rest
before it (`TodoOK`); a chain was written after its genesis (`GenesisFirst`, for
which the order of the outputs is needed).  The rest is about documents, which are
functions from paths, and goes through a build in its order: what reading and
putting at a path do (`PutIs`, `PathsPart`), what filling in does (`ConfigFilled`),
that a merge is a document in which the overlay wins (`MergeIs`), that the engine
is put and the forks are added beside it (`EngineIs`, `ForksIs`), that the old keys
are gone (`RemoveIs`).  Each of the later passes leaves alone what the earlier ones
made at other paths (`SameUnder`, `SameOutside`), which gives the engine.  For the
premine, the accounts of the genesis and the entries of the configuration are
matched one to one, because an address listed twice fails the verification however
it is spelled; a sum does not change with the names of its piles (`SumRenamed`).

### Only model-checked

* Liveness of every module (`ExitCompletes`, `RunEnds`, `UpEnds`, `StartsEnd`,
  `ProgramsEnd`): fairness is out of the prover's reach.
* `ResetEnds`, `BaseFeeAsAsked` and `DaemonTakesFlags`, which do not hold (section 5).

## 7. Not modelled, and the plan

Not modelled, with the reason in `PROJECT.json`: wording and layout of output,
key generation and signing, the stub `cmd/qikchain/cli` that nothing imports, the
scripts that only read and print (status,
dashboard), the deploy and bootstrap scripts (straight sequences of `forge` and
`cast` calls, whose effect is `PosStaking`'s), tests, CI and release tooling, the
configuration files (inputs of `Genesis`).  Of the parts that are modelled in
part: the transaction lab's modes, accounts and latency statistics; the status
server's authentication and the drawing of its page; log handling and the
remaining targets of the `Makefile`.  Two `make up` at once are left out on purpose: no
script takes a lock or promises anything, so that nothing could be stated but
that it goes wrong.

What is left:

1. `TxLab`: an abstract run (a set of transactions, each with one outcome) that
   the loop implements.
2. `PosStaking`: an abstract token pool as the specification it implements.
