----------------------------- MODULE GoClients -----------------------------
(***************************************************************************)
(* The Go programs that talk to a node or run the edge binary, side by     *)
(* side: in a behaviour one program that asks runs (NodeQueries), or the   *)
(* senders do (TxHelper), or `qikchain edge caps` does (EdgeCaps).         *)
(***************************************************************************)
EXTENDS NodeQueries, TxHelper, EdgeCaps, FiniteSets

----------------------------------------------------------------------------
clientVars == <<queryVars, sendVars, capsVars>>

Idle == \A p \in Senders : proc[p].pc = "off"

AnyLaunch == CHOOSE l \in Launches : TRUE
AnyBinary == CHOOSE b \in Binaries : TRUE

\* What does not run is in one and the same state.
ClientsInit ==
  /\ QueryInit
  /\ pc = "off" => launch = AnyLaunch
  /\ SendInit
  /\ pc # "off" => Idle
  /\ Idle => baseFee
  /\ CapsInit
  /\ caps.pc = "off" <=> pc # "off" \/ ~Idle
  /\ caps.pc = "off" => binary = AnyBinary

AQueryStep == QueryNext /\ UNCHANGED <<sendVars, capsVars>>
ASendStep == SendNext /\ UNCHANGED <<queryVars, capsVars>>
ACapsStep == CapsNext /\ UNCHANGED <<queryVars, sendVars>>

ClientsNext == AQueryStep \/ ASendStep \/ ACapsStep

ClientsSpec == ClientsInit /\ [][ClientsNext]_clientVars /\ QueryFairness /\ SendFairness /\ CapsFairness

----------------------------------------------------------------------------
(* Command lines, put together from what they are meant to say: each part   *)
(* is a flag with its value or, without a name, an operand.  A launch has,  *)
(* beside its words, the parts, the command, and how many flags are before  *)
(* it.                                                                      *)

Dashed(name, eq) == [dash |-> TRUE, name |-> name, eq |-> eq]
Bare(name) == [dash |-> FALSE, name |-> name, eq |-> ""]
Operand(name) == [name |-> "", value |-> name, joined |-> FALSE]

\* --json has no value; the others have it behind an = or in the next word.
LineParts == [name : {"", "rpc", "timeout", "interval", "json"}, value : STRING, joined : BOOLEAN]
Written(part) ==
  IF part.name = "" THEN <<Bare(part.value)>>
  ELSE IF part.name = "json" THEN <<Dashed("json", "")>>
  ELSE IF part.joined THEN <<Dashed(part.name, part.value)>>
  ELSE <<Dashed(part.name, ""), Bare(part.value)>>

\* Where the parts end on the line.
Ends(parts) ==
  LET end[k \in 0..Len(parts)] == IF k = 0 THEN 0 ELSE end[k - 1] + Len(Written(parts[k]))
  IN end

Spells(words, parts) ==
  LET end == Ends(parts) IN
  /\ Len(words) = end[Len(parts)]
  /\ \A k \in 1..Len(parts) : \A i \in 1..Len(Written(parts[k])) : words[end[k - 1] + i] = Written(parts[k])[i]

Commands ==
  [qikchain  |-> {<<"status">>, <<"block", "head">>, <<"block">>, <<"help">>, <<>>},
   qikchaind |-> {<<"once">>, <<"run">>, <<"help">>, <<>>},
   cobra     |-> {<<"status">>, <<"block", "head">>, <<"completion">>, <<>>}]
CommandWords == {"status", "block", "head", "help", "once", "run", "completion"}

\* Only cobra takes flags before a command, or after an operand; an operand
\* is not one that would make another command.
ASSUME LinesAssumption ==
  \A l \in Launches :
    LET last == l.before + Len(l.command)
    IN /\ l.words \in Seq([dash : BOOLEAN, name : STRING, eq : STRING]) /\ l.parts \in Seq(LineParts)
       /\ Spells(l.words, l.parts) /\ \A k \in 1..Len(l.parts) : l.parts[k].joined => l.parts[k].value # ""
       /\ l.before \in Nat /\ l.command \in Commands[l.tool] /\ last <= Len(l.parts)
       /\ \A k \in 1..Len(l.command) : l.parts[l.before + k] = Operand(l.command[k])
       /\ \A k \in 1..l.before : l.parts[k].name # ""
       /\ \A k \in (last + 1)..Len(l.parts) : l.parts[k].name = "" => l.parts[k].value \notin CommandWords
       /\ l.tool # "cobra" =>
            /\ l.before = 0
            /\ \A k \in (last + 1)..Len(l.parts) : l.parts[k].name = "" => \A j \in k..Len(l.parts) : l.parts[j].name = ""
       /\ l.rpcEnv \in STRING /\ l.timeoutEnv \in [kind : {"none", "duration", "number"}, seconds : Nat]

\* Where a flag of that name stands on the line.
FlagsNamed(name) == {k \in 1..Len(launch.parts) : launch.parts[k].name = name}

\* The command of the line is run, and the node is asked that its last --rpc
\* names, or the environment, or the default one, within the time that
\* --timeout says.
AsTheLineSays ==
  LET value(name) == launch.parts[Max(FlagsNamed(name))].value
      env == launch.timeoutEnv
      byEnv == \/ env.kind = "duration" /\ launch.tool # "qikchain"
               \/ env.kind = "number" /\ env.seconds > 0 /\ launch.tool = "cobra"
  IN /\ launch.command # <<>> /\ settings.cmd = Last(launch.command)
     /\ settings.rpc = IF FlagsNamed("rpc") # {} THEN value("rpc")
                       ELSE IF launch.rpcEnv = "" THEN DefaultRpc ELSE launch.rpcEnv
     /\ settings.timeout = IF FlagsNamed("timeout") # {} THEN Seconds(value("timeout"))
                           ELSE IF byEnv THEN env.seconds ELSE 5

Queries == settings # None /\ settings.cmd \notin {"usage", "help"}

\* A program that asks runs the command of its line and asks the node that the
\* line names, wherever the flags stand and whether their values are joined to
\* them or not.  Nothing is said here of lines of qikchaind that have such a
\* flag (cobra.go:79-192, root.go:84-108, qikchaind/main.go:154-167).
AsksNamedNode ==
  Queries /\ (launch.tool = "qikchaind" => FlagsNamed("rpc") = {} /\ FlagsNamed("timeout") = {}) => AsTheLineSays

\* qikchaind does too, also with --rpc and --timeout: so its usage text and the
\* texts of its flags promise (qikchaind/main.go:65-66, 169-170).
DaemonTakesFlags == Queries /\ launch.tool = "qikchaind" => AsTheLineSays

----------------------------------------------------------------------------
(* Queries *)

\* A number that is printed is the one that the node answered in this round
\* of calls.  Only cmd/qikchain, which ignores what its decoder says, prints
\* something else, if the answer does not fit or is no number
\* (qikchaind/main.go:174-211, qikchain/main.go:649-651, rpc/hex.go:9-26).
NumbersAreTheNodes ==
  pc \in {"waiting", "exited"} /\ out # None /\ ~out.error =>
    /\ Len(said) = Len(out.numbers)
    /\ \A i \in DOMAIN out.numbers :
         LET text == said[i].text
             isNumber == said[i].body = "string" /\ text.digits # <<>> /\ AllDigits(text) /\ NumberOf(text.digits) < Wrap
         IN /\ isNumber => out.numbers[i] = NumberOf(text.digits)
            /\ launch.tool = "qikchain" \/ (isNumber /\ text.prefix)

Query == {"status", "head", "once", "run"}

\* A query ends with 0 if and only if it printed an answer to every call (or
\* was told to stop), and with 2 only if nothing was asked, or, in cobra, an
\* error of the node reads like one of the command line.
QueryTellsTruth ==
  pc = "exited" =>
    /\ exit = 0 /\ settings.cmd \in Query => IF settings.cmd = "run" THEN signalled
                                              ELSE out # None /\ ~out.error /\ Len(out.numbers) = Len(Method(settings.cmd))
    /\ exit # 0 => out = None
    /\ exit = 2 => said = <<>> \/ (launch.tool = "cobra" /\ Last(said).usage)

----------------------------------------------------------------------------
(* Senders *)

InBlock(p, ok) == \E i \in DOMAIN blocks : blocks[i] = [by |-> p, ok |-> ok]
NoGap == DOMAIN pool = Len(blocks)..(Len(blocks) + Cardinality(DOMAIN pool) - 1)
FromOutside == \E p \in Senders : proc[p].job # Unset /\ proc[p].job.action = "raw"

\* A sender that ends with 0 has a transaction that is in a block or will be,
\* unless the node was restarted or somebody else signs for the account.  What
\* it says of a receipt is so; txsmoke says nothing else, and an address is
\* of a contract that is there unless the gas was capped (txhelper/main.go:
\* 109-162, txsmoke/main.go:118-132).
SenderTellsTruth ==
  \A p \in Senders : proc[p].exit = 0 =>
    LET told == proc[p].told IN
    /\ p \in took
    /\ \E ok \in BOOLEAN : InBlock(p, ok) \/ (p \in Range(pool) /\ NoGap) \/ restarts > 0 \/ FromOutside
    /\ told.mined => InBlock(p, told.ok)
    /\ proc[p].job.tool = "txsmoke" => told.mined /\ told.ok
    /\ told.address = TRUE => told.ok \/ proc[p].job.cap

----------------------------------------------------------------------------
(* edge caps *)

Parts == {"server", "genesis"}
NamesOf == [server |-> ServerFlagNames, genesis |-> GenesisFlagNames]

\* `qikchain edge caps` ends with 0 only if a program was at the path
\* when it looked.  Unless the program was replaced meanwhile, all that it
\* reports is of that one: its version if it has an answer, or none; its hash;
\* and of each help text that came whole exactly the flags that are in it, none
\* because it begins a longer one (caps.go:30-57, flags.go:13-16).
CapsTellTruth ==
  caps.exit = 0 =>
    LET report == caps.report IN
    /\ replaced = 0 =>
         /\ binary.file = "program" /\ report.hash = binary
         /\ report.version \in {NoReport} \cup {b \in {binary} : b.answers # {}}
         /\ \A part \in Parts \ caps.cut :
              \A name \in NamesOf[part] : report[part][name] <=> \E i \in DOMAIN binary[part] : binary[part][i] = name
    /\ \A part \in Parts : (\E name \in NamesOf[part] : report[part][name]) => caps[part] # <<>>

\* What a program says by its exit status and its output is what happened.
ExitTellsTruth == QueryTellsTruth /\ SenderTellsTruth /\ CapsTellTruth

\* The funder's nonce is refused only if another sender ran at the same
\* time, or what a sender that had failed or been killed had sent arrived
\* late (txhelper/main.go:224, server.js:92).
SerialSendsNeverClash ==
  \A p \in Senders : proc[p].refused /\ proc[p].job.action # "raw" =>
    \E q \in Senders \ {p} :
      /\ proc[q].nonce # Unset
      /\ \/ q \notin proc[p].after /\ p \notin proc[q].after
         \/ q \in took /\ proc[q].exit # 0

\* Every program ends: one that asks, if its calls have a timeout, and
\* qikchaind run once it has been told to (qikchaind/main.go:131-138); one
\* that sends, and `qikchain edge caps`, always.
ProgramsEnd ==
  /\ (pc = "asking" /\ settings.timeout > 0 /\ ~Polls) ~> (pc = "exited")
  /\ (pc \in {"asking", "waiting"} /\ settings.timeout > 0 /\ signalled) ~> (pc = "exited")
  /\ \A p \in Senders : Busy(p) ~> (proc[p].pc = "exited")
  /\ CapsRunning ~> (caps.pc = "exited")
=============================================================================
