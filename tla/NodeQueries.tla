---------------------------- MODULE NodeQueries ----------------------------
(***************************************************************************)
(* The Go programs that ask a node by JSON-RPC and print what it says:     *)
(*   qikchain    `status` and `block head` (cmd/qikchain, with a client    *)
(*               and a decoder of its own);                                *)
(*   qikchaind   `once` and `run`, which polls until a signal;             *)
(*   cobra       the same two commands in internal/cli, on the repository's *)
(*               own stand-in for the package cobra.                       *)
(* The last two share the client and the decoder of internal/rpc.  One of  *)
(* them runs, with some command line and environment, while the node goes  *)
(* on, is reset, fails, or answers something odd.                          *)
(*                                                                         *)
(* A word of a command line is [dash, name, eq]: --name=eq, --name (eq is  *)
(* "") or name.  A text is [prefix, digits]: whether it begins with 0x and *)
(* its digits in Base; Junk is a character that is no digit.  A byte has   *)
(* two digits, an unsigned integer WordDigits of them (16 in the code).    *)
(* Times are in seconds.                                                   *)
(***************************************************************************)
EXTENDS Integers, Sequences, SequencesExt

CONSTANTS
  Launches,       \* [tool, words, rpcEnv, timeoutEnv]
  OddReplies,     \* what a node may say instead of the truth
  Base, WordDigits, Junk,
  MaxChain, MaxHead,
  MaxOdd,         \* bound on odd replies in a round of calls
  None

Texts == [prefix : BOOLEAN, digits : Seq(0..(Base - 1) \cup {Junk})]
ReplyKinds == [http : {"none", "200", "2xx", "500"}, body : {"none", "error", "null", "missing", "number", "string"},
               text : Texts, usage : BOOLEAN]
Printed == [error : BOOLEAN, texts : Seq(Texts), numbers : Seq(Nat)]

\* That a power is a number is said because no prover knows powers.
ASSUME QueriesAssumption ==
  /\ {Base, WordDigits, MaxChain, MaxHead, MaxOdd} \subseteq Nat /\ Base > 1 /\ WordDigits > 1
  /\ Base ^ WordDigits \in Nat \ {0}
  /\ Junk \notin 0..(Base - 1) /\ None \notin Nat \cup Texts \cup Printed
  /\ OddReplies \subseteq ReplyKinds
  /\ \A l \in Launches : l.tool \in {"qikchain", "qikchaind", "cobra"}

VARIABLES
  node,        \* its chain and head
  launch,
  pc,          \* "off" (none runs), "new", "asking", "waiting" (qikchaind run, in its
               \* select), "exited"
  settings,    \* what the command line and the environment were taken for
  got,         \* the texts of this round of calls
  said,        \* history: the replies of this round
  out,         \* what was printed in this round, or None
  exit,        \* exit status
  ticker, tick, signalled    \* qikchaind run

daemon == <<ticker, tick, signalled>>
queryVars == <<node, launch, pc, settings, got, said, out, exit, ticker, tick, signalled>>

Empty == [prefix |-> FALSE, digits |-> <<>>]

----------------------------------------------------------------------------
(* Numbers *)

NumberOf(digits) ==
  LET upTo[n \in 0..Len(digits)] == IF n = 0 THEN 0 ELSE upTo[n - 1] * Base + digits[n]
  IN upTo[Len(digits)]
AllDigits(text) == Junk \notin Range(text.digits)
Wrap == Base ^ WordDigits

\* What a node writes for a number: as few digits as there are.
Quantity(n) ==
  [prefix |-> TRUE,
   digits |-> CHOOSE d \in SeqOf(0..(Base - 1), n + 1) : NumberOf(d) = n /\ d # <<>> /\ (d[1] = 0 => Len(d) = 1)]

Padded(digits) == IF Len(digits) % 2 = 1 THEN <<0>> \o digits ELSE digits

\* hexToUint64 of cmd/qikchain: no prefix needed, nothing is 0, and bytes are
\* shifted in from the right, so that the first ones fall out.  An error
\* gives 0, and the callers do not look at it.
CmdHexToUint64(text) ==
  LET digits == Padded(text.digits)
      bytes == Len(digits) \div 2
      shifted[n \in 0..bytes] ==
        IF n = 0 THEN 0 ELSE (shifted[n - 1] * Base * Base + digits[2 * n - 1] * Base + digits[2 * n]) % Wrap
  IN IF AllDigits(text) THEN shifted[bytes] ELSE 0

\* MUTANT: the number is cut to its last digits.
HexToUint64Wraps(text) ==
  IF ~text.prefix \/ text.digits = <<>> \/ ~AllDigits(text) THEN None ELSE NumberOf(text.digits) % Wrap

\* HexToUint64 of internal/rpc; None is its error.
HexToUint64(text) ==
  IF ~text.prefix \/ text.digits = <<>> \/ ~AllDigits(text) \/ NumberOf(text.digits) >= Wrap THEN None
  ELSE NumberOf(text.digits)

----------------------------------------------------------------------------
(* Calls.  A reply is [http, body, text, usage]: http "none" if no answer  *)
(* came (refused, or the timeout), the status class otherwise; usage if    *)
(* the message of an error has one of the words of classifyError.          *)

\* All answers are fetched before the first is decoded.
StatusCalls == <<"eth_chainId", "eth_blockNumber", "net_peerCount">>
HeadCalls == <<"eth_blockNumber">>
Method(cmd) == IF cmd = "head" THEN HeadCalls ELSE StatusCalls

Honest(method) ==
  [http |-> "200", body |-> "string", usage |-> FALSE,
   text |-> Quantity(CASE method = "eth_chainId" -> node.chain
                       [] method = "eth_blockNumber" -> node.head
                       [] method = "net_peerCount" -> 0)]

\* A null is the empty string for both clients, an answer without a result
\* for one of them; None is an error.
Text(reply) == IF reply.body = "string" THEN reply.text ELSE Empty
CmdCallString(reply) ==
  IF reply.http = "200" /\ reply.body \in {"string", "null"} THEN Text(reply) ELSE None
CallString(reply) ==
  IF reply.http \in {"200", "2xx"} /\ reply.body \in {"string", "null", "missing"} THEN Text(reply) ELSE None

Called(tool, reply) == IF tool = "qikchain" THEN CmdCallString(reply) ELSE CallString(reply)
Decoded(tool, text) == IF tool = "qikchain" THEN CmdHexToUint64(text) ELSE HexToUint64(text)

----------------------------------------------------------------------------
(* Command lines *)

Seconds(word) == CASE word = "2s" -> 2 [] word = "0s" -> 0 [] OTHER -> None

\* One flag is given a value.
Assign(s, flag, value) ==
  CASE flag = "rpc" -> [s EXCEPT !.rpc = value, !.want = ""]
    [] flag = "json" -> [s EXCEPT !.ok = value \in {"true", "false"}, !.want = ""]
    [] flag \in {"timeout", "interval"} ->
         [s EXCEPT !.ok = Seconds(value) # None, ![flag] = IF Seconds(value) = None THEN @ ELSE Seconds(value),
                   !.want = ""]

\* A word that begins with dashes, where a flag may stand.
Flag(s, w, known) ==
  IF w.name \notin known THEN [s EXCEPT !.ok = FALSE]
  ELSE IF w.eq # "" THEN Assign(s, w.name, w.eq)
  ELSE IF w.name = "json" THEN s ELSE [s EXCEPT !.want = w.name]

Unread(rpc, timeout) ==
  [rpc |-> rpc, timeout |-> timeout, interval |-> 5, ok |-> TRUE, want |-> "", rest |-> <<>>]

\* A flag at the end of the line that lacks its value is an error.
Finished(s) == [s EXCEPT !.ok = @ /\ s.want = ""]

\* The next word; the rest are the operands.
ReadWord(s, w, known, anywhere) ==
  IF ~s.ok THEN s
  ELSE IF s.want # "" THEN Assign(s, s.want, w.name)
  ELSE IF w.dash /\ (anywhere \/ s.rest = <<>>) THEN Flag(s, w, known)
  ELSE [s EXCEPT !.rest = Append(@, w)]

ReadWords(words, init, known, anywhere) ==
  LET read[n \in 0..Len(words)] == IF n = 0 THEN init ELSE ReadWord(read[n - 1], words[n], known, anywhere)
  IN Finished(read[Len(words)])

\* Package flag: the first operand ends the flags.
FlagParse(words, init, known) == ReadWords(words, init, known, FALSE)

CobraFlags == {"rpc", "timeout", "json"}

\* applyPersistentFlags: flags are anywhere on the line.
ApplyPersistentFlags(words, init) == ReadWords(words, init, CobraFlags, TRUE)

\* MUTANT: the value that follows a flag stays on the line.
StripFlagsOnly(words) == SelectSeq(words, LAMBDA w : ~w.dash)

\* stripFlags: what is left for the commands, found in a second pass with
\* rules of its own: the word after a flag is its value unless the flag is
\* --json or has an =.
StripWord(s, w) ==
  IF s.skip THEN [s EXCEPT !.skip = FALSE]
  ELSE IF ~w.dash THEN [s EXCEPT !.left = Append(@, w)]
  ELSE [s EXCEPT !.skip = w.name # "json" /\ w.eq = ""]

StripFlags(words) ==
  LET strip[n \in 0..Len(words)] ==
        IF n = 0 THEN [skip |-> FALSE, left |-> <<>>] ELSE StripWord(strip[n - 1], words[n])
  IN strip[Len(words)].left

----------------------------------------------------------------------------
(* What a launch asks for: the command ("usage" if it is refused with exit *)
(* status 2, "help" if it prints a text and ends), the node and the time a *)
(* call may take.                                                          *)

DefaultRpc == "default"
Take(cmd, s) == [cmd |-> IF s.ok THEN cmd ELSE "usage", rpc |-> s.rpc, timeout |-> s.timeout]
Only(cmd) == [cmd |-> cmd, rpc |-> "", timeout |-> 5]
Names(words) == [i \in DOMAIN words |-> IF words[i].dash THEN "--" ELSE words[i].name]

\* qikchain: --rpc is required; operands are not looked at.
CmdFlags(cmd, words) ==
  LET s == FlagParse(words, Unread("", 5), {"rpc", "timeout"})
  IN Take(cmd, [s EXCEPT !.ok = @ /\ s.rpc # ""])

CmdBlock(words) ==
  IF words # <<>> /\ Names(words)[1] = "head" THEN CmdFlags("head", Tail(words)) ELSE Only("usage")

Qikchain(words) ==
  LET cmd == IF words = <<>> THEN "none" ELSE Names(words)[1]
  IN CASE cmd = "help" -> Only("help")
       [] cmd = "status" -> CmdFlags("status", Tail(words))
       [] cmd = "block" -> CmdBlock(Tail(words))
       [] OTHER -> Only("usage")

RpcFromEnv(env) == IF env = "" THEN DefaultRpc ELSE env

\* bindCommonFlags: QIKCHAIN_TIMEOUT has to be a duration.
DaemonTimeout(env) == IF env.kind = "duration" THEN env.seconds ELSE 5

\* defaultTimeoutFromEnv: or a positive number of seconds.
CobraTimeout(env) ==
  IF env.kind = "duration" \/ (env.kind = "number" /\ env.seconds > 0) THEN env.seconds ELSE 5

\* qikchaind: the flags are bound to a variable of which bindCommonFlags
\* returns a copy, made before they are parsed: --rpc and --timeout are read
\* and have no effect.
BindCommonFlags(l) == Unread(RpcFromEnv(l.rpcEnv), DaemonTimeout(l.timeoutEnv))

ParseCommonFlags(l, known) ==
  LET bound == BindCommonFlags(l)
      s == FlagParse(Tail(l.words), bound, known)
  IN [bound EXCEPT !.ok = s.ok /\ s.rest = <<>>, !.interval = s.interval]

Qikchaind(l) ==
  LET cmd == IF l.words = <<>> THEN "none" ELSE Names(l.words)[1]
      polling == ParseCommonFlags(l, {"rpc", "timeout", "interval"})
  IN CASE cmd = "help" -> Only("help")
       [] cmd = "once" -> Take("once", ParseCommonFlags(l, {"rpc", "timeout"}))
       [] cmd = "run" -> Take("run", [polling EXCEPT !.ok = @ /\ polling.interval > 0])
       [] OTHER -> Only("usage")

\* internal/cli: the commands are looked up one word at a time, and what
\* follows the last one is ignored.
Cobra(l) ==
  LET s == ApplyPersistentFlags(l.words, Unread(RpcFromEnv(l.rpcEnv), CobraTimeout(l.timeoutEnv)))
      left == Names(StripFlags(l.words))
      next == IF left = <<>> THEN "none" ELSE left[1]
  IN CASE next = "status" -> Take("status", s)
       [] next = "completion" /\ s.ok -> Only("help")
       [] next = "block" /\ Len(left) > 1 /\ left[2] = "head" -> Take("head", s)
       [] OTHER -> Only("usage")

Settings(l) ==
  CASE l.tool = "qikchain" -> Qikchain(l.words)
    [] l.tool = "qikchaind" -> Qikchaind(l)
    [] l.tool = "cobra" -> Cobra(l)

----------------------------------------------------------------------------
(* The node, as long as somebody asks it *)

Running == pc \in {"asking", "waiting"}

NewBlock ==
  /\ Running /\ node.head < MaxHead
  /\ node' = [node EXCEPT !.head = @ + 1]
  /\ UNCHANGED <<launch, pc, settings, got, said, out, exit, daemon>>

\* Another chain begins behind the same address.
ResetNode ==
  /\ Running /\ node.chain < MaxChain
  /\ node' = [chain |-> node.chain + 1, head |-> 0]
  /\ UNCHANGED <<launch, pc, settings, got, said, out, exit, daemon>>

----------------------------------------------------------------------------
(* A program *)

QueryInit ==
  /\ node = [chain |-> 1, head |-> 0]
  /\ launch \in Launches
  /\ pc \in {"off", "new"} /\ settings = None /\ got = <<>> /\ said = <<>>
  /\ out = None /\ exit = None
  /\ ticker = FALSE /\ tick = FALSE /\ signalled = FALSE

Start ==
  /\ pc = "new"
  /\ settings' = Settings(launch)
  /\ CASE settings'.cmd = "usage" -> pc' = "exited" /\ exit' = 2
       [] settings'.cmd = "help" -> pc' = "exited" /\ exit' = 0
       [] OTHER -> pc' = "asking" /\ UNCHANGED exit
  /\ UNCHANGED <<node, launch, got, said, out, daemon>>

Polls == settings.cmd = "run"

\* The round of calls is over: qikchaind run prints a line either way and
\* goes to its select (the ticker starts with the first time), the others
\* print what they have, or nothing, and end.
Over(line, status) ==
  IF Polls THEN out' = line /\ pc' = "waiting" /\ ticker' = TRUE /\ UNCHANGED exit
  ELSE out' = (IF status = 0 THEN line ELSE None) /\ pc' = "exited" /\ exit' = status /\ UNCHANGED ticker

ErrorLine == [error |-> TRUE, texts |-> <<>>, numbers |-> <<>>]

\* classifyError of internal/cli goes by words in the message.
Failure(reply) == IF launch.tool = "cobra" /\ reply.usage THEN 2 ELSE 1

Replies(method) ==
  {Honest(method)} \cup (IF Len(SelectSeq(said, LAMBDA reply : reply \in OddReplies)) < MaxOdd THEN OddReplies ELSE {})

\* A call is answered, or fails.
Call ==
  /\ pc = "asking" /\ Len(got) < Len(Method(settings.cmd))
  /\ \E reply \in Replies(Method(settings.cmd)[Len(got) + 1]) :
       /\ said' = Append(said, reply)
       /\ IF Called(launch.tool, reply) # None
          THEN got' = Append(got, Called(launch.tool, reply)) /\ UNCHANGED <<pc, out, exit, ticker>>
          ELSE Over(ErrorLine, Failure(reply)) /\ UNCHANGED got
  /\ UNCHANGED <<node, launch, settings, tick, signalled>>

\* All have answered: the numbers are decoded, in cmd/qikchain whatever they
\* are, and printed beside the texts.
Report ==
  /\ pc = "asking" /\ Len(got) = Len(Method(settings.cmd))
  /\ LET numbers == [i \in DOMAIN got |-> Decoded(launch.tool, got[i])] IN
       IF None \in Range(numbers) THEN Over(ErrorLine, 1)
       ELSE Over([error |-> FALSE, texts |-> got, numbers |-> numbers], 0)
  /\ UNCHANGED <<node, launch, settings, got, said, tick, signalled>>

\* The ticker has room for one tick, and drops those that find it full.
TickerFires ==
  /\ ticker /\ ~tick /\ pc # "exited"
  /\ tick' = TRUE
  /\ UNCHANGED <<node, launch, pc, settings, got, said, out, exit, ticker, signalled>>

SelectTick ==
  /\ pc = "waiting" /\ tick
  /\ tick' = FALSE /\ pc' = "asking" /\ got' = <<>> /\ said' = <<>> /\ out' = None
  /\ UNCHANGED <<node, launch, settings, exit, ticker, signalled>>

\* SIGINT or SIGTERM; only the select looks for it, and one that comes in a
\* round of calls waits, as a second one does.
Signal ==
  /\ Running /\ Polls /\ ~signalled
  /\ signalled' = TRUE
  /\ UNCHANGED <<node, launch, pc, settings, got, said, out, exit, ticker, tick>>

\* MUTANT: a tick that waits goes first.
SelectDoneLast ==
  /\ pc = "waiting" /\ signalled /\ ~tick
  /\ pc' = "exited" /\ exit' = 0
  /\ UNCHANGED <<node, launch, settings, got, said, out, daemon>>

\* The select takes either if both are ready.
SelectDone ==
  /\ pc = "waiting" /\ signalled
  /\ pc' = "exited" /\ exit' = 0
  /\ UNCHANGED <<node, launch, settings, got, said, out, daemon>>

QueryNext ==
  \/ NewBlock \/ ResetNode
  \/ Start \/ Call \/ Report
  \/ TickerFires \/ SelectTick \/ Signal \/ SelectDone

\* A program goes on; its calls end if they have a timeout (without one, an
\* http.Client waits as long as the node does); the ticker fires; and a
\* select does not for ever pass over a case that is ready whenever it is
\* reached, since it chooses among them at random.
QueryFairness ==
  /\ WF_queryVars(Start \/ Report)
  /\ WF_queryVars(Call /\ settings.timeout > 0)
  /\ WF_queryVars(TickerFires) /\ WF_queryVars(SelectTick)
  /\ SF_queryVars(SelectDone)
=============================================================================
