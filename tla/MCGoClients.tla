---------------------------- MODULE MCGoClients ----------------------------
(***************************************************************************)
(* GoClients on a small instance: the command lines that are tried, what a *)
(* node may answer instead of the truth, the jobs of the senders and the   *)
(* binaries.                                                               *)
(***************************************************************************)
EXTENDS GoClients, TLC

----------------------------------------------------------------------------
(* Command lines: a command, flags before and after it, and what may       *)
(* follow.                                                                 *)

FlagIs(name, value, joined) == [name |-> name, value |-> value, joined |-> joined]

FlagLists ==
  { <<>>,
    <<FlagIs("rpc", "a", FALSE)>>,
    <<FlagIs("rpc", "a", TRUE), FlagIs("rpc", "b", FALSE)>>,
    <<FlagIs("rpc", "status", FALSE), FlagIs("timeout", "0s", TRUE)>>,
    <<FlagIs("timeout", "2s", FALSE), FlagIs("rpc", "a", TRUE)>>,
    <<FlagIs("timeout", "soon", FALSE)>>, <<FlagIs("interval", "2s", FALSE)>>, <<FlagIs("interval", "0s", TRUE)>>,
    <<FlagIs("json", "", FALSE), FlagIs("rpc", "a", FALSE)>> }

TimeoutEnvs == [kind : {"duration", "number"}, seconds : {0, 2}] \cup {[kind |-> "none", seconds |-> 0]}
UsualTimeout == [kind |-> "duration", seconds |-> 2]

\* Flags stand before the command in cobra only; the environments and an
\* operand at the end are tried with the plain lines.
Plain == <<FlagIs("rpc", "a", FALSE)>>
Lines ==
  {l \in [tool : DOMAIN Commands, command : UNION {Commands[t] : t \in DOMAIN Commands}, flags : FlagLists,
          before : 0..2, extra : BOOLEAN, rpcEnv : {"", "e"}, timeoutEnv : TimeoutEnvs] :
     /\ l.command \in Commands[l.tool]
     /\ l.before <= Len(l.flags) /\ (l.tool # "cobra" => l.before = 0)
     /\ l.extra => l.flags = Plain
     /\ l.flags # <<>> => l.rpcEnv = "e"
     /\ l.flags # Plain => l.timeoutEnv = UsualTimeout}

MCLaunches ==
  {LET parts == SubSeq(l.flags, 1, l.before) \o [i \in DOMAIN l.command |-> Operand(l.command[i])]
                  \o SubSeq(l.flags, l.before + 1, Len(l.flags)) \o (IF l.extra THEN <<Operand("more")>> ELSE <<>>)
   IN l @@ [parts |-> parts, words |-> FlattenSeq([i \in DOMAIN parts |-> Written(parts[i])])] : l \in Lines}

----------------------------------------------------------------------------
(* Odd replies, and jobs of the senders *)

Reply(http, body, text, usage) == [http |-> http, body |-> body, text |-> text, usage |-> usage]
Hex(prefix, digits) == [prefix |-> prefix, digits |-> digits]

\* 16 is one more than an unsigned integer holds, 9 is no digit.
MCOddReplies ==
  {Reply("none", "none", Empty, FALSE), Reply("500", "none", Empty, FALSE),
   Reply("200", "error", Empty, FALSE), Reply("200", "error", Empty, TRUE),
   Reply("200", "null", Empty, FALSE), Reply("200", "missing", Empty, FALSE), Reply("200", "number", Empty, FALSE),
   Reply("2xx", "string", Hex(TRUE, <<1>>), FALSE), Reply("200", "string", Hex(FALSE, <<1, 0>>), FALSE),
   Reply("200", "string", Hex(TRUE, <<>>), FALSE), Reply("200", "string", Hex(TRUE, <<1, 9>>), FALSE),
   Reply("200", "string", Hex(TRUE, <<1, 0, 0, 0, 1>>), FALSE)}

Job(tool, action, args, wait, cap, server) ==
  [tool |-> tool, action |-> action, args |-> args, wait |-> wait, cap |-> cap, server |-> server]
MCJobs ==
  {Job("txsmoke", "burn", args, FALSE, FALSE, FALSE) : args \in {"good", "wrong", "unreadable"}}
    \cup {Job("txhelper", "burn", "good", FALSE, FALSE, TRUE), Job("txhelper", "raw", "good", FALSE, FALSE, TRUE)}
    \cup {Job("txhelper", "deploy", "good", TRUE, cap, TRUE) : cap \in BOOLEAN}
    \cup {Job("txhelper", "raw", "good", TRUE, FALSE, FALSE)}

----------------------------------------------------------------------------
(* Edge binaries: an old and a new one, and what else may be at the path.  *)

MCServerFlagNames == {<<"metrics">>, <<"max", "peers">>}
MCGenesisFlagNames == {<<"pos">>}
EdgeBinary(file, answers, server, genesis) ==
  [file |-> file, answers |-> answers, server |-> server, genesis |-> genesis]
MCBinaries ==
  {EdgeBinary("program", {"version"}, <<<<"metrics">>, <<"max", "peers", "extra">>>>, <<<<"pos">>>>),
   EdgeBinary("program", {"version --json"}, <<<<"max", "peers">>, <<"metrics", "addr">>>>, <<<<"validators">>, <<"pos">>>>),
   EdgeBinary("program", {}, <<>>, <<>>), EdgeBinary("plain", {}, <<>>, <<>>),
   EdgeBinary("directory", {}, <<>>, <<>>), EdgeBinary("missing", {}, <<>>, <<>>)}

=============================================================================
