------------------------------ MODULE EdgeCaps ------------------------------
(***************************************************************************)
(* `qikchain edge caps` (cmd/qikchain, internal/edgecaps): it finds the    *)
(* edge binary, runs it up to five times, each time with a timeout of its  *)
(* own, and reports version, flags and hash for scripts to go by.  The     *)
(* binary may be put in place, replaced or removed while that goes on.     *)
(*                                                                         *)
(* A binary is [file, answers, server, genesis]: "program", "plain" (not   *)
(* executable), "directory" or "missing"; which of the three forms of the  *)
(* question for its version it answers; and its two help texts, each the   *)
(* sequence of its flags.  A flag is the sequence of what stands between   *)
(* its dashes: <<"max", "peers">> is --max-peers.                          *)
(***************************************************************************)
EXTENDS Integers, Sequences, SequencesExt

CONSTANTS Binaries, ServerFlagNames, GenesisFlagNames,
  MaxReplaced,     \* bound on how often the binary is replaced
  NoReport

Forms == {"version", "--version", "version --json"}
HelpTexts == Seq(Seq(STRING) \ {<<>>})
BinaryKinds == [file : {"program", "plain", "directory", "missing"}, answers : SUBSET Forms,
                server : HelpTexts, genesis : HelpTexts]

ASSUME CapsAssumption == MaxReplaced \in Nat /\ Binaries \subseteq BinaryKinds

VARIABLES
  binary,      \* what is at the path
  replaced,    \* how often it was replaced since the start
  caps         \* the program: place, what it has learnt, exit status, what it printed

capsVars == <<binary, replaced, caps>>

Asked == [pc |-> "new", version |-> NoReport, server |-> <<>>, genesis |-> <<>>, exit |-> -1, report |-> NoReport,
          cut |-> {}]   \* the help texts that did not come whole

CapsInit ==
  /\ binary \in Binaries
  /\ replaced = 0
  /\ caps \in {Asked, [Asked EXCEPT !.pc = "off"]}

CapsRunning == caps.pc \notin {"off", "exited"}

Replace ==
  /\ CapsRunning /\ replaced < MaxReplaced
  /\ binary' \in Binaries \ {binary}
  /\ replaced' = replaced + 1
  /\ UNCHANGED caps

----------------------------------------------------------------------------

\* MUTANT: the name may be the beginning of a longer one.
HasFlagPrefix(help, name) == \E i \in DOMAIN help : IsPrefix(name, help[i])

\* The regular expression wants neither a letter, a digit nor a dash on
\* either side of --name.
HasFlag(help, name) == Contains(help, name)

DetectFlags(help, names) == [name \in names |-> HasFlag(help, name)]

CapsRefused ==
  /\ caps.pc = "new"
  /\ caps' = [caps EXCEPT !.pc = "exited", !.exit = 2]
  /\ UNCHANGED <<binary, replaced>>

ResolveEdgeBinary ==
  /\ caps.pc = "new"
  /\ caps' = IF binary.file = "program" THEN [caps EXCEPT !.pc = "version"]
             ELSE [caps EXCEPT !.pc = "exited", !.exit = 1]
  /\ UNCHANGED <<binary, replaced>>

Runs(form) == binary.file = "program" /\ form \in binary.answers

\* firstVersion: three forms of the question, one after the other, until one
\* of them ends well and says something; or none does.
FirstVersion ==
  /\ caps.pc \in Forms
  /\ \/ Runs(caps.pc) /\ caps' = [caps EXCEPT !.pc = "server", !.version = binary]
     \/ caps' = [caps EXCEPT !.pc = CASE caps.pc = "version" -> "--version"
                                      [] caps.pc = "--version" -> "version --json"
                                      [] caps.pc = "version --json" -> "server"]
  /\ UNCHANGED <<binary, replaced>>

\* What may have come of a text when its time is over: a first part, which
\* may end within a flag.
CutShort(text) ==
  {SubSeq(text, 1, n) : n \in 0..Len(text) - 1}
    \cup {Append(SubSeq(text, 1, n - 1), SubSeq(text[n], 1, k)) : n \in DOMAIN text, k \in 1..1}

\* A help text is taken as far as it came, nothing if the binary cannot be
\* run: the error is not looked at.
Help ==
  /\ caps.pc \in {"server", "genesis"}
  /\ LET said == IF binary.file = "program" THEN binary[caps.pc] ELSE <<>> IN
     \/ /\ binary.file = "program"
        /\ caps' = [caps EXCEPT ![caps.pc] = said, !.pc = IF caps.pc = "server" THEN "genesis" ELSE "hash"]
     \/ \E part \in {<<>>} \cup CutShort(said) :
          caps' = [caps EXCEPT ![caps.pc] = part, !.cut = @ \cup {caps.pc},
                               !.pc = IF caps.pc = "server" THEN "genesis" ELSE "hash"]
  /\ UNCHANGED <<binary, replaced>>

\* The hash is left out if the file cannot be read; then all is printed.
ReportCaps ==
  /\ caps.pc = "hash"
  /\ caps' = [caps EXCEPT !.pc = "exited", !.exit = 0, !.report =
       [version |-> caps.version, hash |-> IF binary.file \in {"program", "plain"} THEN binary ELSE NoReport,
        server |-> DetectFlags(caps.server, ServerFlagNames), genesis |-> DetectFlags(caps.genesis, GenesisFlagNames)]]
  /\ UNCHANGED <<binary, replaced>>

CapsNext == Replace \/ CapsRefused \/ ResolveEdgeBinary \/ FirstVersion \/ Help \/ ReportCaps
CapsFairness == WF_capsVars(ResolveEdgeBinary \/ FirstVersion \/ Help \/ ReportCaps)
=============================================================================
