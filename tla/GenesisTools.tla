---------------------------- MODULE GenesisTools ----------------------------
(***************************************************************************)
(* The commands of qikchain that read what `genesis build` reads or wrote: *)
(* `genesis validate` and `genesis print`, `allocations verify`, `render`  *)
(* and `report`.  Each is a function of its command line and of what is on *)
(* disk: an exit status (2 if the line is refused, 1 if the command fails) *)
(* and what is printed.                                                    *)
(***************************************************************************)
EXTENDS GenesisBuild

NoPath == <<"", "">>
Answer(exit, printed) == [exit |-> exit, printed |-> printed]
Nothing == Just(Absent)

----------------------------------------------------------------------------
(* Documents *)

ValidateLine == [chain |-> NoPath, genesis |-> NoPath, file |-> NoPath, strict |-> TRUE, legacy |-> FALSE]

\* --file counts only if neither of the others is there; every file that is
\* named has to be read and to pass.
GenesisValidate(line, files) ==
  LET both == {line.chain, line.genesis} \ {NoPath}
      named == IF both # {} THEN both ELSE {line.file}
      o == [flag \in {"strict", "accept-legacy-consensus"} |-> IF flag = "strict" THEN line.strict ELSE line.legacy]
  IN IF named = {NoPath} THEN 2
     ELSE IF \A p \in named : p \in DOMAIN files /\ Validate(files[p], o, files) THEN 0 ELSE 1

\* With --json the text is printed whatever it is.
GenesisPrint(file, raw, files) ==
  CASE file = NoPath -> Answer(2, Nothing)
    [] file # NoPath /\ file \notin DOMAIN files -> Answer(1, Nothing)
    [] file \in DOMAIN files /\ ~raw /\ files[file] = Torn -> Answer(1, Nothing)
    [] OTHER -> Answer(0, files[file])

----------------------------------------------------------------------------
(* Allocations.  cfg: what the file says, or Missing if it cannot be read. *)

LoadAndVerify(cfg, allowZero) == cfg # Missing /\ Verify(cfg, allowZero)

AllocationsVerify(named, cfg, allowZero) ==
  IF ~named THEN 2 ELSE IF LoadAndVerify(cfg, allowZero) THEN 0 ELSE 1

AllocationsRender(named, cfg) ==
  CASE ~named -> Answer(2, Nothing)
    [] named /\ ~LoadAndVerify(cfg, FALSE) -> Answer(1, Nothing)
    [] OTHER -> Answer(0, RenderAllocMap(cfg))

\* A line for each entry, and a total of its own.
BuildReport(cfg) ==
  [lines |-> [e \in DOMAIN cfg.entries |->
                [address |-> Normalized(cfg.entries[e].address, TRUE), wei |-> cfg.entries[e].amount.wei]],
   total |-> TotalPremine(cfg)]

\* The token file has a default place, and is asked for if nothing is there.
\* token: "read", "broken", or "absent".
AllocationsReport(named, cfg, tokenNamed, token) ==
  CASE ~named -> Answer(2, Nothing)
    [] named /\ ~LoadAndVerify(cfg, FALSE) -> Answer(1, Nothing)
    [] named /\ LoadAndVerify(cfg, FALSE) /\ token # "read" ->
         Answer(IF ~tokenNamed /\ token = "absent" THEN 2 ELSE 1, Nothing)
    [] OTHER -> Answer(0, BuildReport(cfg))
=============================================================================
