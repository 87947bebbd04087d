------------------------------- MODULE TxLab -------------------------------
(***************************************************************************)
(* apps/status-ui/txlab.js: runs of a scenario that sends transactions.    *)
(* The program is single threaded: between two awaits nothing else runs.   *)
(* The pieces of code between awaits are the steps here:                   *)
(*   the loop of a run (_runAsync) starts transactions until its limit is  *)
(*   reached (place "kick"), sleeps 10 ms ("sleep") and, when it ends,     *)
(*   writes the results ("persist", and "retry" after an error);           *)
(*   each transaction asks the node for a nonce ("lookup", "counted"),     *)
(*   sends ("submit") and may wait for its receipt ("receipt").            *)
(* The node is external: it counts, accepts, refuses, mines, or its answer *)
(* is lost.                                                                *)
(***************************************************************************)
EXTENDS Integers, Sequences, FiniteSets

CONSTANTS
  Runs,           \* ids of runs
  Scenarios,      \* for each run, scenarios that pass _validateScenario
  Accounts,       \* labels of the loaded accounts
  Unknown,        \* labels a scenario may name that were never loaded
  MaxTx,          \* no scenario has more transactions
  MaxDelayed,     \* bound of the model: kicks asleep in the rate limiter
  NoRun

ASSUME ScenarioAssumption ==
  /\ MaxTx \in Nat /\ MaxDelayed \in Nat
  /\ \A r \in Runs : \A sc \in Scenarios[r] :
       /\ sc.txCount \in 1..MaxTx
       /\ sc.concurrency \in Nat \ {0}
       /\ sc.rateLimitTps \in Nat
       /\ sc.senders \in Seq(Accounts \cup Unknown) /\ sc.senders # <<>>
       /\ sc.waitReceipt \in BOOLEAN

VARIABLES
  activeRun,
  run,          \* this.runs: status, scenario, flags and counters
  loop,         \* the place of _runAsync
  task,         \* the transactions of a run: place, nonce and outcome
  reserve,      \* the run's map from label to the next nonce
  delayed,      \* kicks asleep in the rate limiter
  accepted,     \* the node: nonces it took from each account
  disk,         \* what the results file of a run says, <<>> if there is none
  crashed       \* the process died of an unhandled rejection

vars == <<activeRun, run, loop, task, reserve, delayed, accepted, disk, crashed>>

NoScenario == [txCount |-> 0]
NewRun(sc) ==
  [status |-> "running", scenario |-> sc, stopRequested |-> FALSE, cursor |-> 0,
   inFlight |-> 0, sent |-> 0,
   counters |-> [submitted |-> 0, accepted |-> 0, pending |-> 0, mined |-> 0, failed |-> 0]]
\* asked: its nonce came from the node, not from the reservations.
NoTask == [pc |-> "none", label |-> "", asked |-> FALSE, nonce |-> -1, outcome |-> ""]

Init ==
  /\ activeRun = NoRun
  /\ run = [r \in Runs |-> [NewRun(NoScenario) EXCEPT !.status = "none"]]
  /\ loop = [r \in Runs |-> "none"]
  /\ task = [r \in Runs |-> [i \in 1..MaxTx |-> NoTask]]
  /\ reserve = [r \in Runs |-> [a \in Accounts |-> -1]]
  /\ delayed = [r \in Runs |-> 0]
  /\ accepted = [a \in Accounts |-> {}]
  /\ disk = [r \in Runs |-> <<>>]
  /\ crashed = FALSE

\* Nothing else runs while a loop starts transactions, and nothing at all
\* after a crash.
Turn(r) == ~crashed /\ \A other \in Runs \ {r} : loop[other] # "kick"
EventLoopFree == ~crashed /\ \A r \in Runs : loop[r] # "kick"

----------------------------------------------------------------------------
(* The API *)

StartRun(r, sc) ==
  /\ EventLoopFree
  /\ activeRun = NoRun
  /\ run[r].status = "none"
  /\ \A q \in Runs : q < r => run[q].status # "none"      \* ids are times
  /\ activeRun' = r
  /\ run' = [run EXCEPT ![r] = NewRun(sc)]
  /\ loop' = [loop EXCEPT ![r] = "kick"]
  /\ UNCHANGED <<task, reserve, delayed, accepted, disk, crashed>>

StopRun(r) ==
  /\ EventLoopFree
  /\ run[r].status # "none"
  /\ run' = [run EXCEPT ![r].stopRequested = TRUE]
  /\ UNCHANGED <<activeRun, loop, task, reserve, delayed, accepted, disk, crashed>>

----------------------------------------------------------------------------
(* kick *)

\* The inner loop of _runAsync.
WantsMore(r) ==
  /\ run[r].inFlight < run[r].scenario.concurrency
  /\ run[r].cursor < run[r].scenario.txCount
  /\ ~run[r].stopRequested

\* The rate limiter; the window it counts in may be over by now, in which
\* case it counts from 0.
Limited(r, sent) == run[r].scenario.rateLimitTps > 0 /\ sent >= run[r].scenario.rateLimitTps
SentInWindow(r) == IF run[r].scenario.rateLimitTps > 0 THEN {run[r].sent, 0} ELSE {run[r].sent}

SenderOf(r) ==
  LET senders == run[r].scenario.senders
  IN senders[(run[r].cursor % Len(senders)) + 1]

\* kick, past its guards, up to the first await: a slot is taken, and a
\* sender whose nonce is reserved gets the next one at once.
Begin(r, sent) ==
  LET label == SenderOf(r)
      i == run[r].cursor + 1
      known == label \in Accounts /\ reserve[r][label] >= 0
  IN /\ run' = [run EXCEPT ![r].cursor = @ + 1, ![r].inFlight = @ + 1, ![r].sent = sent + 1]
     /\ IF label \in Accounts
        THEN /\ task' = [task EXCEPT ![r][i] =
                  [pc |-> IF known THEN "submit" ELSE "lookup", label |-> label, asked |-> ~known,
                   nonce |-> IF known THEN reserve[r][label] ELSE -1, outcome |-> ""]]
             /\ reserve' = IF known THEN [reserve EXCEPT ![r][label] = @ + 1] ELSE reserve
             /\ UNCHANGED crashed
        ELSE /\ crashed' = TRUE       \* pick throws outside the try
             /\ UNCHANGED <<task, reserve>>

Kick(r) ==
  /\ loop[r] = "kick" /\ Turn(r)
  /\ WantsMore(r)
  /\ \E sent \in SentInWindow(r) :
       \/ ~Limited(r, sent) /\ Begin(r, sent) /\ UNCHANGED delayed
       \/ /\ Limited(r, sent)
          /\ delayed[r] < MaxDelayed
          /\ delayed' = [delayed EXCEPT ![r] = @ + 1]
          /\ UNCHANGED <<run, task, reserve, crashed>>
  /\ UNCHANGED <<activeRun, loop, accepted, disk>>

\* A kick wakes up in the rate limiter and starts over; one that is still
\* limited goes back to sleep, which is no step.
DelayedKick(r) ==
  /\ delayed[r] > 0 /\ EventLoopFree
  /\ \/ /\ run[r].stopRequested \/ run[r].cursor >= run[r].scenario.txCount
        /\ UNCHANGED <<run, task, reserve, crashed>>
     \/ /\ ~run[r].stopRequested /\ run[r].cursor < run[r].scenario.txCount
        /\ \E sent \in SentInWindow(r) : ~Limited(r, sent) /\ Begin(r, sent)
  /\ delayed' = [delayed EXCEPT ![r] = @ - 1]
  /\ UNCHANGED <<activeRun, loop, accepted, disk>>

----------------------------------------------------------------------------
(* One transaction *)

At(r, i, pc) == EventLoopFree /\ task[r][i].pc = pc

\* eth_getTransactionCount(address, 'pending'), at the node.
PendingCount(label) ==
  CHOOSE n \in 0..Cardinality(accepted[label]) :
    n \notin accepted[label] /\ \A k \in 0..(n - 1) : k \in accepted[label]

NodeCounts(r, i) ==
  /\ At(r, i, "lookup")
  /\ task' = [task EXCEPT ![r][i].pc = "counted", ![r][i].nonce = PendingCount(task[r][i].label)]
  /\ UNCHANGED <<activeRun, run, loop, reserve, delayed, accepted, disk, crashed>>

\* MUTANT: the reservation is not moved on.
TakeCountedStays(r, i) ==
  /\ At(r, i, "counted")
  /\ task' = [task EXCEPT ![r][i].pc = "submit"]
  /\ reserve' = [reserve EXCEPT ![r][task[r][i].label] = task[r][i].nonce]
  /\ UNCHANGED <<activeRun, run, loop, delayed, accepted, disk, crashed>>

\* The answer arrives: it replaces what is reserved, whatever that is by now.
TakeCounted(r, i) ==
  /\ At(r, i, "counted")
  /\ task' = [task EXCEPT ![r][i].pc = "submit"]
  /\ reserve' = [reserve EXCEPT ![r][task[r][i].label] = task[r][i].nonce + 1]
  /\ UNCHANGED <<activeRun, run, loop, delayed, accepted, disk, crashed>>

Bump(c, outcome) ==
  CASE outcome = "accepted" -> [c EXCEPT !.submitted = @ + 1, !.accepted = @ + 1, !.pending = @ + 1]
    [] outcome = "mined" -> [c EXCEPT !.submitted = @ + 1, !.accepted = @ + 1, !.mined = @ + 1]
    [] outcome = "reverted" -> [c EXCEPT !.submitted = @ + 1, !.accepted = @ + 1]
    [] outcome = "failed" -> [c EXCEPT !.submitted = @ + 1, !.failed = @ + 1]

\* MUTANT: a failure does not give its slot back.
FinishLeaks(r, i, outcome) ==
  /\ task' = [task EXCEPT ![r][i].pc = "done", ![r][i].outcome = outcome]
  /\ run' = [run EXCEPT ![r].counters = Bump(@, outcome),
                        ![r].inFlight = IF outcome = "failed" THEN @ ELSE @ - 1]

\* The code after the awaits, the catch and the finally of kick.
Finish(r, i, outcome) ==
  /\ task' = [task EXCEPT ![r][i].pc = "done", ![r][i].outcome = outcome]
  /\ run' = [run EXCEPT ![r].counters = Bump(@, outcome), ![r].inFlight = @ - 1]

LookupFails(r, i) ==
  /\ At(r, i, "lookup")
  /\ Finish(r, i, "failed")
  /\ UNCHANGED <<activeRun, loop, reserve, delayed, accepted, disk, crashed>>

\* The node takes a nonce of an account once; the answer may be lost.
Send(r, i) ==
  LET label == task[r][i].label
      nonce == task[r][i].nonce
      accept == accepted' = [accepted EXCEPT ![label] = @ \cup {nonce}]
  IN /\ At(r, i, "submit")
     /\ \/ /\ nonce \notin accepted[label] /\ accept
           /\ IF run[r].scenario.waitReceipt
              THEN task' = [task EXCEPT ![r][i].pc = "receipt"] /\ UNCHANGED run
              ELSE Finish(r, i, "accepted")
        \/ /\ nonce \notin accepted[label] /\ accept
           /\ Finish(r, i, "failed")
        \/ UNCHANGED accepted /\ Finish(r, i, "failed")
     /\ UNCHANGED <<activeRun, loop, reserve, delayed, disk, crashed>>

\* _waitReceipt: mined, reverted, or the timeout.
Receipt(r, i) ==
  /\ At(r, i, "receipt")
  /\ \E outcome \in {"mined", "reverted", "failed"} : Finish(r, i, outcome)
  /\ UNCHANGED <<activeRun, loop, reserve, delayed, accepted, disk, crashed>>

----------------------------------------------------------------------------
(* The loop of a run *)

\* MUTANT: the loop forgets the transactions in flight.
GoesOnForgetful(r) == ~run[r].stopRequested /\ run[r].cursor < run[r].scenario.txCount

GoesOn(r) ==
  /\ ~run[r].stopRequested
  /\ run[r].cursor < run[r].scenario.txCount \/ run[r].inFlight > 0

\* The inner loop is done: await 10 ms.
Sleep(r) ==
  /\ loop[r] = "kick" /\ Turn(r)
  /\ ~WantsMore(r)
  /\ loop' = [loop EXCEPT ![r] = "sleep"]
  /\ UNCHANGED <<activeRun, run, task, reserve, delayed, accepted, disk, crashed>>

\* Another round; one that finds nothing to start is no step.
Again(r) ==
  /\ loop[r] = "sleep" /\ EventLoopFree
  /\ GoesOn(r) /\ WantsMore(r)
  /\ loop' = [loop EXCEPT ![r] = "kick"]
  /\ UNCHANGED <<activeRun, run, task, reserve, delayed, accepted, disk, crashed>>

\* getRunResults: the summary and the outcomes there are at this moment.
Results(r) ==
  [status |-> run'[r].status, counters |-> run[r].counters,
   txs |-> {i \in 1..MaxTx : task[r][i].pc = "done"}]

End(r) ==
  /\ loop[r] = "sleep" /\ EventLoopFree
  /\ ~GoesOn(r)
  /\ run' = [run EXCEPT ![r].status = IF run[r].stopRequested
                                      THEN "stopped" ELSE "completed"]
  /\ activeRun' = NoRun
  /\ loop' = [loop EXCEPT ![r] = "persist"]
  /\ disk' = [disk EXCEPT ![r] = <<Results(r), "writing">>]
  /\ UNCHANGED <<task, reserve, delayed, accepted, crashed>>

\* _persistRun succeeds: at once, or in the catch of startRun.
Persist(r) ==
  /\ loop[r] \in {"persist", "retry"} /\ EventLoopFree
  /\ disk' = [disk EXCEPT ![r] = <<@[1], "written">>]
  /\ loop' = [loop EXCEPT ![r] = "over"]
  /\ UNCHANGED <<activeRun, run, task, reserve, delayed, accepted, crashed>>

\* The write fails: the catch of startRun marks the run, clears activeRun,
\* whoever has it by now, and tries once more.
PersistFails(r) ==
  /\ loop[r] = "persist" /\ EventLoopFree
  /\ run' = [run EXCEPT ![r].status = "failed"]
  /\ activeRun' = NoRun
  /\ loop' = [loop EXCEPT ![r] = "retry"]
  /\ disk' = [disk EXCEPT ![r] = <<Results(r), "writing">>]
  /\ UNCHANGED <<task, reserve, delayed, accepted, crashed>>

RetryFails(r) ==
  /\ loop[r] = "retry" /\ EventLoopFree
  /\ loop' = [loop EXCEPT ![r] = "over"]
  /\ disk' = [disk EXCEPT ![r] = <<>>]
  /\ UNCHANGED <<activeRun, run, task, reserve, delayed, accepted, crashed>>

----------------------------------------------------------------------------

Lookup(r, i) == NodeCounts(r, i) \/ TakeCounted(r, i) \/ LookupFails(r, i)
Transaction(r, i) == Lookup(r, i) \/ Send(r, i) \/ Receipt(r, i)
Loop(r) == Kick(r) \/ Sleep(r) \/ Again(r) \/ End(r)
Writing(r) == Persist(r) \/ PersistFails(r) \/ RetryFails(r)

Next ==
  \E r \in Runs :
    \/ \E sc \in Scenarios[r] : StartRun(r, sc)
    \/ StopRun(r)
    \/ DelayedKick(r)
    \/ Loop(r)
    \/ Writing(r)
    \/ \E i \in 1..MaxTx : Transaction(r, i)

Spec == Init /\ [][Next]_vars

\* Timers fire, the window of the rate limiter passes, and every call of the
\* node is answered or times out.
FairSpec ==
  /\ Spec
  /\ \A r \in Runs : WF_vars(Loop(r)) /\ WF_vars(Writing(r))
  /\ \A r \in Runs : \A i \in 1..MaxTx : WF_vars(Transaction(r, i))

----------------------------------------------------------------------------
(* What must hold *)

Done(r) == {i \in 1..MaxTx : task[r][i].pc = "done"}
Open(r) == {i \in 1..MaxTx : task[r][i].pc \notin {"none", "done"}}
With(r, outcomes) == Cardinality({i \in Done(r) : task[r][i].outcome \in outcomes})
Taken(r, i) == task[r][i].pc \in {"submit", "receipt", "done"} /\ task[r][i].nonce >= 0
ClashIn(r, label) ==
  \E i, j \in 1..MaxTx :
    /\ i # j /\ Taken(r, i) /\ Taken(r, j) /\ task[r][i].label = label /\ task[r][j].label = label
    /\ task[r][i].nonce = task[r][j].nonce

Counted(r) ==
  LET c == run[r].counters IN
    /\ run[r].inFlight = Cardinality(Open(r))
    /\ c.submitted = Cardinality(Done(r))
    /\ c.failed = With(r, {"failed"})
    /\ c.accepted = With(r, {"accepted", "mined", "reverted"})
    /\ c.mined = With(r, {"mined"}) /\ c.pending = With(r, {"accepted"})

\* The counters of a run say what became of its transactions, whatever
\* order the answers come in and however each one ends, and the slots taken
\* are those of the transactions still open (txlab.js:150-166).
CountersAgree == ~crashed => \A r \in Runs : Counted(r)

\* A run that calls itself completed has the outcome of every transaction of
\* its scenario, and so has its file (txlab.js:168-170).
CompletedIsComplete ==
  \A r \in Runs :
    /\ run[r].status = "completed" => Cardinality(Done(r)) = run[r].scenario.txCount
    /\ disk[r] # <<>> /\ disk[r][1].status = "completed" =>
         Cardinality(disk[r][1].txs) = run[r].scenario.txCount

\* The reservations of a run hand out a nonce of an account twice only if
\* two of its transactions asked the node for it, the second before the
\* first had its answer and overwriting what was reserved since
\* (txlab.js:148); a run that sends one transaction at a time never does.
SequentialNonces ==
  \A r \in Runs : \A label \in Accounts : ClashIn(r, label) =>
    /\ \E i, j \in 1..MaxTx : i # j /\ \A k \in {i, j} : Taken(r, k) /\ task[r][k].asked /\ task[r][k].label = label
    /\ run[r].scenario.concurrency > 1 \/ run[r].scenario.rateLimitTps > 0
=============================================================================
