---------------------------- MODULE TxLabProofs ----------------------------
(***************************************************************************)
(* The transaction lab for any runs, scenarios and accounts: the counters  *)
(* of a run say what became of its transactions, a completed run is        *)
(* complete, and a nonce is handed out twice only by two answers of the    *)
(* node.  A step belongs to one run, and says nothing of the others.       *)
(***************************************************************************)
EXTENDS TxLab, SumsProofs

Places == {"none", "lookup", "counted", "submit", "receipt", "done"}
Ends == {"accepted", "mined", "reverted", "failed"}
Outcomes == {""} \cup Ends
Ids == 1..MaxTx

Task == [pc : Places, label : Accounts \cup {""}, asked : BOOLEAN, nonce : Nat \cup {-1}, outcome : Outcomes]

AllScenarios == {NoScenario} \cup UNION {Scenarios[r] : r \in Runs}

Counters == [submitted : Nat, accepted : Nat, pending : Nat, mined : Nat, failed : Nat]

Run == [status : {"none", "running", "stopped", "completed", "failed"},
        scenario : AllScenarios,
        stopRequested : BOOLEAN, cursor : Nat, inFlight : Int, sent : Nat,
        counters : Counters]

TypeOK ==
  /\ run \in [Runs -> Run]
  /\ loop \in [Runs -> {"none", "kick", "sleep", "persist", "retry", "over"}]
  /\ task \in [Runs -> [Ids -> Task]]
  /\ reserve \in [Runs -> [Accounts -> Nat \cup {-1}]]
  /\ delayed \in [Runs -> Nat]
  /\ accepted \in [Accounts -> SUBSET Nat] /\ \A a \in Accounts : IsFiniteSet(accepted[a])
  /\ disk = [r \in Runs |-> disk[r]]
  /\ crashed \in BOOLEAN

\* A transaction has the nonce its place promises.
TasksOK(r) ==
  \A i \in Ids : LET t == task[r][i] IN
    /\ t.pc # "none" => t.label \in Accounts
    /\ t.pc = "lookup" => t.nonce = -1
    /\ t.pc \in {"lookup", "counted"} => t.asked
    /\ t.pc \in {"counted", "submit", "receipt"} => t.nonce \in Nat

\* A run that has not begun has nothing, one that has begun has a scenario.
Fresh(r) ==
  /\ run[r].status = "none" =>
       /\ run[r].cursor = 0 /\ loop[r] = "none" /\ delayed[r] = 0 /\ disk[r] = <<>> /\ \A i \in Ids : task[r][i].pc = "none"
  /\ run[r].status # "none" => run[r].scenario \in Scenarios[r] /\ run[r].cursor <= run[r].scenario.txCount

\* Transactions begin in their order, and the counters know them.
Balanced(r) ==
  ~crashed => Counted(r) /\ \A i \in Ids : task[r][i].pc = "none" <=> i > run[r].cursor

Finished(r) ==
  /\ run[r].status = "completed" => Done(r) = 1..run[r].scenario.txCount /\ run[r].cursor = run[r].scenario.txCount
  /\ loop[r] \in {"persist", "retry"} => disk[r] # <<>>
  /\ disk[r] # <<>> /\ disk[r][1].status = "completed" => disk[r][1].txs = 1..run[r].scenario.txCount

Takers(r, a) == {i \in Ids : Taken(r, i) /\ task[r][i].label = a}
Askers(r, a) == {i \in Takers(r, a) : task[r][i].asked}
Single(S) == \A i, j \in S : i = j

\* What is reserved of an account is above every nonce handed out, unless two
\* transactions asked the node.
NonceOK(r, a) ==
  /\ reserve[r][a] = -1 => Takers(r, a) = {}
  /\ reserve[r][a] # -1 => Askers(r, a) # {}
  /\ Single(Askers(r, a)) =>
       \A i \in Takers(r, a) :
         /\ task[r][i].nonce < reserve[r][a]
         /\ \A j \in Takers(r, a) : task[r][i].nonce = task[r][j].nonce => i = j

Handed(r) == \A a \in Accounts : NonceOK(r, a)

\* A run that sends one by one has one transaction in flight at most, and
\* asks the node for an account of which it knows nothing.
Serial(r) == run[r].status # "none" /\ run[r].scenario.concurrency = 1 /\ run[r].scenario.rateLimitTps = 0

OneByOne(r) ==
  Serial(r) =>
    /\ delayed[r] = 0 /\ run[r].inFlight <= 1
    /\ \A a \in Accounts : Single(Askers(r, a))
    /\ \A i \in Ids : task[r][i].pc \in {"lookup", "counted"} => reserve[r][task[r][i].label] = -1

RunInv(r) == TasksOK(r) /\ Fresh(r) /\ Balanced(r) /\ Finished(r) /\ Handed(r) /\ OneByOne(r)

LabInv == TypeOK /\ \A r \in Runs : RunInv(r)

-----------------------------------------------------------------------------
(* Sets *)

\* The node's count is a number: of the first numbers one is not taken.
LEMMA PendingCountType ==
  ASSUME TypeOK, NEW a \in Accounts
  PROVE  PendingCount(a) \in Nat
<1> DEFINE S == accepted[a]
           c == Cardinality(S)
           T == {k \in 0..c : k \notin S}
<1>1. IsFiniteSet(S) /\ c \in Nat
  BY FS_CardinalityType DEF TypeOK
<1>2. T # {}
  <2> SUFFICES ASSUME T = {} PROVE FALSE
    OBVIOUS
  <2> HIDE DEF S, c
  <2>1. 0..c \subseteq S
    OBVIOUS
  <2>2. Cardinality(0..c) <= Cardinality(S)
    BY <1>1, <2>1, FS_Subset
  <2>3. Cardinality(0..c) = c + 1
    BY <1>1, FS_Interval
  <2> QED
    BY <1>1, <2>2, <2>3 DEF c
<1>3. PICK m \in T : \A k \in T : m <= k
  <2> HIDE DEF S, c
  <2>1. T \in SUBSET Nat
    BY <1>1
  <2> QED
    BY <1>2, <2>1, Smallest
<1>4. m \in 0..c /\ m \notin S /\ \A k \in 0..(m - 1) : k \in S
  <2> HIDE DEF S, c
  <2>1. m \in 0..c /\ m \notin S
    OBVIOUS
  <2>2. ASSUME NEW k \in 0..(m - 1) PROVE k \in S
    BY <1>1, <1>3, <2>1
  <2> QED
    BY <2>1, <2>2
<1>5. PendingCount(a) \in 0..c
  BY <1>4 DEF PendingCount
<1> QED
  BY <1>1, <1>5

\* The transactions of a run are finitely many.
LEMMA IdsFinite ==
  IsFiniteSet(Ids) /\ \A S : S \subseteq Ids => IsFiniteSet(S) /\ Cardinality(S) \in Nat
<1>1. IsFiniteSet(Ids)
  BY ScenarioAssumption, FS_Interval DEF Ids
<1>2. \A S : S \subseteq Ids => IsFiniteSet(S)
  BY <1>1, FS_Subset
<1> QED
  BY <1>1, <1>2, FS_CardinalityType

LEMMA FirstNumbers ==
  ASSUME NEW n \in Nat
  PROVE  Cardinality(1..n) = n
BY FS_Interval

-----------------------------------------------------------------------------
(* One run at a time *)

\* What is said of a run depends on what is its own.
LEMMA SameRun ==
  ASSUME NEW q, RunInv(q), crashed => crashed',
         run'[q] = run[q], loop'[q] = loop[q], task'[q] = task[q], reserve'[q] = reserve[q],
         delayed'[q] = delayed[q], disk'[q] = disk[q]
  PROVE  RunInv(q)'
<1>1. Done(q)' = Done(q) /\ Open(q)' = Open(q) /\ \A S : With(q, S)' = With(q, S)
  BY DEF Done, Open, With
<1>2. \A a : Takers(q, a)' = Takers(q, a) /\ Askers(q, a)' = Askers(q, a)
  BY DEF Takers, Askers, Taken
<1>3. TasksOK(q)' /\ Fresh(q)'
  BY DEF RunInv, TasksOK, Fresh
<1>4. Balanced(q)'
  BY <1>1 DEF RunInv, Balanced, Counted
<1>5. Finished(q)'
  BY <1>1 DEF RunInv, Finished
<1>6. Handed(q)'
  BY <1>2 DEF RunInv, Handed, NonceOK
<1>7. OneByOne(q)'
  BY <1>2 DEF RunInv, OneByOne, Serial
<1> QED
  BY <1>3, <1>4, <1>5, <1>6, <1>7 DEF RunInv

\* A step of a run leaves the others alone.
Own(r) ==
  /\ crashed => crashed'
  /\ \A q \in Runs \ {r} :
       /\ run'[q] = run[q] /\ loop'[q] = loop[q] /\ task'[q] = task[q] /\ reserve'[q] = reserve[q]
       /\ delayed'[q] = delayed[q] /\ disk'[q] = disk[q]

LEMMA OwnStep ==
  ASSUME LabInv, NEW r \in Runs, TypeOK', Own(r), RunInv(r)'
  PROVE  LabInv'
<1>1. ASSUME NEW q \in Runs \ {r} PROVE RunInv(q)'
  BY SameRun DEF LabInv, Own
<1> QED
  BY <1>1 DEF LabInv

\* Nonces that are handed out stay what they are.
LEMMA SameNonces ==
  ASSUME NEW r, Handed(r), reserve'[r] = reserve[r],
         \A i \in Ids :
           /\ Taken(r, i)' <=> Taken(r, i)
           /\ Taken(r, i) => /\ task'[r][i].nonce = task[r][i].nonce
                             /\ task'[r][i].label = task[r][i].label
                             /\ task'[r][i].asked = task[r][i].asked
  PROVE  Handed(r)' /\ \A a : Askers(r, a)' = Askers(r, a)
<1>1. \A a : Takers(r, a)' = Takers(r, a)
  BY DEF Takers
<1>2. \A a : Askers(r, a)' = Askers(r, a)
  BY <1>1 DEF Askers, Takers
<1>3. ASSUME NEW a \in Accounts PROVE NonceOK(r, a)'
  <2>1. NonceOK(r, a)
    BY DEF Handed
  <2>2. \A i \in Takers(r, a) : task'[r][i].nonce = task[r][i].nonce
    BY DEF Takers
  <2> QED
    BY <1>1, <1>2, <2>1, <2>2 DEF NonceOK
<1> QED
  BY <1>2, <1>3 DEF Handed

LEMMA ScenarioFacts ==
  ASSUME TypeOK, NEW r \in Runs, RunInv(r), run[r].status # "none"
  PROVE  LET sc == run[r].scenario IN
         /\ sc \in Scenarios[r] /\ sc.txCount \in 1..MaxTx /\ sc.txCount \in Nat
         /\ sc.concurrency \in Nat \ {0} /\ sc.rateLimitTps \in Nat
         /\ sc.senders \in Seq(Accounts \cup Unknown) /\ sc.senders # <<>>
         /\ run[r].cursor \in Nat /\ run[r].cursor <= sc.txCount
<1>1. run[r].scenario \in Scenarios[r] /\ run[r].cursor <= run[r].scenario.txCount
  BY DEF RunInv, Fresh
<1>2. run[r].cursor \in Nat
  BY DEF TypeOK, Run
<1>3. \A n \in 1..MaxTx : n \in Nat
  OBVIOUS
<1> QED
  BY <1>1, <1>2, <1>3, ScenarioAssumption

\* What kick does to the record of the run, and to the transaction.
LEMMA BeginRun ==
  ASSUME TypeOK, NEW r \in Runs, NEW sent \in Nat, Begin(r, sent)
  PROVE  /\ run' \in [Runs -> Run] /\ \A q \in Runs \ {r} : run'[q] = run[q]
         /\ run'[r].status = run[r].status /\ run'[r].scenario = run[r].scenario
         /\ run'[r].counters = run[r].counters
         /\ run'[r].cursor = run[r].cursor + 1 /\ run'[r].inFlight = run[r].inFlight + 1
<1> DEFINE me == [run[r] EXCEPT !.cursor = @ + 1, !.inFlight = @ + 1, !.sent = sent + 1]
<1>1. run[r] \in Run
  BY DEF TypeOK
<1>2. me \in Run
  <2>1. run[r].cursor + 1 \in Nat /\ run[r].inFlight + 1 \in Int /\ sent + 1 \in Nat
    BY <1>1 DEF Run
  <2> QED
    BY <1>1, <2>1 DEF Run
<1>3. run' = [run EXCEPT ![r] = me]
  BY DEF Begin, TypeOK
<1>4. /\ me.status = run[r].status /\ me.scenario = run[r].scenario /\ me.counters = run[r].counters
      /\ me.cursor = run[r].cursor + 1 /\ me.inFlight = run[r].inFlight + 1
  BY <1>1 DEF Run
<1> HIDE DEF me
<1> QED
  BY <1>2, <1>3, <1>4 DEF TypeOK

LEMMA BeginTask ==
  ASSUME TypeOK, NEW r \in Runs, NEW sent \in Nat, Begin(r, sent), run[r].cursor + 1 \in Ids
  PROVE  LET i == run[r].cursor + 1
             a == SenderOf(r)
         IN /\ task' \in [Runs -> [Ids -> Task]] /\ reserve' \in [Runs -> [Accounts -> Nat \cup {-1}]]
            /\ \A q \in Runs \ {r} : task'[q] = task[q] /\ reserve'[q] = reserve[q]
            /\ crashed' \in BOOLEAN /\ (crashed => crashed')
            /\ \A j \in Ids \ {i} : task'[r][j] = task[r][j]
            /\ \/ a \notin Accounts /\ crashed' /\ UNCHANGED <<task, reserve>>
               \/ /\ a \in Accounts /\ reserve[r][a] = -1 /\ UNCHANGED <<reserve, crashed>>
                  /\ task'[r][i].pc = "lookup" /\ task'[r][i].label = a /\ task'[r][i].nonce = -1 /\ task'[r][i].asked
               \/ /\ a \in Accounts /\ reserve[r][a] \in Nat /\ UNCHANGED crashed
                  /\ task'[r][i].pc = "submit" /\ task'[r][i].label = a /\ task'[r][i].nonce = reserve[r][a]
                  /\ ~task'[r][i].asked
                  /\ reserve'[r][a] = reserve[r][a] + 1
                  /\ \A b \in Accounts \ {a} : reserve'[r][b] = reserve[r][b]
<1> DEFINE i == run[r].cursor + 1
           a == SenderOf(r)
<1>1. i \in Ids
  OBVIOUS
<1>2. CASE a \notin Accounts
  BY <1>2 DEF Begin, TypeOK
<1>3. CASE a \in Accounts /\ reserve[r][a] >= 0
  <2> DEFINE t == [pc |-> "submit", label |-> a, asked |-> FALSE, nonce |-> reserve[r][a], outcome |-> ""]
  <2>1. task' = [task EXCEPT ![r][i] = t] /\ reserve' = [reserve EXCEPT ![r][a] = @ + 1] /\ crashed' = crashed
    BY <1>3 DEF Begin
  <2>2. reserve[r][a] \in Nat
    BY <1>3 DEF TypeOK
  <2>3. t \in Task
    BY <1>3, <2>2 DEF Task, Places, Outcomes, Ends
  <2>4. t.pc = "submit" /\ t.label = a /\ t.nonce = reserve[r][a] /\ ~t.asked
    OBVIOUS
  <2> HIDE DEF i, a, t
  <2>5. /\ task' \in [Runs -> [Ids -> Task]] /\ task'[r][i] = t /\ \A j \in Ids \ {i} : task'[r][j] = task[r][j]
        /\ \A q \in Runs \ {r} : task'[q] = task[q]
    BY <1>1, <2>1, <2>3 DEF TypeOK
  <2>6. /\ reserve' \in [Runs -> [Accounts -> Nat \cup {-1}]] /\ \A q \in Runs \ {r} : reserve'[q] = reserve[q]
        /\ reserve'[r][a] = reserve[r][a] + 1 /\ \A b \in Accounts \ {a} : reserve'[r][b] = reserve[r][b]
    BY <1>3, <2>1, <2>2 DEF TypeOK
  <2> QED
    BY <1>3, <2>1, <2>2, <2>4, <2>5, <2>6 DEF i, a, TypeOK
<1>4. CASE a \in Accounts /\ ~(reserve[r][a] >= 0)
  <2> DEFINE t == [pc |-> "lookup", label |-> a, asked |-> TRUE, nonce |-> -1, outcome |-> ""]
  <2>1. task' = [task EXCEPT ![r][i] = t] /\ reserve' = reserve /\ crashed' = crashed
    BY <1>4 DEF Begin
  <2>2. reserve[r][a] = -1
    BY <1>4 DEF TypeOK
  <2>3. t \in Task
    BY <1>4 DEF Task, Places, Outcomes, Ends
  <2>4. t.pc = "lookup" /\ t.label = a /\ t.nonce = -1 /\ t.asked
    OBVIOUS
  <2> HIDE DEF i, a, t
  <2>5. /\ task' \in [Runs -> [Ids -> Task]] /\ task'[r][i] = t /\ \A j \in Ids \ {i} : task'[r][j] = task[r][j]
        /\ \A q \in Runs \ {r} : task'[q] = task[q]
    BY <1>1, <2>1, <2>3 DEF TypeOK
  <2> QED
    BY <1>4, <2>1, <2>2, <2>4, <2>5 DEF i, a, TypeOK
<1> QED
  BY <1>2, <1>3, <1>4

\* The next nonce of an account is above those before it.
LEMMA NextNonce ==
  ASSUME TypeOK, NEW r \in Runs, Handed(r), NEW i \in Ids, NEW a \in Accounts, reserve[r][a] \in Nat,
         task[r][i].pc = "none", \A j \in Ids \ {i} : task'[r][j] = task[r][j],
         task'[r][i].pc = "submit", task'[r][i].label = a, task'[r][i].nonce = reserve[r][a],
         ~task'[r][i].asked, reserve'[r][a] = reserve[r][a] + 1,
         \A b \in Accounts \ {a} : reserve'[r][b] = reserve[r][b]
  PROVE  Handed(r)' /\ \A b \in Accounts : Askers(r, b)' = Askers(r, b)
<1>1. ~Taken(r, i) /\ Taken(r, i)' /\ \A j \in Ids \ {i} : Taken(r, j)' <=> Taken(r, j)
  BY DEF Taken
<1>2. Takers(r, a)' = Takers(r, a) \cup {i} /\ \A b \in Accounts \ {a} : Takers(r, b)' = Takers(r, b)
  BY <1>1 DEF Takers
<1>3. \A b \in Accounts : i \notin Takers(r, b)
  BY <1>1 DEF Takers
<1>4. \A b \in Accounts : Askers(r, b)' = Askers(r, b)
  <2>1. ASSUME NEW b \in Accounts, NEW j PROVE j \in Askers(r, b)' <=> j \in Askers(r, b)
    <3>1. CASE j = i
      BY <1>3, <3>1 DEF Askers
    <3>2. CASE j # i
      BY <1>2, <3>2 DEF Askers, Takers
    <3> QED
      BY <3>1, <3>2
  <2> QED
    BY <2>1
<1>5. ASSUME NEW b \in Accounts, b # a PROVE NonceOK(r, b)'
  <2>1. NonceOK(r, b) /\ Takers(r, b)' = Takers(r, b) /\ Askers(r, b)' = Askers(r, b) /\ reserve'[r][b] = reserve[r][b]
    BY <1>2, <1>4, <1>5 DEF Handed
  <2>2. \A j \in Takers(r, b) : task'[r][j] = task[r][j]
    BY <1>3 DEF Takers
  <2> QED
    BY <2>1, <2>2 DEF NonceOK
<1>6. NonceOK(r, a)'
  <2>1. NonceOK(r, a) /\ Askers(r, a)' = Askers(r, a) /\ Takers(r, a)' = Takers(r, a) \cup {i}
    BY <1>2, <1>4 DEF Handed
  <2>2. \A j \in Takers(r, a) : j # i /\ j \in Ids /\ task'[r][j] = task[r][j] /\ task[r][j].nonce \in Int
    <3>1. ASSUME NEW j \in Ids PROVE task[r][j].nonce \in Int
      <4>1. task[r][j] \in Task
        BY DEF TypeOK
      <4>2. task[r][j].nonce \in Nat \cup {-1}
        BY <4>1 DEF Task
      <4> QED
        BY <4>2
    <3> QED
      BY <1>3, <3>1 DEF Takers
  <2>3. reserve'[r][a] # -1 /\ reserve[r][a] # -1
    OBVIOUS
  <2>4. ASSUME Single(Askers(r, a)), NEW j \in Takers(r, a) \cup {i}
        PROVE  /\ task'[r][j].nonce < reserve'[r][a]
               /\ \A k \in Takers(r, a) \cup {i} : task'[r][j].nonce = task'[r][k].nonce => j = k
    BY <2>1, <2>2, <2>4 DEF NonceOK
  <2> QED
    BY <2>1, <2>3, <2>4 DEF NonceOK
<1> QED
  BY <1>4, <1>5, <1>6 DEF Handed

\* A transaction begins.
LEMMA BeginInv ==
  ASSUME LabInv, NEW r \in Runs, NEW sent \in Nat, ~crashed, Begin(r, sent),
         run[r].status # "none", run[r].cursor < run[r].scenario.txCount,
         UNCHANGED <<loop, accepted, disk>>, delayed' \in [Runs -> Nat],
         \A q \in Runs \ {r} : delayed'[q] = delayed[q],
         Serial(r) => delayed'[r] = 0 /\ run[r].inFlight = 0
  PROVE  LabInv'
<1> DEFINE i == run[r].cursor + 1
           a == SenderOf(r)
<1>1. TypeOK /\ RunInv(r)
  BY DEF LabInv
<1>2. i \in Ids /\ run[r].cursor \in Nat /\ run[r].scenario.txCount \in Nat
  BY <1>1, ScenarioFacts, ScenarioAssumption DEF Ids
<1>3. task[r][i].pc = "none"
  BY <1>1, <1>2 DEF RunInv, Balanced
<1>4. /\ run' \in [Runs -> Run] /\ \A q \in Runs \ {r} : run'[q] = run[q]
      /\ run'[r].status = run[r].status /\ run'[r].scenario = run[r].scenario
      /\ run'[r].counters = run[r].counters
      /\ run'[r].cursor = i /\ run'[r].inFlight = run[r].inFlight + 1
  BY <1>1, BeginRun
<1>5. /\ task' \in [Runs -> [Ids -> Task]] /\ reserve' \in [Runs -> [Accounts -> Nat \cup {-1}]]
      /\ \A q \in Runs \ {r} : task'[q] = task[q] /\ reserve'[q] = reserve[q]
      /\ crashed' \in BOOLEAN /\ (crashed => crashed')
      /\ \A j \in Ids \ {i} : task'[r][j] = task[r][j]
  BY <1>1, <1>2, BeginTask
<1> DEFINE Dead == a \notin Accounts /\ crashed' /\ UNCHANGED <<task, reserve>>
           Asks == /\ a \in Accounts /\ reserve[r][a] = -1 /\ UNCHANGED <<reserve, crashed>>
                   /\ task'[r][i].pc = "lookup" /\ task'[r][i].label = a /\ task'[r][i].nonce = -1 /\ task'[r][i].asked
           Knows == /\ a \in Accounts /\ reserve[r][a] \in Nat /\ UNCHANGED crashed
                    /\ task'[r][i].pc = "submit" /\ task'[r][i].label = a /\ task'[r][i].nonce = reserve[r][a]
                    /\ ~task'[r][i].asked
                    /\ reserve'[r][a] = reserve[r][a] + 1
                    /\ \A b \in Accounts \ {a} : reserve'[r][b] = reserve[r][b]
<1>6. Dead \/ Asks \/ Knows
  BY <1>1, <1>2, BeginTask
<1> HIDE DEF i, a
<1>7. TypeOK'
  BY <1>1, <1>4, <1>5 DEF TypeOK
<1>8. Own(r)
  BY <1>4, <1>5 DEF Own
<1>9. TasksOK(r)'
  BY <1>1, <1>5, <1>6 DEF RunInv, TasksOK
<1>10. Fresh(r)'
  BY <1>1, <1>2, <1>4 DEF RunInv, Fresh, i
<1>11. Finished(r)'
  <2>1. run[r].status # "completed"
    BY <1>1, <1>2 DEF RunInv, Finished
  <2> QED
    BY <1>1, <1>4, <2>1 DEF RunInv, Finished
<1>12. Balanced(r)'
  <2> SUFFICES ASSUME ~crashed'
               PROVE  Counted(r)' /\ \A j \in Ids : task'[r][j].pc = "none" <=> j > run'[r].cursor
    BY DEF Balanced
  <2>1. task'[r][i].pc \in {"lookup", "submit"}
    BY <1>6
  <2>2. Open(r)' = Open(r) \cup {i} /\ i \notin Open(r)
    BY <1>2, <1>3, <1>5, <2>1 DEF Open, Ids
  <2>3. Done(r)' = Done(r) /\ i \notin Done(r)
    <3>1. ASSUME NEW j \in Ids PROVE task'[r][j].pc = "done" <=> task[r][j].pc = "done"
      BY <1>3, <1>5, <2>1
    <3> QED
      BY <1>3, <3>1 DEF Done, Ids
  <2>4. \A O : With(r, O)' = With(r, O)
    <3>1. \A j \in Done(r) : task'[r][j] = task[r][j]
      BY <1>5, <2>3 DEF Done, Ids
    <3>2. ASSUME NEW O PROVE {j \in Done(r) : task'[r][j].outcome \in O} = {j \in Done(r) : task[r][j].outcome \in O}
      BY <3>1
    <3> QED
      BY <2>3, <3>2 DEF With
  <2>5. Cardinality(Open(r)') = Cardinality(Open(r)) + 1
    BY <2>2, IdsFinite, FS_AddElement DEF Open, Ids
  <2>6. Counted(r)
    BY <1>1 DEF RunInv, Balanced
  <2>7. Counted(r)'
    BY <1>4, <2>3, <2>4, <2>5, <2>6 DEF Counted
  <2>8. ASSUME NEW j \in Ids PROVE task'[r][j].pc = "none" <=> j > run'[r].cursor
    <3>1. (task[r][j].pc = "none" <=> j > run[r].cursor) /\ j \in Nat
      BY <1>1 DEF RunInv, Balanced, Ids
    <3>2. CASE j = i
      BY <1>2, <1>4, <2>1, <3>2 DEF i
    <3>3. CASE j # i
      BY <1>2, <1>4, <1>5, <3>1, <3>3 DEF i
    <3> QED
      BY <3>2, <3>3
  <2> QED
    BY <2>7, <2>8
<1>13. Handed(r)' /\ \A b \in Accounts : Askers(r, b)' = Askers(r, b)
  <2>0. Handed(r)
    BY <1>1 DEF RunInv
  <2>1. CASE Dead \/ Asks
    <3>1. ASSUME NEW j \in Ids
          PROVE  /\ Taken(r, j)' <=> Taken(r, j)
                 /\ Taken(r, j) => task'[r][j] = task[r][j]
      <4>1. CASE j = i
        BY <1>3, <2>1, <4>1 DEF Taken
      <4>2. CASE j # i
        BY <1>5, <4>2 DEF Taken
      <4> QED
        BY <4>1, <4>2
    <3>2. reserve'[r] = reserve[r]
      BY <2>1
    <3> QED
      BY <2>0, <3>1, <3>2, SameNonces
  <2>2. CASE Knows
    BY <1>1, <1>2, <1>3, <1>5, <2>0, <2>2, NextNonce
  <2> QED
    BY <1>6, <2>1, <2>2
<1>14. OneByOne(r)'
  <2> SUFFICES ASSUME Serial(r)
               PROVE  /\ delayed'[r] = 0 /\ run'[r].inFlight <= 1
                      /\ \A b \in Accounts : Single(Askers(r, b)')
                      /\ \A j \in Ids : task'[r][j].pc \in {"lookup", "counted"} => reserve'[r][task'[r][j].label] = -1
    BY <1>4 DEF OneByOne, Serial
  <2>1. OneByOne(r) /\ Counted(r) /\ run[r].inFlight = 0
    BY <1>1 DEF RunInv, Balanced
  <2>2. Open(r) = {}
    BY <2>1, IdsFinite, FS_EmptySet DEF Counted, Open, Ids
  <2>3. ASSUME NEW j \in Ids, task'[r][j].pc \in {"lookup", "counted"} PROVE reserve'[r][task'[r][j].label] = -1
    <3>1. j = i \/ task'[r][j] = task[r][j]
      BY <1>5
    <3>2. task'[r][j] # task[r][j]
      BY <2>2, <2>3 DEF Open, Ids
    <3> QED
      BY <1>6, <2>3, <3>1, <3>2
  <2> QED
    BY <1>4, <1>13, <2>1, <2>3 DEF OneByOne
<1> QED
  BY <1>7, <1>8, <1>9, <1>10, <1>11, <1>12, <1>13, <1>14, OwnStep DEF RunInv

\* What the end of a transaction adds to the counters.
LEMMA BumpFacts ==
  ASSUME NEW c \in Counters, NEW o \in Ends
  PROVE  /\ Bump(c, o) \in Counters
         /\ Bump(c, o).submitted = c.submitted + 1
         /\ Bump(c, o).failed = c.failed + (IF o = "failed" THEN 1 ELSE 0)
         /\ Bump(c, o).accepted = c.accepted + (IF o # "failed" THEN 1 ELSE 0)
         /\ Bump(c, o).mined = c.mined + (IF o = "mined" THEN 1 ELSE 0)
         /\ Bump(c, o).pending = c.pending + (IF o = "accepted" THEN 1 ELSE 0)
<1>1. /\ c = [submitted |-> c.submitted, accepted |-> c.accepted, pending |-> c.pending, mined |-> c.mined, failed |-> c.failed]
      /\ c.submitted \in Nat /\ c.accepted \in Nat /\ c.pending \in Nat /\ c.mined \in Nat /\ c.failed \in Nat
  BY DEF Counters
<1> DEFINE t == [submitted |-> c.submitted + 1,
                 accepted |-> c.accepted + (IF o # "failed" THEN 1 ELSE 0),
                 pending |-> c.pending + (IF o = "accepted" THEN 1 ELSE 0),
                 mined |-> c.mined + (IF o = "mined" THEN 1 ELSE 0),
                 failed |-> c.failed + (IF o = "failed" THEN 1 ELSE 0)]
<1>2. \A n \in Nat : n + 1 \in Nat /\ n + 0 = n /\ n + 0 \in Nat
  OBVIOUS
<1>3. t \in Counters
  <2>1. /\ t.submitted \in Nat /\ t.accepted \in Nat /\ t.pending \in Nat
        /\ t.mined \in Nat /\ t.failed \in Nat
    BY <1>1, <1>2
  <2> QED
    BY <2>1 DEF Counters
<1>4. Bump(c, o) = t
  <2>1. CASE o = "accepted"
    BY <1>1, <1>2, <2>1 DEF Bump
  <2>2. CASE o = "mined"
    BY <1>1, <1>2, <2>2 DEF Bump
  <2>3. CASE o = "reverted"
    BY <1>1, <1>2, <2>3 DEF Bump
  <2>4. CASE o = "failed"
    BY <1>1, <1>2, <2>4 DEF Bump
  <2> QED
    BY <2>1, <2>2, <2>3, <2>4 DEF Ends
<1> QED
  BY <1>3, <1>4

\* What the end of a transaction does to the record of the run, and to the
\* transaction.
LEMMA FinishRun ==
  ASSUME TypeOK, NEW r \in Runs, NEW i \in Ids, NEW o \in Ends, Finish(r, i, o)
  PROVE  /\ run' \in [Runs -> Run] /\ \A q \in Runs \ {r} : run'[q] = run[q]
         /\ run'[r].status = run[r].status /\ run'[r].scenario = run[r].scenario /\ run'[r].cursor = run[r].cursor
         /\ run'[r].inFlight = run[r].inFlight - 1
         /\ run'[r].counters.submitted = run[r].counters.submitted + 1
         /\ run'[r].counters.failed = run[r].counters.failed + (IF o = "failed" THEN 1 ELSE 0)
         /\ run'[r].counters.accepted = run[r].counters.accepted + (IF o # "failed" THEN 1 ELSE 0)
         /\ run'[r].counters.mined = run[r].counters.mined + (IF o = "mined" THEN 1 ELSE 0)
         /\ run'[r].counters.pending = run[r].counters.pending + (IF o = "accepted" THEN 1 ELSE 0)
<1> DEFINE c == run[r].counters
           d == Bump(c, o)
           me == [run[r] EXCEPT !.counters = d, !.inFlight = @ - 1]
<1>1. run[r] \in Run /\ c \in Counters
  BY DEF TypeOK, Run
<1>2. /\ d \in Counters
      /\ d.submitted = c.submitted + 1
      /\ d.failed = c.failed + (IF o = "failed" THEN 1 ELSE 0)
      /\ d.accepted = c.accepted + (IF o # "failed" THEN 1 ELSE 0)
      /\ d.mined = c.mined + (IF o = "mined" THEN 1 ELSE 0)
      /\ d.pending = c.pending + (IF o = "accepted" THEN 1 ELSE 0)
  BY <1>1, BumpFacts
<1>3. run' = [run EXCEPT ![r] = me]
  BY DEF Finish, TypeOK
<1> HIDE DEF d
<1>4. run[r].inFlight - 1 \in Int
  <2>1. run[r].inFlight \in Int
    BY <1>1 DEF Run
  <2> QED
    BY <2>1
<1>5. me \in Run
  BY <1>1, <1>2, <1>4 DEF Run
<1>6. /\ me.status = run[r].status /\ me.scenario = run[r].scenario /\ me.cursor = run[r].cursor
      /\ me.inFlight = run[r].inFlight - 1 /\ me.counters = d
  BY <1>1 DEF Run
<1> HIDE DEF me
<1>7. run'[r] = me
  BY <1>3 DEF TypeOK
<1> QED
  BY <1>2, <1>3, <1>5, <1>6, <1>7 DEF TypeOK

LEMMA FinishTask ==
  ASSUME TypeOK, NEW r \in Runs, NEW i \in Ids, NEW o \in Ends, Finish(r, i, o)
  PROVE  /\ task' \in [Runs -> [Ids -> Task]] /\ \A q \in Runs \ {r} : task'[q] = task[q]
         /\ \A j \in Ids \ {i} : task'[r][j] = task[r][j]
         /\ task'[r][i].pc = "done" /\ task'[r][i].outcome = o
         /\ task'[r][i].label = task[r][i].label /\ task'[r][i].nonce = task[r][i].nonce
         /\ task'[r][i].asked = task[r][i].asked
<1> DEFINE t == [task[r][i] EXCEPT !.pc = "done", !.outcome = o]
<1>1. task[r][i] \in Task
  BY DEF TypeOK
<1>2. /\ t \in Task /\ t.pc = "done" /\ t.outcome = o
      /\ t.label = task[r][i].label /\ t.nonce = task[r][i].nonce /\ t.asked = task[r][i].asked
  BY <1>1 DEF Task, Places, Outcomes
<1>3. task' = [task EXCEPT ![r][i] = t]
  BY DEF Finish, TypeOK
<1> HIDE DEF t
<1>4. task'[r][i] = t
  BY <1>3 DEF TypeOK
<1> QED
  BY <1>2, <1>3, <1>4 DEF TypeOK

\* A transaction ends: it leaves those in flight and is counted once.
LEMMA FinishInv ==
  ASSUME LabInv, NEW r \in Runs, NEW i \in Ids, ~crashed, task[r][i].pc \in {"lookup", "submit", "receipt"},
         NEW o \in Ends, Finish(r, i, o),
         UNCHANGED <<loop, reserve, delayed, disk, crashed>>,
         accepted' \in [Accounts -> SUBSET Nat], \A a \in Accounts : IsFiniteSet(accepted'[a])
  PROVE  LabInv'
<1>1. TypeOK /\ RunInv(r) /\ Counted(r)
  BY DEF LabInv, RunInv, Balanced
<1>2. /\ run' \in [Runs -> Run] /\ \A q \in Runs \ {r} : run'[q] = run[q]
      /\ run'[r].status = run[r].status /\ run'[r].scenario = run[r].scenario /\ run'[r].cursor = run[r].cursor
      /\ run'[r].inFlight = run[r].inFlight - 1
  BY <1>1, FinishRun
<1>3. /\ task' \in [Runs -> [Ids -> Task]] /\ \A q \in Runs \ {r} : task'[q] = task[q]
      /\ \A j \in Ids \ {i} : task'[r][j] = task[r][j]
      /\ task'[r][i].pc = "done" /\ task'[r][i].outcome = o
      /\ task'[r][i].label = task[r][i].label /\ task'[r][i].nonce = task[r][i].nonce
      /\ task'[r][i].asked = task[r][i].asked
  BY <1>1, FinishTask
<1>4. TypeOK'
  BY <1>1, <1>2, <1>3 DEF TypeOK
<1>5. Own(r)
  BY <1>2, <1>3 DEF Own
<1>6. TasksOK(r)'
  BY <1>1, <1>3 DEF RunInv, TasksOK
<1>7. run[r].status # "none"
  BY <1>1 DEF RunInv, Fresh
<1>8. Fresh(r)'
  BY <1>1, <1>2, <1>7 DEF RunInv, Fresh
<1>9. Open(r)' = Open(r) \ {i} /\ i \in Open(r)
  <2>1. \A j \in Ids : task'[r][j].pc \notin {"none", "done"} <=> task[r][j].pc \notin {"none", "done"} /\ j # i
    BY <1>3
  <2> QED
    BY <2>1 DEF Open, Ids
<1>10. Done(r)' = Done(r) \cup {i} /\ i \notin Done(r)
  <2>1. \A j \in Ids : task'[r][j].pc = "done" <=> task[r][j].pc = "done" \/ j = i
    BY <1>3
  <2> QED
    BY <2>1 DEF Done, Ids
<1>11. \A O : With(r, O) \in Nat /\ (o \in O => With(r, O)' = With(r, O) + 1) /\ (o \notin O => With(r, O)' = With(r, O))
  <2> TAKE O
  <2> DEFINE W == {j \in Done(r) : task[r][j].outcome \in O}
             V == {j \in Done(r)' : task'[r][j].outcome \in O}
  <2>1. \A j \in Done(r) : task'[r][j] = task[r][j]
    BY <1>3, <1>10 DEF Done, Ids
  <2>2. (o \in O => V = W \cup {i}) /\ (o \notin O => V = W)
    BY <1>3, <1>10, <2>1
  <2>3. i \notin W /\ W \subseteq Ids
    BY <1>10 DEF Done, Ids
  <2>4. With(r, O)' = Cardinality(V) /\ With(r, O) = Cardinality(W)
    BY DEF With
  <2> HIDE DEF V, W
  <2>5. IsFiniteSet(W) /\ Cardinality(W) \in Nat
    BY <2>3, IdsFinite
  <2>6. Cardinality(W \cup {i}) = Cardinality(W) + 1
    BY <2>3, <2>5, FS_AddElement
  <2> QED
    BY <2>2, <2>4, <2>5, <2>6
<1>12. Balanced(r)'
  <2>1. Cardinality(Open(r)') = Cardinality(Open(r)) - 1
    <3>1. IsFiniteSet(Open(r))
      BY IdsFinite DEF Open, Ids
    <3> QED
      BY <1>9, <3>1, FS_RemoveElement
  <2>2. Cardinality(Done(r)') = Cardinality(Done(r)) + 1
    <3>1. IsFiniteSet(Done(r))
      BY IdsFinite DEF Done, Ids
    <3> QED
      BY <1>10, <3>1, FS_AddElement
  <2>3. /\ run'[r].counters.submitted = run[r].counters.submitted + 1
        /\ run'[r].counters.failed = run[r].counters.failed + (IF o = "failed" THEN 1 ELSE 0)
        /\ run'[r].counters.accepted = run[r].counters.accepted + (IF o # "failed" THEN 1 ELSE 0)
        /\ run'[r].counters.mined = run[r].counters.mined + (IF o = "mined" THEN 1 ELSE 0)
        /\ run'[r].counters.pending = run[r].counters.pending + (IF o = "accepted" THEN 1 ELSE 0)
    BY <1>1, FinishRun
  <2>4. o \in {"accepted", "mined", "reverted", "failed"}
    BY DEF Ends
  <2>6. /\ With(r, {"failed"})' = With(r, {"failed"}) + (IF o = "failed" THEN 1 ELSE 0)
        /\ With(r, {"mined"})' = With(r, {"mined"}) + (IF o = "mined" THEN 1 ELSE 0)
        /\ With(r, {"accepted"})' = With(r, {"accepted"}) + (IF o = "accepted" THEN 1 ELSE 0)
        /\ With(r, {"accepted", "mined", "reverted"})' =
             With(r, {"accepted", "mined", "reverted"}) + (IF o # "failed" THEN 1 ELSE 0)
    <3>1. ASSUME NEW O
          PROVE  With(r, O)' = With(r, O) + (IF o \in O THEN 1 ELSE 0)
      <4>1. CASE o \in O
        BY <1>11, <4>1
      <4>2. CASE o \notin O
        <5>1. With(r, O) \in Nat /\ With(r, O)' = With(r, O)
          BY <1>11, <4>2
        <5>2. \A n \in Nat : n = n + 0
          OBVIOUS
        <5> QED
          BY <4>2, <5>1, <5>2
      <4> QED
        BY <4>1, <4>2
    <3>2. /\ o \in {"failed"} <=> o = "failed"
          /\ o \in {"mined"} <=> o = "mined"
          /\ o \in {"accepted"} <=> o = "accepted"
          /\ o \in {"accepted", "mined", "reverted"} <=> o # "failed"
      BY <2>4
    <3> QED
      BY <3>1, <3>2
  <2>7. Counted(r)'
    BY <1>1, <1>2, <2>1, <2>2, <2>3, <2>6 DEF Counted
  <2>8. \A j \in Ids : task'[r][j].pc = "none" <=> task[r][j].pc = "none"
    BY <1>3
  <2> QED
    BY <1>1, <1>2, <2>7, <2>8 DEF RunInv, Balanced
<1>13. Finished(r)'
  <2>1. ASSUME run[r].status = "completed" PROVE FALSE
    <3>1. i \in Nat /\ 1 <= i
      BY ScenarioAssumption DEF Ids
    <3>2. run[r].cursor \in Nat /\ ~(i > run[r].cursor)
      BY <1>1 DEF RunInv, Balanced, TypeOK, Run
    <3>3. Done(r) = 1..run[r].cursor
      BY <1>1, <2>1 DEF RunInv, Finished
    <3>4. \A n \in Nat : ~(i > n) => i \in 1..n
      BY <3>1
    <3>5. i \in Done(r)
      BY <3>2, <3>3, <3>4
    <3> QED
      BY <1>10, <3>5
  <2> QED
    BY <1>1, <1>2, <2>1 DEF RunInv, Finished
<1>14. Handed(r)' /\ \A a : Askers(r, a)' = Askers(r, a)
  <2>1. ASSUME NEW j \in Ids
        PROVE  /\ Taken(r, j)' <=> Taken(r, j)
               /\ Taken(r, j) => /\ task'[r][j].nonce = task[r][j].nonce
                                 /\ task'[r][j].label = task[r][j].label
                                 /\ task'[r][j].asked = task[r][j].asked
    <3>1. CASE j # i
      BY <1>3, <3>1 DEF Taken
    <3>2. CASE j = i /\ task[r][i].pc = "lookup"
      <4>1. task[r][i].nonce = -1
        BY <1>1, <3>2 DEF RunInv, TasksOK
      <4>2. ~(task[r][i].nonce >= 0) /\ ~(task'[r][i].nonce >= 0)
        BY <1>3, <4>1
      <4>3. ~Taken(r, i) /\ ~Taken(r, i)'
        BY <4>2 DEF Taken
      <4> QED
        BY <3>2, <4>3
    <3>3. CASE j = i /\ task[r][i].pc \in {"submit", "receipt"}
      BY <1>3, <3>3 DEF Taken
    <3> QED
      BY <3>1, <3>2, <3>3
  <2>2. Handed(r) /\ reserve'[r] = reserve[r]
    BY <1>1 DEF RunInv
  <2> QED
    BY <2>1, <2>2, SameNonces
<1>15. OneByOne(r)'
  <2>1. \A j \in Ids : task'[r][j].pc \in {"lookup", "counted"} => task'[r][j] = task[r][j]
    BY <1>3
  <2>2. run[r].inFlight <= 1 => run'[r].inFlight <= 1
    <3>1. run[r] \in Run
      BY <1>1 DEF TypeOK
    <3>2. run[r].inFlight \in Int
      BY <3>1 DEF Run
    <3>3. \A n \in Int : n <= 1 => n - 1 <= 1
      OBVIOUS
    <3> QED
      BY <1>2, <3>2, <3>3
  <2>3. Serial(r)' <=> Serial(r)
    BY <1>2 DEF Serial
  <2> QED
    BY <1>1, <1>14, <2>1, <2>2, <2>3 DEF RunInv, OneByOne
<1> QED
  BY <1>4, <1>5, <1>6, <1>8, <1>12, <1>13, <1>14, <1>15, OwnStep DEF RunInv

\* A transaction goes on: it stays in flight, under its label.
LEMMA StillOpen ==
  ASSUME LabInv, NEW r \in Runs, NEW i \in Ids, task[r][i].pc \notin {"none", "done"},
         NEW t \in Task, task' = [task EXCEPT ![r][i] = t],
         t.pc \notin {"none", "done"}, t.label = task[r][i].label,
         t.pc = "lookup" => t.nonce = -1, t.pc \in {"lookup", "counted"} => t.asked,
         t.pc \in {"counted", "submit", "receipt"} => t.nonce \in Nat,
         UNCHANGED <<run, loop, delayed, disk, crashed>>,
         reserve' \in [Runs -> [Accounts -> Nat \cup {-1}]], \A q \in Runs \ {r} : reserve'[q] = reserve[q],
         accepted' \in [Accounts -> SUBSET Nat], \A a \in Accounts : IsFiniteSet(accepted'[a]),
         Handed(r)', OneByOne(r)'
  PROVE  LabInv'
<1>1. TypeOK /\ RunInv(r)
  BY DEF LabInv
<1>2. /\ task' \in [Runs -> [Ids -> Task]] /\ \A q \in Runs \ {r} : task'[q] = task[q]
      /\ \A j \in Ids \ {i} : task'[r][j] = task[r][j]
      /\ task'[r][i] = t
  BY <1>1 DEF TypeOK
<1>3. TypeOK'
  BY <1>1, <1>2 DEF TypeOK
<1>4. Own(r)
  BY <1>2 DEF Own
<1>5. TasksOK(r)'
  BY <1>1, <1>2 DEF RunInv, TasksOK
<1>6. Fresh(r)'
  <2>1. run[r].status # "none"
    BY <1>1 DEF RunInv, Fresh
  <2> QED
    BY <1>1, <2>1 DEF RunInv, Fresh
<1>7. Open(r)' = Open(r) /\ Done(r)' = Done(r) /\ \A O : With(r, O)' = With(r, O)
  <2>1. \A j \in Ids : /\ task'[r][j].pc \notin {"none", "done"} <=> task[r][j].pc \notin {"none", "done"}
                       /\ task'[r][j].pc = "done" <=> task[r][j].pc = "done"
    BY <1>2
  <2>2. Open(r)' = Open(r) /\ Done(r)' = Done(r)
    BY <2>1 DEF Open, Done, Ids
  <2>3. \A j \in Done(r) : task'[r][j] = task[r][j]
    BY <1>2 DEF Done, Ids
  <2>4. ASSUME NEW O PROVE {j \in Done(r) : task'[r][j].outcome \in O} = {j \in Done(r) : task[r][j].outcome \in O}
    BY <2>3
  <2> QED
    BY <2>2, <2>4 DEF With
<1>8. Balanced(r)'
  <2>1. \A j \in Ids : task'[r][j].pc = "none" <=> task[r][j].pc = "none"
    BY <1>2
  <2> QED
    BY <1>1, <1>7, <2>1 DEF RunInv, Balanced, Counted
<1>9. Finished(r)'
  BY <1>1, <1>7 DEF RunInv, Finished
<1> QED
  BY <1>3, <1>4, <1>5, <1>6, <1>8, <1>9, OwnStep DEF RunInv

\* The node answers with a nonce, which is not handed out yet.
LEMMA NodeCountsInv ==
  ASSUME LabInv, NEW r \in Runs, NEW i \in Ids, NodeCounts(r, i)
  PROVE  LabInv'
<1> DEFINE a == task[r][i].label
           t == [task[r][i] EXCEPT !.pc = "counted", !.nonce = PendingCount(a)]
<1>1. TypeOK /\ RunInv(r) /\ task[r][i].pc = "lookup" /\ task[r][i] \in Task
  BY DEF LabInv, NodeCounts, At, TypeOK
<1>2. a \in Accounts
  BY <1>1 DEF RunInv, TasksOK
<1>3. PendingCount(a) \in Nat
  BY <1>1, <1>2, PendingCountType
<1>4. t \in Task /\ t.pc = "counted" /\ t.label = a /\ t.nonce \in Nat /\ t.asked
  <2>1. task[r][i].asked
    BY <1>1 DEF RunInv, TasksOK
  <2> QED
    BY <1>1, <1>3, <2>1 DEF Task, Places
<1>5. task' = [task EXCEPT ![r][i] = t]
  BY <1>1 DEF NodeCounts, TypeOK
<1> HIDE DEF t
<1>6. UNCHANGED <<run, loop, reserve, delayed, accepted, disk, crashed>>
  BY DEF NodeCounts
<1>7. task'[r][i] = t /\ \A j \in Ids \ {i} : task'[r][j] = task[r][j]
  BY <1>1, <1>5 DEF TypeOK
<1>8. Handed(r)' /\ \A b : Askers(r, b)' = Askers(r, b)
  <2>1. ASSUME NEW j \in Ids
        PROVE  (Taken(r, j)' <=> Taken(r, j)) /\ (Taken(r, j) => task'[r][j] = task[r][j])
    BY <1>1, <1>4, <1>7 DEF Taken
  <2>2. Handed(r) /\ reserve'[r] = reserve[r]
    BY <1>1, <1>6 DEF RunInv
  <2> QED
    BY <2>1, <2>2, SameNonces
<1>9. OneByOne(r)'
  <2>1. \A j \in Ids : task'[r][j].pc \in {"lookup", "counted"} =>
                         task[r][j].pc \in {"lookup", "counted"} /\ task'[r][j].label = task[r][j].label
    BY <1>1, <1>4, <1>7
  <2> QED
    BY <1>1, <1>6, <1>8, <2>1 DEF RunInv, OneByOne, Serial
<1> QED
  BY <1>1, <1>4, <1>5, <1>6, <1>8, <1>9, StillOpen DEF TypeOK

\* The node takes a transaction and its receipt is waited for.
LEMMA SendWaits ==
  ASSUME LabInv, NEW r \in Runs, NEW i \in Ids, task[r][i].pc = "submit",
         task' = [task EXCEPT ![r][i].pc = "receipt"],
         UNCHANGED <<run, loop, reserve, delayed, disk, crashed>>,
         accepted' \in [Accounts -> SUBSET Nat], \A a \in Accounts : IsFiniteSet(accepted'[a])
  PROVE  LabInv'
<1> DEFINE t == [task[r][i] EXCEPT !.pc = "receipt"]
<1>1. TypeOK /\ RunInv(r) /\ task[r][i] \in Task
  BY DEF LabInv, TypeOK
<1>2. task[r][i].nonce \in Nat
  BY <1>1 DEF RunInv, TasksOK
<1>3. /\ t \in Task /\ t.pc = "receipt" /\ t.label = task[r][i].label
      /\ t.nonce = task[r][i].nonce /\ t.asked = task[r][i].asked
  BY <1>1 DEF Task, Places
<1>4. task' = [task EXCEPT ![r][i] = t]
  BY <1>1 DEF TypeOK
<1> HIDE DEF t
<1>5. task'[r][i] = t /\ \A j \in Ids \ {i} : task'[r][j] = task[r][j]
  BY <1>1, <1>4 DEF TypeOK
<1>6. Handed(r)' /\ \A b : Askers(r, b)' = Askers(r, b)
  <2>1. ASSUME NEW j \in Ids
        PROVE  /\ Taken(r, j)' <=> Taken(r, j)
               /\ Taken(r, j) => /\ task'[r][j].nonce = task[r][j].nonce
                                 /\ task'[r][j].label = task[r][j].label
                                 /\ task'[r][j].asked = task[r][j].asked
    BY <1>3, <1>5 DEF Taken
  <2>2. Handed(r) /\ reserve'[r] = reserve[r]
    BY <1>1 DEF RunInv
  <2> QED
    BY <2>1, <2>2, SameNonces
<1>7. OneByOne(r)'
  <2>1. \A j \in Ids : task'[r][j].pc \in {"lookup", "counted"} => task'[r][j] = task[r][j]
    BY <1>3, <1>5
  <2> QED
    BY <1>1, <1>6, <2>1 DEF RunInv, OneByOne, Serial
<1> QED
  BY <1>1, <1>2, <1>3, <1>4, <1>6, <1>7, StillOpen DEF TypeOK

\* An answer of the node is handed out and the reservations start after it:
\* with no one else who asked for this account, nothing was reserved.
LEMMA TakeCountedInv ==
  ASSUME LabInv, NEW r \in Runs, NEW i \in Ids, TakeCounted(r, i)
  PROVE  LabInv'
<1>0. PICK a, n : a = task[r][i].label /\ n = task[r][i].nonce
  OBVIOUS
<1> DEFINE t == [task[r][i] EXCEPT !.pc = "submit"]
<1>1. TypeOK /\ RunInv(r) /\ task[r][i].pc = "counted" /\ task[r][i] \in Task /\ ~crashed
  BY DEF LabInv, TakeCounted, At, TypeOK, EventLoopFree
<1>2. a \in Accounts /\ n \in Nat
  BY <1>0, <1>1 DEF RunInv, TasksOK
<1>3. t \in Task /\ t.pc = "submit" /\ t.label = a /\ t.nonce = n /\ t.asked = task[r][i].asked
  BY <1>0, <1>1 DEF Task, Places
<1>4. task' = [task EXCEPT ![r][i] = t] /\ reserve' = [reserve EXCEPT ![r][a] = n + 1]
  BY <1>0, <1>1 DEF TakeCounted, TypeOK
<1>5. UNCHANGED <<run, loop, delayed, accepted, disk, crashed>>
  BY DEF TakeCounted
<1> HIDE DEF t
<1>6. task'[r][i] = t /\ \A j \in Ids \ {i} : task'[r][j] = task[r][j]
  BY <1>1, <1>4 DEF TypeOK
<1>7. /\ reserve' \in [Runs -> [Accounts -> Nat \cup {-1}]] /\ \A q \in Runs \ {r} : reserve'[q] = reserve[q]
      /\ reserve'[r][a] = n + 1 /\ \A b \in Accounts \ {a} : reserve'[r][b] = reserve[r][b]
  BY <1>1, <1>2, <1>4 DEF TypeOK
<1>8. ~Taken(r, i) /\ Taken(r, i)' /\ \A j \in Ids \ {i} : Taken(r, j)' <=> Taken(r, j)
  BY <1>1, <1>2, <1>3, <1>6 DEF Taken
<1>9. Takers(r, a)' = Takers(r, a) \cup {i} /\ i \notin Takers(r, a)
  BY <1>3, <1>6, <1>8 DEF Takers
<1>10. \A b \in Accounts \ {a} : Takers(r, b)' = Takers(r, b) /\ i \notin Takers(r, b)
  BY <1>3, <1>6, <1>8 DEF Takers
<1>11. Askers(r, a)' = Askers(r, a) \cup {i} /\ i \notin Askers(r, a)
  <2>1. task'[r][i].asked
    BY <1>1, <1>3, <1>6 DEF RunInv, TasksOK
  <2>2. \A j \in Takers(r, a) : task'[r][j] = task[r][j]
    BY <1>6, <1>9 DEF Takers
  <2> QED
    BY <1>9, <2>1, <2>2 DEF Askers
<1>12. \A b \in Accounts \ {a} : Askers(r, b)' = Askers(r, b)
  BY <1>6, <1>10 DEF Askers, Takers
<1>13. Handed(r)'
  <2>1. ASSUME NEW b \in Accounts \ {a} PROVE NonceOK(r, b)'
    <3>1. \A j \in Takers(r, b) : task'[r][j] = task[r][j]
      BY <1>6, <1>10, <2>1 DEF Takers
    <3>2. NonceOK(r, b)
      BY <1>1, <2>1 DEF RunInv, Handed
    <3> QED
      BY <1>7, <1>10, <1>12, <2>1, <3>1, <3>2 DEF NonceOK
  <2>2. NonceOK(r, a)'
    <3>1. n + 1 # -1 /\ n < n + 1
      BY <1>2
    <3>2. ASSUME Single(Askers(r, a)') PROVE Takers(r, a)' = {i}
      <4>1. Askers(r, a) = {}
        BY <1>11, <3>2 DEF Single
      <4>2. Takers(r, a) = {}
        BY <1>1, <1>2, <4>1 DEF RunInv, Handed, NonceOK
      <4> QED
        BY <1>9, <4>2
    <3>3. task'[r][i].nonce = n
      BY <1>3, <1>6
    <3> QED
      BY <1>7, <1>11, <3>1, <3>2, <3>3 DEF NonceOK
  <2> QED
    BY <2>1, <2>2 DEF Handed
<1>14. OneByOne(r)'
  <2> SUFFICES ASSUME Serial(r)
               PROVE  /\ delayed'[r] = 0 /\ run'[r].inFlight <= 1
                      /\ \A b \in Accounts : Single(Askers(r, b)')
                      /\ \A j \in Ids : task'[r][j].pc \in {"lookup", "counted"} => reserve'[r][task'[r][j].label] = -1
    BY <1>5 DEF OneByOne, Serial
  <2>1. OneByOne(r) /\ run[r].inFlight <= 1 /\ reserve[r][a] = -1
    BY <1>0, <1>1 DEF RunInv, OneByOne
  <2>2. Askers(r, a) = {}
    BY <1>1, <1>2, <2>1 DEF RunInv, Handed, NonceOK, Askers
  <2>3. \A b \in Accounts : Single(Askers(r, b)')
    BY <1>11, <1>12, <2>1, <2>2 DEF OneByOne, Single
  <2>4. ASSUME NEW j \in Ids, task'[r][j].pc \in {"lookup", "counted"} PROVE FALSE
    <3>1. j # i
      BY <1>3, <1>6, <2>4
    <3>2. i \in Open(r) /\ j \in Open(r)
      BY <1>1, <1>6, <2>4, <3>1 DEF Open, Ids
    <3>3. IsFiniteSet(Open(r)) /\ Cardinality(Open(r)) = run[r].inFlight
      BY <1>1, IdsFinite DEF RunInv, Balanced, Counted, Open, Ids
    <3> QED
      BY <2>1, <3>1, <3>2, <3>3, AtMostOne
  <2> QED
    BY <1>5, <2>1, <2>3, <2>4 DEF OneByOne
<1> QED
  BY <1>0, <1>1, <1>2, <1>3, <1>4, <1>5, <1>7, <1>13, <1>14, StillOpen, ZenonT(60) DEF TypeOK

\* The ends of a transaction.
LEMMA EndsInv ==
  ASSUME LabInv, NEW r \in Runs, NEW i \in Ids, LookupFails(r, i) \/ Send(r, i) \/ Receipt(r, i)
  PROVE  LabInv'
<1>1. TypeOK /\ RunInv(r) /\ ~crashed
  BY DEF LabInv, LookupFails, Send, Receipt, At, EventLoopFree
<1>2. CASE LookupFails(r, i)
  <2>1. task[r][i].pc = "lookup" /\ UNCHANGED <<activeRun, loop, reserve, delayed, accepted, disk, crashed>>
    BY <1>2 DEF LookupFails, At
  <2>2. "failed" \in Ends /\ Finish(r, i, "failed")
    BY <1>2 DEF LookupFails, Ends
  <2> QED
    BY <1>1, <2>1, <2>2, FinishInv DEF TypeOK
<1>3. CASE Receipt(r, i)
  <2>1. task[r][i].pc = "receipt" /\ UNCHANGED <<activeRun, loop, reserve, delayed, accepted, disk, crashed>>
    BY <1>3 DEF Receipt, At
  <2>2. PICK o \in Ends : Finish(r, i, o)
    BY <1>3 DEF Receipt, Ends
  <2> QED
    BY <1>1, <2>1, <2>2, FinishInv DEF TypeOK
<1>4. CASE Send(r, i)
  <2>0. PICK a, n : a = task[r][i].label /\ n = task[r][i].nonce
    OBVIOUS
  <2>1. task[r][i].pc = "submit" /\ UNCHANGED <<loop, reserve, delayed, disk, crashed>>
    BY <1>4 DEF Send, At
  <2>2. a \in Accounts /\ n \in Nat
    BY <1>1, <2>0, <2>1 DEF RunInv, TasksOK
  <2>3. accepted' = [accepted EXCEPT ![a] = @ \cup {n}] \/ accepted' = accepted
    BY <1>4, <2>0 DEF Send
  <2>4. accepted' \in [Accounts -> SUBSET Nat] /\ \A b \in Accounts : IsFiniteSet(accepted'[b])
    <3>1. IsFiniteSet(accepted[a] \cup {n})
      BY <1>1, <2>2, FS_AddElement DEF TypeOK
    <3> QED
      BY <1>1, <2>2, <2>3, <3>1 DEF TypeOK
  <2>5. \/ task' = [task EXCEPT ![r][i].pc = "receipt"] /\ UNCHANGED run
        \/ \E o \in Ends : Finish(r, i, o)
    BY <1>4 DEF Send, Ends
  <2>6. CASE task' = [task EXCEPT ![r][i].pc = "receipt"] /\ UNCHANGED run
    BY <2>1, <2>4, <2>6, SendWaits
  <2>7. CASE \E o \in Ends : Finish(r, i, o)
    BY <1>1, <2>1, <2>4, <2>7, FinishInv
  <2> QED
    BY <2>5, <2>6, <2>7
<1> QED
  BY <1>2, <1>3, <1>4

\* A step that touches no transaction and no counter.
LEMMA Bookkeeping ==
  ASSUME LabInv, NEW r \in Runs, TypeOK', Own(r), UNCHANGED <<task, reserve, crashed>>,
         run[r].status # "none", run'[r].status # "none",
         run'[r].scenario = run[r].scenario, run'[r].cursor = run[r].cursor,
         run'[r].inFlight = run[r].inFlight, run'[r].counters = run[r].counters,
         Finished(r)', Serial(r) => delayed'[r] = 0
  PROVE  LabInv'
<1>1. TypeOK /\ RunInv(r)
  BY DEF LabInv
<1>2. Done(r)' = Done(r) /\ Open(r)' = Open(r) /\ \A O : With(r, O)' = With(r, O)
  BY DEF Done, Open, With
<1>3. \A a : Takers(r, a)' = Takers(r, a) /\ Askers(r, a)' = Askers(r, a)
  BY DEF Takers, Askers, Taken
<1>4. TasksOK(r)' /\ Fresh(r)'
  BY <1>1 DEF RunInv, TasksOK, Fresh
<1>5. Balanced(r)'
  BY <1>1, <1>2 DEF RunInv, Balanced, Counted
<1>6. Handed(r)'
  BY <1>1, <1>3 DEF RunInv, Handed, NonceOK
<1>7. OneByOne(r)'
  BY <1>1, <1>3 DEF RunInv, OneByOne, Serial
<1> QED
  BY <1>4, <1>5, <1>6, <1>7, OwnStep DEF RunInv

LEMMA HasBegun ==
  ASSUME LabInv, NEW r \in Runs, loop[r] # "none" \/ delayed[r] # 0
  PROVE  run[r].status # "none"
BY DEF LabInv, RunInv, Fresh

LEMMA SentIsNumber ==
  ASSUME TypeOK, NEW r \in Runs
  PROVE  SentInWindow(r) \subseteq Nat
<1>1. run[r].sent \in Nat
  BY DEF TypeOK, Run
<1> QED
  BY <1>1 DEF SentInWindow

\* The slots taken are a number.
LEMMA SlotsAreOpen ==
  ASSUME LabInv, NEW r \in Runs, ~crashed
  PROVE  /\ run[r].inFlight = Cardinality(Open(r)) /\ run[r].inFlight \in Nat
         /\ run[r].inFlight = 0 => Open(r) = {}
<1>1. Counted(r)
  BY DEF LabInv, RunInv, Balanced
<1>2. IsFiniteSet(Open(r)) /\ Cardinality(Open(r)) \in Nat
  BY IdsFinite DEF Open, Ids
<1> QED
  BY <1>1, <1>2, FS_EmptySet DEF Counted

LEMMA KickInv ==
  ASSUME LabInv, NEW r \in Runs, Kick(r)
  PROVE  LabInv'
<1>1. TypeOK /\ RunInv(r) /\ ~crashed /\ run[r].status # "none"
  BY HasBegun DEF LabInv, Kick, Turn
<1>2. UNCHANGED <<activeRun, loop, accepted, disk>>
  BY DEF Kick
<1>3. /\ run[r].scenario.concurrency \in Nat /\ run[r].scenario.txCount \in Nat
      /\ run[r].scenario.rateLimitTps \in Nat /\ run[r].cursor \in Nat
  BY <1>1, ScenarioFacts
<1>4. run[r].cursor < run[r].scenario.txCount /\ run[r].inFlight < run[r].scenario.concurrency
  BY DEF Kick, WantsMore
<1>5. Serial(r) => delayed[r] = 0
  BY <1>1 DEF RunInv, OneByOne
<1>6. PICK sent \in SentInWindow(r) :
        \/ Begin(r, sent) /\ UNCHANGED delayed
        \/ /\ Limited(r, sent)
           /\ delayed' = [delayed EXCEPT ![r] = @ + 1]
           /\ UNCHANGED <<run, task, reserve, crashed>>
  BY DEF Kick
<1>7. sent \in Nat
  BY <1>1, <1>6, SentIsNumber
<1>8. CASE Begin(r, sent) /\ UNCHANGED delayed
  <2>1. Serial(r) => run[r].inFlight = 0
    <3>1. run[r].inFlight \in Nat
      BY <1>1, SlotsAreOpen
    <3>2. \A n \in Nat : n < 1 => n = 0
      OBVIOUS
    <3> QED
      BY <1>4, <3>1, <3>2 DEF Serial
  <2> QED
    BY <1>1, <1>2, <1>4, <1>5, <1>7, <1>8, <2>1, BeginInv DEF TypeOK
<1>9. CASE /\ Limited(r, sent)
           /\ delayed' = [delayed EXCEPT ![r] = @ + 1]
           /\ UNCHANGED <<run, task, reserve, crashed>>
  <2>1. ~Serial(r)
    BY <1>9 DEF Limited, Serial
  <2>2. delayed' \in [Runs -> Nat] /\ \A q \in Runs \ {r} : delayed'[q] = delayed[q]
    <3>1. delayed[r] + 1 \in Nat
      BY <1>1 DEF TypeOK
    <3> QED
      BY <1>1, <1>9, <3>1 DEF TypeOK
  <2>3. TypeOK' /\ Own(r)
    BY <1>1, <1>2, <1>9, <2>2 DEF TypeOK, Own
  <2>4. Finished(r)'
    BY <1>1, <1>2, <1>9 DEF RunInv, Finished, Done
  <2> QED
    BY <1>1, <1>9, <2>1, <2>3, <2>4, Bookkeeping
<1> QED
  BY <1>6, <1>8, <1>9

LEMMA DelayedKickInv ==
  ASSUME LabInv, NEW r \in Runs, DelayedKick(r)
  PROVE  LabInv'
<1>0. delayed[r] \in Nat /\ delayed[r] > 0
  BY DEF LabInv, TypeOK, DelayedKick
<1>1. TypeOK /\ RunInv(r) /\ ~crashed /\ run[r].status # "none"
  BY <1>0, HasBegun DEF LabInv, DelayedKick, EventLoopFree
<1>2. UNCHANGED <<activeRun, loop, accepted, disk>> /\ delayed' = [delayed EXCEPT ![r] = @ - 1]
  BY DEF DelayedKick
<1>3. delayed' \in [Runs -> Nat] /\ \A q \in Runs \ {r} : delayed'[q] = delayed[q]
  <2>1. delayed[r] - 1 \in Nat
    BY <1>0
  <2> QED
    BY <1>1, <1>2, <2>1 DEF TypeOK
<1>4. ~Serial(r)
  BY <1>0, <1>1 DEF RunInv, OneByOne
<1>5. CASE UNCHANGED <<run, task, reserve, crashed>>
  <2>1. TypeOK' /\ Own(r)
    BY <1>1, <1>2, <1>3, <1>5 DEF TypeOK, Own
  <2>2. Finished(r)'
    BY <1>1, <1>2, <1>5 DEF RunInv, Finished, Done
  <2> QED
    BY <1>1, <1>4, <1>5, <2>1, <2>2, Bookkeeping
<1>6. CASE run[r].cursor < run[r].scenario.txCount /\ \E sent \in SentInWindow(r) : Begin(r, sent)
  <2>1. PICK sent \in SentInWindow(r) : Begin(r, sent)
    BY <1>6
  <2>2. sent \in Nat
    BY <1>1, <2>1, SentIsNumber
  <2> QED
    BY <1>1, <1>2, <1>3, <1>4, <1>6, <2>1, <2>2, BeginInv
<1> QED
  BY <1>5, <1>6 DEF DelayedKick

\* A run that begins has nothing in flight, done or handed out.
LEMMA StartRunInv ==
  ASSUME LabInv, NEW r \in Runs, NEW sc \in Scenarios[r], StartRun(r, sc)
  PROVE  LabInv'
<1>1. TypeOK /\ RunInv(r) /\ run[r].status = "none"
  BY DEF LabInv, StartRun
<1>2. /\ loop[r] = "none" /\ delayed[r] = 0 /\ disk[r] = <<>> /\ \A i \in Ids : task[r][i].pc = "none"
  BY <1>1 DEF RunInv, Fresh
<1>3. /\ run' = [run EXCEPT ![r] = NewRun(sc)] /\ loop' = [loop EXCEPT ![r] = "kick"]
      /\ UNCHANGED <<task, reserve, delayed, accepted, disk, crashed>>
  BY DEF StartRun
<1>4. NewRun(sc) \in Run
  <2>1. sc \in AllScenarios
    BY DEF AllScenarios
  <2> QED
    BY <2>1 DEF NewRun, Run, Counters
<1>5. /\ NewRun(sc).status = "running" /\ NewRun(sc).scenario = sc /\ NewRun(sc).cursor = 0 /\ NewRun(sc).inFlight = 0
      /\ NewRun(sc).counters = [submitted |-> 0, accepted |-> 0, pending |-> 0, mined |-> 0, failed |-> 0]
  BY DEF NewRun
<1>6. /\ run' \in [Runs -> Run] /\ run'[r] = NewRun(sc) /\ loop'[r] = "kick"
      /\ \A q \in Runs \ {r} : run'[q] = run[q] /\ loop'[q] = loop[q]
      /\ loop' \in [Runs -> {"none", "kick", "sleep", "persist", "retry", "over"}]
  BY <1>1, <1>3, <1>4 DEF TypeOK
<1>7. TypeOK' /\ Own(r)
  BY <1>1, <1>3, <1>6 DEF TypeOK, Own
<1>8. TasksOK(r)'
  BY <1>1, <1>3 DEF RunInv, TasksOK
<1>9. sc.txCount \in 1..MaxTx /\ 0 <= sc.txCount
  BY ScenarioAssumption
<1>10. Fresh(r)'
  BY <1>5, <1>6, <1>9 DEF Fresh
<1>11. Open(r)' = {} /\ Done(r)' = {} /\ \A O : With(r, O)' = 0
  <2>1. Open(r)' = {} /\ Done(r)' = {}
    BY <1>2, <1>3 DEF Open, Done, Ids
  <2> QED
    BY <2>1, FS_EmptySet DEF With
<1>12. Balanced(r)'
  <2>1. Cardinality(Open(r)') = 0 /\ Cardinality(Done(r)') = 0
    BY <1>11, FS_EmptySet
  <2>2. Counted(r)'
    BY <1>5, <1>6, <1>11, <2>1 DEF Counted
  <2>3. \A i \in Ids : i > 0
    BY DEF Ids
  <2> QED
    BY <1>2, <1>3, <1>5, <1>6, <2>2, <2>3 DEF Balanced
<1>13. Finished(r)'
  BY <1>2, <1>3, <1>5, <1>6 DEF Finished
<1>14. Handed(r)' /\ \A a : Askers(r, a)' = Askers(r, a)
  BY <1>1, <1>3, SameNonces DEF RunInv, Taken
<1>15. \A a : Askers(r, a) = {}
  BY <1>2 DEF Askers, Takers, Taken
<1>16. OneByOne(r)'
  BY <1>2, <1>3, <1>5, <1>6, <1>14, <1>15 DEF OneByOne, Single
<1> QED
  BY <1>7, <1>8, <1>10, <1>12, <1>13, <1>14, <1>16, OwnStep DEF RunInv

LEMMA StopRunInv ==
  ASSUME LabInv, NEW r \in Runs, StopRun(r)
  PROVE  LabInv'
<1> DEFINE me == [run[r] EXCEPT !.stopRequested = TRUE]
<1>1. TypeOK /\ RunInv(r) /\ run[r] \in Run /\ run[r].status # "none"
  BY DEF LabInv, StopRun, TypeOK
<1>2. /\ run' = [run EXCEPT ![r] = me]
      /\ UNCHANGED <<activeRun, loop, task, reserve, delayed, accepted, disk, crashed>>
  BY <1>1 DEF StopRun, TypeOK
<1>3. /\ me \in Run /\ me.status = run[r].status /\ me.scenario = run[r].scenario /\ me.cursor = run[r].cursor
      /\ me.inFlight = run[r].inFlight /\ me.counters = run[r].counters
  BY <1>1 DEF Run
<1> HIDE DEF me
<1>4. run' \in [Runs -> Run] /\ run'[r] = me /\ \A q \in Runs \ {r} : run'[q] = run[q]
  BY <1>1, <1>2, <1>3 DEF TypeOK
<1>5. TypeOK' /\ Own(r)
  BY <1>1, <1>2, <1>4 DEF TypeOK, Own
<1>6. Finished(r)'
  BY <1>1, <1>2, <1>3, <1>4 DEF RunInv, Finished, Done
<1>7. Serial(r) => delayed'[r] = 0
  BY <1>1, <1>2 DEF RunInv, OneByOne
<1> QED
  BY <1>1, <1>2, <1>3, <1>4, <1>5, <1>6, <1>7, Bookkeeping

\* The loop goes to sleep, and wakes up.
LEMMA SleepAgainInv ==
  ASSUME LabInv, NEW r \in Runs, Sleep(r) \/ Again(r)
  PROVE  LabInv'
<1>1. TypeOK /\ RunInv(r) /\ run[r].status # "none"
  BY HasBegun DEF LabInv, Sleep, Again
<1>2. /\ \E p \in {"sleep", "kick"} : loop' = [loop EXCEPT ![r] = p]
      /\ UNCHANGED <<activeRun, run, task, reserve, delayed, accepted, disk, crashed>>
  BY DEF Sleep, Again
<1>3. /\ loop' \in [Runs -> {"none", "kick", "sleep", "persist", "retry", "over"}]
      /\ loop'[r] \notin {"persist", "retry"} /\ \A q \in Runs \ {r} : loop'[q] = loop[q]
  BY <1>1, <1>2 DEF TypeOK
<1>4. TypeOK' /\ Own(r)
  BY <1>1, <1>2, <1>3 DEF TypeOK, Own
<1>5. Finished(r)'
  BY <1>1, <1>2, <1>3 DEF RunInv, Finished, Done
<1>6. Serial(r) => delayed'[r] = 0
  BY <1>1, <1>2 DEF RunInv, OneByOne
<1> QED
  BY <1>1, <1>2, <1>4, <1>5, <1>6, Bookkeeping

\* The end of a run and of its writing: the record of the run gets a status,
\* the file the results there are.
LEMMA RunEndsInv ==
  ASSUME LabInv, NEW r \in Runs, loop[r] # "none",
         NEW st \in {"stopped", "completed", "failed"}, run' = [run EXCEPT ![r].status = st],
         NEW p \in {"persist", "retry"}, loop' = [loop EXCEPT ![r] = p],
         disk' = [disk EXCEPT ![r] = <<Results(r), "writing">>],
         UNCHANGED <<task, reserve, delayed, accepted, crashed>>,
         st = "completed" => Done(r) = 1..run[r].scenario.txCount /\ run[r].cursor = run[r].scenario.txCount
  PROVE  LabInv'
<1> DEFINE me == [run[r] EXCEPT !.status = st]
<1>1. TypeOK /\ RunInv(r) /\ run[r] \in Run /\ run[r].status # "none"
  BY HasBegun DEF LabInv, TypeOK
<1>2. run' = [run EXCEPT ![r] = me]
  BY <1>1 DEF TypeOK
<1>3. /\ me \in Run /\ me.status = st /\ me.scenario = run[r].scenario /\ me.cursor = run[r].cursor
      /\ me.inFlight = run[r].inFlight /\ me.counters = run[r].counters
  BY <1>1 DEF Run
<1> HIDE DEF me
<1>4. run' \in [Runs -> Run] /\ run'[r] = me /\ \A q \in Runs \ {r} : run'[q] = run[q]
  BY <1>1, <1>2, <1>3 DEF TypeOK
<1>5. /\ loop' \in [Runs -> {"none", "kick", "sleep", "persist", "retry", "over"}]
      /\ \A q \in Runs \ {r} : loop'[q] = loop[q]
  BY <1>1 DEF TypeOK
<1>6. Results(r).status = st /\ Results(r).txs = Done(r)
  BY <1>3, <1>4 DEF Results, Done
<1>7. /\ disk' = [q \in Runs |-> disk'[q]] /\ \A q \in Runs \ {r} : disk'[q] = disk[q]
      /\ disk'[r] = <<Results(r), "writing">>
  BY <1>1 DEF TypeOK
<1>8. disk'[r] # <<>> /\ disk'[r][1].status = st /\ disk'[r][1].txs = Done(r)
  BY <1>6, <1>7
<1>9. TypeOK' /\ Own(r)
  BY <1>1, <1>4, <1>5, <1>7 DEF TypeOK, Own
<1>10. Done(r)' = Done(r)
  BY DEF Done
<1>11. Finished(r)'
  BY <1>3, <1>4, <1>8, <1>10 DEF Finished
<1>12. Serial(r) => delayed'[r] = 0
  BY <1>1 DEF RunInv, OneByOne
<1> QED
  BY <1>1, <1>3, <1>4, <1>9, <1>11, <1>12, Bookkeeping

LEMMA EndInv ==
  ASSUME LabInv, NEW r \in Runs, End(r) \/ PersistFails(r)
  PROVE  LabInv'
<1>1. CASE End(r)
  <2>1. /\ loop[r] = "sleep" /\ ~crashed /\ ~GoesOn(r)
        /\ run' = [run EXCEPT ![r].status = IF run[r].stopRequested THEN "stopped" ELSE "completed"]
        /\ loop' = [loop EXCEPT ![r] = "persist"] /\ disk' = [disk EXCEPT ![r] = <<Results(r), "writing">>]
        /\ UNCHANGED <<task, reserve, delayed, accepted, crashed>>
    BY <1>1 DEF End, EventLoopFree
  <2>2. CASE run[r].stopRequested
    BY <2>1, <2>2, RunEndsInv
  <2>3. CASE ~run[r].stopRequested
    <3>1. TypeOK /\ RunInv(r) /\ run[r].status # "none"
      BY <2>1, HasBegun DEF LabInv
    <3>2. PICK n : n = run[r].scenario.txCount
      OBVIOUS
    <3>3. n \in Nat /\ n \in 1..MaxTx /\ run[r].cursor \in Nat /\ run[r].cursor <= n
      BY <3>1, <3>2, ScenarioFacts
    <3>4. run[r].cursor = n
      BY <2>1, <2>3, <3>2, <3>3 DEF GoesOn
    <3>5. Open(r) = {}
      <4>1. run[r].inFlight \in Nat /\ ~(run[r].inFlight > 0)
        BY <2>1, <2>3, SlotsAreOpen DEF GoesOn
      <4>2. run[r].inFlight = 0
        BY <4>1
      <4> QED
        BY <2>1, <4>2, SlotsAreOpen
    <3>6. \A i \in Ids : task[r][i].pc = "done" <=> task[r][i].pc # "none"
      BY <3>5 DEF Open, Ids
    <3>7. \A i \in Ids : task[r][i].pc = "none" <=> i > n
      BY <2>1, <3>1, <3>4 DEF RunInv, Balanced
    <3>8. Done(r) = {i \in Ids : ~(i > n)}
      BY <3>6, <3>7 DEF Done, Ids
    <3>9. {i \in 1..MaxTx : ~(i > n)} = 1..n
      BY <3>3, ScenarioAssumption
    <3> QED
      BY <2>1, <2>3, <3>2, <3>4, <3>8, <3>9, RunEndsInv DEF Ids
  <2> QED
    BY <2>2, <2>3
<1>2. CASE PersistFails(r)
  BY <1>2, RunEndsInv DEF PersistFails
<1> QED
  BY <1>1, <1>2

LEMMA PersistInv ==
  ASSUME LabInv, NEW r \in Runs, Persist(r) \/ RetryFails(r)
  PROVE  LabInv'
<1>1. TypeOK /\ RunInv(r) /\ run[r].status # "none"
  BY HasBegun DEF LabInv, Persist, RetryFails
<1>2. loop' = [loop EXCEPT ![r] = "over"] /\ UNCHANGED <<activeRun, run, task, reserve, delayed, accepted, crashed>>
  BY DEF Persist, RetryFails
<1>3. PICK d \in {<<disk[r][1], "written">>, <<>>} : disk' = [disk EXCEPT ![r] = d]
  BY DEF Persist, RetryFails
<1>4. d # <<>> => disk[r] # <<>> /\ d[1] = disk[r][1]
  <2>1. CASE Persist(r)
    <3>1. disk[r] # <<>>
      BY <1>1, <2>1 DEF RunInv, Finished, Persist
    <3> QED
      BY <3>1
  <2>2. CASE RetryFails(r)
    <3>1. disk' = [disk EXCEPT ![r] = <<>>]
      BY <2>2 DEF RetryFails
    <3> QED
      BY <1>1, <1>3, <3>1 DEF TypeOK
  <2> QED
    BY <2>1, <2>2
<1>5. /\ disk' = [q \in Runs |-> disk'[q]] /\ disk'[r] = d /\ \A q \in Runs \ {r} : disk'[q] = disk[q]
      /\ loop' \in [Runs -> {"none", "kick", "sleep", "persist", "retry", "over"}] /\ loop'[r] = "over"
      /\ \A q \in Runs \ {r} : loop'[q] = loop[q]
  BY <1>1, <1>2, <1>3 DEF TypeOK
<1>6. TypeOK' /\ Own(r)
  BY <1>1, <1>2, <1>5 DEF TypeOK, Own
<1>7. Finished(r)'
  BY <1>1, <1>2, <1>4, <1>5 DEF RunInv, Finished, Done
<1>8. Serial(r) => delayed'[r] = 0
  BY <1>1, <1>2 DEF RunInv, OneByOne
<1> QED
  BY <1>1, <1>2, <1>6, <1>7, <1>8, Bookkeeping

-----------------------------------------------------------------------------
(* The theorems *)

LEMMA InitInv ==
  Init => LabInv
<1> SUFFICES ASSUME Init PROVE LabInv
  OBVIOUS
<1>1. NoTask \in Task /\ NoTask.pc = "none"
  BY DEF NoTask, Task, Places, Outcomes
<1> DEFINE none == [NewRun(NoScenario) EXCEPT !.status = "none"]
<1>2. /\ none \in Run /\ none.status = "none" /\ none.cursor = 0 /\ none.inFlight = 0
      /\ none.counters = [submitted |-> 0, accepted |-> 0, pending |-> 0, mined |-> 0, failed |-> 0]
  <2>1. NoScenario \in AllScenarios
    BY DEF AllScenarios
  <2>2. /\ NewRun(NoScenario) \in Run /\ NewRun(NoScenario).cursor = 0 /\ NewRun(NoScenario).inFlight = 0
        /\ NewRun(NoScenario).counters = [submitted |-> 0, accepted |-> 0, pending |-> 0, mined |-> 0, failed |-> 0]
    BY <2>1 DEF NewRun, Run, Counters
  <2> QED
    BY <2>2 DEF Run
<1>3. run = [r \in Runs |-> none]
  BY DEF Init
<1> HIDE DEF none
<1>4. TypeOK
  <2>1. task \in [Runs -> [Ids -> Task]]
    BY <1>1 DEF Init, Ids
  <2>2. run \in [Runs -> Run]
    BY <1>2, <1>3
  <2>3. accepted \in [Accounts -> SUBSET Nat] /\ \A a \in Accounts : IsFiniteSet(accepted[a])
    BY FS_EmptySet DEF Init
  <2> QED
    BY <2>1, <2>2, <2>3 DEF TypeOK, Init
<1>5. ASSUME NEW r \in Runs PROVE RunInv(r)
  <2>1. \A i \in Ids : task[r][i].pc = "none"
    BY <1>1 DEF Init, Ids
  <2>2. run[r] = none /\ loop[r] = "none" /\ delayed[r] = 0 /\ disk[r] = <<>> /\ \A a \in Accounts : reserve[r][a] = -1
    BY <1>3 DEF Init
  <2>3. Open(r) = {} /\ Done(r) = {} /\ \A a : Takers(r, a) = {} /\ Askers(r, a) = {}
    BY <2>1 DEF Open, Done, Askers, Takers, Taken, Ids
  <2>4. \A O : With(r, O) = 0
    BY <2>3, FS_EmptySet DEF With
  <2>5. Balanced(r)
    <3>1. Cardinality(Open(r)) = 0 /\ Cardinality(Done(r)) = 0
      BY <2>3, FS_EmptySet
    <3>2. \A i \in Ids : i > 0
      BY DEF Ids
    <3> QED
      BY <1>2, <2>1, <2>2, <2>4, <3>1, <3>2 DEF Balanced, Counted
  <2>6. TasksOK(r)
    BY <2>1 DEF TasksOK
  <2>7. Fresh(r) /\ Finished(r) /\ OneByOne(r)
    BY <1>2, <2>1, <2>2 DEF Fresh, Finished, OneByOne, Serial
  <2>8. Handed(r)
    BY <2>2, <2>3 DEF Handed, NonceOK
  <2> QED
    BY <2>5, <2>6, <2>7, <2>8 DEF RunInv
<1> QED
  BY <1>4, <1>5 DEF LabInv

LEMMA NextInv ==
  LabInv /\ [Next]_vars => LabInv'
<1> SUFFICES ASSUME LabInv, [Next]_vars PROVE LabInv'
  OBVIOUS
<1>1. CASE UNCHANGED vars
  <2>1. TypeOK'
    BY <1>1 DEF LabInv, TypeOK, vars
  <2>2. \A q \in Runs : RunInv(q)'
    BY <1>1, SameRun DEF LabInv, vars
  <2> QED
    BY <2>1, <2>2 DEF LabInv
<1>2. CASE Next
  <2>1. PICK r \in Runs :
          \/ \E sc \in Scenarios[r] : StartRun(r, sc)
          \/ StopRun(r) \/ DelayedKick(r) \/ Loop(r) \/ Writing(r)
          \/ \E i \in 1..MaxTx : Transaction(r, i)
    BY <1>2 DEF Next
  <2>2. CASE \E sc \in Scenarios[r] : StartRun(r, sc)
    BY <2>2, StartRunInv
  <2>3. CASE StopRun(r)
    BY <2>3, StopRunInv
  <2>4. CASE DelayedKick(r)
    BY <2>4, DelayedKickInv
  <2>5. CASE Loop(r)
    BY <2>5, KickInv, SleepAgainInv, EndInv DEF Loop
  <2>6. CASE Writing(r)
    BY <2>6, PersistInv, EndInv DEF Writing
  <2>7. CASE \E i \in 1..MaxTx : Transaction(r, i)
    BY <2>7, NodeCountsInv, TakeCountedInv, EndsInv DEF Transaction, Lookup, Ids
  <2> QED
    BY <2>1, <2>2, <2>3, <2>4, <2>5, <2>6, <2>7
<1> QED
  BY <1>1, <1>2

\* The inductive invariant: every run counts its transactions and begins them
\* in order, and what is reserved of an account is above every nonce handed
\* out unless two transactions asked the node.
THEOREM LabInvHolds == Spec => []LabInv
<1> QED
  BY InitInv, NextInv, PTL DEF Spec

\* Whatever the scenarios and however the answers of the node come in, the
\* counters and the slots of every run are those of its transactions.
THEOREM CountersAlwaysAgree == Spec => []CountersAgree
<1>1. LabInv => CountersAgree
  BY DEF LabInv, RunInv, Balanced, CountersAgree
<1> QED
  BY <1>1, LabInvHolds, PTL

\* A run that calls itself completed, and its file, have every transaction of
\* the scenario, of any length.
THEOREM CompletedRunsAreComplete == Spec => []CompletedIsComplete
<1>1. LabInv => CompletedIsComplete
  <2> SUFFICES ASSUME LabInv, NEW r \in Runs
               PROVE  /\ run[r].status = "completed" => Cardinality(Done(r)) = run[r].scenario.txCount
                      /\ disk[r] # <<>> /\ disk[r][1].status = "completed" =>
                           Cardinality(disk[r][1].txs) = run[r].scenario.txCount
    BY DEF CompletedIsComplete
  <2>1. Finished(r) /\ TypeOK /\ RunInv(r)
    BY DEF LabInv, RunInv
  <2>2. CASE run[r].status = "none"
    BY <2>1, <2>2 DEF RunInv, Fresh
  <2>3. CASE run[r].status # "none"
    <3>1. run[r].scenario.txCount \in Nat
      BY <2>1, <2>3, ScenarioFacts
    <3> QED
      BY <2>1, <3>1, FirstNumbers DEF Finished
  <2> QED
    BY <2>2, <2>3
<1> QED
  BY <1>1, LabInvHolds, PTL

\* A run hands a nonce out twice only if two of its transactions asked the
\* node, and never if it sends one by one, for any number of accounts.
THEOREM NoncesAreSequential == Spec => []SequentialNonces
<1>1. LabInv => SequentialNonces
  <2> SUFFICES ASSUME LabInv, NEW r \in Runs, NEW a \in Accounts, ClashIn(r, a)
               PROVE  /\ \E i, j \in 1..MaxTx : i # j /\ \A k \in {i, j} : Taken(r, k) /\ task[r][k].asked /\ task[r][k].label = a
                      /\ run[r].scenario.concurrency > 1 \/ run[r].scenario.rateLimitTps > 0
    BY DEF SequentialNonces
  <2>1. TypeOK /\ RunInv(r)
    BY DEF LabInv
  <2>2. PICK i, j \in Ids : i # j /\ i \in Takers(r, a) /\ j \in Takers(r, a) /\ task[r][i].nonce = task[r][j].nonce
    BY DEF ClashIn, Takers, Ids
  <2>3. ~Single(Askers(r, a))
    BY <2>1, <2>2 DEF RunInv, Handed, NonceOK
  <2>4. PICK k, l \in Askers(r, a) : k # l
    BY <2>3 DEF Single
  <2>5. \A m \in {k, l} : m \in Ids /\ Taken(r, m) /\ task[r][m].asked /\ task[r][m].label = a
    BY <2>4 DEF Askers, Takers
  <2>6. run[r].status # "none"
    BY <2>1, <2>5 DEF RunInv, Fresh, Taken
  <2>7. run[r].scenario.concurrency \in Nat \ {0} /\ run[r].scenario.rateLimitTps \in Nat
    BY <2>1, <2>6, ScenarioFacts
  <2>8. ~Serial(r)
    BY <2>1, <2>3 DEF RunInv, OneByOne
  <2>9. run[r].scenario.concurrency > 1 \/ run[r].scenario.rateLimitTps > 0
    BY <2>6, <2>7, <2>8 DEF Serial
  <2> QED
    BY <2>4, <2>5, <2>9 DEF Ids
<1> QED
  BY <1>1, LabInvHolds, PTL

=============================================================================
