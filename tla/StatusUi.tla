------------------------------ MODULE StatusUi ------------------------------
(***************************************************************************)
(* The status page's server, apps/status-ui/server.js: GET /api/status and *)
(* /healthz, which share one cache and one refresh, and POST /api/tx/...,  *)
(* behind its gate.  The helper process that a request which passed the    *)
(* gate starts is TxHelper, the transaction lab in the same process TxLab. *)
(*                                                                         *)
(* The handlers run one at a time; the answers of the nodes and the timers *)
(* come in between.                                                        *)
(***************************************************************************)
EXTENDS Naturals, Sequences, FiniteSets, FiniteSetsExt

CONSTANTS
  NumRequests,  \* bound on the requests, which are numbered as they come
  Nodes, Ips,
  CacheMs,      \* in ticks of the clock, as all times
  RpcTimeout,
  RateWindow, RateLimit,
  DivergenceWarn,
  MaxTime, MaxHead,
  None

ASSUME StatusUiAssumption ==
  {NumRequests, CacheMs, RpcTimeout, DivergenceWarn, MaxTime, MaxHead} \subseteq Nat
    /\ {RateWindow, RateLimit} \subseteq Nat \ {0}
    /\ IsFiniteSet(Nodes) /\ Nodes # {}      \* parseRpcUrls has a default
    /\ None \notin Nat \cup Ips

Requests == 1..NumRequests

VARIABLES
  now,          \* Date.now()
  head,         \* of each node; a node that is down does not answer
  cache,        \* statusCache.value with its computedAt, or None
  refreshes,    \* every computeStatus that runs
  inFlight,     \* statusCache.inFlight: one of them, or None
  window,       \* txWindowsByIp
  req,          \* the requests, as their handlers see them
  asked         \* what for: "status" or "tx".  The two share nothing but the clock.

status == <<cache, refreshes, inFlight>>
vars == <<now, head, status, window, req, asked>>

\* after: those that had ended when it came.
New == [pc |-> "new", ip |-> None, at |-> 0, after |-> {}, flight |-> None, got |-> None]
Ended == {"answered", "refused", "limited", "rejected"}

Init ==
  /\ now = 0
  /\ head = [n \in Nodes |-> 1]
  /\ cache = None /\ refreshes = <<>> /\ inFlight = None
  /\ window = [i \in Ips |-> <<>>]
  /\ req = [r \in Requests |-> New]
  /\ asked \in {"status", "tx"}

\* The requests come in the order of their numbers.
IsNext(r, what) == asked = what /\ req[r].pc = "new" /\ \A q \in 1..(r - 1) : req[q].pc # "new"
Arrived(r) == [New EXCEPT !.at = now, !.after = {q \in Requests : req[q].pc \in Ended}]

----------------------------------------------------------------------------
(* What surrounds it *)

\* Timers are on time: a call of a node does not outlive RPC_TIMEOUT_MS, and
\* its end is dealt with at once.
Tick ==
  /\ now < MaxTime
  /\ \A f \in DOMAIN refreshes :
       None \in Range(refreshes[f].nodes) /\ now - refreshes[f].started < RpcTimeout
  /\ now' = now + 1
  /\ UNCHANGED <<head, status, window, req, asked>>

NewBlock(n) ==
  /\ asked = "status" /\ head[n] < MaxHead
  /\ head' = [head EXCEPT ![n] = @ + 1]
  /\ UNCHANGED <<now, status, window, req, asked>>

----------------------------------------------------------------------------
(* Status *)

UpNodes(nodes) == {n \in Nodes : nodes[n].up}

\* MUTANT: a head that is no number counts as 0.
AnyHeads(nodes) == {IF nodes[n].head = None THEN 0 ELSE nodes[n].head : n \in UpNodes(nodes)}

Heads(nodes) == {nodes[n].head : n \in UpNodes(nodes)} \ {None}

HeadDivergence(nodes) == IF Heads(nodes) = {} THEN 0 ELSE Max(Heads(nodes)) - Min(Heads(nodes))

\* summarize
Healthy(nodes) ==
  /\ UpNodes(nodes) # {}
  /\ Cardinality(UpNodes(nodes)) >= 2 => HeadDivergence(nodes) <= DivergenceWarn

Fresh == cache # None /\ now - cache.computedAt < CacheMs

GetCached(r) ==
  /\ IsNext(r, "status") /\ Fresh
  /\ req' = [req EXCEPT ![r] = [Arrived(r) EXCEPT !.pc = "answered", !.got = cache]]
  /\ UNCHANGED <<now, head, status, window, asked>>

GetInFlight(r) ==
  /\ IsNext(r, "status") /\ ~Fresh /\ inFlight # None
  /\ req' = [req EXCEPT ![r] = [Arrived(r) EXCEPT !.pc = "waits", !.flight = inFlight]]
  /\ UNCHANGED <<now, head, status, window, asked>>

\* A refresh is named by the request that started it.
Refresh(r) ==
  /\ inFlight' = r
  /\ refreshes' = [f \in DOMAIN refreshes \cup {r} |->
       IF f # r THEN refreshes[f]
       ELSE [started |-> now, floor |-> Min(Range(head)), nodes |-> [n \in Nodes |-> None]]]
  /\ req' = [req EXCEPT ![r] = [Arrived(r) EXCEPT !.pc = "waits", !.flight = r]]
  /\ UNCHANGED <<now, head, cache, window, asked>>

\* MUTANT: nobody looks for a refresh that runs.
GetAlways(r) == IsNext(r, "status") /\ ~Fresh /\ Refresh(r)

GetComputed(r) == IsNext(r, "status") /\ ~Fresh /\ inFlight = None /\ Refresh(r)

\* checkNode: its calls succeed, the head is a number or is not, or one of
\* them fails or is aborted.
CheckNode(f, n) ==
  /\ refreshes[f].nodes[n] = None
  /\ \E up \in BOOLEAN, h \in {head[n], None} :
       /\ ~up => h = None
       /\ refreshes' = [refreshes EXCEPT ![f].nodes[n] = [up |-> up, head |-> h, at |-> now]]
  /\ UNCHANGED <<now, head, cache, inFlight, window, req, asked>>

\* All nodes are done: the result is stored, and all who wait have it.
Computed(f) ==
  /\ None \notin Range(refreshes[f].nodes)
  /\ cache' = [nodes |-> refreshes[f].nodes, healthy |-> Healthy(refreshes[f].nodes), computedAt |-> now,
               floor |-> refreshes[f].floor, top |-> Max(Range(head))]
  /\ refreshes' = [g \in DOMAIN refreshes \ {f} |-> refreshes[g]]
  /\ inFlight' = None
  /\ req' = [r \in Requests |->
       IF req[r].flight # f THEN req[r]
       ELSE [req[r] EXCEPT !.pc = "answered", !.flight = None, !.got = cache']]
  /\ UNCHANGED <<now, head, window, asked>>

Status ==
  \/ \E r \in Requests : GetCached(r) \/ GetInFlight(r) \/ GetComputed(r)
  \/ \E f \in DOMAIN refreshes : Computed(f) \/ \E n \in Nodes : CheckNode(f, n)

----------------------------------------------------------------------------
(* Transactions *)

\* The gate's first three answers leave the window alone.
Unauthorized(r) ==
  /\ IsNext(r, "tx")
  /\ req' = [req EXCEPT ![r] = [Arrived(r) EXCEPT !.pc = "refused"]]
  /\ UNCHANGED <<now, head, status, window, asked>>

\* The oldest entries go, up to the first one that is younger than a window.
Young(ip) == {k \in DOMAIN window[ip] : now - window[ip][k] < RateWindow}
InWindow(ip) == IF Young(ip) = {} THEN <<>> ELSE SubSeq(window[ip], Min(Young(ip)), Len(window[ip]))

\* MUTANT: a request is counted before it is decided on.
RateLimitedCounted(r, ip) ==
  /\ IsNext(r, "tx") /\ Len(InWindow(ip)) >= RateLimit
  /\ window' = [window EXCEPT ![ip] = Append(InWindow(ip), now)]
  /\ req' = [req EXCEPT ![r] = [Arrived(r) EXCEPT !.pc = "limited", !.ip = ip]]
  /\ UNCHANGED <<now, head, status, asked>>

RateLimited(r, ip) ==
  /\ IsNext(r, "tx") /\ Len(InWindow(ip)) >= RateLimit
  /\ window' = [window EXCEPT ![ip] = InWindow(ip)]
  /\ req' = [req EXCEPT ![r] = [Arrived(r) EXCEPT !.pc = "limited", !.ip = ip]]
  /\ UNCHANGED <<now, head, status, asked>>

\* It is counted, and may still be found wrong: no funding key, an rpcUrl
\* that is not configured.
Admitted(r, ip) ==
  /\ IsNext(r, "tx") /\ Len(InWindow(ip)) < RateLimit
  /\ window' = [window EXCEPT ![ip] = Append(InWindow(ip), now)]
  /\ \E pc \in {"helper", "rejected"} : req' = [req EXCEPT ![r] = [Arrived(r) EXCEPT !.pc = pc, !.ip = ip]]
  /\ UNCHANGED <<now, head, status, asked>>

Tx(r) ==
  \/ Unauthorized(r) \/ \E ip \in Ips : RateLimited(r, ip) \/ Admitted(r, ip)

Next == Tick \/ Status \/ (\E n \in Nodes : NewBlock(n)) \/ \E r \in Requests : Tx(r)

Spec == Init /\ [][Next]_vars

----------------------------------------------------------------------------
(* What must hold *)

\* What a request is shown was read less than CACHE_MS and a timeout before
\* it was made, or, if a refresh that runs is waited for, at most a timeout
\* before; and no node falls behind what a request that had been answered
\* before was shown of it (server.js:241-263).
AnswersAreCurrent ==
  \A r \in Requests : req[r].pc = "answered" =>
    \A n \in Nodes :
      LET mine == req[r].got.nodes[n] IN
      /\ req[r].at < mine.at + CacheMs + RpcTimeout \/ req[r].at <= mine.at + RpcTimeout
      /\ \A q \in req[r].after :
           req[q].pc = "answered" /\ None \notin {mine.head, req[q].got.nodes[n].head}
             => mine.head >= req[q].got.nodes[n].head

\* The page is degraded only if no node answered, or a node really was more
\* than DIVERGENCE_WARN blocks behind another one at some time of the refresh;
\* and it is if the nodes read were as far apart as that (server.js:188-208).
DivergenceIsReal ==
  \A r \in Requests : req[r].pc = "answered" =>
    LET got == req[r].got
        numbers == {got.nodes[n].head : n \in Nodes}
    IN /\ got.healthy \/ UpNodes(got.nodes) = {} \/ got.top - got.floor > DivergenceWarn
       /\ None \notin numbers /\ {got.floor, got.top} \subseteq numbers
            => (got.healthy <=> got.top - got.floor <= DivergenceWarn)

WasAdmitted(r) == req[r].pc \notin {"new", "refused", "limited", "waits", "answered"}

\* A request is turned away exactly if TX_RATE_LIMIT_PER_MIN of its client
\* were let in within the last minute: those that were turned away, or had a
\* wrong token, do not count (server.js:335-373).
RateIsExact ==
  \A r \in Requests : req[r].ip # None =>
    LET earlier == {q \in 1..(r - 1) :
          WasAdmitted(q) /\ req[q].ip = req[r].ip /\ req[r].at - req[q].at < RateWindow}
    IN req[r].pc = "limited" <=> Cardinality(earlier) >= RateLimit
=============================================================================
