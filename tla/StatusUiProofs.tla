--------------------------- MODULE StatusUiProofs ---------------------------
(***************************************************************************)
(* The status page's server for any nodes, clients, windows and numbers of *)
(* requests: an answer is recent and never behind an earlier one, a        *)
(* degraded page has a cause, and the rate limit is exact.                 *)
(***************************************************************************)
EXTENDS StatusUi, SumsProofs, SequenceTheorems

Places == {"new", "waits", "answered", "refused", "limited", "helper", "rejected"}

Reading == [up : BOOLEAN, head : Nat \cup {None}, at : Nat]
Running == [started : Nat, floor : Nat, nodes : [Nodes -> Reading \cup {None}]]
Result == [nodes : [Nodes -> Reading], healthy : BOOLEAN, computedAt : Nat, floor : Nat, top : Nat]
Entry == [pc : Places, ip : Ips \cup {None}, at : Nat, after : SUBSET Requests,
          flight : Requests \cup {None}, got : Result \cup {None}]

\* One refresh at a time: it is the one statusCache.inFlight points to.
TypeOK ==
  /\ now \in Nat /\ head \in [Nodes -> Nat]
  /\ cache \in Result \cup {None}
  /\ inFlight \in Requests \cup {None}
  /\ DOMAIN refreshes = {inFlight} \ {None}
  /\ \A f \in DOMAIN refreshes : refreshes[f] \in Running
  /\ req \in [Requests -> Entry]
  /\ asked \in {"status", "tx"}

Answered == {r \in Requests : req[r].pc = "answered"}
Past == {q \in Requests : req[q].pc \in Ended}

\* A request waits for the refresh that runs; it comes after requests that
\* have ended for good.
RequestOK(r) ==
  /\ req[r].at <= now
  /\ IF req[r].pc = "waits" THEN req[r].flight = inFlight /\ inFlight # None ELSE req[r].flight = None
  /\ req[r].pc = "answered" => req[r].got \in Result
  /\ \A q \in req[r].after : req[q].pc \in Ended
  /\ req[r].pc = "new" => \A q \in Requests : r < q => req[q].pc = "new"

\* Where both have a number, the first is not ahead.
NotAhead(earlier, later) ==
  \A n \in Nodes : None \notin {earlier[n].head, later[n].head} => earlier[n].head <= later[n].head

Read(f) == {n \in Nodes : refreshes[f].nodes[n] # None}

\* A refresh ends in time, and reads heads between the lowest at its begin
\* and the present ones.
RefreshOK(f) ==
  /\ refreshes[f].started <= now /\ now <= refreshes[f].started + RpcTimeout
  /\ \A n \in Nodes : refreshes[f].floor <= head[n]
  /\ \A n \in Read(f) :
       LET mine == refreshes[f].nodes[n] IN
       /\ mine \in Reading /\ refreshes[f].started <= mine.at
       /\ ~mine.up => mine.head = None
       /\ mine.head # None => refreshes[f].floor <= mine.head /\ mine.head <= head[n]

\* Nothing that was shown, or is stored, is ahead of what is read now.
Behind(nodes) ==
  /\ \A n \in Nodes : nodes[n].head # None => nodes[n].head <= head[n]
  /\ \A f \in DOMAIN refreshes : \A n \in Read(f) :
       None \notin {nodes[n].head, refreshes[f].nodes[n].head} => nodes[n].head <= refreshes[f].nodes[n].head

\* The stored result is of the last refresh.
CacheOK ==
  /\ cache # None =>
       /\ cache \in Result /\ cache.computedAt <= now /\ Behind(cache.nodes)
       /\ \A n \in Nodes : cache.computedAt <= cache.nodes[n].at + RpcTimeout
  /\ \A q \in Answered : cache \in Result /\ Behind(req[q].got.nodes) /\ NotAhead(req[q].got.nodes, cache.nodes)

\* What DivergenceIsReal says of an answer.
Verdict(got) ==
  LET numbers == {got.nodes[n].head : n \in Nodes} IN
  /\ got.healthy \/ UpNodes(got.nodes) = {} \/ got.top - got.floor > DivergenceWarn
  /\ None \notin numbers /\ {got.floor, got.top} \subseteq numbers
       => (got.healthy <=> got.top - got.floor <= DivergenceWarn)

\* What AnswersAreCurrent says of one.
Current(r) ==
  /\ \A n \in Nodes :
       req[r].at < req[r].got.nodes[n].at + CacheMs + RpcTimeout \/ req[r].at <= req[r].got.nodes[n].at + RpcTimeout
  /\ \A q \in req[r].after : req[q].pc = "answered" => NotAhead(req[q].got.nodes, req[r].got.nodes)

PageInv ==
  /\ TypeOK
  /\ \A r \in Requests : RequestOK(r)
  /\ \A f \in DOMAIN refreshes : RefreshOK(f)
  /\ CacheOK
  /\ cache # None => Verdict(cache)
  /\ \A r \in Answered : Current(r) /\ Verdict(req[r].got)

-----------------------------------------------------------------------------
(* Heads *)

LEMMA MaxMin ==
  ASSUME NEW S \in SUBSET Nat, IsFiniteSet(S), S # {}
  PROVE  /\ Max(S) \in S /\ \A k \in S : k <= Max(S)
         /\ Min(S) \in S /\ \A k \in S : Min(S) <= k
<1>1. PICK m \in S : \A k \in S : k <= m
  BY Largest
<1>2. PICK l \in S : \A k \in S : l <= k
  BY Smallest
<1>3. \A k \in S : m >= k
  BY <1>1
<1>4. Max(S) \in S /\ \A k \in S : Max(S) >= k
  BY <1>1, <1>3 DEF Max
<1>5. Min(S) \in S /\ \A k \in S : Min(S) <= k
  BY <1>2 DEF Min
<1> QED
  BY <1>4, <1>5

LEMMA ImageFinite ==
  ASSUME NEW f, DOMAIN f = Nodes
  PROVE  IsFiniteSet({f[n] : n \in Nodes}) /\ {f[n] : n \in Nodes} # {}
<1> DEFINE T == {f[n] : n \in Nodes}
           g == [n \in Nodes |-> f[n]]
<1>1. g \in Surjection(Nodes, T)
  BY DEF Surjection
<1> HIDE DEF g, T
<1>2. IsFiniteSet(T)
  BY <1>1, StatusUiAssumption, FS_Surjection
<1> QED
  BY <1>2, StatusUiAssumption DEF T

\* The heads of all nodes have a lowest and a highest.
LEMMA HeadBounds ==
  ASSUME head \in [Nodes -> Nat]
  PROVE  /\ Max(Range(head)) \in Nat /\ Min(Range(head)) \in Nat
         /\ \A n \in Nodes : Min(Range(head)) <= head[n] /\ head[n] <= Max(Range(head))
<1> DEFINE S == {head[n] : n \in Nodes}
<1>1. Range(head) = S
  BY DEF Range
<1>2. IsFiniteSet(S) /\ S # {} /\ S \in SUBSET Nat
  BY ImageFinite
<1> HIDE DEF S
<1>3. /\ Max(S) \in S /\ \A k \in S : k <= Max(S)
      /\ Min(S) \in S /\ \A k \in S : Min(S) <= k
  BY <1>2, MaxMin
<1> QED
  BY <1>1, <1>2, <1>3 DEF S

\* summarize on what was read between the two bounds.
LEMMA VerdictHolds ==
  ASSUME NEW got \in Result, got.healthy = Healthy(got.nodes),
         \A n \in Nodes :
           /\ ~got.nodes[n].up => got.nodes[n].head = None
           /\ got.nodes[n].head # None => got.floor <= got.nodes[n].head /\ got.nodes[n].head <= got.top
  PROVE  Verdict(got)
<1> DEFINE numbers == {got.nodes[n].head : n \in Nodes}
           H == Heads(got.nodes)
           U == UpNodes(got.nodes)
<1>0. /\ got.nodes \in [Nodes -> Reading] /\ got.floor \in Nat /\ got.top \in Nat
      /\ \A n \in Nodes : got.nodes[n].head \in Nat \cup {None} /\ got.nodes[n].up \in BOOLEAN
      /\ DivergenceWarn \in Nat
  BY StatusUiAssumption DEF Result, Reading
<1>1. H = numbers \ {None}
  <2>1. \A n \in Nodes : got.nodes[n].head # None => n \in U
    BY <1>0 DEF UpNodes
  <2>2. \A h : h \in H <=> h \in numbers \ {None}
    BY <2>1 DEF Heads, UpNodes
  <2> QED
    BY <2>2
<1>2. H \in SUBSET Nat /\ IsFiniteSet(H)
  <2>1. IsFiniteSet(numbers)
    <3> DEFINE g == [n \in Nodes |-> got.nodes[n].head]
    <3>1. numbers = {g[n] : n \in Nodes} /\ DOMAIN g = Nodes
      OBVIOUS
    <3> HIDE DEF g, numbers
    <3> QED
      BY <3>1, ImageFinite
  <2>2. H \subseteq numbers
    BY <1>1
  <2>3. H \in SUBSET Nat
    BY <1>0, <1>1
  <2> QED
    BY <2>1, <2>2, <2>3, FS_Subset
<1>3. \A h \in H : got.floor <= h /\ h <= got.top
  BY <1>1
<1>4. H # {} => /\ Max(H) \in H /\ \A k \in H : k <= Max(H)
                /\ Min(H) \in H /\ \A k \in H : Min(H) <= k
  BY <1>2, MaxMin
<1>5. HeadDivergence(got.nodes) = IF H = {} THEN 0 ELSE Max(H) - Min(H)
  BY DEF HeadDivergence
<1>6. Healthy(got.nodes) <=> U # {} /\ (Cardinality(U) >= 2 => HeadDivergence(got.nodes) <= DivergenceWarn)
  BY DEF Healthy
<1> HIDE DEF H, U
<1>7. got.healthy \/ U = {} \/ got.top - got.floor > DivergenceWarn
  <2> SUFFICES ASSUME ~got.healthy, U # {} PROVE got.top - got.floor > DivergenceWarn
    OBVIOUS
  <2>1. ~(HeadDivergence(got.nodes) <= DivergenceWarn)
    BY <1>6
  <2>2. H # {}
    BY <1>0, <1>5, <2>1
  <2>3. Max(H) \in Nat /\ Min(H) \in Nat /\ got.floor <= Min(H) /\ Max(H) <= got.top
    BY <1>2, <1>3, <1>4, <2>2
  <2>4. ~(Max(H) - Min(H) <= DivergenceWarn)
    BY <1>5, <2>1, <2>2
  <2> QED
    BY <1>0, <2>3, <2>4
<1>8. ASSUME None \notin numbers, {got.floor, got.top} \subseteq numbers
      PROVE  got.healthy <=> got.top - got.floor <= DivergenceWarn
  <2>1. H = numbers /\ got.floor \in H /\ got.top \in H
    BY <1>1, <1>8
  <2>2. Max(H) = got.top /\ Min(H) = got.floor
    <3>1. /\ Max(H) \in Nat /\ Min(H) \in Nat /\ Max(H) <= got.top /\ got.top <= Max(H)
          /\ got.floor <= Min(H) /\ Min(H) <= got.floor
      BY <1>2, <1>3, <1>4, <2>1
    <3> QED
      BY <1>0, <3>1
  <2>3. HeadDivergence(got.nodes) = got.top - got.floor
    BY <1>5, <2>1, <2>2
  <2>4. U = Nodes
    <3>1. \A n \in Nodes : got.nodes[n].head # None
      BY <1>8
    <3>2. \A n \in Nodes : got.nodes[n].up
      BY <1>0, <3>1
    <3> QED
      BY <3>2 DEF U, UpNodes
  <2>5. IsFiniteSet(Nodes) /\ Nodes # {} /\ Cardinality(Nodes) \in Nat
    BY StatusUiAssumption, FS_CardinalityType
  <2>6. CASE Cardinality(U) >= 2
    BY <1>6, <2>3, <2>4, <2>5, <2>6
  <2>7. CASE ~(Cardinality(U) >= 2)
    <3>1. Cardinality(Nodes) <= 1
      BY <2>4, <2>5, <2>7
    <3>2. \A n, m \in Nodes : n = m
      BY <2>5, <3>1, AtMostOne
    <3>3. got.floor = got.top
      BY <1>8, <3>2
    <3>4. got.top - got.floor = 0 /\ 0 <= DivergenceWarn
      BY <1>0, <3>3
    <3> QED
      BY <1>6, <2>4, <2>5, <2>7, <3>4
  <2> QED
    BY <2>6, <2>7
<1> QED
  BY <1>7, <1>8 DEF Verdict, U

-----------------------------------------------------------------------------
(* The page: one lemma for each kind of step *)

LEMMA TickPage ==
  ASSUME PageInv, Tick
  PROVE  PageInv'
<1>1. TypeOK
  BY DEF PageInv
<1>2. now' = now + 1 /\ UNCHANGED <<head, cache, refreshes, inFlight, window, req, asked>> /\ now \in Nat
  BY <1>1 DEF Tick, status, TypeOK
<1>3. TypeOK'
  BY <1>1, <1>2 DEF TypeOK
<1>4. ASSUME NEW r \in Requests PROVE RequestOK(r)'
  <2>1. RequestOK(r) /\ req[r].at \in Nat
    BY <1>1 DEF PageInv, TypeOK, Entry
  <2>2. req[r].at <= now'
    BY <1>2, <2>1 DEF RequestOK
  <2> QED
    BY <1>2, <2>1, <2>2 DEF RequestOK
<1>5. ASSUME NEW f \in DOMAIN refreshes PROVE RefreshOK(f)'
  <2>1. RefreshOK(f) /\ refreshes[f].started \in Nat /\ RpcTimeout \in Nat
    BY <1>1, StatusUiAssumption DEF PageInv, TypeOK, Running
  <2>2. now - refreshes[f].started < RpcTimeout
    BY DEF Tick
  <2>3. refreshes[f].started <= now' /\ now' <= refreshes[f].started + RpcTimeout
    BY <1>2, <2>1, <2>2 DEF RefreshOK
  <2> QED
    BY <1>2, <2>1, <2>3 DEF RefreshOK, Read
<1>6. CacheOK'
  <2>1. cache # None => cache.computedAt <= now'
    <3> SUFFICES ASSUME cache # None PROVE cache.computedAt <= now'
      OBVIOUS
    <3>1. cache.computedAt \in Nat /\ cache.computedAt <= now
      BY <1>1 DEF PageInv, CacheOK, TypeOK, Result
    <3> QED
      BY <1>2, <3>1
  <2>2. Answered' = Answered /\ CacheOK
    BY <1>2 DEF PageInv, Answered
  <2> QED
    BY <1>2, <2>1, <2>2 DEF CacheOK, Behind, Read, NotAhead
<1>7. \A r \in Requests : (Current(r)' <=> Current(r)) /\ (Verdict(req[r].got)' <=> Verdict(req[r].got))
  BY <1>2 DEF Current, Verdict, NotAhead, UpNodes
<1> QED
  BY <1>2, <1>3, <1>4, <1>5, <1>6, <1>7 DEF PageInv, Answered, Verdict, UpNodes

LEMMA NewBlockPage ==
  ASSUME PageInv, NEW m \in Nodes, NewBlock(m)
  PROVE  PageInv'
<1>1. TypeOK
  BY DEF PageInv
<1>2. head' = [head EXCEPT ![m] = @ + 1] /\ UNCHANGED <<now, cache, refreshes, inFlight, window, req, asked>>
  BY DEF NewBlock, status
<1>3. TypeOK'
  BY <1>1, <1>2 DEF TypeOK
<1>4. \A n \in Nodes : head[n] \in Nat /\ head'[n] \in Nat /\ head[n] <= head'[n]
  <2>1. ASSUME NEW n \in Nodes PROVE head[n] \in Nat /\ (head'[n] = head[n] \/ head'[n] = head[n] + 1)
    BY <1>1, <1>2 DEF TypeOK
  <2>2. ASSUME NEW k \in Nat PROVE k <= k /\ k <= k + 1 /\ k + 1 \in Nat
    OBVIOUS
  <2> QED
    BY <2>1, <2>2
<1>5. \A r \in Requests : RequestOK(r)'
  BY <1>2 DEF PageInv, RequestOK
<1>6. \A k \in Nat, n \in Nodes : k <= head[n] => k <= head'[n]
  BY <1>4
<1>7. ASSUME NEW f \in DOMAIN refreshes PROVE RefreshOK(f)'
  <2>1. RefreshOK(f) /\ refreshes[f].floor \in Nat
    BY <1>1 DEF PageInv, TypeOK, Running
  <2>2. \A n \in Read(f) : refreshes[f].nodes[n].head \in Nat \cup {None}
    BY <2>1 DEF RefreshOK, Reading
  <2> QED
    BY <1>2, <1>6, <2>1, <2>2 DEF RefreshOK, Read
<1>8. ASSUME NEW nodes \in [Nodes -> Reading], Behind(nodes) PROVE Behind(nodes)'
  <2>1. \A n \in Nodes : nodes[n].head \in Nat \cup {None}
    BY DEF Reading
  <2> QED
    BY <1>2, <1>6, <1>8, <2>1 DEF Behind, Read
<1>9. CacheOK'
  <2>1. CacheOK /\ Answered' = Answered
    BY <1>2 DEF PageInv, Answered
  <2>2. cache # None => cache.nodes \in [Nodes -> Reading]
    BY <2>1 DEF CacheOK, Result
  <2>3. \A q \in Answered : req[q].got.nodes \in [Nodes -> Reading]
    BY DEF PageInv, RequestOK, Answered, Result
  <2> QED
    BY <1>2, <1>8, <2>1, <2>2, <2>3 DEF CacheOK, NotAhead
<1>10. \A r \in Requests : (Current(r)' <=> Current(r)) /\ (Verdict(req[r].got)' <=> Verdict(req[r].got))
  BY <1>2 DEF Current, Verdict, NotAhead, UpNodes
<1> QED
  BY <1>2, <1>3, <1>5, <1>7, <1>9, <1>10 DEF PageInv, Answered, Verdict, UpNodes

\* An answer that stays keeps its verdict.
LEMMA SameVerdict ==
  ASSUME NEW q, req'[q] = req[q], Verdict(req[q].got)
  PROVE  Verdict(req[q].got)'
<1>1. PICK g : g = req[q].got /\ g = req'[q].got
  OBVIOUS
<1> QED
  BY <1>1, ZenonT(60) DEF Verdict, UpNodes

\* What the arrival of a request does to the requests.
LEMMA Arrives ==
  ASSUME PageInv, NEW r \in Requests, NEW what, IsNext(r, what), NEW e \in Entry,
         req' = [req EXCEPT ![r] = e], e.pc # "new", e.at = now, e.after = Past,
         now' = now, inFlight' = inFlight \/ inFlight = None,
         IF e.pc = "waits" THEN e.flight = inFlight' /\ inFlight' # None ELSE e.flight = None,
         e.pc = "answered" => e.got \in Result
  PROVE  /\ req' \in [Requests -> Entry] /\ req'[r] = e /\ req[r].pc = "new"
         /\ \A q \in Requests \ {r} : req'[q] = req[q]
         /\ \A q \in Requests : RequestOK(q)'
         /\ \A q \in Answered : r \notin req[q].after /\ q # r
<1>1. req \in [Requests -> Entry] /\ now \in Nat /\ req[r].pc = "new" /\ \A q \in 1..(r - 1) : req[q].pc # "new"
  BY DEF PageInv, TypeOK, IsNext
<1>2. req' \in [Requests -> Entry] /\ req'[r] = e /\ \A q \in Requests \ {r} : req'[q] = req[q]
  BY <1>1
<1>3. \A q \in Requests : RequestOK(q) /\ req[q].after \in SUBSET Requests
  BY <1>1 DEF PageInv, Entry
<1>4. \A q \in Requests : r \notin req[q].after
  BY <1>1, <1>3 DEF RequestOK, Ended
<1>5. RequestOK(r)'
  <2>1. \A q \in e.after : req'[q].pc \in Ended
    BY <1>1, <1>2 DEF Ended, Past
  <2>2. e.at <= now'
    BY <1>1
  <2> QED
    BY <1>2, <2>1, <2>2 DEF RequestOK
<1>6. ASSUME NEW q \in Requests \ {r} PROVE RequestOK(q)'
  <2>1. RequestOK(q) /\ req'[q] = req[q]
    BY <1>2, <1>3
  <2>2. \A p \in req[q].after : req'[p].pc \in Ended
    BY <1>2, <1>3, <1>4, <2>1 DEF RequestOK
  <2>3. IF req[q].pc = "waits" THEN req[q].flight = inFlight' /\ inFlight' # None ELSE req[q].flight = None
    BY <2>1 DEF RequestOK
  <2>4. req[q].pc = "new" => \A p \in Requests : q < p => req'[p].pc = "new"
    <3> SUFFICES ASSUME req[q].pc = "new", NEW p \in Requests, q < p PROVE req'[p].pc = "new"
      OBVIOUS
    <3>1. q \in Nat /\ 1 <= q /\ r \in Nat
      BY StatusUiAssumption DEF Requests
    <3>2. ~(q <= r - 1)
      BY <1>1, <3>1
    <3>3. p # r
      BY <3>1, <3>2
    <3> QED
      BY <1>2, <2>1, <3>3 DEF RequestOK
  <2> QED
    BY <1>2, <2>1, <2>2, <2>3, <2>4 DEF RequestOK
<1> QED
  BY <1>1, <1>2, <1>3, <1>4, <1>5, <1>6 DEF Answered

\* A request that is not answered arrives, and everything else stays as it is.
LEMMA QuietArrival ==
  ASSUME PageInv, NEW r \in Requests, NEW what, IsNext(r, what), NEW e \in Entry,
         req' = [req EXCEPT ![r] = e], e.pc \notin {"new", "answered"}, e.at = now,
         e.after = Past,
         UNCHANGED <<now, head, cache, refreshes, inFlight, asked>>,
         IF e.pc = "waits" THEN e.flight = inFlight /\ inFlight # None ELSE e.flight = None
  PROVE  PageInv'
<1>1. /\ req' \in [Requests -> Entry] /\ req'[r] = e /\ req[r].pc = "new"
      /\ \A q \in Requests \ {r} : req'[q] = req[q]
      /\ \A q \in Requests : RequestOK(q)'
      /\ \A q \in Answered : r \notin req[q].after /\ q # r
  BY Arrives
<1>2. Answered' = Answered
  BY <1>1 DEF Answered
<1>3. TypeOK'
  BY <1>1 DEF PageInv, TypeOK
<1>4. \A f \in DOMAIN refreshes : RefreshOK(f)'
  BY DEF PageInv, RefreshOK, Read
<1>5. \A q \in Answered : req'[q] = req[q] /\ q \in Requests /\ req[q].after \in SUBSET Requests
  BY <1>1 DEF Answered, PageInv, TypeOK, Entry
<1>6. CacheOK'
  BY <1>2, <1>5, ZenonT(60) DEF PageInv, CacheOK, Behind, Read, NotAhead
<1>7. ASSUME NEW q \in Answered PROVE Current(q)' /\ Verdict(req[q].got)'
  <2>1. Current(q) /\ Verdict(req[q].got)
    BY <1>7 DEF PageInv
  <2>2. \A p \in req[q].after : req'[p] = req[p]
    BY <1>1, <1>5
  <2>3. Current(q)'
    BY <1>5, <2>1, <2>2 DEF Current, NotAhead
  <2> QED
    BY <1>5, <2>1, <2>3, SameVerdict
<1>8. cache' # None => Verdict(cache)'
  BY DEF PageInv, Verdict, UpNodes
<1> QED
  BY <1>1, <1>2, <1>3, <1>4, <1>6, <1>7, <1>8 DEF PageInv

LEMMA ArrivedEntry ==
  ASSUME PageInv, NEW r \in Requests
  PROVE  /\ Arrived(r) \in Entry /\ Arrived(r).at = now /\ Arrived(r).after = Past
         /\ Arrived(r).flight = None /\ Arrived(r).ip = None
<1>1. now \in Nat /\ New \in Entry
  BY DEF PageInv, TypeOK, New, Entry, Places
<1>2. New.flight = None /\ New.ip = None
  BY DEF New
<1>3. Past \in SUBSET Requests /\ Arrived(r) = [New EXCEPT !.at = now, !.after = Past]
  BY DEF Past, Arrived
<1> QED
  BY <1>1, <1>2, <1>3 DEF Entry

LEMMA NotAheadSelf ==
  ASSUME NEW nodes \in [Nodes -> Reading]
  PROVE  NotAhead(nodes, nodes)
<1>1. \A n \in Nodes : nodes[n].head \in Nat \cup {None}
  BY DEF Reading
<1> QED
  BY <1>1 DEF NotAhead

LEMMA GetCachedPage ==
  ASSUME PageInv, NEW r \in Requests, GetCached(r)
  PROVE  PageInv'
<1> DEFINE e == [Arrived(r) EXCEPT !.pc = "answered", !.got = cache]
<1>1. /\ IsNext(r, "status") /\ cache # None /\ now - cache.computedAt < CacheMs
      /\ req' = [req EXCEPT ![r] = e]
      /\ UNCHANGED <<now, head, cache, refreshes, inFlight, asked>>
  BY DEF GetCached, Fresh, status
<1>2. cache \in Result
  BY <1>1 DEF PageInv, CacheOK
<1>3. /\ e \in Entry /\ e.pc = "answered" /\ e.got = cache /\ e.at = now /\ e.flight = None
      /\ e.after = Past
  <2>1. PICK a \in Entry : a = Arrived(r) /\ a.at = now /\ a.after = Past /\ a.flight = None
    BY ArrivedEntry
  <2> QED
    BY <1>2, <2>1 DEF Entry, Places
<1> HIDE DEF e
<1>4. /\ req' \in [Requests -> Entry] /\ req'[r] = e /\ req[r].pc = "new"
      /\ \A q \in Requests \ {r} : req'[q] = req[q]
      /\ \A q \in Requests : RequestOK(q)'
      /\ \A q \in Answered : r \notin req[q].after /\ q # r
  BY <1>1, <1>2, <1>3, Arrives
<1>5. Answered' = Answered \cup {r}
  BY <1>3, <1>4 DEF Answered
<1>6. TypeOK'
  BY <1>1, <1>4 DEF PageInv, TypeOK
<1>7. \A f \in DOMAIN refreshes : RefreshOK(f)'
  BY <1>1 DEF PageInv, RefreshOK, Read
<1>8. \A q \in Answered : req'[q] = req[q] /\ q \in Requests /\ req[q].after \in SUBSET Requests
  BY <1>4 DEF Answered, PageInv, TypeOK, Entry
<1>9. cache.nodes \in [Nodes -> Reading] /\ CacheOK
  BY <1>2 DEF Result, PageInv
<1>10. CacheOK'
  <2>1. NotAhead(cache.nodes, cache.nodes)
    BY <1>9, NotAheadSelf
  <2> QED
    BY <1>1, <1>2, <1>3, <1>4, <1>5, <1>8, <1>9, <2>1, ZenonT(60) DEF CacheOK, Behind, Read, NotAhead
<1>11. ASSUME NEW q \in Answered PROVE Current(q)' /\ Verdict(req[q].got)'
  <2>1. Current(q) /\ Verdict(req[q].got)
    BY <1>11 DEF PageInv
  <2>2. \A p \in req[q].after : req'[p] = req[p]
    BY <1>4, <1>8
  <2>3. Current(q)'
    BY <1>8, <2>1, <2>2 DEF Current, NotAhead
  <2> QED
    BY <1>8, <2>1, <2>3, SameVerdict
<1>12. Verdict(cache)' /\ Verdict(req[r].got)'
  <2>1. PICK g : g = cache /\ g = cache' /\ g = req'[r].got
    BY <1>1, <1>3, <1>4
  <2>2. Verdict(g)
    BY <1>1, <2>1 DEF PageInv
  <2>3. Verdict(cache)'
    BY <2>1, <2>2, ZenonT(60) DEF Verdict, UpNodes
  <2>4. Verdict(req[r].got)'
    BY <2>1, <2>2, ZenonT(60) DEF Verdict, UpNodes
  <2> QED
    BY <2>3, <2>4
<1>13. Current(r)'
  <2>1. ASSUME NEW n \in Nodes PROVE now < cache.nodes[n].at + CacheMs + RpcTimeout
    <3>1. now \in Nat /\ cache.computedAt \in Nat /\ cache.nodes[n].at \in Nat /\ CacheMs \in Nat /\ RpcTimeout \in Nat
      BY <1>2, StatusUiAssumption DEF PageInv, TypeOK, Result, Reading
    <3>2. cache.computedAt <= cache.nodes[n].at + RpcTimeout
      BY <1>1, <1>9 DEF CacheOK
    <3> QED
      BY <1>1, <3>1, <3>2
  <2>2. \A q \in e.after : req'[q].pc = "answered" => NotAhead(req[q].got.nodes, cache.nodes) /\ req'[q] = req[q]
    BY <1>3, <1>4, <1>9 DEF CacheOK, Answered, Ended, Past
  <2> QED
    BY <1>3, <1>4, <2>1, <2>2 DEF Current, NotAhead
<1> QED
  BY <1>1, <1>4, <1>5, <1>6, <1>7, <1>10, <1>11, <1>12, <1>13 DEF PageInv

LEMMA GetInFlightPage ==
  ASSUME PageInv, NEW r \in Requests, GetInFlight(r)
  PROVE  PageInv'
<1> DEFINE e == [Arrived(r) EXCEPT !.pc = "waits", !.flight = inFlight]
<1>1. /\ IsNext(r, "status") /\ inFlight # None /\ req' = [req EXCEPT ![r] = e]
      /\ UNCHANGED <<now, head, cache, refreshes, inFlight, asked>>
  BY DEF GetInFlight, status
<1>2. /\ e \in Entry /\ e.pc = "waits" /\ e.at = now /\ e.flight = inFlight
      /\ e.after = Past
  <2>1. PICK a \in Entry : a = Arrived(r) /\ a.at = now /\ a.after = Past
    BY ArrivedEntry
  <2>2. inFlight \in Requests \cup {None}
    BY DEF PageInv, TypeOK
  <2> QED
    BY <2>1, <2>2 DEF Entry, Places
<1> HIDE DEF e
<1> QED
  BY <1>1, <1>2, QuietArrival

\* The gate of the transactions has nothing to do with the page.
LEMMA TxPage ==
  ASSUME PageInv, NEW r \in Requests, Tx(r)
  PROVE  PageInv'
<1>1. /\ IsNext(r, "tx") /\ UNCHANGED <<now, head, cache, refreshes, inFlight, asked>>
      /\ \E pc \in {"refused", "limited", "helper", "rejected"}, ip \in Ips \cup {None} :
           req' = [req EXCEPT ![r] = [Arrived(r) EXCEPT !.pc = pc, !.ip = ip]]
  <2>1. CASE Unauthorized(r)
    <3>1. [Arrived(r) EXCEPT !.pc = "refused"] = [Arrived(r) EXCEPT !.pc = "refused", !.ip = None]
      BY ArrivedEntry DEF Entry
    <3> QED
      BY <2>1, <3>1 DEF Unauthorized, status
  <2>2. CASE \E ip \in Ips : RateLimited(r, ip) \/ Admitted(r, ip)
    BY <2>2 DEF RateLimited, Admitted, status
  <2> QED
    BY <2>1, <2>2 DEF Tx
<1>2. PICK pc \in {"refused", "limited", "helper", "rejected"}, ip \in Ips \cup {None} :
        req' = [req EXCEPT ![r] = [Arrived(r) EXCEPT !.pc = pc, !.ip = ip]]
  BY <1>1
<1> DEFINE e == [Arrived(r) EXCEPT !.pc = pc, !.ip = ip]
<1>3. /\ e \in Entry /\ e.pc = pc /\ e.at = now /\ e.flight = None
      /\ e.after = Past
  <2>1. PICK a \in Entry : a = Arrived(r) /\ a.at = now /\ a.after = Past /\ a.flight = None
    BY ArrivedEntry
  <2> QED
    BY <2>1 DEF Entry, Places
<1> HIDE DEF e
<1>4. req' = [req EXCEPT ![r] = e]
  BY <1>2 DEF e
<1> QED
  BY <1>1, <1>3, <1>4, QuietArrival

\* A refresh begins, and has read nothing yet.
LEMMA GetComputedPage ==
  ASSUME PageInv, NEW r \in Requests, GetComputed(r)
  PROVE  PageInv'
<1> DEFINE e == [Arrived(r) EXCEPT !.pc = "waits", !.flight = r]
           fresh == [started |-> now, floor |-> Min(Range(head)), nodes |-> [n \in Nodes |-> None]]
<1>1. /\ IsNext(r, "status") /\ inFlight = None /\ inFlight' = r /\ req' = [req EXCEPT ![r] = e]
      /\ refreshes' = [f \in DOMAIN refreshes \cup {r} |-> IF f # r THEN refreshes[f] ELSE fresh]
      /\ UNCHANGED <<now, head, cache, asked>>
  BY DEF GetComputed, Refresh
<1>2. /\ e \in Entry /\ e.pc = "waits" /\ e.at = now /\ e.flight = r
      /\ e.after = Past
  <2>1. PICK a \in Entry : a = Arrived(r) /\ a.at = now /\ a.after = Past
    BY ArrivedEntry
  <2> QED
    BY <2>1 DEF Entry, Places
<1>3. r # None /\ r \in Nat
  BY StatusUiAssumption DEF Requests
<1>4. DOMAIN refreshes' = {r} /\ refreshes'[r] = fresh /\ DOMAIN refreshes = {}
  BY <1>1 DEF PageInv, TypeOK
<1>5. /\ Min(Range(head)) \in Nat /\ \A n \in Nodes : Min(Range(head)) <= head[n]
  BY HeadBounds DEF PageInv, TypeOK
<1>6. /\ fresh \in Running /\ fresh.started = now /\ fresh.floor = Min(Range(head))
      /\ \A n \in Nodes : fresh.nodes[n] = None
  BY <1>5 DEF PageInv, TypeOK, Running
<1> HIDE DEF e, fresh
<1>7. /\ req' \in [Requests -> Entry] /\ req'[r] = e /\ req[r].pc = "new"
      /\ \A q \in Requests \ {r} : req'[q] = req[q]
      /\ \A q \in Requests : RequestOK(q)'
      /\ \A q \in Answered : r \notin req[q].after /\ q # r
  BY <1>1, <1>2, <1>3, Arrives
<1>8. Answered' = Answered
  BY <1>2, <1>7 DEF Answered
<1>9. TypeOK'
  BY <1>1, <1>3, <1>4, <1>6, <1>7 DEF PageInv, TypeOK
<1>10. Read(r)' = {}
  BY <1>4, <1>6 DEF Read
<1>11. RefreshOK(r)'
  <2>1. now \in Nat /\ RpcTimeout \in Nat /\ now <= now + RpcTimeout
    BY StatusUiAssumption DEF PageInv, TypeOK
  <2> QED
    BY <1>1, <1>4, <1>5, <1>6, <1>10, <2>1 DEF RefreshOK
<1>12. \A q \in Answered : req'[q] = req[q] /\ q \in Requests /\ req[q].after \in SUBSET Requests
  BY <1>7 DEF Answered, PageInv, TypeOK, Entry
<1>13. CacheOK'
  BY <1>1, <1>4, <1>8, <1>10, <1>12 DEF PageInv, CacheOK, Behind, NotAhead
<1>14. ASSUME NEW q \in Answered PROVE Current(q)' /\ Verdict(req[q].got)'
  <2>1. Current(q) /\ Verdict(req[q].got)
    BY <1>14 DEF PageInv
  <2>2. \A p \in req[q].after : req'[p] = req[p]
    BY <1>7, <1>12
  <2>3. Current(q)'
    BY <1>12, <2>1, <2>2 DEF Current, NotAhead
  <2> QED
    BY <1>12, <2>1, <2>3, SameVerdict
<1>15. cache' # None => Verdict(cache)'
  BY <1>1 DEF PageInv, Verdict, UpNodes
<1> QED
  BY <1>4, <1>7, <1>8, <1>9, <1>11, <1>13, <1>14, <1>15 DEF PageInv

\* A node answers the refresh: with its present head, which nothing shown or
\* stored is ahead of.
LEMMA CheckNodePage ==
  ASSUME PageInv, NEW f \in DOMAIN refreshes, NEW m \in Nodes, CheckNode(f, m)
  PROVE  PageInv'
<1>1. PICK up \in BOOLEAN, h \in {head[m], None} :
        (~up => h = None) /\ refreshes' = [refreshes EXCEPT ![f].nodes[m] = [up |-> up, head |-> h, at |-> now]]
  BY DEF CheckNode
<1>2. UNCHANGED <<now, head, cache, inFlight, req, asked>>
  BY DEF CheckNode
<1>3. TypeOK /\ refreshes[f] \in Running /\ RefreshOK(f) /\ now \in Nat /\ head[m] \in Nat
  BY DEF PageInv, TypeOK
<1> DEFINE x == [up |-> up, head |-> h, at |-> now]
           me == [refreshes[f] EXCEPT !.nodes[m] = x]
<1>4. x \in Reading /\ x.up = up /\ x.head = h /\ x.at = now
  BY <1>1, <1>3 DEF Reading
<1> HIDE DEF x
<1>5. /\ me \in Running /\ me.started = refreshes[f].started /\ me.floor = refreshes[f].floor
      /\ me.nodes[m] = x /\ \A n \in Nodes \ {m} : me.nodes[n] = refreshes[f].nodes[n]
  BY <1>3, <1>4 DEF Running
<1>6. refreshes' = [refreshes EXCEPT ![f] = me]
  BY <1>1, <1>3 DEF x, TypeOK
<1> HIDE DEF me
<1>7. /\ DOMAIN refreshes' = DOMAIN refreshes /\ refreshes'[f] = me
      /\ \A g \in DOMAIN refreshes : g = f
  BY <1>3, <1>6 DEF TypeOK
<1>8. TypeOK'
  BY <1>2, <1>3, <1>5, <1>7 DEF TypeOK
<1>9. \A n \in Read(f)' : n \in Nodes /\ (n = m \/ (n \in Read(f) /\ me.nodes[n] = refreshes[f].nodes[n]))
  BY <1>5, <1>7 DEF Read
<1>10. RefreshOK(f)'
  <2>1. refreshes[f].started <= now /\ refreshes[f].floor <= head[m] /\ head[m] <= head[m]
    BY <1>3 DEF RefreshOK
  <2>2. ASSUME NEW n \in Read(f)'
        PROVE  /\ me.nodes[n] \in Reading /\ me.started <= me.nodes[n].at
               /\ ~me.nodes[n].up => me.nodes[n].head = None
               /\ me.nodes[n].head # None => me.floor <= me.nodes[n].head /\ me.nodes[n].head <= head[n]
    <3>1. CASE n = m
      BY <1>1, <1>4, <1>5, <2>1, <3>1
    <3>2. CASE n # m
      BY <1>3, <1>5, <1>9, <2>2, <3>2 DEF RefreshOK
    <3> QED
      BY <3>1, <3>2
  <2> QED
    BY <1>2, <1>3, <1>5, <1>7, <2>2 DEF RefreshOK
<1>11. ASSUME NEW nodes, Behind(nodes) PROVE Behind(nodes)'
  <2>1. ASSUME NEW n \in Read(f)', None \notin {nodes[n].head, me.nodes[n].head}
        PROVE  nodes[n].head <= me.nodes[n].head
    <3>1. CASE n = m
      BY <1>1, <1>4, <1>5, <1>11, <2>1, <3>1 DEF Behind
    <3>2. CASE n # m
      BY <1>9, <1>11, <2>1, <3>2 DEF Behind
    <3> QED
      BY <3>1, <3>2
  <2> QED
    BY <1>2, <1>7, <1>11, <2>1 DEF Behind
<1>12. \A r \in Requests : RequestOK(r)'
  BY <1>2 DEF PageInv, RequestOK
<1>13. Answered' = Answered
  BY <1>2 DEF Answered
<1>14. CacheOK'
  BY <1>2, <1>11, <1>13 DEF PageInv, CacheOK, NotAhead
<1>15. \A r \in Requests : (Current(r)' <=> Current(r)) /\ (Verdict(req[r].got)' <=> Verdict(req[r].got))
  BY <1>2 DEF Current, Verdict, NotAhead, UpNodes
<1>16. cache' # None => Verdict(cache)'
  BY <1>2 DEF PageInv, Verdict, UpNodes
<1> QED
  BY <1>7, <1>8, <1>10, <1>12, <1>13, <1>14, <1>15, <1>16 DEF PageInv, Answered

\* The refresh ends: its result is stored, and all who wait are shown it.
LEMMA ComputedPage ==
  ASSUME PageInv, NEW f \in DOMAIN refreshes, Computed(f)
  PROVE  PageInv'
<1> DEFINE nodes == refreshes[f].nodes
           floor == refreshes[f].floor
<1>0. PICK c : c = [nodes |-> nodes, healthy |-> Healthy(nodes), computedAt |-> now,
                    floor |-> floor, top |-> Max(Range(head))]
  OBVIOUS
<1>1. /\ cache' = c /\ DOMAIN refreshes' = DOMAIN refreshes \ {f} /\ inFlight' = None
      /\ req' = [r \in Requests |->
           IF req[r].flight # f THEN req[r] ELSE [req[r] EXCEPT !.pc = "answered", !.flight = None, !.got = c]]
      /\ UNCHANGED <<now, head, asked>> /\ None \notin Range(nodes)
  BY <1>0 DEF Computed
<1>2. /\ TypeOK /\ refreshes[f] \in Running /\ RefreshOK(f) /\ now \in Nat /\ CacheOK
      /\ f = inFlight /\ f # None /\ DOMAIN refreshes = {f} /\ f \in Requests
  BY DEF PageInv, TypeOK
<1>3. Read(f) = Nodes
  BY <1>1, <1>2 DEF Range, Read, Running
<1>4. /\ nodes \in [Nodes -> Reading] /\ floor \in Nat
      /\ \A n \in Nodes : /\ ~nodes[n].up => nodes[n].head = None
                          /\ nodes[n].head # None => floor <= nodes[n].head /\ nodes[n].head <= head[n]
                          /\ refreshes[f].started <= nodes[n].at
  <2>1. DOMAIN nodes = Nodes /\ nodes = [n \in Nodes |-> nodes[n]] /\ floor \in Nat
    BY <1>2 DEF Running
  <2>2. \A n \in Nodes : nodes[n] \in Reading
    BY <1>2, <1>3 DEF RefreshOK
  <2>3. nodes \in [Nodes -> Reading]
    BY <2>1, <2>2
  <2> QED
    BY <1>2, <1>3, <2>1, <2>3 DEF RefreshOK
<1>5. Max(Range(head)) \in Nat /\ \A n \in Nodes : head[n] \in Nat /\ head[n] <= Max(Range(head))
  BY <1>2, HeadBounds DEF TypeOK
<1>6. \A n \in Nodes : now <= nodes[n].at + RpcTimeout
  <2>1. refreshes[f].started \in Nat /\ RpcTimeout \in Nat /\ now <= refreshes[f].started + RpcTimeout
    BY <1>2, StatusUiAssumption DEF Running, RefreshOK
  <2>2. \A n \in Nodes : nodes[n].at \in Nat /\ refreshes[f].started <= nodes[n].at
    BY <1>4 DEF Reading
  <2> HIDE DEF nodes
  <2> QED
    BY <1>2, <2>1, <2>2
<1>7. Healthy(nodes) \in BOOLEAN
  BY DEF Healthy
<1> HIDE DEF nodes, floor
<1>8. /\ c \in Result /\ c.nodes = nodes /\ c.healthy = Healthy(nodes) /\ c.computedAt = now
      /\ c.floor = floor /\ c.top = Max(Range(head))
  BY <1>0, <1>2, <1>4, <1>5, <1>7 DEF Result
<1>9. Verdict(c)
  <2>1. ASSUME NEW n \in Nodes, nodes[n].head # None PROVE nodes[n].head <= Max(Range(head))
    <3>1. nodes[n].head \in Nat
      BY <1>4, <2>1 DEF Reading
    <3> QED
      BY <1>4, <1>5, <2>1, <3>1
  <2> QED
    BY <1>4, <1>8, <2>1, VerdictHolds
<1>10. \A r \in Requests : req[r].flight = f <=> req[r].pc = "waits"
  BY <1>2 DEF PageInv, RequestOK
<1>11. /\ \A r \in Requests : req[r].pc # "waits" => req'[r] = req[r]
       /\ \A r \in Requests : req[r].pc = "waits" =>
            /\ req'[r].pc = "answered" /\ req'[r].flight = None /\ req'[r].got = c
            /\ req'[r].at = req[r].at /\ req'[r].after = req[r].after
  <2>1. ASSUME NEW r \in Requests, req[r].pc # "waits" PROVE req'[r] = req[r]
    BY <1>1, <1>10, <2>1
  <2>2. ASSUME NEW r \in Requests, req[r].pc = "waits"
        PROVE  /\ req'[r].pc = "answered" /\ req'[r].flight = None /\ req'[r].got = c
               /\ req'[r].at = req[r].at /\ req'[r].after = req[r].after
    <3>1. PICK a \in Entry : a = req[r]
      BY <1>2 DEF TypeOK
    <3>2. req'[r] = [a EXCEPT !.pc = "answered", !.flight = None, !.got = c]
      BY <1>1, <1>10, <2>2, <3>1
    <3> QED
      BY <3>1, <3>2 DEF Entry
  <2> QED
    BY <2>1, <2>2
<1>12. req' \in [Requests -> Entry]
  <2>1. ASSUME NEW r \in Requests PROVE req'[r] \in Entry
    <3>1. req[r] \in Entry
      BY <1>2 DEF TypeOK
    <3> QED
      BY <1>1, <1>8, <3>1 DEF Entry, Places
  <2> QED
    BY <1>1, <2>1
<1>13. TypeOK'
  BY <1>1, <1>2, <1>8, <1>12 DEF TypeOK
<1>14. \A r \in Requests : req[r].at <= now /\ req[r].after \in SUBSET Requests /\ RequestOK(r)
  BY <1>2 DEF PageInv, RequestOK, TypeOK, Entry
<1>15. \A q \in Requests : req[q].pc \in Ended => req'[q] = req[q]
  BY <1>11 DEF Ended
<1>16. ASSUME NEW r \in Requests PROVE RequestOK(r)'
  <2>1. \A q \in req'[r].after : req'[q].pc \in Ended
    BY <1>11, <1>14, <1>15 DEF RequestOK
  <2>2. req'[r].pc = "new" => \A q \in Requests : r < q => req'[q].pc = "new"
    BY <1>11, <1>14 DEF RequestOK
  <2>3. req'[r].at <= now' /\ req'[r].pc # "waits" /\ req'[r].flight = None
    <3>1. CASE req[r].pc = "waits"
      BY <1>1, <1>11, <1>14, <3>1
    <3>2. CASE req[r].pc # "waits"
      <4>1. req'[r] = req[r]
        BY <1>11, <3>2
      <4>2. req[r].at <= now /\ req[r].flight = None
        BY <1>14, <3>2 DEF RequestOK
      <4>3. now' = now
        BY <1>1
      <4> QED
        BY <3>2, <4>1, <4>2, <4>3
    <3> QED
      BY <3>1, <3>2
  <2>4. req'[r].pc = "answered" => req'[r].got \in Result
    BY <1>8, <1>11, <1>14 DEF RequestOK
  <2> QED
    BY <2>1, <2>2, <2>3, <2>4 DEF RequestOK
<1>17. \A q \in Answered' : q \in Requests /\ ((q \in Answered /\ req'[q] = req[q]) \/ (req[q].pc = "waits" /\ req'[q].got = c))
  BY <1>11 DEF Answered
<1>18. \A q \in Answered : NotAhead(req[q].got.nodes, nodes)
  BY <1>2, <1>3 DEF CacheOK, Behind, NotAhead, nodes
<1>19. \A n \in Nodes : nodes[n].head # None => nodes[n].head <= head[n]
  BY <1>4
<1>20. CacheOK'
  <2>1. NotAhead(nodes, nodes)
    BY <1>4, NotAheadSelf
  <2>2. \A q \in Answered' : /\ NotAhead(req'[q].got.nodes, nodes)
                             /\ \A n \in Nodes : req'[q].got.nodes[n].head # None => req'[q].got.nodes[n].head <= head[n]
    BY <1>2, <1>8, <1>17, <1>18, <1>19, <2>1 DEF CacheOK, Behind
  <2>3. DOMAIN refreshes' = {}
    <3>1. DOMAIN refreshes = {f} /\ DOMAIN refreshes' = DOMAIN refreshes \ {f}
      BY <1>1, <1>2
    <3> QED
      BY <3>1
  <2>4. now <= now
    BY <1>2
  <2> QED
    BY <1>1, <1>6, <1>8, <1>19, <2>2, <2>3, <2>4 DEF CacheOK, Behind, NotAhead
<1>21. ASSUME NEW r \in Answered' PROVE Current(r)' /\ Verdict(req[r].got)'
  <2>1. CASE r \in Answered /\ req'[r] = req[r]
    <3>1. Current(r) /\ Verdict(req[r].got) /\ r \in Requests
      BY <2>1 DEF PageInv, Answered
    <3>2. \A p \in req[r].after : req'[p] = req[p]
      BY <1>14, <1>15, <3>1 DEF RequestOK
    <3>3. Current(r)'
      BY <2>1, <3>1, <3>2 DEF Current, NotAhead
    <3> QED
      BY <2>1, <3>1, <3>3, SameVerdict
  <2>2. CASE r \in Requests /\ req[r].pc = "waits" /\ req'[r].got = c
    <3>1. req'[r].at = req[r].at /\ req'[r].after = req[r].after
      BY <1>11, <2>2
    <3>2. ASSUME NEW n \in Nodes PROVE req[r].at <= nodes[n].at + RpcTimeout
      <4>1. req[r].at \in Nat /\ req[r].at <= now
        BY <1>2, <1>14, <2>2 DEF TypeOK, Entry
      <4>2. nodes[n].at + RpcTimeout \in Nat
        BY <1>4, StatusUiAssumption DEF Reading
      <4> QED
        BY <1>2, <1>6, <4>1, <4>2
    <3>3. ASSUME NEW q \in req[r].after, req'[q].pc = "answered" PROVE NotAhead(req'[q].got.nodes, nodes)
      <4>1. q \in Requests /\ req[q].pc \in Ended /\ req'[q] = req[q]
        BY <1>14, <1>15, <2>2, <3>3 DEF RequestOK
      <4> QED
        BY <1>18, <3>3, <4>1 DEF Answered
    <3>4. Current(r)'
      BY <1>8, <2>2, <3>1, <3>2, <3>3 DEF Current, NotAhead
    <3> QED
      BY <1>9, <2>2, <3>4 DEF Verdict, UpNodes
  <2> QED
    BY <1>17, <1>21, <2>1, <2>2
<1>22. Verdict(cache)'
  BY <1>1, <1>9 DEF Verdict, UpNodes
<1> QED
  BY <1>1, <1>2, <1>13, <1>16, <1>20, <1>21, <1>22 DEF PageInv

LEMMA PageInit ==
  Init => PageInv
<1> SUFFICES ASSUME Init PROVE PageInv
  OBVIOUS
<1>1. New \in Entry /\ New.pc = "new" /\ New.at = 0 /\ New.after = {} /\ New.flight = None
  BY DEF New, Entry, Places
<1>2. \A r \in Requests : req[r] = New
  BY DEF Init
<1>3. DOMAIN refreshes = {} /\ cache = None /\ inFlight = None /\ now = 0
  BY DEF Init
<1>4. TypeOK
  BY <1>1, <1>3 DEF Init, TypeOK
<1>5. Answered = {}
  BY <1>1, <1>2 DEF Answered
<1> QED
  BY <1>1, <1>2, <1>3, <1>4, <1>5 DEF PageInv, RequestOK, CacheOK

LEMMA PageNext ==
  PageInv /\ [Next]_vars => PageInv'
<1> SUFFICES ASSUME PageInv, [Next]_vars PROVE PageInv'
  OBVIOUS
<1>1. CASE UNCHANGED vars
  <2>1. UNCHANGED <<now, head, cache, refreshes, inFlight, req, asked>>
    BY <1>1 DEF vars, status
  <2>2. TypeOK' /\ Answered' = Answered
    BY <2>1 DEF PageInv, TypeOK, Answered
  <2>3. (\A r \in Requests : RequestOK(r)') /\ \A f \in DOMAIN refreshes : RefreshOK(f)'
    BY <2>1 DEF PageInv, RequestOK, RefreshOK, Read
  <2>4. CacheOK'
    BY <2>1, <2>2 DEF PageInv, CacheOK, Behind, Read, NotAhead
  <2>5. ASSUME NEW r \in Answered PROVE Current(r)' /\ Verdict(req[r].got)'
    <3>1. Current(r) /\ Verdict(req[r].got)
      BY DEF PageInv
    <3> QED
      BY <2>1, <3>1, SameVerdict DEF Current, NotAhead
  <2>6. cache' # None => Verdict(cache)'
    BY <2>1 DEF PageInv, Verdict, UpNodes
  <2> QED
    BY <2>1, <2>2, <2>3, <2>4, <2>5, <2>6 DEF PageInv
<1>2. CASE Next
  BY <1>2, TickPage, NewBlockPage, GetCachedPage, GetInFlightPage, GetComputedPage, CheckNodePage, ComputedPage,
     TxPage DEF Next, Status
<1> QED
  BY <1>1, <1>2

\* The inductive invariant of the page: one refresh at a time, which reads
\* nothing that what is stored or was shown is ahead of.
THEOREM PageInvHolds == Spec => []PageInv
<1> QED
  BY PageInit, PageNext, PTL DEF Spec

\* An answer is of the last CACHE_MS and a timeout, and no node falls behind
\* what an earlier answer said of it, for any nodes, requests and times.
THEOREM AnswersStayCurrent == Spec => []AnswersAreCurrent
<1>1. PageInv => AnswersAreCurrent
  BY DEF PageInv, Answered, Current, NotAhead, AnswersAreCurrent
<1> QED
  BY <1>1, PageInvHolds, PTL

\* A page is degraded exactly for a reason, for any nodes and threshold.
THEOREM DivergenceStaysReal == Spec => []DivergenceIsReal
<1>1. PageInv => DivergenceIsReal
  BY DEF PageInv, Answered, Verdict, DivergenceIsReal
<1> QED
  BY <1>1, PageInvHolds, PTL
-----------------------------------------------------------------------------
(* The rate limit *)

Decisions == {"limited", "helper", "rejected"}

AdmittedOf(ip) == {q \in Requests : WasAdmitted(q) /\ req[q].ip = ip}

\* b names the requests whose times the window holds: they are admitted ones,
\* and no younger one is missing.
Kept(b, ip) ==
  /\ \A k, l \in DOMAIN window[ip] : b[k] = b[l] => k = l
  /\ \A k \in DOMAIN window[ip] : b[k] \in AdmittedOf(ip) /\ req[b[k]].at = window[ip][k]
  /\ \A q \in AdmittedOf(ip) : now - req[q].at < RateWindow => \E k \in DOMAIN window[ip] : b[k] = q

WindowOK(ip) ==
  /\ \A k \in DOMAIN window[ip] : window[ip][k] <= now
  /\ \A k, l \in DOMAIN window[ip] : k <= l => window[ip][k] <= window[ip][l]
  /\ \E b \in [DOMAIN window[ip] -> Requests] : Kept(b, ip)

Earlier(r) ==
  {q \in 1..(r - 1) : WasAdmitted(q) /\ req[q].ip = req[r].ip /\ req[r].at - req[q].at < RateWindow}

RateOK(r) == req[r].ip # None => (req[r].pc = "limited" <=> Cardinality(Earlier(r)) >= RateLimit)

RateInv ==
  /\ PageInv
  /\ window \in [Ips -> Seq(Nat)]
  /\ \A ip \in Ips : WindowOK(ip)
  /\ \A r \in Requests : (req[r].ip # None => req[r].pc \in Decisions) /\ RateOK(r)

\* The shift drops what is older than a window, and nothing else.
LEMMA Shifted ==
  ASSUME now \in Nat, window \in [Ips -> Seq(Nat)], NEW ip \in Ips, WindowOK(ip)
  PROVE  \E off \in 0..Len(window[ip]) :
           /\ InWindow(ip) \in Seq(Nat) /\ Len(InWindow(ip)) = Len(window[ip]) - off
           /\ \A k \in 1..(Len(window[ip]) - off) : InWindow(ip)[k] = window[ip][k + off]
           /\ Young(ip) = (off + 1)..Len(window[ip])
<1>1. PICK w \in Seq(Nat) : w = window[ip]
  OBVIOUS
<1>2. PICK n \in Nat : n = Len(w) /\ DOMAIN w = 1..n
  BY <1>1
<1>3. Young(ip) = {k \in 1..n : now - w[k] < RateWindow}
  BY <1>1, <1>2 DEF Young
<1>4. \A k, l \in 1..n : k <= l => w[k] <= w[l]
  BY <1>1, <1>2 DEF WindowOK
<1>5. \A k \in 1..n : w[k] \in Nat
  BY <1>1, <1>2
<1>6. RateWindow \in Nat
  BY StatusUiAssumption
<1>7. CASE Young(ip) = {}
  <2>1. InWindow(ip) = <<>>
    BY <1>7 DEF InWindow
  <2>2. Young(ip) = (n + 1)..n /\ n \in 0..n
    BY <1>2, <1>7
  <2> QED
    BY <1>1, <1>2, <2>1, <2>2
<1>8. CASE Young(ip) # {}
  <2>1. IsFiniteSet(Young(ip)) /\ Young(ip) \in SUBSET Nat
    <3>1. IsFiniteSet(1..n)
      BY <1>2, FS_Interval
    <3>2. Young(ip) \subseteq 1..n
      BY <1>3
    <3> QED
      BY <3>1, <3>2, FS_Subset
  <2>2. PICK m \in 1..n : m = Min(Young(ip)) /\ m \in Young(ip) /\ \A k \in Young(ip) : m <= k
    BY <1>3, <1>8, <2>1, MaxMin
  <2>3. ASSUME NEW k \in 1..n PROVE k \in Young(ip) <=> m <= k
    <3>1. ASSUME m <= k PROVE now - w[k] < RateWindow
      <4>1. now - w[m] < RateWindow /\ w[m] <= w[k]
        BY <1>3, <1>4, <2>2, <3>1
      <4> QED
        BY <1>5, <1>6, <2>2, <4>1, SMTT(30)
    <3> QED
      BY <1>3, <2>2, <3>1
  <2>4. Young(ip) = m..n
    <3>1. Young(ip) \subseteq 1..n
      BY <1>3
    <3>2. m \in Nat /\ 1 <= m
      BY <1>2, <2>2
    <3>3. m..n \subseteq 1..n /\ \A k \in 1..n : k \in m..n <=> m <= k
      BY <1>2, <3>2
    <3> QED
      BY <2>3, <3>1, <3>3
  <2>5. InWindow(ip) = SubSeq(w, m, n)
    BY <1>1, <1>2, <1>8, <2>2 DEF InWindow
  <2>6. /\ SubSeq(w, m, n) \in Seq(Nat) /\ Len(SubSeq(w, m, n)) = n - m + 1
        /\ \A k \in 1..(n - m + 1) : SubSeq(w, m, n)[k] = w[m + k - 1]
    <3>1. m \in Int /\ n \in Int /\ m <= n /\ m..n \subseteq 1..n
      BY <1>2, <2>2
    <3>2. \A k \in m..n : w[k] \in Nat
      BY <1>5, <3>1
    <3> QED
      BY <3>1, <3>2, SubSeqProperties
  <2>7. PICK off \in 0..n : off = m - 1
    BY <2>2
  <2>8. /\ Young(ip) = (off + 1)..n /\ Len(InWindow(ip)) = n - off
        /\ \A k \in 1..(n - off) : InWindow(ip)[k] = w[k + off]
    <3>1. m = off + 1 /\ n - m + 1 = n - off
      BY <1>2, <2>2, <2>7
    <3>2. \A k \in 1..(n - off) : m + k - 1 = k + off
      BY <1>2, <2>2, <2>7
    <3> QED
      BY <2>4, <2>5, <2>6, <3>1, <3>2
  <2> QED
    BY <1>1, <1>2, <2>5, <2>6, <2>8
<1> QED
  BY <1>7, <1>8

\* What is left is as long as there are admitted requests of the last window.
LEMMA ShiftedCount ==
  ASSUME RateInv, NEW ip \in Ips
  PROVE  Len(InWindow(ip)) = Cardinality({q \in AdmittedOf(ip) : now - req[q].at < RateWindow})
<1> DEFINE R == {q \in AdmittedOf(ip) : now - req[q].at < RateWindow}
<1>1. WindowOK(ip) /\ now \in Nat /\ window \in [Ips -> Seq(Nat)]
  BY DEF RateInv, PageInv, TypeOK
<1>2. PICK off \in 0..Len(window[ip]) :
        Len(InWindow(ip)) = Len(window[ip]) - off /\ Young(ip) = (off + 1)..Len(window[ip])
  BY <1>1, Shifted
<1>3. PICK b \in [DOMAIN window[ip] -> Requests] : Kept(b, ip)
  BY <1>1 DEF WindowOK
<1>4. PICK n \in Nat : n = Len(window[ip])
  BY <1>1
<1>5. IsFiniteSet(Young(ip)) /\ Cardinality(Young(ip)) = n - off
  <2>1. off + 1 \in Int /\ n \in Int
    BY <1>2, <1>4
  <2>2. IsFiniteSet((off + 1)..n) /\ Cardinality((off + 1)..n) = IF off + 1 > n THEN 0 ELSE n - (off + 1) + 1
    BY <2>1, FS_Interval
  <2> QED
    BY <1>2, <1>4, <2>2
<1>6. PICK g : g = [k \in Young(ip) |-> b[k]]
  OBVIOUS
<1>7. g \in Bijection(Young(ip), R)
  <2>1. ASSUME NEW k \in Young(ip) PROVE b[k] \in R /\ k \in DOMAIN window[ip] /\ g[k] = b[k]
    BY <1>3, <1>6 DEF Kept, Young
  <2>2. ASSUME NEW q \in R PROVE \E k \in Young(ip) : g[k] = q
    <3>1. PICK k \in DOMAIN window[ip] : b[k] = q
      BY <1>3 DEF Kept
    <3>2. k \in Young(ip)
      BY <1>3, <3>1 DEF Kept, Young
    <3> QED
      BY <1>6, <3>1, <3>2
  <2>3. \A k, l \in Young(ip) : g[k] = g[l] => k = l
    BY <1>3, <2>1 DEF Kept
  <2>4. DOMAIN g = Young(ip) /\ g = [k \in Young(ip) |-> g[k]]
    BY <1>6
  <2> HIDE DEF R
  <2>5. g \in [Young(ip) -> R]
    BY <2>1, <2>4
  <2>6. g \in Injection(Young(ip), R)
    BY <2>3, <2>5 DEF Injection, IsInjective
  <2>7. g \in Surjection(Young(ip), R)
    BY <2>2, <2>5 DEF Surjection
  <2> QED
    BY <2>6, <2>7 DEF Bijection
<1> HIDE DEF R
<1>8. Cardinality(R) = Cardinality(Young(ip))
  BY <1>5, <1>7, FS_Bijection DEF ExistsBijection
<1> QED
  BY <1>2, <1>4, <1>5, <1>8 DEF R

\* A step that lets nobody in and decides on no request of a client.
LEMMA QuietRate ==
  ASSUME RateInv, PageInv', UNCHANGED window, now <= now',
         \A q \in Requests :
           /\ req'[q].ip = req[q].ip
           /\ WasAdmitted(q)' <=> WasAdmitted(q)
           /\ req[q].ip # None => req'[q].at = req[q].at /\ req'[q].pc = req[q].pc
  PROVE  RateInv'
<1>1. /\ now \in Nat /\ now' \in Nat /\ None \notin Ips /\ window \in [Ips -> Seq(Nat)]
      /\ req \in [Requests -> Entry] /\ RateWindow \in Nat
  BY StatusUiAssumption DEF RateInv, PageInv, TypeOK
<1>2. ASSUME NEW ip \in Ips PROVE WindowOK(ip)'
  <2>1. AdmittedOf(ip)' = AdmittedOf(ip)
    BY DEF AdmittedOf
  <2>2. \A q \in AdmittedOf(ip) : q \in Requests /\ req'[q].at = req[q].at /\ req[q].at \in Nat
    BY <1>1 DEF AdmittedOf, Entry
  <2>3. PICK b \in [DOMAIN window[ip] -> Requests] : Kept(b, ip)
    BY DEF RateInv, WindowOK
  <2>4. Kept(b, ip)'
    <3>1. ASSUME NEW q \in AdmittedOf(ip), now' - req'[q].at < RateWindow
          PROVE  \E k \in DOMAIN window[ip] : b[k] = q
      <4>1. now - req[q].at < RateWindow
        BY <1>1, <2>2, <3>1
      <4> QED
        BY <2>3, <4>1 DEF Kept
    <3> QED
      BY <2>1, <2>2, <2>3, <3>1 DEF Kept
  <2>5. ASSUME NEW k \in DOMAIN window[ip] PROVE window[ip][k] <= now'
    <3>1. window[ip][k] \in Nat /\ window[ip][k] <= now
      BY <1>1 DEF RateInv, WindowOK
    <3> QED
      BY <1>1, <3>1
  <2> QED
    BY <2>3, <2>4, <2>5 DEF RateInv, WindowOK
<1>3. ASSUME NEW r \in Requests PROVE (req'[r].ip # None => req'[r].pc \in Decisions) /\ RateOK(r)'
  <2>1. ASSUME req[r].ip # None PROVE Earlier(r)' = Earlier(r)
    <3>1. \A q \in 1..(r - 1) : q \in Requests
      BY StatusUiAssumption DEF Requests
    <3>2. ASSUME NEW q \in 1..(r - 1), req[q].ip = req[r].ip
          PROVE  req'[q].at = req[q].at /\ req'[r].at = req[r].at
      BY <2>1, <3>1, <3>2
    <3> QED
      BY <3>1, <3>2 DEF Earlier
  <2> QED
    BY <2>1 DEF RateInv, RateOK
<1> QED
  BY <1>1, <1>2, <1>3 DEF RateInv

\* A request of a client is decided on by what the window holds.
LEMMA Decided ==
  ASSUME RateInv, PageInv', NEW r \in Requests, NEW ip \in Ips, IsNext(r, "tx"),
         UNCHANGED now, NEW pc \in {"limited", "helper", "rejected"},
         pc = "limited" <=> Len(InWindow(ip)) >= RateLimit,
         req' = [req EXCEPT ![r] = [Arrived(r) EXCEPT !.pc = pc, !.ip = ip]]
  PROVE  /\ \A s \in Requests : (req'[s].ip # None => req'[s].pc \in Decisions) /\ RateOK(s)'
         /\ AdmittedOf(ip)' = AdmittedOf(ip) \cup (IF pc = "limited" THEN {} ELSE {r})
         /\ \A j \in Ips \ {ip} : AdmittedOf(j)' = AdmittedOf(j)
         /\ req'[r].at = now /\ \A s \in Requests \ {r} : req'[s] = req[s]
         /\ r \notin AdmittedOf(ip)
<1>1. /\ req \in [Requests -> Entry] /\ now \in Nat /\ None \notin Ips /\ RateWindow \in Nat
      /\ req[r].pc = "new" /\ req[r].ip = None
  BY StatusUiAssumption DEF RateInv, PageInv, TypeOK, IsNext, Decisions
<1>2. PICK a \in Entry : a = Arrived(r) /\ a.at = now
  BY ArrivedEntry DEF RateInv
<1>3. req'[r].pc = pc /\ req'[r].ip = ip /\ req'[r].at = now
  BY <1>1, <1>2 DEF Entry
<1>4. \A s \in Requests \ {r} : req'[s] = req[s]
  BY <1>1
<1>5. WasAdmitted(r)' <=> pc # "limited"
  BY <1>3 DEF WasAdmitted
<1>6. ~WasAdmitted(r)
  BY <1>1 DEF WasAdmitted
<1>7. \A s \in Requests \ {r} : WasAdmitted(s)' <=> WasAdmitted(s)
  BY <1>4 DEF WasAdmitted
<1>8. AdmittedOf(ip)' = AdmittedOf(ip) \cup (IF pc = "limited" THEN {} ELSE {r})
  BY <1>3, <1>4, <1>5, <1>6, <1>7 DEF AdmittedOf
<1>9. \A j \in Ips \ {ip} : AdmittedOf(j)' = AdmittedOf(j)
  BY <1>3, <1>4, <1>6, <1>7 DEF AdmittedOf
<1>10. \A s \in Requests : r < s => req[s].pc = "new" /\ req[s].ip = None
  BY <1>1 DEF RateInv, PageInv, RequestOK, Decisions
<1>11. ASSUME NEW s \in Requests \ {r} PROVE RateOK(s)'
  <2>1. CASE req[s].ip = None
    BY <1>4, <2>1 DEF RateOK
  <2>2. CASE req[s].ip # None
    <3>1. ~(r < s)
      BY <1>10, <2>2
    <3>2. \A q \in 1..(s - 1) : q \in Requests \ {r}
      BY <3>1, StatusUiAssumption DEF Requests
    <3>3. Earlier(s)' = Earlier(s)
      BY <1>4, <1>7, <3>2 DEF Earlier
    <3> QED
      BY <1>4, <3>3 DEF RateInv, RateOK
  <2> QED
    BY <2>1, <2>2
<1>12. RateOK(r)'
  <2>1. ASSUME NEW q \in AdmittedOf(ip) PROVE q \in 1..(r - 1)
    <3>1. q \in Requests /\ req[q].pc # "new" /\ q # r
      BY <1>1, <2>1 DEF AdmittedOf, WasAdmitted
    <3>2. ~(r < q)
      BY <1>10, <3>1
    <3> QED
      BY <3>1, <3>2, StatusUiAssumption DEF Requests
  <2>2. \A q \in 1..(r - 1) : q \in Requests \ {r}
    BY StatusUiAssumption DEF Requests
  <2>3. ASSUME NEW q
        PROVE  q \in Earlier(r)' <=> q \in AdmittedOf(ip) /\ now - req[q].at < RateWindow
    BY <1>3, <1>4, <1>7, <2>1, <2>2 DEF Earlier, AdmittedOf
  <2>4. Earlier(r)' = {q \in AdmittedOf(ip) : now - req[q].at < RateWindow}
    BY <2>3
  <2>5. Cardinality(Earlier(r)') = Len(InWindow(ip))
    BY <2>4, ShiftedCount
  <2> QED
    BY <1>3, <2>5 DEF RateOK
<1>13. \A s \in Requests : req'[s].ip # None => req'[s].pc \in Decisions
  BY <1>3, <1>4 DEF RateInv, Decisions
<1> QED
  BY <1>3, <1>4, <1>6, <1>8, <1>9, <1>11, <1>12, <1>13 DEF AdmittedOf

\* The other clients keep their windows.
LEMMA OtherWindow ==
  ASSUME RateInv, NEW j \in Ips, UNCHANGED now, window'[j] = window[j], AdmittedOf(j)' = AdmittedOf(j),
         \A q \in AdmittedOf(j) : req'[q] = req[q]
  PROVE  WindowOK(j)'
<1>1. PICK b \in [DOMAIN window[j] -> Requests] : Kept(b, j)
  BY DEF RateInv, WindowOK
<1>2. Kept(b, j)'
  BY <1>1 DEF Kept
<1> QED
  BY <1>1, <1>2 DEF RateInv, WindowOK

\* What is left of the window are the times of n admitted requests, those that
\* b names, and no younger one is missing.
Left(n, b, ip) ==
  /\ \A k \in 1..n : b[k] \in AdmittedOf(ip)
  /\ InWindow(ip) \in Seq(Nat) /\ Len(InWindow(ip)) = n
  /\ \A k, l \in 1..n : b[k] = b[l] => k = l
  /\ \A k \in 1..n : req[b[k]].at = InWindow(ip)[k] /\ InWindow(ip)[k] <= now
  /\ \A k, l \in 1..n : k <= l => InWindow(ip)[k] <= InWindow(ip)[l]
  /\ \A q \in AdmittedOf(ip) : now - req[q].at < RateWindow => \E k \in 1..n : b[k] = q

LEMMA ShiftedWindow ==
  ASSUME RateInv, NEW ip \in Ips
  PROVE  \E n \in Nat : \E b \in [1..n -> Requests] : Left(n, b, ip)
<1>1. /\ WindowOK(ip) /\ now \in Nat /\ window \in [Ips -> Seq(Nat)] /\ RateWindow \in Nat
  BY StatusUiAssumption DEF RateInv, PageInv, TypeOK
<1>2. PICK w \in Seq(Nat) : w = window[ip]
  BY <1>1
<1>3. PICK m \in Nat : m = Len(w) /\ DOMAIN w = 1..m
  BY <1>2
<1>4. PICK off \in 0..m :
        /\ InWindow(ip) \in Seq(Nat) /\ Len(InWindow(ip)) = m - off
        /\ \A k \in 1..(m - off) : InWindow(ip)[k] = w[k + off]
        /\ Young(ip) = (off + 1)..m
  BY <1>1, <1>2, <1>3, Shifted
<1>5. PICK c \in [1..m -> Requests] : Kept(c, ip)
  BY <1>1, <1>2, <1>3 DEF WindowOK
<1> off \in Nat /\ off <= m
  BY <1>3, <1>4
<1> m - off \in Nat
  BY <1>3
<1>6. PICK n \in Nat : n = m - off
  OBVIOUS
<1>7. PICK b : b = [k \in 1..n |-> c[k + off]]
  OBVIOUS
<1>8. \A k \in 1..n : k + off \in 1..m /\ b[k] = c[k + off]
  BY <1>3, <1>6, <1>7
<1>9. \A k \in 1..m : c[k] \in AdmittedOf(ip) /\ req[c[k]].at = w[k] /\ w[k] <= now /\ w[k] \in Nat
  <2>1. DOMAIN window[ip] = 1..m
    BY <1>2, <1>3
  <2>2. \A k \in 1..m : w[k] <= now
    BY <1>1, <1>2, <2>1 DEF WindowOK
  <2>3. \A k \in 1..m : c[k] \in AdmittedOf(ip) /\ req[c[k]].at = w[k]
    BY <1>2, <1>5, <2>1 DEF Kept
  <2>4. \A k \in 1..m : w[k] \in Nat
    BY <1>2, <1>3
  <2> QED
    BY <2>2, <2>3, <2>4
<1>10. b \in [1..n -> Requests] /\ \A k \in 1..n : b[k] \in AdmittedOf(ip)
  BY <1>5, <1>7, <1>8, <1>9
<1>11. ASSUME NEW k \in 1..n, NEW l \in 1..n, b[k] = b[l] PROVE k = l
  <2>1. c[k + off] = c[l + off] /\ k + off \in DOMAIN window[ip] /\ l + off \in DOMAIN window[ip]
    BY <1>2, <1>3, <1>8, <1>11
  <2>2. k + off = l + off
    BY <1>5, <2>1 DEF Kept
  <2> QED
    BY <2>2
<1>12. \A k \in 1..n : req[b[k]].at = InWindow(ip)[k] /\ InWindow(ip)[k] <= now
  BY <1>4, <1>6, <1>8, <1>9
<1>13. ASSUME NEW k \in 1..n, NEW l \in 1..n, k <= l PROVE InWindow(ip)[k] <= InWindow(ip)[l]
  <2>1. k + off <= l + off
    BY <1>4, <1>13
  <2>2. w[k + off] <= w[l + off]
    BY <1>1, <1>2, <1>3, <1>8, <2>1 DEF WindowOK
  <2> QED
    BY <1>4, <1>6, <2>2
<1>14. ASSUME NEW q \in AdmittedOf(ip), now - req[q].at < RateWindow PROVE \E k \in 1..n : b[k] = q
  <2>1. PICK k \in 1..m : c[k] = q
    BY <1>2, <1>3, <1>5, <1>14 DEF Kept
  <2>2. k \in Young(ip)
    BY <1>2, <1>3, <1>9, <1>14, <2>1 DEF Young
  <2>3. k - off \in 1..n /\ (k - off) + off = k
    BY <1>3, <1>4, <1>6, <2>2
  <2>4. b[k - off] = q
    BY <1>8, <2>1, <2>3
  <2> QED
    BY <2>3, <2>4
<1> QED
  BY <1>4, <1>6, <1>10, <1>11, <1>12, <1>13, <1>14 DEF Left

\* A request over the limit leaves the shortened window.
LEMMA LimitedRate ==
  ASSUME RateInv, PageInv', NEW r \in Requests, NEW ip \in Ips, RateLimited(r, ip)
  PROVE  RateInv'
<1>1. /\ IsNext(r, "tx") /\ Len(InWindow(ip)) >= RateLimit /\ now' = now
      /\ req' = [req EXCEPT ![r] = [Arrived(r) EXCEPT !.pc = "limited", !.ip = ip]]
  BY DEF RateLimited
<1>2. window' = [window EXCEPT ![ip] = InWindow(ip)] /\ window \in [Ips -> Seq(Nat)]
  BY DEF RateLimited, RateInv
<1>3. PICK n \in Nat : \E b \in [1..n -> Requests] : Left(n, b, ip)
  BY ShiftedWindow
<1> PICK b \in [1..n -> Requests] : Left(n, b, ip)
  BY <1>3
<1>4. /\ \A k \in 1..n : b[k] \in AdmittedOf(ip)
      /\ InWindow(ip) \in Seq(Nat) /\ Len(InWindow(ip)) = n
      /\ \A k, l \in 1..n : b[k] = b[l] => k = l
      /\ \A k \in 1..n : req[b[k]].at = InWindow(ip)[k] /\ InWindow(ip)[k] <= now
      /\ \A k, l \in 1..n : k <= l => InWindow(ip)[k] <= InWindow(ip)[l]
      /\ \A q \in AdmittedOf(ip) : now - req[q].at < RateWindow => \E k \in 1..n : b[k] = q
  BY DEF Left
<1>5. /\ \A s \in Requests : (req'[s].ip # None => req'[s].pc \in Decisions) /\ RateOK(s)'
      /\ AdmittedOf(ip)' = AdmittedOf(ip) \cup (IF "limited" = "limited" THEN {} ELSE {r})
      /\ \A j \in Ips \ {ip} : AdmittedOf(j)' = AdmittedOf(j)
      /\ req'[r].at = now /\ \A s \in Requests \ {r} : req'[s] = req[s]
      /\ r \notin AdmittedOf(ip)
  BY <1>1, Decided
<1>7. AdmittedOf(ip)' = AdmittedOf(ip)
  BY <1>5
<1>8. \A j \in Ips : \A q \in AdmittedOf(j) : q \in Requests /\ req'[q] = req[q]
  BY <1>1, <1>5 DEF AdmittedOf, WasAdmitted, IsNext
<1>9. PICK v \in Seq(Nat) : v = InWindow(ip) /\ Len(v) = n /\ DOMAIN v = 1..n
  BY <1>4
<1>10. window' \in [Ips -> Seq(Nat)] /\ window'[ip] = v /\ \A j \in Ips \ {ip} : window'[j] = window[j]
  BY <1>2, <1>9
<1>11. WindowOK(ip)'
  <2>1. b \in [DOMAIN window'[ip] -> Requests]
    BY <1>8, <1>9, <1>10
  <2>2. Kept(b, ip)'
    <3>1. DOMAIN window'[ip] = 1..n /\ \A k \in 1..n : b[k] \in AdmittedOf(ip)' /\ req'[b[k]].at = window'[ip][k]
      BY <1>4, <1>7, <1>8, <1>9, <1>10
    <3>2. \A q \in AdmittedOf(ip)' : now' - req'[q].at < RateWindow => \E k \in 1..n : b[k] = q
      BY <1>1, <1>4, <1>7, <1>8
    <3> QED
      BY <1>4, <3>1, <3>2 DEF Kept
  <2>3. /\ \A k \in DOMAIN window'[ip] : window'[ip][k] <= now'
        /\ \A k, l \in DOMAIN window'[ip] : k <= l => window'[ip][k] <= window'[ip][l]
    BY <1>1, <1>4, <1>9, <1>10
  <2> QED
    BY <2>1, <2>2, <2>3 DEF WindowOK
<1>12. \A j \in Ips \ {ip} : WindowOK(j)'
  BY <1>1, <1>5, <1>8, <1>10, OtherWindow
<1> QED
  BY <1>5, <1>10, <1>11, <1>12 DEF RateInv

\* A request that is let in is the newest of the window.
LEMMA AdmittedRate ==
  ASSUME RateInv, PageInv', NEW r \in Requests, NEW ip \in Ips, Admitted(r, ip)
  PROVE  RateInv'
<1>1. PICK pc \in {"helper", "rejected"} :
        req' = [req EXCEPT ![r] = [Arrived(r) EXCEPT !.pc = pc, !.ip = ip]]
  BY DEF Admitted
<1>2. /\ IsNext(r, "tx") /\ Len(InWindow(ip)) < RateLimit /\ now' = now /\ now \in Nat
      /\ window' = [window EXCEPT ![ip] = Append(InWindow(ip), now)] /\ window \in [Ips -> Seq(Nat)]
      /\ RateLimit \in Nat
  BY StatusUiAssumption DEF Admitted, RateInv, PageInv, TypeOK
<1>3. PICK n \in Nat : \E b \in [1..n -> Requests] : Left(n, b, ip)
  BY ShiftedWindow
<1> PICK b \in [1..n -> Requests] : Left(n, b, ip)
  BY <1>3
<1>4. /\ \A k \in 1..n : b[k] \in AdmittedOf(ip)
      /\ InWindow(ip) \in Seq(Nat) /\ Len(InWindow(ip)) = n
      /\ \A k, l \in 1..n : b[k] = b[l] => k = l
      /\ \A k \in 1..n : req[b[k]].at = InWindow(ip)[k] /\ InWindow(ip)[k] <= now
      /\ \A k, l \in 1..n : k <= l => InWindow(ip)[k] <= InWindow(ip)[l]
      /\ \A q \in AdmittedOf(ip) : now - req[q].at < RateWindow => \E k \in 1..n : b[k] = q
  BY DEF Left
<1>5. /\ pc \in {"limited", "helper", "rejected"} /\ pc # "limited"
      /\ ~(Len(InWindow(ip)) >= RateLimit)
  BY <1>2, <1>4
<1>6. /\ \A s \in Requests : (req'[s].ip # None => req'[s].pc \in Decisions) /\ RateOK(s)'
      /\ AdmittedOf(ip)' = AdmittedOf(ip) \cup (IF pc = "limited" THEN {} ELSE {r})
      /\ \A j \in Ips \ {ip} : AdmittedOf(j)' = AdmittedOf(j)
      /\ req'[r].at = now /\ \A s \in Requests \ {r} : req'[s] = req[s]
      /\ r \notin AdmittedOf(ip)
  BY <1>1, <1>2, <1>5, Decided
<1>7. AdmittedOf(ip)' = AdmittedOf(ip) \cup {r}
  BY <1>5, <1>6
<1>8. \A j \in Ips : \A q \in AdmittedOf(j) : q \in Requests /\ q # r /\ req'[q] = req[q]
  BY <1>2, <1>6 DEF AdmittedOf, WasAdmitted, IsNext
<1>9. PICK v \in Seq(Nat) :
        /\ v = Append(InWindow(ip), now) /\ DOMAIN v = 1..(n + 1) /\ v[n + 1] = now
        /\ \A k \in 1..n : v[k] = InWindow(ip)[k]
  <2>1. PICK u \in Seq(Nat) : u = InWindow(ip) /\ Len(u) = n
    BY <1>4
  <2>2. /\ Append(u, now) \in Seq(Nat) /\ Len(Append(u, now)) = n + 1 /\ Append(u, now)[n + 1] = now
        /\ \A k \in 1..n : Append(u, now)[k] = u[k]
    BY <1>2, <2>1
  <2>3. DOMAIN Append(u, now) = 1..(n + 1)
    BY <2>2
  <2> QED
    BY <2>1, <2>2, <2>3
<1>10. window' \in [Ips -> Seq(Nat)] /\ window'[ip] = v /\ \A j \in Ips \ {ip} : window'[j] = window[j]
  BY <1>2, <1>9
<1>11. PICK c : c = [k \in 1..(n + 1) |-> IF k = n + 1 THEN r ELSE b[k]]
  OBVIOUS
<1>12. c[n + 1] = r /\ n + 1 \in 1..(n + 1) /\ \A k \in 1..(n + 1) : k # n + 1 => k \in 1..n /\ c[k] = b[k]
  BY <1>11
<1>13. \A k \in 1..n : k \in 1..(n + 1) /\ k # n + 1 /\ b[k] \in AdmittedOf(ip) /\ c[k] = b[k]
  BY <1>4, <1>12
<1>14. c \in [1..(n + 1) -> Requests]
  BY <1>8, <1>11, <1>12, <1>13
<1>15. ASSUME NEW k \in 1..(n + 1), NEW l \in 1..(n + 1), c[k] = c[l] PROVE k = l
  <2>1. CASE k = n + 1 \/ l = n + 1
    <3>1. \A i \in 1..(n + 1) : i # n + 1 => c[i] # r
      BY <1>6, <1>12, <1>13
    <3> QED
      BY <1>12, <1>15, <2>1, <3>1
  <2>2. CASE k # n + 1 /\ l # n + 1
    BY <1>4, <1>12, <1>15, <2>2
  <2> QED
    BY <2>1, <2>2
<1>16. \A k \in 1..(n + 1) : c[k] \in AdmittedOf(ip)' /\ req'[c[k]].at = v[k]
  BY <1>4, <1>6, <1>7, <1>8, <1>9, <1>12, <1>13
<1>17. ASSUME NEW q \in AdmittedOf(ip)', now - req'[q].at < RateWindow PROVE \E k \in 1..(n + 1) : c[k] = q
  <2>1. CASE q = r
    BY <1>12, <2>1
  <2>2. CASE q # r
    <3>1. q \in AdmittedOf(ip) /\ now - req[q].at < RateWindow
      BY <1>7, <1>8, <1>17, <2>2
    <3>2. PICK k \in 1..n : b[k] = q
      BY <1>4, <3>1
    <3> QED
      BY <1>13, <3>2
  <2> QED
    BY <2>1, <2>2
<1>18. \A k \in 1..(n + 1) : v[k] <= now
  BY <1>2, <1>4, <1>9, <1>12
<1>19. ASSUME NEW k \in 1..(n + 1), NEW l \in 1..(n + 1), k <= l PROVE v[k] <= v[l]
  <2>1. CASE l = n + 1
    BY <1>9, <1>18, <2>1
  <2>2. CASE l # n + 1
    <3>1. l \in 1..n /\ k \in 1..n
      BY <1>12, <1>19, <2>2
    <3> QED
      BY <1>4, <1>9, <1>19, <3>1
  <2> QED
    BY <2>1, <2>2
<1>20. WindowOK(ip)'
  <2>1. DOMAIN window'[ip] = 1..(n + 1)
    BY <1>9, <1>10
  <2>2. Kept(c, ip)'
    BY <1>2, <1>10, <1>15, <1>16, <1>17, <2>1 DEF Kept
  <2>3. /\ \A k \in DOMAIN window'[ip] : window'[ip][k] <= now'
        /\ \A k, l \in DOMAIN window'[ip] : k <= l => window'[ip][k] <= window'[ip][l]
    BY <1>2, <1>10, <1>18, <1>19, <2>1
  <2> QED
    BY <1>14, <2>1, <2>2, <2>3 DEF WindowOK
<1>21. \A j \in Ips \ {ip} : WindowOK(j)'
  BY <1>2, <1>6, <1>8, <1>10, OtherWindow
<1> QED
  BY <1>6, <1>10, <1>20, <1>21 DEF RateInv

\* All other requests let nobody in.
LEMMA StatusRate ==
  ASSUME RateInv, PageInv', NEW r \in Requests, NEW e \in Entry, req' = [req EXCEPT ![r] = e],
         req[r].pc = "new", e.pc \in {"waits", "answered", "refused"}, e.ip = None,
         UNCHANGED <<now, window>>
  PROVE  RateInv'
<1>1. req \in [Requests -> Entry] /\ now \in Nat /\ req[r].ip = None
  BY DEF RateInv, PageInv, TypeOK, Decisions
<1>2. req'[r] = e /\ \A q \in Requests \ {r} : req'[q] = req[q]
  BY <1>1
<1>3. ~WasAdmitted(r) /\ ~WasAdmitted(r)'
  BY <1>2 DEF WasAdmitted
<1>4. \A q \in Requests \ {r} : WasAdmitted(q)' <=> WasAdmitted(q)
  BY <1>2 DEF WasAdmitted
<1>5. now <= now'
  BY <1>1
<1> QED
  BY <1>1, <1>2, <1>3, <1>4, <1>5, QuietRate

\* Asking for the status, or with a wrong token.
LEMMA GetRate ==
  ASSUME RateInv, PageInv', NEW r \in Requests, GetCached(r) \/ GetInFlight(r) \/ GetComputed(r) \/ Unauthorized(r)
  PROVE  RateInv'
<1>1. PICK a \in Entry : a = Arrived(r) /\ a.ip = None
  BY ArrivedEntry DEF RateInv
<1>2. req[r].pc = "new" /\ UNCHANGED <<now, window>>
  BY DEF GetCached, GetInFlight, GetComputed, Unauthorized, Refresh, IsNext
<1>3. cache \in Result \cup {None} /\ inFlight \in Requests \cup {None}
  BY DEF RateInv, PageInv, TypeOK
<1>4. CASE GetCached(r)
  <2>1. PICK e : e = [a EXCEPT !.pc = "answered", !.got = cache]
    OBVIOUS
  <2>2. e \in Entry /\ e.pc = "answered" /\ e.ip = None
    BY <1>1, <1>3, <2>1 DEF Entry, Places
  <2> QED
    BY <1>1, <1>2, <1>4, <2>1, <2>2, StatusRate DEF GetCached
<1>5. CASE GetInFlight(r)
  <2>1. PICK e : e = [a EXCEPT !.pc = "waits", !.flight = inFlight]
    OBVIOUS
  <2>2. e \in Entry /\ e.pc = "waits" /\ e.ip = None
    BY <1>1, <1>3, <2>1 DEF Entry, Places
  <2> QED
    BY <1>1, <1>2, <1>5, <2>1, <2>2, StatusRate DEF GetInFlight
<1>6. CASE GetComputed(r)
  <2>1. PICK e : e = [a EXCEPT !.pc = "waits", !.flight = r]
    OBVIOUS
  <2>2. e \in Entry /\ e.pc = "waits" /\ e.ip = None
    BY <1>1, <2>1 DEF Entry, Places
  <2> QED
    BY <1>1, <1>2, <1>6, <2>1, <2>2, StatusRate DEF GetComputed, Refresh
<1>7. CASE Unauthorized(r)
  <2>1. PICK e : e = [a EXCEPT !.pc = "refused"]
    OBVIOUS
  <2>2. e \in Entry /\ e.pc = "refused" /\ e.ip = None
    BY <1>1, <2>1 DEF Entry, Places
  <2> QED
    BY <1>1, <1>2, <1>7, <2>1, <2>2, StatusRate DEF Unauthorized
<1> QED
  BY <1>4, <1>5, <1>6, <1>7

\* Those that waited for the status are answered.
LEMMA ComputedRate ==
  ASSUME RateInv, PageInv', NEW f \in DOMAIN refreshes, Computed(f)
  PROVE  RateInv'
<1>1. /\ req \in [Requests -> Entry] /\ now \in Nat /\ f \in Requests /\ f # None
      /\ \A q \in Requests : RequestOK(q)
  BY StatusUiAssumption DEF RateInv, PageInv, TypeOK
<1>2. /\ UNCHANGED <<now, window>>
      /\ req' = [q \in Requests |->
           IF req[q].flight # f THEN req[q]
           ELSE [req[q] EXCEPT !.pc = "answered", !.flight = None, !.got = cache']]
  BY DEF Computed
<1>3. ASSUME NEW q \in Requests
      PROVE  /\ req'[q].ip = req[q].ip /\ (WasAdmitted(q)' <=> WasAdmitted(q))
             /\ req[q].ip # None => req'[q].at = req[q].at /\ req'[q].pc = req[q].pc
  <2>1. CASE req[q].flight # f
    BY <1>2, <2>1 DEF WasAdmitted
  <2>2. CASE req[q].flight = f
    <3>1. req[q].pc = "waits"
      BY <1>1, <2>2 DEF RequestOK
    <3>2. req[q].ip = None
      BY <3>1 DEF RateInv, Decisions
    <3>3. PICK a \in Entry : a = req[q]
      BY <1>1
    <3>4. req'[q] = [a EXCEPT !.pc = "answered", !.flight = None, !.got = cache']
      BY <1>2, <2>2, <3>3
    <3>5. req'[q].pc = "answered" /\ req'[q].ip = a.ip
      BY <3>3, <3>4 DEF Entry
    <3> QED
      BY <3>1, <3>2, <3>3, <3>5 DEF WasAdmitted
  <2> QED
    BY <2>1, <2>2
<1>4. now' = now
  BY <1>2
<1>5. now <= now'
  BY <1>1, <1>4
<1> QED
  BY <1>2, <1>3, <1>5, QuietRate

LEMMA RateInit ==
  Init => RateInv
<1> SUFFICES ASSUME Init PROVE RateInv
  OBVIOUS
<1>1. PageInv
  BY PageInit
<1>2. \A r \in Requests : req[r].pc = "new" /\ req[r].ip = None
  BY DEF Init, New
<1>3. \A ip \in Ips : AdmittedOf(ip) = {}
  BY <1>2 DEF AdmittedOf, WasAdmitted
<1>4. window = [i \in Ips |-> <<>>] /\ window \in [Ips -> Seq(Nat)]
  BY DEF Init
<1>5. ASSUME NEW ip \in Ips PROVE WindowOK(ip)
  <2>1. PICK w \in Seq(Nat) : w = window[ip] /\ w = <<>>
    BY <1>4
  <2>2. DOMAIN w = {}
    BY <2>1
  <2>3. <<>> \in [{} -> Requests]
    OBVIOUS
  <2>4. Kept(<<>>, ip)
    BY <1>3, <2>1, <2>2 DEF Kept
  <2> QED
    BY <2>1, <2>2, <2>3, <2>4 DEF WindowOK
<1> QED
  BY <1>1, <1>2, <1>4, <1>5 DEF RateInv, RateOK

LEMMA RateNext ==
  RateInv /\ [Next]_vars => RateInv'
<1> SUFFICES ASSUME RateInv, [Next]_vars PROVE RateInv'
  OBVIOUS
<1>1. PageInv'
  BY PageNext DEF RateInv
<1>2. now \in Nat
  BY DEF RateInv, PageInv, TypeOK
<1>3. ASSUME UNCHANGED <<window, req>>, now' \in {now, now + 1} PROVE RateInv'
  <2>1. now <= now'
    BY <1>2, <1>3
  <2>2. \A q \in Requests : WasAdmitted(q)' <=> WasAdmitted(q)
    BY <1>3 DEF WasAdmitted
  <2> QED
    BY <1>1, <1>3, <2>1, <2>2, QuietRate
<1>4. CASE UNCHANGED vars
  BY <1>3, <1>4 DEF vars, status
<1>5. CASE Tick
  BY <1>3, <1>5 DEF Tick
<1>6. ASSUME NEW n \in Nodes, NewBlock(n) PROVE RateInv'
  BY <1>3, <1>6 DEF NewBlock
<1>7. ASSUME NEW f \in DOMAIN refreshes, NEW n \in Nodes, CheckNode(f, n) PROVE RateInv'
  BY <1>3, <1>7 DEF CheckNode
<1> QED
  BY <1>1, <1>4, <1>5, <1>6, <1>7, GetRate, ComputedRate, LimitedRate, AdmittedRate DEF Next, Status, Tx

\* The inductive invariant of the rate limit: what the window of a client
\* holds are the times of its last admitted requests, and none of the last
\* minute is missing.
THEOREM RateInvHolds == Spec => []RateInv
<1> QED
  BY RateInit, RateNext, PTL DEF Spec

\* A request is turned away exactly if the limit of its client is used up, for
\* any clients, limit and window.
THEOREM RateStaysExact == Spec => []RateIsExact
<1>1. RateInv => RateIsExact
  BY DEF RateInv, RateOK, Earlier, RateIsExact
<1> QED
  BY <1>1, RateInvHolds, PTL

=============================================================================
