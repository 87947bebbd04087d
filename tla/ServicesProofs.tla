--------------------------- MODULE ServicesProofs ---------------------------
(***************************************************************************)
(* The faucet for any number of requests, clients and addresses and any    *)
(* two windows: its limits hold, a refusal has a cause, and a nonce is     *)
(* lost only to one that was under way, or had just ended, when the loser  *)
(* came.  And the containers of the Docker devnet, for any number of them, *)
(* of starts, kills and removed volumes: whoever runs agrees with the      *)
(* genesis, and a complete genesis stays.                                  *)
(***************************************************************************)
EXTENDS Faucet, Docker, TLAPS

----------------------------------------------------------------------------
(* The faucet: what holds of every state *)

Places == {"new", "refused", "nonce", "send", "taken", "catch", "ok", "failed"}

Entry == [pc : Places, ip : Clients \cup {Nil}, to : Tos \cup {Nil}, at : Nat, end : Nat,
          call : Posts \cup {Nil}, nonce : Nat, why : {Nil, "ip", "to", "nonce", "rpc"}]

TypeOK ==
  /\ time \in Nat /\ count \in Nat
  /\ ipHits \in [Clients -> Nat \cup {Nil}]
  /\ toHits \in [Tos -> Nat \cup {Nil}]
  /\ post \in [Posts -> Entry]
  /\ cached \in Posts \cup {Nil} /\ counted \in [Posts -> Nat \cup {Nil}]
  /\ paid \in SUBSET Posts

\* Requests the limits let through, whatever became of them.
Served == {r \in Posts : post[r].pc \notin {"new", "refused"}}

\* No request is of the future, who is served has named a client and an
\* address, and the node has only transactions that were sent.
PastOK ==
  /\ \A r \in Posts : post[r].at <= time /\ post[r].end <= time
  /\ \A r \in Served : post[r].ip \in Clients /\ post[r].to \in Tos
  /\ \A r \in paid : post[r].pc \in {"taken", "catch", "ok", "failed"}

\* Some request q of them failed, and not before r came.
Reset(requests, r) == \E q \in requests : post[q].pc = "failed" /\ post[q].end >= post[r].at

\* A request that was served within the window is covered by a mark at least
\* as young, unless a failure took the mark away.
Covered ==
  \A r \in Served :
    /\ time - post[r].at < ToLimit =>
         \/ toHits[post[r].to] \in Nat /\ toHits[post[r].to] >= post[r].at
         \/ Reset(OfTo(post[r].to), r)
    /\ time - post[r].at < IpLimit =>
         \/ ipHits[post[r].ip] \in Nat /\ ipHits[post[r].ip] >= post[r].at
         \/ Reset(OfIp(post[r].ip), r)

\* A mark is that of a request that was served and has not failed.
Earned ==
  /\ \A a \in Tos : toHits[a] # Nil =>
       \E q \in Served : post[q].to = a /\ post[q].pc # "failed" /\ post[q].at = toHits[a]
  /\ \A i \in Clients : ipHits[i] # Nil =>
       \E q \in Served : post[q].ip = i /\ post[q].pc # "failed" /\ post[q].at = ipHits[i]

\* The limits hold of all who are served, and not only of those who are paid.
Spaced ==
  \A r, s \in Served : r # s /\ post[r].at <= post[s].at =>
    /\ post[r].to = post[s].to /\ post[s].at - post[r].at < ToLimit => Lifted(OfTo(post[r].to), r, s)
    /\ post[r].ip = post[s].ip /\ post[s].at - post[r].at < IpLimit => Lifted(OfIp(post[r].ip), r, s)

\* Another transaction was on its way to the node when r came, or within the
\* time of the provider's cache before.
Overlap(r) ==
  \E q \in paid \ {r} : post[q].pc \in {"taken", "catch"} \/ post[q].end + CacheTime >= post[r].at

\* The same of r itself or another, and without that time.
Since(r) == \E q \in paid : post[q].pc \in {"taken", "catch"} \/ post[q].end >= post[r].at

\* The provider hands out the call of a request for its time.
CachedOK == cached # Nil => cached \in Served /\ time <= post[cached].at + CacheTime

\* Who waits for a count waits for the call of a request that was served,
\* and asked for it within that time.
CallsOK ==
  \A r \in Posts : post[r].pc = "nonce" =>
    post[r].call \in Served /\ post[r].at <= post[post[r].call].at + CacheTime

\* A count is right, but for what the node took after the request came that
\* asked for it.
CountedOK ==
  \A c \in Posts : counted[c] # Nil =>
    c \in Served /\ counted[c] <= count /\ (counted[c] < count => Since(c))

\* A nonce that waits to be sent is the next one, unless another request was
\* quicker.
Behind ==
  \A r \in Posts : post[r].pc = "send" => post[r].nonce <= count /\ (post[r].nonce < count => Overlap(r))

FaucetInv ==
  TypeOK /\ PastOK /\ Covered /\ Earned /\ Spaced /\ RefusedForCause /\ CachedOK /\ CallsOK /\ CountedOK
    /\ Behind /\ NonceClashNeedsOverlap

-----------------------------------------------------------------------------

\* A handler that goes on keeps client, address and time of its request; all
\* that is said of pairs of requests stays true, also if this one fails now.
LEMMA HandlerFrame ==
  ASSUME TypeOK, PastOK, NEW r \in Posts, post[r].pc \in {"nonce", "send", "taken", "catch"},
         NEW e \in Entry, post' = [post EXCEPT ![r] = e], time' = time,
         e.ip = post[r].ip, e.to = post[r].to, e.at = post[r].at,
         e.pc \notin {"new", "refused"}, e.pc = "failed" => e.end = time
  PROVE  /\ Served' = Served
         /\ \A a : OfTo(a)' = OfTo(a) /\ OfIp(a)' = OfIp(a)
         /\ \A R \in SUBSET Posts, p \in Posts : Reset(R, p) => Reset(R, p)'
         /\ Spaced => Spaced'
         /\ RefusedForCause => RefusedForCause'
<1>1. \A q \in Posts : q # r => post'[q] = post[q]
  BY DEF TypeOK
<1>2. post'[r] = e
  BY DEF TypeOK
<1>3. Served' = Served
  BY <1>1, <1>2 DEF Served
<1>4. \A a : OfTo(a)' = OfTo(a) /\ OfIp(a)' = OfIp(a)
  BY <1>1, <1>2 DEF OfTo, OfIp
<1>5. \A p \in Posts : post'[p].at = post[p].at /\ post'[p].ip = post[p].ip /\ post'[p].to = post[p].to
  BY <1>1, <1>2
<1>6. \A q \in Posts : post[q].pc = "failed" => post'[q] = post[q]
  BY <1>1
<1>7. \A R \in SUBSET Posts, p \in Posts : Reset(R, p) => Reset(R, p)'
  BY <1>5, <1>6 DEF Reset
<1>8. \A R \in SUBSET Posts, p, s \in Posts : Lifted(R, p, s) => Lifted(R, p, s)'
  BY <1>5, <1>6 DEF Lifted
<1>9. ASSUME Spaced PROVE Spaced'
  <2>1. \A a : OfTo(a) \in SUBSET Posts /\ OfIp(a) \in SUBSET Posts
    BY DEF OfTo, OfIp
  <2>2. Served \subseteq Posts
    BY DEF Served
  <2>. QED  BY <1>3, <1>4, <1>5, <1>8, <1>9, <2>1, <2>2 DEF Spaced
<1>10. ASSUME RefusedForCause PROVE RefusedForCause'
  <2>. SUFFICES ASSUME NEW p \in Posts, post'[p].pc = "refused"
                PROVE  \E q \in Posts \ {p} :
                         /\ post'[q].pc \notin {"new", "refused"}
                         /\ post'[q].at <= post'[p].at /\ (post'[q].pc = "failed" => post'[q].end >= post'[p].at)
                         /\ IF post'[p].why = "ip" THEN post'[q].ip = post'[p].ip /\ post'[p].at - post'[q].at < IpLimit
                                                  ELSE post'[q].to = post'[p].to /\ post'[p].at - post'[q].at < ToLimit
    BY DEF RefusedForCause
  <2>1. p # r /\ post'[p] = post[p]
    BY <1>1, <1>2
  <2>2. PICK q \in Posts \ {p} :
          /\ post[q].pc \notin {"new", "refused"}
          /\ post[q].at <= post[p].at /\ (post[q].pc = "failed" => post[q].end >= post[p].at)
          /\ IF post[p].why = "ip" THEN post[q].ip = post[p].ip /\ post[p].at - post[q].at < IpLimit
                                  ELSE post[q].to = post[p].to /\ post[p].at - post[q].at < ToLimit
    BY <2>1, <1>10 DEF RefusedForCause
  <2>3. post'[q].pc \notin {"new", "refused"}
    BY <1>1, <1>2, <2>2
  <2>4. post'[q].pc = "failed" => post'[q].end >= post'[p].at
    <3>1. CASE q = r
      BY <3>1, <1>2, <2>1 DEF PastOK, TypeOK, Entry
    <3>2. CASE q # r
      BY <3>2, <1>1, <2>1, <2>2
    <3>. QED  BY <3>1, <3>2
  <2>. QED  BY <1>5, <2>1, <2>2, <2>3, <2>4
<1>. QED  BY <1>3, <1>4, <1>7, <1>9, <1>10

\* What makes an Overlap stays: a transaction that was sent stays sent, and
\* one that ends now ends after every request came.
LEMMA OverlapStays ==
  ASSUME TypeOK, PastOK, NEW r \in Posts, post[r].pc \in {"nonce", "send", "taken", "catch"},
         NEW e \in Entry, post' = [post EXCEPT ![r] = e], e.at = post[r].at, paid \subseteq paid',
         r \in paid => e.pc \in {"taken", "catch"} \/ e.end = time
  PROVE  \A p \in Posts : (Overlap(p) => Overlap(p)') /\ (Since(p) => Since(p)')
<1>. SUFFICES ASSUME NEW p \in Posts PROVE (Overlap(p) => Overlap(p)') /\ (Since(p) => Since(p)')
  OBVIOUS
<1>1. CacheTime \in Nat
  BY FaucetAssumption
<1>2. post'[p].at = post[p].at /\ post[p].at \in Nat /\ post[p].at <= time /\ time \in Nat
  BY DEF TypeOK, Entry, PastOK
<1>3. ASSUME NEW q \in paid
      PROVE  /\ q \in paid'
             /\ post[q].pc \in {"taken", "catch"} \/ post[q].end + CacheTime >= post[p].at
                => post'[q].pc \in {"taken", "catch"} \/ post'[q].end + CacheTime >= post'[p].at
             /\ post[q].pc \in {"taken", "catch"} \/ post[q].end >= post[p].at
                => post'[q].pc \in {"taken", "catch"} \/ post'[q].end >= post'[p].at
  <2>1. q \in Posts
    BY DEF TypeOK
  <2>2. CASE q = r
    BY <2>1, <2>2, <1>1, <1>2 DEF TypeOK, Entry
  <2>3. CASE q # r
    BY <2>1, <2>3, <1>1, <1>2 DEF TypeOK
  <2>. QED  BY <2>2, <2>3
<1>. QED  BY <1>3 DEF Overlap, Since

LEMMA InitInv ==
  FaucetInit => FaucetInv
<1>. SUFFICES ASSUME FaucetInit PROVE FaucetInv
  OBVIOUS
<1>. USE FaucetAssumption DEF FaucetInit
<1>1. TypeOK
  BY DEF TypeOK, Entry, Places, NewPost
<1>2. Served = {}
  BY DEF Served, NewPost
<1>3. PastOK
  BY <1>2 DEF PastOK, NewPost, Served
<1>4. Covered /\ Spaced
  BY <1>2 DEF Covered, Spaced
<1>5. Earned
  BY DEF Earned
<1>6. RefusedForCause /\ Behind /\ NonceClashNeedsOverlap
  BY DEF RefusedForCause, Behind, NonceClashNeedsOverlap, NewPost
<1>7. CachedOK /\ CallsOK /\ CountedOK
  BY DEF CachedOK, CallsOK, CountedOK, NewPost
<1>. QED  BY <1>7, <1>1, <1>3, <1>4, <1>5, <1>6 DEF FaucetInv

\* A step of a handler that leaves the marks and the request unfailed.
LEMMA CallInv ==
  ASSUME FaucetInv, NEW r \in Posts, Nonce(r) \/ Broadcast(r) \/ CallFails(r) \/ Succeeds(r)
  PROVE  FaucetInv'
<1>. USE FaucetAssumption DEF FaucetInv
<1>1. PICK e \in Entry :
        /\ post' = [post EXCEPT ![r] = e]
        /\ e.ip = post[r].ip /\ e.to = post[r].to /\ e.at = post[r].at
        /\ e.pc \in {"send", "taken", "catch", "ok"}
        /\ e.pc = "ok" => e.end = time
        /\ e.end \in {time, post[r].end}
        /\ e.pc = "send" => post[r].pc = "nonce" /\ e.nonce = counted[post[r].call] /\ e.nonce \in Nat
        /\ e.why = "nonce" => post[r].why = "nonce" \/ (post[r].pc = "send" /\ post[r].nonce # count)
        /\ r \in paid' => e.pc \in {"taken", "catch", "ok"}
  <2>1. CASE Nonce(r)
    <3>. DEFINE n == counted[post[r].call]
                e == [post[r] EXCEPT !.pc = "send", !.call = Nil, !.nonce = n]
    <3>1. post' = [post EXCEPT ![r] = e] /\ post[r].pc = "nonce" /\ paid' = paid
      BY <2>1 DEF Nonce, TypeOK, Entry
    <3>2. n \in Nat
      BY <2>1, <3>1 DEF Nonce, CallsOK, Served, TypeOK
    <3>. HIDE DEF n
    <3>3. e \in Entry /\ r \notin paid
      BY <3>1, <3>2, ZenonT(60) DEF TypeOK, Entry, Places, PastOK
    <3>. QED  BY <3>1, <3>2, <3>3 DEF TypeOK, Entry, n
  <2>2. CASE Broadcast(r)
    <3>1. CASE post[r].nonce = count
      <4>. DEFINE e == [post[r] EXCEPT !.pc = "taken", !.nonce = 0]
      <4>1. post' = [post EXCEPT ![r] = e] /\ post[r].pc = "send"
        BY <2>2, <3>1 DEF Broadcast, TypeOK, Entry
      <4>2. e \in Entry
        BY ZenonT(60) DEF TypeOK, Entry, Places
      <4>. QED  BY <4>1, <4>2 DEF TypeOK, Entry
    <3>2. CASE post[r].nonce # count
      <4>. DEFINE e == [post[r] EXCEPT !.pc = "catch", !.nonce = 0, !.why = "nonce"]
      <4>1. post' = [post EXCEPT ![r] = e] /\ post[r].pc = "send"
        BY <2>2, <3>2 DEF Broadcast, TypeOK, Entry
      <4>2. e \in Entry
        BY ZenonT(60) DEF TypeOK, Entry, Places
      <4>. QED  BY <4>1, <4>2, <3>2 DEF TypeOK, Entry
    <3>. QED  BY <3>1, <3>2
  <2>3. CASE CallFails(r)
    <3>. DEFINE e == [post[r] EXCEPT !.pc = "catch", !.call = Nil, !.nonce = 0, !.why = "rpc"]
    <3>1. post' = [post EXCEPT ![r] = e]
      BY <2>3 DEF CallFails, TypeOK, Entry
    <3>2. e \in Entry
      BY ZenonT(60) DEF TypeOK, Entry, Places
    <3>. QED  BY <3>1, <3>2 DEF TypeOK, Entry
  <2>4. CASE Succeeds(r)
    <3>. DEFINE e == [post[r] EXCEPT !.pc = "ok", !.end = time]
    <3>1. post' = [post EXCEPT ![r] = e]
      BY <2>4 DEF Succeeds, TypeOK, Entry
    <3>2. e \in Entry
      BY ZenonT(60) DEF TypeOK, Entry, Places
    <3>. QED  BY <3>1, <3>2 DEF TypeOK, Entry
  <2>. QED  BY <2>1, <2>2, <2>3, <2>4
<1>2. /\ post[r].pc \in {"nonce", "send", "taken", "catch"}
      /\ UNCHANGED <<time, ipHits, toHits, cached, counted>>
      /\ count' \in Nat /\ count <= count' /\ paid \subseteq paid' /\ paid' \subseteq paid \cup {r}
      /\ count' # count => r \in paid' /\ e.pc = "taken"
  BY <1>1 DEF Nonce, Broadcast, CallFails, Succeeds, TypeOK, Entry, marks, calls
<1>3. /\ Served' = Served
      /\ \A a : OfTo(a)' = OfTo(a) /\ OfIp(a)' = OfIp(a)
      /\ \A R \in SUBSET Posts, p \in Posts : Reset(R, p) => Reset(R, p)'
      /\ Spaced'
      /\ RefusedForCause'
  BY <1>1, <1>2, HandlerFrame
<1>4. \A p \in Posts : (Overlap(p) => Overlap(p)') /\ (Since(p) => Since(p)')
  <2>1. r \in paid => e.pc \in {"taken", "catch"} \/ e.end = time
    BY <1>1, <1>2
  <2>. QED  BY <1>1, <1>2, <2>1, OverlapStays
<1>5. \A q \in Posts : post'[q] = IF q = r THEN e ELSE post[q]
  BY <1>1 DEF TypeOK
<1>6. TypeOK'
  BY <1>1, <1>2 DEF TypeOK
<1>7. PastOK'
  <2>1. \A q \in Posts : post'[q].at <= time' /\ post'[q].end <= time'
    BY <1>1, <1>2, <1>5 DEF PastOK, TypeOK, Entry
  <2>2. \A q \in Served' : post'[q].ip \in Clients /\ post'[q].to \in Tos
    BY <1>1, <1>3, <1>5 DEF PastOK, Served
  <2>3. \A q \in paid' : post'[q].pc \in {"taken", "catch", "ok", "failed"}
    BY <1>1, <1>2, <1>5 DEF PastOK, TypeOK
  <2>. QED  BY <2>1, <2>2, <2>3 DEF PastOK
<1>8. \A p \in Posts : post'[p].at = post[p].at /\ post'[p].ip = post[p].ip /\ post'[p].to = post[p].to
  BY <1>1, <1>5
<1>9. Covered'
  <2>1. Served \subseteq Posts /\ \A a : OfTo(a) \in SUBSET Posts /\ OfIp(a) \in SUBSET Posts
    BY DEF Served, OfTo, OfIp
  <2>2. \A p \in Served : Reset(OfTo(post[p].to), p) => Reset(OfTo(post[p].to), p)'
    BY <1>3, <1>8, <2>1
  <2>3. \A p \in Served : Reset(OfIp(post[p].ip), p) => Reset(OfIp(post[p].ip), p)'
    BY <1>3, <1>8, <2>1
  <2>. QED  BY <1>2, <1>3, <1>8, <2>1, <2>2, <2>3 DEF Covered
<1>10. Earned'
  <2>1. \A q \in Posts : post'[q].pc = "failed" => post[q].pc = "failed"
    BY <1>1, <1>5
  <2>. QED  BY <1>2, <1>3, <1>8, <2>1 DEF Earned, Served
<1>11. Behind'
  <2>. SUFFICES ASSUME NEW p \in Posts, post'[p].pc = "send"
                PROVE  post'[p].nonce <= count' /\ (post'[p].nonce < count' => Overlap(p)')
    BY DEF Behind
  <2>1. CASE p = r
    <3>. DEFINE c == post[r].call
    <3>1. e.pc = "send" /\ post'[p] = e /\ post[r].pc = "nonce" /\ e.nonce = counted[c] /\ e.nonce \in Nat
      BY <2>1, <1>1, <1>5
    <3>2. c \in Posts /\ post[r].at <= post[c].at + CacheTime /\ r \notin paid
      BY <3>1 DEF CallsOK, Served, PastOK
    <3>3. e.nonce <= count /\ (e.nonce < count => Since(c))
      BY <3>1, <3>2 DEF CountedOK
    <3>4. Since(c) => Overlap(r)
      BY <3>2 DEF Since, Overlap, TypeOK, Entry
    <3>5. count' = count
      BY <3>1, <1>2
    <3>. QED  BY <2>1, <3>1, <3>3, <3>4, <3>5, <1>4
  <2>2. CASE p # r
    <3>1. post'[p] = post[p] /\ post[p].nonce \in Nat
      BY <2>2, <1>5 DEF TypeOK, Entry
    <3>2. CASE count' = count
      BY <2>2, <3>1, <3>2, <1>4 DEF Behind
    <3>3. CASE count' # count
      <4>1. r \in paid' \ {p} /\ post'[r].pc = "taken"
        BY <3>3, <2>2, <1>2, <1>5
      <4>2. Overlap(p)'
        BY <4>1 DEF Overlap
      <4>. QED  BY <4>2, <3>1, <1>2 DEF Behind, TypeOK
    <3>. QED  BY <3>2, <3>3
  <2>. QED  BY <2>1, <2>2
<1>12. NonceClashNeedsOverlap'
  <2>. SUFFICES ASSUME NEW p \in Posts, post'[p].why = "nonce" PROVE Overlap(p)'
    BY DEF NonceClashNeedsOverlap, Overlap
  <2>1. Overlap(p)
    <3>1. CASE post[p].why = "nonce"
      BY <3>1 DEF NonceClashNeedsOverlap, Overlap
    <3>2. CASE post[p].why # "nonce"
      <4>1. p = r /\ post[r].pc = "send" /\ post[r].nonce # count
        BY <3>2, <1>1, <1>5
      <4>2. post[r].nonce \in Nat /\ count \in Nat
        BY DEF TypeOK, Entry
      <4>. QED  BY <4>1, <4>2 DEF Behind
    <3>. QED  BY <3>1, <3>2
  <2>. QED  BY <2>1, <1>4
<1>13. CachedOK'
  BY <1>2, <1>3, <1>8 DEF CachedOK, TypeOK, Served
<1>14. CallsOK'
  <2>. SUFFICES ASSUME NEW p \in Posts, post'[p].pc = "nonce"
                PROVE  post'[p].call \in Served' /\ post'[p].at <= post'[post'[p].call].at + CacheTime
    BY DEF CallsOK
  <2>1. post'[p] = post[p]
    BY <1>1, <1>5
  <2>. QED  BY <2>1, <1>3, <1>8 DEF CallsOK, Served
<1>15. CountedOK'
  <2>. SUFFICES ASSUME NEW c \in Posts, counted[c] # Nil
                PROVE  c \in Served /\ counted[c] <= count' /\ (counted[c] < count' => Since(c)')
    BY <1>2, <1>3 DEF CountedOK
  <2>1. c \in Served /\ counted[c] <= count /\ (counted[c] < count => Since(c)) /\ counted[c] \in Nat
    BY DEF CountedOK, TypeOK
  <2>2. CASE count' = count
    BY <2>1, <2>2, <1>4
  <2>3. CASE count' # count
    <3>1. r \in paid' /\ post'[r].pc = "taken"
      BY <2>3, <1>2, <1>5
    <3>2. Since(c)'
      BY <3>1 DEF Since
    <3>. QED  BY <2>1, <3>2, <1>2 DEF TypeOK
  <2>. QED  BY <2>2, <2>3
<1>16. Spaced' /\ RefusedForCause'
  BY <1>3
<1>. HIDE DEF FaucetInv
<1>. QED  BY <1>6, <1>7, <1>9, <1>10, <1>11, <1>12, <1>13, <1>14, <1>15, <1>16 DEF FaucetInv

\* A failure takes two marks away, and is itself what excuses their absence.
LEMMA CatchInv ==
  ASSUME FaucetInv, NEW r \in Posts, Catch(r)
  PROVE  FaucetInv'
<1>. USE FaucetAssumption DEF FaucetInv
<1>. DEFINE e == [post[r] EXCEPT !.pc = "failed", !.end = time]
<1>1. /\ post[r].pc = "catch" /\ post' = [post EXCEPT ![r] = e] /\ UNCHANGED <<time, count, cached, counted, paid>>
      /\ ipHits' = [ipHits EXCEPT ![post[r].ip] = Nil] /\ toHits' = [toHits EXCEPT ![post[r].to] = Nil]
  BY DEF Catch, TypeOK, Entry, calls
<1>2. /\ e \in Entry /\ e.ip = post[r].ip /\ e.to = post[r].to /\ e.at = post[r].at
      /\ e.pc = "failed" /\ e.end = time /\ e.nonce = post[r].nonce /\ e.why = post[r].why
  <2>1. e \in Entry
    BY ZenonT(60) DEF TypeOK, Entry, Places
  <2>. QED  BY <2>1 DEF TypeOK, Entry
<1>. HIDE DEF e
<1>3. r \in Served /\ Served \subseteq Posts /\ post[r].ip \in Clients /\ post[r].to \in Tos
  BY <1>1 DEF PastOK, Served
<1>4. /\ Served' = Served
      /\ \A a : OfTo(a)' = OfTo(a) /\ OfIp(a)' = OfIp(a)
      /\ \A R \in SUBSET Posts, p \in Posts : Reset(R, p) => Reset(R, p)'
      /\ Spaced'
      /\ RefusedForCause'
  BY <1>1, <1>2, HandlerFrame
<1>5. \A p \in Posts : (Overlap(p) => Overlap(p)') /\ (Since(p) => Since(p)')
  BY <1>1, <1>2, OverlapStays
<1>6. \A q \in Posts : post'[q] = IF q = r THEN e ELSE post[q]
  BY <1>1 DEF TypeOK
<1>7. TypeOK'
  BY <1>1, <1>2 DEF TypeOK
<1>8. PastOK'
  BY <1>1, <1>2, <1>4, <1>6 DEF PastOK, TypeOK, Entry, Served
<1>9. \A p \in Posts : post'[p].at = post[p].at /\ post'[p].ip = post[p].ip /\ post'[p].to = post[p].to
  BY <1>2, <1>6
<1>10. \A p \in Posts : post'[r].end >= post'[p].at /\ post'[r].pc = "failed"
  BY <1>2, <1>6, <1>9 DEF PastOK, TypeOK, Entry
<1>11. Covered'
  <2>. SUFFICES ASSUME NEW p \in Served
                PROVE  /\ time - post[p].at < ToLimit =>
                            \/ toHits'[post[p].to] \in Nat /\ toHits'[post[p].to] >= post[p].at
                            \/ Reset(OfTo(post[p].to), p)'
                       /\ time - post[p].at < IpLimit =>
                            \/ ipHits'[post[p].ip] \in Nat /\ ipHits'[post[p].ip] >= post[p].at
                            \/ Reset(OfIp(post[p].ip), p)'
    BY <1>1, <1>3, <1>4, <1>9 DEF Covered
  <2>1. p \in Posts /\ \A a : OfTo(a) \in SUBSET Posts /\ OfIp(a) \in SUBSET Posts
    BY <1>3 DEF OfTo, OfIp
  <2>2. Reset(OfTo(post[p].to), p) => Reset(OfTo(post[p].to), p)'
    BY <1>4, <1>9, <2>1
  <2>3. Reset(OfIp(post[p].ip), p) => Reset(OfIp(post[p].ip), p)'
    BY <1>4, <1>9, <2>1
  <2>4. post[p].to = post[r].to => Reset(OfTo(post[p].to), p)'
    BY <1>9, <1>10, <2>1 DEF Reset, OfTo
  <2>5. post[p].ip = post[r].ip => Reset(OfIp(post[p].ip), p)'
    BY <1>9, <1>10, <2>1 DEF Reset, OfIp
  <2>6. post[p].to \in Tos /\ post[p].ip \in Clients
    BY DEF PastOK
  <2>7. /\ post[p].to # post[r].to => toHits'[post[p].to] = toHits[post[p].to]
        /\ post[p].ip # post[r].ip => ipHits'[post[p].ip] = ipHits[post[p].ip]
    BY <1>1, <2>6 DEF TypeOK
  <2>. QED  BY <2>2, <2>3, <2>4, <2>5, <2>7 DEF Covered
<1>12. Earned'
  <2>1. ASSUME NEW a \in Tos, toHits'[a] # Nil
        PROVE  \E q \in Served : post'[q].to = a /\ post'[q].pc # "failed" /\ post'[q].at = toHits'[a]
    <3>1. a # post[r].to /\ toHits'[a] = toHits[a]
      BY <2>1, <1>1 DEF TypeOK
    <3>2. PICK q \in Served : post[q].to = a /\ post[q].pc # "failed" /\ post[q].at = toHits[a]
      BY <2>1, <3>1 DEF Earned
    <3>. QED  BY <1>3, <1>6, <3>1, <3>2
  <2>2. ASSUME NEW i \in Clients, ipHits'[i] # Nil
        PROVE  \E q \in Served : post'[q].ip = i /\ post'[q].pc # "failed" /\ post'[q].at = ipHits'[i]
    <3>1. i # post[r].ip /\ ipHits'[i] = ipHits[i]
      BY <2>2, <1>1 DEF TypeOK
    <3>2. PICK q \in Served : post[q].ip = i /\ post[q].pc # "failed" /\ post[q].at = ipHits[i]
      BY <2>2, <3>1 DEF Earned
    <3>. QED  BY <1>3, <1>6, <3>1, <3>2
  <2>. QED  BY <1>4, <2>1, <2>2 DEF Earned
<1>13. Behind'
  BY <1>1, <1>2, <1>5, <1>6 DEF Behind
<1>14. NonceClashNeedsOverlap'
  <2>1. \A p \in Posts : post'[p].why = post[p].why
    BY <1>2, <1>6
  <2>2. \A p \in Posts : post[p].why = "nonce" => Overlap(p)
    BY DEF NonceClashNeedsOverlap, Overlap
  <2>. QED  BY <1>5, <2>1, <2>2 DEF NonceClashNeedsOverlap, Overlap
<1>15. CachedOK'
  BY <1>1, <1>4, <1>9 DEF CachedOK, TypeOK, Served
<1>16. CallsOK'
  <2>. SUFFICES ASSUME NEW p \in Posts, post'[p].pc = "nonce"
                PROVE  post'[p].call \in Served' /\ post'[p].at <= post'[post'[p].call].at + CacheTime
    BY DEF CallsOK
  <2>1. post'[p] = post[p]
    BY <1>2, <1>6
  <2>. QED  BY <2>1, <1>4, <1>9 DEF CallsOK, Served
<1>17. CountedOK'
  BY <1>1, <1>4, <1>5 DEF CountedOK, TypeOK
<1>. QED  BY <1>4, <1>7, <1>8, <1>11, <1>12, <1>13, <1>14, <1>15, <1>16, <1>17

\* Marks may go once they are past their window: the requests that are left
\* without one have left the window too.
LEMMA MarksExpire ==
  ASSUME TypeOK, PastOK, Covered, Earned, time' \in Nat, time <= time',
         \A a \in Tos : toHits'[a] = toHits[a] \/ (toHits'[a] = Nil /\ ~Limited(toHits[a], ToLimit)),
         \A i \in Clients : ipHits'[i] = ipHits[i] \/ (ipHits'[i] = Nil /\ ~Limited(ipHits[i], IpLimit)),
         Served' = Served, \A p \in Served : post'[p] = post[p],
         \A p \in Served : Reset(OfTo(post[p].to), p) => Reset(OfTo(post[p].to), p)',
         \A p \in Served : Reset(OfIp(post[p].ip), p) => Reset(OfIp(post[p].ip), p)'
  PROVE  Covered' /\ Earned'
<1>. USE FaucetAssumption
<1>1. Covered'
  <2>. SUFFICES ASSUME NEW p \in Served
                PROVE  /\ time' - post[p].at < ToLimit =>
                            \/ toHits'[post[p].to] \in Nat /\ toHits'[post[p].to] >= post[p].at
                            \/ Reset(OfTo(post[p].to), p)'
                       /\ time' - post[p].at < IpLimit =>
                            \/ ipHits'[post[p].ip] \in Nat /\ ipHits'[post[p].ip] >= post[p].at
                            \/ Reset(OfIp(post[p].ip), p)'
    BY DEF Covered
  <2>1. post[p].to \in Tos /\ post[p].ip \in Clients /\ post[p].at \in Nat /\ time \in Nat /\ ToLimit \in Nat /\ IpLimit \in Nat
    BY DEF PastOK, TypeOK, Entry, Served
  <2>. DEFINE mt == toHits[post[p].to]
              mi == ipHits[post[p].ip]
              lostT == Reset(OfTo(post[p].to), p)
              lostI == Reset(OfIp(post[p].ip), p)
  <2>2. /\ time - post[p].at < ToLimit => (mt \in Nat /\ mt >= post[p].at) \/ lostT
        /\ time - post[p].at < IpLimit => (mi \in Nat /\ mi >= post[p].at) \/ lostI
    BY DEF Covered
  <2>3. /\ toHits'[post[p].to] = mt \/ mt = Nil \/ ~(time - mt < ToLimit)
        /\ ipHits'[post[p].ip] = mi \/ mi = Nil \/ ~(time - mi < IpLimit)
    BY <2>1 DEF Limited
  <2>. HIDE DEF mt, mi, lostT, lostI
  <2>4. /\ time' - post[p].at < ToLimit => (toHits'[post[p].to] \in Nat /\ toHits'[post[p].to] >= post[p].at) \/ lostT
        /\ time' - post[p].at < IpLimit => (ipHits'[post[p].ip] \in Nat /\ ipHits'[post[p].ip] >= post[p].at) \/ lostI
    BY <2>1, <2>2, <2>3
  <2>5. (lostT => Reset(OfTo(post[p].to), p)') /\ (lostI => Reset(OfIp(post[p].ip), p)')
    BY DEF lostT, lostI
  <2>. QED  BY <2>4, <2>5
<1>2. Earned'
  BY DEF Earned
<1>. QED  BY <1>1, <1>2

\* Time passes, the marks past their window are deleted, or the provider
\* forgets a call.
LEMMA TimeInv ==
  ASSUME FaucetInv, Elapse \/ Cleanup \/ Forget
  PROVE  FaucetInv'
<1>. USE FaucetAssumption DEF FaucetInv
<1>1. /\ UNCHANGED <<post, count, counted, paid>> /\ time' \in Nat /\ time <= time'
      /\ cached' = cached \/ cached' = Nil
      /\ time' # time => cached' = cached /\ time' = time + 1 /\ (cached # Nil => time < post[cached].at + CacheTime)
  BY DEF Elapse, Cleanup, Forget, TypeOK, marks, calls
<1>2. Served' = Served /\ Served \subseteq Posts
  BY <1>1 DEF Served
<1>3. /\ \A a \in Tos : toHits'[a] = toHits[a] \/ (toHits'[a] = Nil /\ ~Limited(toHits[a], ToLimit))
      /\ \A i \in Clients : ipHits'[i] = ipHits[i] \/ (ipHits'[i] = Nil /\ ~Limited(ipHits[i], IpLimit))
  BY DEF Elapse, Cleanup, Forget, marks
<1>4. TypeOK'
  <2>1. CASE Elapse \/ Forget
    BY <2>1, <1>1 DEF TypeOK, Elapse, Forget, marks
  <2>2. CASE Cleanup
    <3>1. ipHits' \in [Clients -> Nat \cup {Nil}] /\ toHits' \in [Tos -> Nat \cup {Nil}]
      BY <2>2 DEF Cleanup, TypeOK
    <3>. QED  BY <3>1, <1>1 DEF TypeOK
  <2>. QED  BY <2>1, <2>2
<1>5. PastOK'
  BY <1>1, <1>2 DEF PastOK, TypeOK, Entry
<1>6. Covered' /\ Earned'
  <2>1. /\ \A p \in Served : Reset(OfTo(post[p].to), p) => Reset(OfTo(post[p].to), p)'
        /\ \A p \in Served : Reset(OfIp(post[p].ip), p) => Reset(OfIp(post[p].ip), p)'
    BY <1>1 DEF Reset, OfTo, OfIp
  <2>. QED  BY <1>1, <1>2, <1>3, <2>1, MarksExpire
<1>7. Spaced' /\ RefusedForCause' /\ Behind' /\ NonceClashNeedsOverlap'
  BY <1>1, <1>2 DEF Spaced, Lifted, OfTo, OfIp, RefusedForCause, Behind, Overlap, NonceClashNeedsOverlap
<1>8. CachedOK' /\ CallsOK' /\ CountedOK'
  <2>1. CallsOK' /\ CountedOK'
    BY <1>1, <1>2 DEF CallsOK, CountedOK, Since
  <2>2. CachedOK'
    <3>. SUFFICES ASSUME cached' # Nil PROVE cached' \in Served' /\ time' <= post'[cached'].at + CacheTime
      BY DEF CachedOK
    <3>1. cached' = cached /\ cached \in Served /\ time <= post[cached].at + CacheTime
      BY <1>1 DEF CachedOK
    <3>2. post[cached].at \in Nat /\ time \in Nat /\ CacheTime \in Nat
      BY <3>1, <1>2 DEF TypeOK, Entry
    <3>. QED  BY <1>1, <1>2, <3>1, <3>2
  <2>. QED  BY <2>1, <2>2
<1>. QED  BY <1>4, <1>5, <1>6, <1>7, <1>8

\* The answer to a call is right when the node gives it.
LEMMA CountsInv ==
  ASSUME FaucetInv, NEW r \in Posts, Counts(r)
  PROVE  FaucetInv'
<1>. USE FaucetAssumption DEF FaucetInv
<1>1. /\ UNCHANGED <<time, ipHits, toHits, post, count, cached, paid>>
      /\ counted' = [counted EXCEPT ![r] = count]
      /\ r \in Served
  <2>1. cached = r => cached # Nil
    BY DEF Posts
  <2>2. r \in Served
    BY <2>1 DEF Counts, CachedOK, CallsOK
  <2>. QED  BY <2>2 DEF Counts, marks
<1>2. Served' = Served
  BY <1>1 DEF Served
<1>3. TypeOK' /\ PastOK' /\ Earned'
  BY <1>1, <1>2 DEF TypeOK, PastOK, Earned
<1>4. Covered' /\ Spaced'
  BY <1>1, <1>2 DEF Covered, Spaced, Reset, Lifted, OfTo, OfIp
<1>5. RefusedForCause' /\ Behind' /\ NonceClashNeedsOverlap'
  BY <1>1 DEF RefusedForCause, Behind, Overlap, NonceClashNeedsOverlap
<1>6. CachedOK' /\ CallsOK'
  BY <1>1, <1>2 DEF CachedOK, CallsOK
<1>7. CountedOK'
  <2>. SUFFICES ASSUME NEW c \in Posts, counted'[c] # Nil
                PROVE  c \in Served' /\ counted'[c] <= count' /\ (counted'[c] < count' => Since(c)')
    BY DEF CountedOK
  <2>1. CASE c = r
    BY <2>1, <1>1, <1>2 DEF TypeOK
  <2>2. CASE c # r
    <3>1. counted'[c] = counted[c]
      BY <2>2, <1>1 DEF TypeOK
    <3>. QED  BY <3>1, <1>1, <1>2 DEF CountedOK, Since
  <2>. QED  BY <2>1, <2>2
<1>. QED  BY <1>3, <1>4, <1>5, <1>6, <1>7

\* What a request that comes leaves as it was: the other requests, with all
\* that their failures excuse and their nonces need.
LEMMA PostFrame ==
  ASSUME TypeOK, PastOK, NEW r \in Posts, post[r].pc = "new", NEW e \in Entry, e.pc \in {"refused", "nonce"},
         post' = [post EXCEPT ![r] = e], paid' = paid
  PROVE  /\ \A q \in Posts : post'[q] = IF q = r THEN e ELSE post[q]
         /\ r \notin Served /\ r \notin paid
         /\ \A q : q \in Served' <=> q \in Served \/ (q = r /\ e.pc = "nonce")
         /\ \A p \in Served : Reset(OfTo(post[p].to), p) => Reset(OfTo(post[p].to), p)'
         /\ \A p \in Served : Reset(OfIp(post[p].ip), p) => Reset(OfIp(post[p].ip), p)'
         /\ \A p, s \in Served : Lifted(OfTo(post[p].to), p, s) => Lifted(OfTo(post[p].to), p, s)'
         /\ \A p, s \in Served : Lifted(OfIp(post[p].ip), p, s) => Lifted(OfIp(post[p].ip), p, s)'
         /\ \A p \in Posts \ {r} : (Overlap(p) => Overlap(p)') /\ (Since(p) => Since(p)')
<1>1. \A q \in Posts : post'[q] = IF q = r THEN e ELSE post[q]
  BY DEF TypeOK
<1>2. r \notin Served /\ r \notin paid
  BY DEF Served, PastOK
<1>3. \A q : q \in Served' <=> q \in Served \/ (q = r /\ e.pc = "nonce")
  BY <1>1, <1>2 DEF Served
<1>4. \A p \in Served : p \in Posts /\ p # r /\ post'[p] = post[p]
  BY <1>1, <1>2 DEF Served
<1>5. \A q \in Posts : post[q].pc = "failed" => q \in Served
  BY DEF Served
<1>6. \A p \in Served : Reset(OfTo(post[p].to), p) => Reset(OfTo(post[p].to), p)'
  BY <1>4, <1>5 DEF Reset, OfTo
<1>7. \A p \in Served : Reset(OfIp(post[p].ip), p) => Reset(OfIp(post[p].ip), p)'
  BY <1>4, <1>5 DEF Reset, OfIp
<1>8. \A p, s \in Served : Lifted(OfTo(post[p].to), p, s) => Lifted(OfTo(post[p].to), p, s)'
  BY <1>4, <1>5 DEF Lifted, OfTo
<1>9. \A p, s \in Served : Lifted(OfIp(post[p].ip), p, s) => Lifted(OfIp(post[p].ip), p, s)'
  BY <1>4, <1>5 DEF Lifted, OfIp
<1>10. \A p \in Posts \ {r} : (Overlap(p) => Overlap(p)') /\ (Since(p) => Since(p)')
  BY <1>1, <1>2 DEF Overlap, Since, TypeOK
<1>. QED  BY <1>1, <1>2, <1>3, <1>6, <1>7, <1>8, <1>9, <1>10

\* A refusal is charged to nobody, and the mark that causes it is that of a
\* request which has not failed.
LEMMA RefusedInv ==
  ASSUME FaucetInv, NEW r \in Posts, Post(r), NEW ip \in Clients, NEW to \in Tos,
         IpLimited(r, ip, to) \/ ToLimited(r, ip, to)
  PROVE  FaucetInv'
<1>. USE FaucetAssumption DEF FaucetInv
<1>1. /\ post[r].pc = "new" /\ UNCHANGED <<time, count, cached, counted, paid, toHits>>
      /\ ipHits' \in [Clients -> Nat \cup {Nil}]
      /\ \A i \in Clients : ipHits'[i] = ipHits[i] \/ (ipHits'[i] = Nil /\ ~Limited(ipHits[i], IpLimit))
  BY DEF Post, IpLimited, ToLimited, TypeOK, marks
<1>2. PICK e \in Entry :
        /\ post' = [post EXCEPT ![r] = e] /\ e.pc = "refused" /\ e.ip = ip /\ e.to = to /\ e.at = time /\ e.end = time
        /\ \/ e.why = "ip" /\ Limited(ipHits[ip], IpLimit)
           \/ e.why = "to" /\ Limited(toHits[to], ToLimit)
  <2>. DEFINE d == Arrives(r, ip, to)
              f == [d EXCEPT !.pc = "refused", !.why = "ip"]
              g == [d EXCEPT !.pc = "refused", !.why = "to"]
  <2>1. f \in Entry /\ f.pc = "refused" /\ f.ip = ip /\ f.to = to /\ f.at = time /\ f.end = time /\ f.why = "ip"
    BY DEF Arrives, NewPost, Entry, Places, TypeOK
  <2>2. g \in Entry /\ g.pc = "refused" /\ g.ip = ip /\ g.to = to /\ g.at = time /\ g.end = time /\ g.why = "to"
    BY DEF Arrives, NewPost, Entry, Places, TypeOK
  <2>3. \/ post' = [post EXCEPT ![r] = f] /\ Limited(ipHits[ip], IpLimit)
        \/ post' = [post EXCEPT ![r] = g] /\ Limited(toHits[to], ToLimit)
    BY DEF IpLimited, ToLimited
  <2>. HIDE DEF f, g
  <2>. QED  BY <2>1, <2>2, <2>3
<1>3. /\ \A q \in Posts : post'[q] = IF q = r THEN e ELSE post[q]
      /\ r \notin Served /\ r \notin paid
      /\ Served' = Served
      /\ \A p \in Served : Reset(OfTo(post[p].to), p) => Reset(OfTo(post[p].to), p)'
      /\ \A p \in Served : Reset(OfIp(post[p].ip), p) => Reset(OfIp(post[p].ip), p)'
      /\ \A p, s \in Served : Lifted(OfTo(post[p].to), p, s) => Lifted(OfTo(post[p].to), p, s)'
      /\ \A p, s \in Served : Lifted(OfIp(post[p].ip), p, s) => Lifted(OfIp(post[p].ip), p, s)'
      /\ \A p \in Posts \ {r} : (Overlap(p) => Overlap(p)') /\ (Since(p) => Since(p)')
  <2>1. \A q : q \in Served' <=> q \in Served
    BY <1>1, <1>2, PostFrame
  <2>2. Served' = Served
    BY <2>1
  <2>3. /\ \A q \in Posts : post'[q] = IF q = r THEN e ELSE post[q]
        /\ r \notin Served /\ r \notin paid
    BY <1>1, <1>2, PostFrame
  <2>4. /\ \A p \in Served : Reset(OfTo(post[p].to), p) => Reset(OfTo(post[p].to), p)'
        /\ \A p \in Served : Reset(OfIp(post[p].ip), p) => Reset(OfIp(post[p].ip), p)'
    BY <1>1, <1>2, PostFrame
  <2>5. /\ \A p, s \in Served : Lifted(OfTo(post[p].to), p, s) => Lifted(OfTo(post[p].to), p, s)'
        /\ \A p, s \in Served : Lifted(OfIp(post[p].ip), p, s) => Lifted(OfIp(post[p].ip), p, s)'
    BY <1>1, <1>2, PostFrame
  <2>6. \A p \in Posts \ {r} : (Overlap(p) => Overlap(p)') /\ (Since(p) => Since(p)')
    BY <1>1, <1>2, PostFrame
  <2>. QED  BY <2>2, <2>3, <2>4, <2>5, <2>6
<1>4. Served \subseteq Posts /\ \A p \in Served : post'[p] = post[p]
  BY <1>3 DEF Served
<1>5. TypeOK'
  BY <1>1, <1>2 DEF TypeOK
<1>6. PastOK'
  BY <1>1, <1>2, <1>3, <1>4 DEF PastOK, TypeOK, Entry
<1>7. Covered' /\ Earned'
  BY <1>1, <1>3, <1>4, MarksExpire DEF TypeOK
<1>8. Spaced'
  BY <1>3, <1>4 DEF Spaced
<1>9. RefusedForCause'
  <2>. SUFFICES ASSUME NEW p \in Posts, post'[p].pc = "refused"
                PROVE  \E q \in Served \ {p} :
                         /\ post'[q].at <= post'[p].at /\ (post'[q].pc = "failed" => post'[q].end >= post'[p].at)
                         /\ IF post'[p].why = "ip" THEN post'[q].ip = post'[p].ip /\ post'[p].at - post'[q].at < IpLimit
                                                  ELSE post'[q].to = post'[p].to /\ post'[p].at - post'[q].at < ToLimit
    BY <1>3, <1>4 DEF RefusedForCause, Served
  <2>1. CASE p # r
    BY <2>1, <1>3, <1>4 DEF RefusedForCause, Served
  <2>2. CASE p = r
    <3>1. post'[p] = e
      BY <2>2, <1>3
    <3>2. CASE e.why = "ip"
      <4>1. ipHits[ip] # Nil /\ time - ipHits[ip] < IpLimit
        BY <3>2, <1>2 DEF Limited
      <4>2. PICK q \in Served : post[q].ip = ip /\ post[q].pc # "failed" /\ post[q].at = ipHits[ip]
        BY <4>1 DEF Earned
      <4>3. q # p /\ post'[q] = post[q] /\ post[q].at <= time
        BY <4>2, <2>2, <1>3, <1>4 DEF PastOK
      <4>. QED  BY <3>1, <3>2, <4>1, <4>2, <4>3, <1>2
    <3>3. CASE e.why = "to" /\ Limited(toHits[to], ToLimit)
      <4>1. toHits[to] # Nil /\ time - toHits[to] < ToLimit
        BY <3>3 DEF Limited
      <4>2. PICK q \in Served : post[q].to = to /\ post[q].pc # "failed" /\ post[q].at = toHits[to]
        BY <4>1 DEF Earned
      <4>3. q # p /\ post'[q] = post[q] /\ post[q].at <= time
        BY <4>2, <2>2, <1>3, <1>4 DEF PastOK
      <4>. QED  BY <3>1, <3>3, <4>1, <4>2, <4>3, <1>2
    <3>. QED  BY <3>2, <3>3, <1>2
  <2>. QED  BY <2>1, <2>2
<1>10. Behind'
  BY <1>1, <1>2, <1>3 DEF Behind
<1>11. NonceClashNeedsOverlap'
  <2>. SUFFICES ASSUME NEW p \in Posts, post'[p].why = "nonce" PROVE Overlap(p)'
    BY DEF NonceClashNeedsOverlap, Overlap
  <2>1. p # r /\ post[p].why = "nonce"
    BY <1>2, <1>3
  <2>2. Overlap(p)
    BY <2>1 DEF NonceClashNeedsOverlap, Overlap
  <2>. QED  BY <2>1, <2>2, <1>3
<1>12. CachedOK' /\ CallsOK' /\ CountedOK'
  <2>1. CachedOK'
    BY <1>1, <1>3, <1>4 DEF CachedOK
  <2>2. CallsOK'
    BY <1>2, <1>3, <1>4 DEF CallsOK
  <2>3. CountedOK'
    BY <1>1, <1>3, <1>4 DEF CountedOK
  <2>. QED  BY <2>1, <2>2, <2>3
<1>. QED  BY <1>5, <1>6, <1>7, <1>8, <1>9, <1>10, <1>11, <1>12

\* Who is admitted finds no mark within the window: everyone served in it
\* was lifted by a failure.
LEMMA AdmittedInv ==
  ASSUME FaucetInv, NEW r \in Posts, Post(r), NEW ip \in Clients, NEW to \in Tos, Accepted(r, ip, to)
  PROVE  FaucetInv'
<1>. USE FaucetAssumption DEF FaucetInv
<1>. DEFINE c == IF cached = Nil THEN r ELSE cached
            e == [Arrives(r, ip, to) EXCEPT !.pc = "nonce", !.call = c]
<1>1. /\ post[r].pc = "new" /\ UNCHANGED <<time, count, counted, paid>> /\ time \in Nat
      /\ cached' = c /\ c \in Posts
      /\ ~Limited(ipHits[ip], IpLimit) /\ ~Limited(toHits[to], ToLimit)
      /\ ipHits' = [ipHits EXCEPT ![ip] = time] /\ toHits' = [toHits EXCEPT ![to] = time]
      /\ post' = [post EXCEPT ![r] = e]
  BY DEF Post, Accepted, TypeOK
<1>. HIDE DEF c
<1>2. /\ e \in Entry /\ e.pc = "nonce" /\ e.ip = ip /\ e.to = to /\ e.at = time /\ e.end = time /\ e.why = Nil
      /\ e.call = c
  BY <1>1 DEF Arrives, NewPost, Entry, Places, TypeOK
<1>. HIDE DEF e
<1>3. /\ \A q \in Posts : post'[q] = IF q = r THEN e ELSE post[q]
      /\ r \notin Served /\ r \notin paid
      /\ \A q : q \in Served' <=> q \in Served \/ q = r
      /\ \A p \in Served : Reset(OfTo(post[p].to), p) => Reset(OfTo(post[p].to), p)'
      /\ \A p \in Served : Reset(OfIp(post[p].ip), p) => Reset(OfIp(post[p].ip), p)'
      /\ \A p, s \in Served : Lifted(OfTo(post[p].to), p, s) => Lifted(OfTo(post[p].to), p, s)'
      /\ \A p, s \in Served : Lifted(OfIp(post[p].ip), p, s) => Lifted(OfIp(post[p].ip), p, s)'
      /\ \A p \in Posts \ {r} : (Overlap(p) => Overlap(p)') /\ (Since(p) => Since(p)')
  <2>1. /\ \A q \in Posts : post'[q] = IF q = r THEN e ELSE post[q]
        /\ r \notin Served /\ r \notin paid
    BY <1>1 DEF TypeOK, PastOK, Served
  <2>5. \A q : q \in Served' <=> q \in Served \/ q = r
    BY <1>1, <1>2, PostFrame
  <2>2. /\ \A p \in Served : Reset(OfTo(post[p].to), p) => Reset(OfTo(post[p].to), p)'
        /\ \A p \in Served : Reset(OfIp(post[p].ip), p) => Reset(OfIp(post[p].ip), p)'
    BY <1>1, <1>2, PostFrame
  <2>3. /\ \A p, s \in Served : Lifted(OfTo(post[p].to), p, s) => Lifted(OfTo(post[p].to), p, s)'
        /\ \A p, s \in Served : Lifted(OfIp(post[p].ip), p, s) => Lifted(OfIp(post[p].ip), p, s)'
    BY <1>1, <1>2, PostFrame
  <2>4. \A p \in Posts \ {r} : (Overlap(p) => Overlap(p)') /\ (Since(p) => Since(p)')
    BY <1>1, <1>2, PostFrame
  <2>. QED  BY <2>1, <2>2, <2>3, <2>4, <2>5
<1>4. Served \subseteq Posts /\ r \notin Served /\ \A p \in Served : post'[p] = post[p]
  BY <1>3 DEF Served
<1>5. TypeOK'
  BY <1>1, <1>2 DEF TypeOK
<1>6. PastOK'
  <2>1. \A q \in Posts : post'[q].at <= time' /\ post'[q].end <= time'
    BY <1>1, <1>2, <1>3 DEF PastOK
  <2>2. \A q \in Served' : post'[q].ip \in Clients /\ post'[q].to \in Tos
    BY <1>2, <1>3, <1>4 DEF PastOK
  <2>3. \A q \in paid' : post'[q].pc \in {"taken", "catch", "ok", "failed"}
    BY <1>1, <1>3 DEF PastOK, TypeOK
  <2>. QED  BY <2>1, <2>2, <2>3 DEF PastOK
<1>7. Covered'
  <2>. SUFFICES ASSUME NEW p \in Served'
                PROVE  /\ time' - post'[p].at < ToLimit =>
                            \/ toHits'[post'[p].to] \in Nat /\ toHits'[post'[p].to] >= post'[p].at
                            \/ Reset(OfTo(post[p].to), p)'
                       /\ time' - post'[p].at < IpLimit =>
                            \/ ipHits'[post'[p].ip] \in Nat /\ ipHits'[post'[p].ip] >= post'[p].at
                            \/ Reset(OfIp(post[p].ip), p)'
    BY DEF Covered
  <2>1. /\ \A a \in Tos : toHits'[a] = IF a = to THEN time ELSE toHits[a]
        /\ \A i \in Clients : ipHits'[i] = IF i = ip THEN time ELSE ipHits[i]
    BY <1>1 DEF TypeOK
  <2>2. CASE p = r
    BY <1>1, <1>2, <1>3, <2>1, <2>2
  <2>3. CASE p \in Served
    <3>1. post'[p] = post[p] /\ post[p].to \in Tos /\ post[p].ip \in Clients /\ post[p].at <= time /\ time' = time
      BY <2>3, <1>1, <1>4 DEF PastOK
    <3>2. /\ time - post[p].at < ToLimit =>
               (toHits[post[p].to] \in Nat /\ toHits[post[p].to] >= post[p].at) \/ Reset(OfTo(post[p].to), p)'
          /\ time - post[p].at < IpLimit =>
               (ipHits[post[p].ip] \in Nat /\ ipHits[post[p].ip] >= post[p].at) \/ Reset(OfIp(post[p].ip), p)'
      BY <2>3, <1>3 DEF Covered
    <3>3. post[p].at \in Nat
      BY <2>3, <1>4 DEF TypeOK, Entry
    <3>. QED  BY <1>1, <2>1, <3>1, <3>2, <3>3
  <2>. QED  BY <1>3, <2>2, <2>3
<1>8. Earned'
  <2>1. ASSUME NEW a \in Tos, toHits'[a] # Nil
        PROVE  \E q \in Served' : post'[q].to = a /\ post'[q].pc # "failed" /\ post'[q].at = toHits'[a]
    <3>1. CASE a = to
      BY <3>1, <1>1, <1>2, <1>3 DEF TypeOK
    <3>2. CASE a # to
      BY <3>2, <2>1, <1>1, <1>3, <1>4 DEF Earned, TypeOK
    <3>. QED  BY <3>1, <3>2
  <2>2. ASSUME NEW i \in Clients, ipHits'[i] # Nil
        PROVE  \E q \in Served' : post'[q].ip = i /\ post'[q].pc # "failed" /\ post'[q].at = ipHits'[i]
    <3>1. CASE i = ip
      BY <3>1, <1>1, <1>2, <1>3 DEF TypeOK
    <3>2. CASE i # ip
      BY <3>2, <2>2, <1>1, <1>3, <1>4 DEF Earned, TypeOK
    <3>. QED  BY <3>1, <3>2
  <2>. QED  BY <2>1, <2>2 DEF Earned
<1>9. ASSUME NEW p \in Served
      PROVE  /\ post[p].to = to /\ time - post[p].at < ToLimit => Reset(OfTo(post[p].to), p)
             /\ post[p].ip = ip /\ time - post[p].at < IpLimit => Reset(OfIp(post[p].ip), p)
  <2>1. post[p].at \in Nat /\ ToLimit \in Nat /\ IpLimit \in Nat
    BY <1>4 DEF TypeOK, Entry
  <2>2. /\ toHits[to] \in Nat => ~(time - toHits[to] < ToLimit)
        /\ ipHits[ip] \in Nat => ~(time - ipHits[ip] < IpLimit)
    BY <1>1 DEF Limited
  <2>. QED  BY <1>1, <2>1, <2>2 DEF Covered
<1>10. Spaced'
  <2>. SUFFICES ASSUME NEW p \in Served', NEW s \in Served', p # s, post'[p].at <= post'[s].at
                PROVE  /\ post'[p].to = post'[s].to /\ post'[s].at - post'[p].at < ToLimit => Lifted(OfTo(post[p].to), p, s)'
                       /\ post'[p].ip = post'[s].ip /\ post'[s].at - post'[p].at < IpLimit => Lifted(OfIp(post[p].ip), p, s)'
    BY DEF Spaced
  <2>. DEFINE f == IF s = r THEN p ELSE s   \* the one of the two that is not r
  <2>1. CASE p \in Served /\ s \in Served
    BY <2>1, <1>3, <1>4 DEF Spaced
  <2>2. CASE p = r \/ s = r
    <3>1. f \in Served /\ f # r /\ post'[f] = post[f] /\ post'[r] = e
      BY <2>2, <1>3, <1>4
    <3>2. post'[s].at = time /\ post[f].at <= time /\ post[f].at \in Nat /\ post'[p].at = post[f].at
      <4>1. post[f].at <= time /\ post[f].at \in Nat /\ post'[r].at = time
        BY <3>1, <1>2, <1>4 DEF PastOK, TypeOK, Entry
      <4>2. (p = r /\ f = s) \/ (s = r /\ f = p)
        BY <2>2
      <4>. QED  BY <4>1, <4>2, <3>1, <1>1
    <3>3. /\ post'[p].to = post'[s].to /\ post'[s].at - post'[p].at < ToLimit => Reset(OfTo(post[f].to), f)
          /\ post'[p].ip = post'[s].ip /\ post'[s].at - post'[p].at < IpLimit => Reset(OfIp(post[f].ip), f)
      BY <2>2, <3>1, <3>2, <1>2, <1>9
    <3>4. /\ Reset(OfTo(post[f].to), f) => Reset(OfTo(post[f].to), f)'
          /\ Reset(OfIp(post[f].ip), f) => Reset(OfIp(post[f].ip), f)'
      BY <3>1, <1>3
    <3>5. \A R \in SUBSET Posts : Reset(R, f)' => Lifted(R, p, s)'
      BY <3>1, <3>2, <1>1, <1>5, <1>6 DEF Reset, Lifted, PastOK, TypeOK, Entry
    <3>6. /\ post'[p].to = post'[s].to => OfTo(post[f].to)' = OfTo(post[p].to)'
          /\ post'[p].ip = post'[s].ip => OfIp(post[f].ip)' = OfIp(post[p].ip)'
      BY <2>2, <3>1, <1>3
    <3>7. OfTo(post[f].to)' \in SUBSET Posts /\ OfIp(post[f].ip)' \in SUBSET Posts
      BY DEF OfTo, OfIp
    <3>8. /\ Reset(OfTo(post[f].to), f)' => Lifted(OfTo(post[f].to), p, s)'
          /\ Reset(OfIp(post[f].ip), f)' => Lifted(OfIp(post[f].ip), p, s)'
      BY <3>5, <3>7 DEF Reset, Lifted
    <3>9. /\ post'[p].to = post'[s].to /\ Lifted(OfTo(post[f].to), p, s)' => Lifted(OfTo(post[p].to), p, s)'
          /\ post'[p].ip = post'[s].ip /\ Lifted(OfIp(post[f].ip), p, s)' => Lifted(OfIp(post[p].ip), p, s)'
      BY <3>6 DEF Lifted
    <3>. QED  BY <3>3, <3>4, <3>8, <3>9
  <2>. QED  BY <1>3, <2>1, <2>2
<1>11. RefusedForCause'
  <2>. SUFFICES ASSUME NEW p \in Posts, post'[p].pc = "refused"
                PROVE  \E q \in Served \ {p} :
                         /\ post'[q].at <= post'[p].at /\ (post'[q].pc = "failed" => post'[q].end >= post'[p].at)
                         /\ IF post'[p].why = "ip" THEN post'[q].ip = post'[p].ip /\ post'[p].at - post'[q].at < IpLimit
                                                  ELSE post'[q].to = post'[p].to /\ post'[p].at - post'[q].at < ToLimit
    BY <1>3, <1>4 DEF RefusedForCause, Served
  <2>1. p # r /\ post'[p] = post[p]
    BY <1>2, <1>3
  <2>. QED  BY <2>1, <1>4 DEF RefusedForCause, Served
<1>12. Behind'
  BY <1>1, <1>2, <1>3 DEF Behind
<1>13. NonceClashNeedsOverlap'
  <2>. SUFFICES ASSUME NEW p \in Posts, post'[p].why = "nonce" PROVE Overlap(p)'
    BY DEF NonceClashNeedsOverlap, Overlap
  <2>1. p # r /\ post[p].why = "nonce"
    BY <1>2, <1>3
  <2>2. Overlap(p)
    BY <2>1 DEF NonceClashNeedsOverlap, Overlap
  <2>. QED  BY <2>1, <2>2, <1>3
<1>14. c \in Served' /\ time <= post'[c].at + CacheTime /\ post'[c].at \in Nat
  <2>1. CASE cached = Nil
    BY <2>1, <1>1, <1>2, <1>3 DEF c
  <2>2. CASE cached # Nil
    <3>1. c = cached /\ cached \in Served /\ time <= post[cached].at + CacheTime
      BY <2>2 DEF c, CachedOK
    <3>. QED  BY <3>1, <1>3, <1>4 DEF TypeOK, Entry
  <2>. QED  BY <2>1, <2>2
<1>15. CachedOK'
  BY <1>1, <1>14 DEF CachedOK
<1>16. CallsOK'
  <2>. SUFFICES ASSUME NEW p \in Posts, post'[p].pc = "nonce"
                PROVE  post'[p].call \in Served' /\ post'[p].at <= post'[post'[p].call].at + CacheTime
    BY DEF CallsOK
  <2>1. CASE p = r
    BY <2>1, <1>2, <1>3, <1>14
  <2>2. CASE p # r
    <3>1. post'[p] = post[p] /\ post[p].call \in Served /\ post[p].at <= post[post[p].call].at + CacheTime
      BY <2>2, <1>3 DEF CallsOK
    <3>. QED  BY <3>1, <1>3, <1>4
  <2>. QED  BY <2>1, <2>2
<1>17. CountedOK'
  BY <1>1, <1>3, <1>4 DEF CountedOK
<1>. QED  BY <1>5, <1>6, <1>7, <1>8, <1>10, <1>11, <1>12, <1>13, <1>15, <1>16, <1>17

LEMMA StepInv ==
  FaucetInv /\ [FaucetNext]_faucetVars => FaucetInv'
<1>. SUFFICES ASSUME FaucetInv, [FaucetNext]_faucetVars PROVE FaucetInv'
  OBVIOUS
<1>1. CASE Elapse \/ Cleanup \/ Forget
  BY <1>1, TimeInv
<1>2. ASSUME NEW r \in Posts, Post(r) PROVE FaucetInv'
  <2>1. PICK ip \in Clients, to \in Tos : IpLimited(r, ip, to) \/ ToLimited(r, ip, to) \/ Accepted(r, ip, to)
    BY <1>2 DEF Post
  <2>2. CASE IpLimited(r, ip, to) \/ ToLimited(r, ip, to)
    BY <1>2, <2>2, RefusedInv
  <2>3. CASE Accepted(r, ip, to)
    BY <1>2, <2>3, AdmittedInv
  <2>. QED  BY <2>1, <2>2, <2>3
<1>3. ASSUME NEW r \in Posts, Handler(r) PROVE FaucetInv'
  BY <1>3, CallInv, CatchInv DEF Handler
<1>4. ASSUME NEW r \in Posts, Counts(r) PROVE FaucetInv'
  BY <1>4, CountsInv
<1>5. CASE UNCHANGED faucetVars
  <2>1. /\ UNCHANGED <<time, ipHits, toHits, post, count, cached, counted, paid>>
        /\ Served' = Served
    BY <1>5 DEF faucetVars, marks, calls, Served
  <2>2. (TypeOK /\ PastOK /\ Earned)'
    BY <2>1 DEF FaucetInv, TypeOK, PastOK, Earned
  <2>3. (Covered /\ Spaced)'
    BY <2>1 DEF FaucetInv, Covered, Spaced, Reset, Lifted, OfTo, OfIp
  <2>4. (RefusedForCause /\ Behind /\ NonceClashNeedsOverlap)'
    BY <2>1 DEF FaucetInv, RefusedForCause, Behind, Overlap, NonceClashNeedsOverlap
  <2>5. (CachedOK /\ CallsOK /\ CountedOK)'
    BY <2>1 DEF FaucetInv, CachedOK, CallsOK, CountedOK, Since
  <2>. QED  BY <2>2, <2>3, <2>4, <2>5 DEF FaucetInv
<1>. QED  BY <1>1, <1>2, <1>3, <1>4, <1>5 DEF FaucetNext

-----------------------------------------------------------------------------

\* The inductive invariant holds for any number of requests, clients and
\* addresses, and any two windows (server.js:139-165).
THEOREM FaucetInvHolds ==
  FaucetSpec => []FaucetInv
<1>. QED  BY InitInv, StepInv, PTL DEF FaucetSpec

\* The limits hold of all requests whose transaction the node took
\* (server.js:139-158).
THEOREM LimitsAlwaysHold ==
  FaucetSpec => []LimitsHold
<1>1. FaucetInv => LimitsHold
  <2>. SUFFICES ASSUME FaucetInv PROVE LimitsHold
    OBVIOUS
  <2>1. paid \subseteq Served
    BY DEF FaucetInv, TypeOK, PastOK, Served
  <2>. QED  BY <2>1 DEF FaucetInv, Spaced, LimitsHold
<1>. QED  BY <1>1, FaucetInvHolds, PTL

\* Every refusal has another request as its cause, one that was served within
\* the window and had not failed (server.js:145-157).
THEOREM RefusalsHaveCause ==
  FaucetSpec => []RefusedForCause
<1>1. FaucetInv => RefusedForCause
  BY DEF FaucetInv
<1>. QED  BY <1>1, FaucetInvHolds, PTL

\* A nonce is refused only to a request that overlaps another one, or came
\* within the time of the provider's cache after it (server.js:153).
THEOREM ClashesNeedOverlap ==
  FaucetSpec => []NonceClashNeedsOverlap
<1>1. FaucetInv => NonceClashNeedsOverlap
  BY DEF FaucetInv
<1>. QED  BY <1>1, FaucetInvHolds, PTL
----------------------------------------------------------------------------
(* The containers: what holds of every state *)

Complete(file) == file \notin {NoFile, Torn}

\* Only node 1 is ever at these labels.
Building == {"build", "waitInfo", "writeMultiaddr", "writingMultiaddr", "genesis", "writingGenesis"}
Writing == {"writeMultiaddr", "writingMultiaddr", "genesis", "writingGenesis"}

\* The keys on disk, and what was published of them.
KeysOK ==
  /\ key \in [Nodes -> Nat \cup {NoFile, Torn}]
  /\ info \in [Nodes -> Nat \cup {NoFile, Torn}]
  /\ \A n \in Nodes :
       /\ pc[n] = "secretsInit" => key[n] = Torn
       /\ Complete(info[n]) => info[n] = key[n]

\* What node 1 read are the keys of all, and nobody replaces keys that are
\* complete.
ReadOK ==
  pc[First] \in Writing =>
    read \in [Nodes -> Nat] /\ \A n \in Nodes : read[n] = key[n]

\* The genesis is written once: while node 1 is before it there is none, and
\* while node 1 is at it the file is torn.
GenesisOK ==
  /\ genesis # NoFile \/ pc[First] \in {"genesis", "writingGenesis"} => multiaddr # NoFile
  /\ pc[First] \in Building \ {"build", "writingGenesis"} => genesis = NoFile
  /\ pc[First] = "writingGenesis" => genesis = Torn
  /\ Complete(genesis) =>
       genesis \in [Nodes -> Nat] /\ \A n \in Nodes : genesis[n] = key[n]

\* Where a container is tells what it has seen.
PlacesOK ==
  \A n \in Nodes :
    /\ pc[n] \in Building => n = First
    /\ pc[n] \in {"waitMultiaddr", "server"} => genesis # NoFile
    /\ pc[n] = "running" => Complete(genesis) /\ chain[n] = genesis

\* The inductive invariant.
DockerInv ==
  /\ pc = [n \in Nodes |-> pc[n]] /\ chain = [n \in Nodes |-> chain[n]] /\ wipes \in Nat
  /\ KeysOK /\ ReadOK /\ GenesisOK /\ PlacesOK

----------------------------------------------------------------------------

\* Before the first start nothing is there.
LEMMA DockerInit == ComposeInit => DockerInv
BY DockerAssumption, FileAssumption
DEF ComposeInit, DockerInv, KeysOK, ReadOK, GenesisOK, PlacesOK, Complete, Building, Writing

\* Every step of a container and of Docker keeps the invariant.
LEMMA DockerStep == DockerInv /\ [ComposeNext]_composeVars => DockerInv'
<1> SUFFICES ASSUME DockerInv, [ComposeNext]_composeVars PROVE DockerInv'
  OBVIOUS
<1> USE DockerAssumption, FileAssumption
    DEF DockerInv, KeysOK, ReadOK, GenesisOK, PlacesOK, Complete, Building, Writing,
        own, shared, bounds, Goto
<1>1. ASSUME ComposeUp PROVE DockerInv'
  BY <1>1 DEF ComposeUp
<1>2. ASSUME NEW n \in Nodes, Kill(n) PROVE DockerInv'
  BY <1>2 DEF Kill
<1>3. ASSUME DownVolumes PROVE DockerInv'
  BY <1>3 DEF DownVolumes
<1>4. ASSUME NEW n \in Nodes, EnsureSecrets(n) PROVE DockerInv'
  BY <1>4 DEF EnsureSecrets
<1>5. ASSUME NEW n \in Nodes, SecretsInit(n) PROVE DockerInv'
  BY <1>5 DEF SecretsInit
<1>6. ASSUME NEW n \in Nodes, OpenInfo(n) PROVE DockerInv'
  BY <1>6 DEF OpenInfo
<1>7. ASSUME NEW n \in Nodes, WriteInfo(n) PROVE DockerInv'
  BY <1>7 DEF WriteInfo
<1>8. ASSUME NEW n \in Nodes, BuildGenesis(n) PROVE DockerInv'
  BY <1>8 DEF BuildGenesis
<1>9. ASSUME NEW n \in Nodes, ReadInfo(n) PROVE DockerInv'
  BY <1>9 DEF ReadInfo, AllInfo
<1>10. ASSUME NEW n \in Nodes, OpenMultiaddr(n) PROVE DockerInv'
  BY <1>10 DEF OpenMultiaddr
<1>11. ASSUME NEW n \in Nodes, WriteMultiaddr(n) PROVE DockerInv'
  BY <1>11 DEF WriteMultiaddr
<1>12. ASSUME NEW n \in Nodes, OpenGenesis(n) PROVE DockerInv'
  BY <1>12 DEF OpenGenesis
<1>13. ASSUME NEW n \in Nodes, WriteGenesis(n) PROVE DockerInv'
  BY <1>13 DEF WriteGenesis
<1>14. ASSUME NEW n \in Nodes, SeesGenesis(n) PROVE DockerInv'
  BY <1>14 DEF SeesGenesis
<1>15. ASSUME NEW n \in Nodes, SeesMultiaddr(n) PROVE DockerInv'
  BY <1>15 DEF SeesMultiaddr
<1>16. ASSUME NEW n \in Nodes, TimedOut(n) PROVE DockerInv'
  BY <1>16 DEF TimedOut
<1>17. ASSUME NEW n \in Nodes, Server(n) PROVE DockerInv'
  BY <1>17 DEF Server
<1>18. CASE UNCHANGED composeVars
  BY <1>18 DEF composeVars
<1> QED
  BY <1>1, <1>2, <1>3, <1>4, <1>5, <1>6, <1>7, <1>8, <1>9, <1>10, <1>11, <1>12, <1>13, <1>14, <1>15, <1>16, <1>17, <1>18 DEF ComposeNext, Entrypoint

\* Every state of the containers satisfies the invariant.
THEOREM DockerInvariant == ComposeSpec => []DockerInv
BY DockerInit, DockerStep, PTL DEF ComposeSpec

\* Whoever runs is on the genesis of the shared volume, and is a validator of
\* it (entrypoint.sh:73, 92).
THEOREM DockerRunningAgree == ComposeSpec => []RunningAgree
<1>1. DockerInv => RunningAgree
  BY DEF DockerInv, GenesisOK, PlacesOK, Complete, RunningAgree
<1> QED
  BY <1>1, DockerInvariant, PTL

\* The one step that writes a genesis finds it torn: a complete genesis stays
\* until its volume is removed (entrypoint.sh:73).
THEOREM DockerGenesisStays == ComposeSpec => GenesisStays
<1> DEFINE Stays == Complete(genesis) /\ wipes' = wipes => genesis' = genesis
<1>1. DockerInv /\ [ComposeNext]_composeVars => [Stays]_composeVars
  <2> SUFFICES ASSUME DockerInv, [ComposeNext]_composeVars, Complete(genesis), wipes' = wipes
               PROVE  genesis' = genesis
    BY DEF composeVars
  <2> USE DEF shared, Complete
  <2>1. CASE ComposeUp
    BY <2>1 DEF ComposeUp
  <2>2. ~DownVolumes
    BY DEF DownVolumes, DockerInv
  <2>3. ASSUME NEW n \in Nodes, Kill(n) PROVE genesis' = genesis
    BY <2>3 DEF Kill
  <2>4. ASSUME NEW n \in Nodes, Entrypoint(n) PROVE genesis' = genesis
    <3>1. ~OpenGenesis(n) /\ ~WriteGenesis(n)
      BY DEF OpenGenesis, WriteGenesis, DockerInv, GenesisOK, PlacesOK, Building
    <3> QED
      BY <2>4, <3>1 DEF Entrypoint, EnsureSecrets, SecretsInit, OpenInfo, WriteInfo, BuildGenesis,
           ReadInfo, OpenMultiaddr, WriteMultiaddr, SeesGenesis, SeesMultiaddr, TimedOut, Server
  <2> QED
    BY <2>1, <2>2, <2>3, <2>4 DEF ComposeNext, composeVars
<1> QED
  BY <1>1, DockerInvariant, PTL DEF ComposeSpec, GenesisStays, Complete
=============================================================================
