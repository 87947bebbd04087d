------------------------------- MODULE Faucet -------------------------------
(***************************************************************************)
(* The faucet, tools/faucet/server.js: POST /faucet with its two rate      *)
(* limits and the transaction it sends.  The handler runs in one turn of   *)
(* the event loop up to wallet.sendTransaction, whose calls to the node,   *)
(* for the nonce and for the broadcast, other requests run between.  The   *)
(* first goes through the provider, which answers equal calls of a quarter *)
(* of a second with one call to the node.  A failure of either lifts the   *)
(* limits of the address and the client.  Requests that carry a wrong      *)
(* token or no address end before any state changes and are left out.      *)
(***************************************************************************)
EXTENDS Integers, FiniteSets

CONSTANTS
  NumPosts,     \* bound on the requests, which are numbered as they come
  Clients, Tos, \* clients and addresses they name
  IpLimit,      \* IP_LIMIT_MS and TO_LIMIT_MS, in ticks of the clock
  ToLimit,
  CacheTime,    \* cacheTimeout of the provider, 250 ms
  MaxClock,     \* bound on the clock
  Nil

ASSUME FaucetAssumption ==
  /\ NumPosts \in Nat /\ IpLimit \in Nat \ {0} /\ ToLimit \in Nat \ {0}
  /\ CacheTime \in Nat /\ MaxClock \in Nat
  /\ Nil \notin Nat \cup Clients \cup Tos \cup {"ip", "to", "nonce", "rpc"}

Posts == 1..NumPosts

VARIABLES
  time,         \* Date.now()
  ipHits,       \* client -> time of its mark
  toHits,       \* address -> time of its mark
  post,         \* the requests, as their handlers see them
  count,        \* transactions of the funder the node has
  cached,       \* the request whose call for the count the provider shares
  counted,      \* request -> what the call it made for the count came to
  paid          \* history: the requests whose transaction the node took

marks == <<ipHits, toHits>>
calls == <<cached, counted>>
faucetVars == <<time, marks, post, count, calls, paid>>

NewPost == [pc |-> "new", ip |-> Nil, to |-> Nil, at |-> 0, end |-> 0, call |-> Nil, nonce |-> 0,
            why |-> Nil]

FaucetInit ==
  /\ time = 0
  /\ ipHits = [i \in Clients |-> Nil]
  /\ toHits = [a \in Tos |-> Nil]
  /\ post = [r \in Posts |-> NewPost]
  /\ count = 0
  /\ cached = Nil /\ counted = [r \in Posts |-> Nil]
  /\ paid = {}

\* Timers run in their tick: the provider keeps no call beyond its time.
Elapse ==
  /\ time < MaxClock /\ (cached # Nil => time < post[cached].at + CacheTime)
  /\ time' = time + 1
  /\ UNCHANGED <<marks, post, count, calls, paid>>

\* markAndCheckRateLimit: a mark younger than the window refuses, and stays.
Limited(mark, window) == mark # Nil /\ time - mark < window

Arrives(r, ip, to) == [NewPost EXCEPT !.ip = ip, !.to = to, !.at = time, !.end = time]

IpLimited(r, ip, to) ==
  /\ Limited(ipHits[ip], IpLimit)
  /\ post' = [post EXCEPT ![r] = [Arrives(r, ip, to) EXCEPT !.pc = "refused", !.why = "ip"]]
  /\ UNCHANGED <<marks, cached>>

\* MUTANT: the mark of the client is left when the address is refused.
ToLimitedKeeps(r, ip, to) ==
  /\ ~Limited(ipHits[ip], IpLimit) /\ Limited(toHits[to], ToLimit)
  /\ ipHits' = [ipHits EXCEPT ![ip] = time]
  /\ post' = [post EXCEPT ![r] = [Arrives(r, ip, to) EXCEPT !.pc = "refused", !.why = "to"]]
  /\ UNCHANGED <<toHits, cached>>

\* The client was marked a moment ago, and the mark is taken back.
ToLimited(r, ip, to) ==
  /\ ~Limited(ipHits[ip], IpLimit) /\ Limited(toHits[to], ToLimit)
  /\ ipHits' = [ipHits EXCEPT ![ip] = Nil]
  /\ post' = [post EXCEPT ![r] = [Arrives(r, ip, to) EXCEPT !.pc = "refused", !.why = "to"]]
  /\ UNCHANGED <<toHits, cached>>

\* In the same turn the provider is asked for the count: it makes a call, or
\* lets the request wait for the call it shares.
Accepted(r, ip, to) ==
  /\ ~Limited(ipHits[ip], IpLimit) /\ ~Limited(toHits[to], ToLimit)
  /\ ipHits' = [ipHits EXCEPT ![ip] = time]
  /\ toHits' = [toHits EXCEPT ![to] = time]
  /\ cached' = IF cached = Nil THEN r ELSE cached
  /\ post' = [post EXCEPT ![r] = [Arrives(r, ip, to) EXCEPT !.pc = "nonce", !.call = cached']]

Post(r) ==
  /\ post[r].pc = "new" /\ \A q \in 1..(r - 1) : post[q].pc # "new"
  /\ \E ip \in Clients, to \in Tos : IpLimited(r, ip, to) \/ ToLimited(r, ip, to) \/ Accepted(r, ip, to)
  /\ UNCHANGED <<time, count, counted, paid>>

\* setTimeout: the provider forgets the call, answered or not.
Forget ==
  /\ cached # Nil /\ time = post[cached].at + CacheTime
  /\ cached' = Nil
  /\ UNCHANGED <<time, marks, post, count, counted, paid>>

\* The node counts the funder's transactions, those not mined included, for a
\* call that somebody waits for or may come to wait for.
Counts(r) ==
  /\ counted[r] = Nil /\ (cached = r \/ \E q \in Posts : post[q].pc = "nonce" /\ post[q].call = r)
  /\ counted' = [counted EXCEPT ![r] = count]
  /\ UNCHANGED <<time, marks, post, count, cached, paid>>

\* MUTANT: the nonce is counted once, when the faucet starts.
NonceOfStart(r) ==
  /\ post[r].pc = "nonce"
  /\ post' = [post EXCEPT ![r].pc = "send", ![r].call = Nil, ![r].nonce = 0]
  /\ UNCHANGED <<time, marks, count, calls, paid>>

Nonce(r) ==
  /\ post[r].pc = "nonce" /\ counted[post[r].call] # Nil
  /\ post' = [post EXCEPT ![r].pc = "send", ![r].call = Nil, ![r].nonce = counted[post[r].call]]
  /\ UNCHANGED <<time, marks, count, calls, paid>>

\* The node takes the transaction if its nonce is still the next one.  (Of
\* two equal ones, to one address in one such quarter of a second, the
\* provider sends one and reports it twice; here the second is refused.)
Broadcast(r) ==
  /\ post[r].pc = "send"
  /\ \/ /\ post[r].nonce = count
        /\ count' = count + 1
        /\ paid' = paid \cup {r}
        /\ post' = [post EXCEPT ![r].pc = "taken", ![r].nonce = 0]
     \/ /\ post[r].nonce # count
        /\ post' = [post EXCEPT ![r].pc = "catch", ![r].nonce = 0, ![r].why = "nonce"]
        /\ UNCHANGED <<count, paid>>
  /\ UNCHANGED <<time, marks, calls>>

\* A call fails, or its answer does not come.
CallFails(r) ==
  /\ post[r].pc \in {"nonce", "send", "taken"}
  /\ post' = [post EXCEPT ![r].pc = "catch", ![r].call = Nil, ![r].nonce = 0, ![r].why = "rpc"]
  /\ UNCHANGED <<time, marks, count, calls, paid>>

Succeeds(r) ==
  /\ post[r].pc = "taken"
  /\ post' = [post EXCEPT ![r].pc = "ok", ![r].end = time]
  /\ UNCHANGED <<time, marks, count, calls, paid>>

\* Both marks go, whoever set them.
Catch(r) ==
  /\ post[r].pc = "catch"
  /\ ipHits' = [ipHits EXCEPT ![post[r].ip] = Nil]
  /\ toHits' = [toHits EXCEPT ![post[r].to] = Nil]
  /\ post' = [post EXCEPT ![r].pc = "failed", ![r].end = time]
  /\ UNCHANGED <<time, count, calls, paid>>

\* MUTANT: the marks of addresses are cleaned with the window of clients.
CleanupShort ==
  /\ ipHits' = [i \in Clients |-> IF Limited(ipHits[i], IpLimit) THEN ipHits[i] ELSE Nil]
  /\ toHits' = [a \in Tos |-> IF Limited(toHits[a], IpLimit) THEN toHits[a] ELSE Nil]
  /\ UNCHANGED <<time, post, count, calls, paid>>

\* setInterval: marks past their window are deleted.
Cleanup ==
  /\ ipHits' = [i \in Clients |-> IF Limited(ipHits[i], IpLimit) THEN ipHits[i] ELSE Nil]
  /\ toHits' = [a \in Tos |-> IF Limited(toHits[a], ToLimit) THEN toHits[a] ELSE Nil]
  /\ UNCHANGED <<time, post, count, calls, paid>>

Handler(r) == Nonce(r) \/ Broadcast(r) \/ CallFails(r) \/ Succeeds(r) \/ Catch(r)

FaucetNext == Elapse \/ Cleanup \/ Forget \/ \E r \in Posts : Post(r) \/ Counts(r) \/ Handler(r)

FaucetSpec == FaucetInit /\ [][FaucetNext]_faucetVars

----------------------------------------------------------------------------
(* What must hold *)

OfIp(ip) == {q \in Posts : post[q].ip = ip}
OfTo(to) == {q \in Posts : post[q].to = to}

\* One of the requests was answered with an error between r and s, which
\* lifts the limit for all of them.
Lifted(requests, r, s) ==
  \E q \in requests : post[q].pc = "failed" /\ post[q].end >= post[r].at /\ post[q].end <= post[s].at

\* An address is paid once in five minutes and a client once in one, unless
\* an error was reported in between (server.js:139-158).  A payment whose
\* answer was lost counts as both.
LimitsHold ==
  \A r, s \in paid : r # s /\ post[r].at <= post[s].at =>
    /\ post[r].to = post[s].to /\ post[s].at - post[r].at < ToLimit => Lifted(OfTo(post[r].to), r, s)
    /\ post[r].ip = post[s].ip /\ post[s].at - post[r].at < IpLimit => Lifted(OfIp(post[r].ip), r, s)

\* A request is refused because of another one of its client, or of its
\* address, that was admitted within the window and has not failed before:
\* no request is charged for one that was refused (server.js:145-157).
RefusedForCause ==
  \A r \in Posts : post[r].pc = "refused" =>
    \E q \in Posts \ {r} :
      /\ post[q].pc \notin {"new", "refused"}
      /\ post[q].at <= post[r].at /\ (post[q].pc = "failed" => post[q].end >= post[r].at)
      /\ IF post[r].why = "ip" THEN post[q].ip = post[r].ip /\ post[r].at - post[q].at < IpLimit
                              ELSE post[q].to = post[r].to /\ post[r].at - post[q].at < ToLimit

\* The funder's nonce is refused only to a request that came while another,
\* whose transaction the node took, was under way, or so soon after it ended
\* that the provider still hands out the count of before (server.js:153).
NonceClashNeedsOverlap ==
  \A r \in Posts : post[r].why = "nonce" =>
    \E q \in paid \ {r} : post[q].pc \in {"taken", "catch"} \/ post[q].end + CacheTime >= post[r].at
=============================================================================
