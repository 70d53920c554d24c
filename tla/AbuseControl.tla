------------------------------ MODULE AbuseControl ------------------------------
(***************************************************************************)
(* The process's rate limits (abuse/control.go): a bounded registry of     *)
(* clients, each with one token bucket per kind of request, and one bucket *)
(* for the whole process.                                                  *)
(*                                                                         *)
(* Allow reads the clock before it takes the mutex, so its critical        *)
(* sections do not run in the order of their clock values.  A bucket is    *)
(* measured in time, as in AdminSessions: its level is the time it took to *)
(* earn, and a request of kind k costs Interval[k].  The bucket itself is  *)
(* golang.org/x/time/rate.  The gates for uploads and downloads, the other *)
(* half of Control, are in HttpRequests.                                   *)
(***************************************************************************)
EXTENDS Integers, FiniteSets, FiniteSetsExt, Sequences

CONSTANTS
    Calls,          \* goroutines that handle requests
    Addresses,      \* IP addresses
    Trusted,        \* those in Config.Trusted, the reverse proxies
    Malformed,      \* an element of X-Forwarded-For that is no address
    RateKey,        \* the rate key of each address; an IPv6 /64 has one
    Kinds,          \* Create, Mutation, Read
    Global,         \* stands for the limiter of the whole process
    Interval,       \* of each limiter: the time that earns a token
    Burst,          \* of each limiter: the tokens it holds
    ClientIdleTTL, SweepInterval, MaxClients,
    NoEntry,        \* no entry in control.clients
    NoCall,         \* the goroutine is not in Allow
    MaxLag,         \* bound: how long a call waits for the mutex
    Windows,        \* the start times of the windows in which requests are counted
    MaxTime         \* bound: the last clock value explored

Keys == {RateKey[a] : a \in Addresses}
Limiters == Kinds \union {Global}
Capacity(k) == Burst[k] * Interval[k]

ASSUME AddressAssumption ==
    /\ Trusted \subseteq Addresses /\ Malformed \notin Addresses
    /\ IsFiniteSet(Keys)
ASSUME LimiterAssumption ==
    /\ Global \notin Kinds
    /\ Interval \in [Limiters -> Nat] /\ Burst \in [Limiters -> Nat \ {0}]
\* 60 ms a token for the process and 500 ms or more for a client, whose fullest
\* bucket takes 30 s to earn, against 10 minutes of idleness and the wait for a
\* mutex.
ASSUME TimeAssumption ==
    /\ MaxLag \in Nat /\ ClientIdleTTL \in Nat /\ SweepInterval \in Nat
    /\ \A k \in Limiters : Interval[k] > MaxLag
    /\ \A k \in Kinds : ClientIdleTTL >= Capacity(k) + 2 * MaxLag
ASSUME BoundsAssumption ==
    /\ MaxClients \in Nat \ {0} /\ MaxTime \in Nat /\ Windows \subseteq Nat
ASSUME NamesAssumption ==
    /\ NoEntry \notin [last : Int, bucket : [Kinds -> [level : Nat, at : Int]]]
    /\ NoCall \notin [at : Nat, kind : Kinds, key : Keys, origin : Addresses]

VARIABLES
    now,        \* the server clock
    call,       \* of each goroutine in Allow: clock value, kind, rate key, sender
    clients,    \* control.clients: of each rate key, last use and buckets
    global,     \* control.global
    lastSweep,  \* control.lastSweep
    from,       \* history: when the window starts
    admitted,   \* history: requests admitted in the window, by rate key and kind
    passed      \* history: all requests admitted in the window

registryVars == <<clients, lastSweep>>
historyVars == <<admitted, passed>>
vars == <<now, call, registryVars, global, from, historyVars>>

-------------------------------------------------------------------------------
\* The left end of the chain, which the client writes.
MutClientIP(peer, chain) ==
    LET untrusted == {i \in DOMAIN chain : chain[i] \notin Trusted} IN
    IF peer \notin Trusted \/ untrusted = {} \/ \E i \in DOMAIN chain : chain[i] = Malformed
    THEN peer
    ELSE chain[Min(untrusted)]

\* ClientIP: the last address of the chain that is no trusted proxy's, if the
\* peer is a trusted proxy.
ClientIP(peer, chain) ==
    LET untrusted == {i \in DOMAIN chain : chain[i] \notin Trusted} IN
    IF peer \notin Trusted \/ untrusted = {} \/ \E i \in DOMAIN chain : chain[i] = Malformed
    THEN peer
    ELSE chain[Max(untrusted)]

\* What reaches the listener when origin sends a request with a header of its own
\* through the proxies of path: each appends the address it was reached from.
Forwarded(origin, header, path) ==
    LET hops == <<origin>> \o path IN
    [peer |-> hops[Len(hops)], chain |-> header \o SubSeq(hops, 1, Len(path))]

\* The requests enumerated: of the clients, with up to one header element of their
\* own, through up to two proxies.
Senders == Addresses \ Trusted
Headers == {<<>>} \union {<<e>> : e \in Addresses \union {Malformed}}
Paths == UNION {[1..n -> Trusted] : n \in 0..2}

\* A bucket of rate.NewLimiter, full.
NewBucket(k, t) == [level |-> Capacity(k), at |-> t]

\* rate.Limiter.advance: a time before the bucket's own earns nothing.
Advanced(b, k, t) ==
    LET earned == IF t > b.at THEN b.level + (t - b.at) ELSE b.level
    IN  IF earned < Capacity(k) THEN earned ELSE Capacity(k)

\* AllowN takes the token and sets the bucket's time, even back; a refusal leaves
\* the bucket alone.
Allows(b, k, t) == Advanced(b, k, t) >= Interval[k]
Taken(b, k, t) == [level |-> Advanced(b, k, t) - Interval[k], at |-> t]

\* The entries a sweep leaves.
Swept(t) ==
    [c \in Keys |-> IF clients[c] # NoEntry /\ t - clients[c].last >= ClientIdleTTL
                    THEN NoEntry ELSE clients[c]]

Registered(registry) == {c \in Keys : registry[c] # NoEntry}
Full(registry) == Cardinality(Registered(registry)) >= MaxClients

\* Without the sweep that a full registry calls for.
MutSweeps(c, t) == t - lastSweep >= SweepInterval

\* Allow sweeps when a sweep is due, and when a new client finds the registry full.
Sweeps(c, t) == \/ t - lastSweep >= SweepInterval
                \/ clients[c] = NoEntry /\ Full(clients)

\* A sweep that forgets the clients idle for less.
MutRegistryFor(c, t) == IF Sweeps(c, t) THEN [d \in Keys |-> NoEntry] ELSE clients

\* The registry that Allow looks the client up in.
RegistryFor(c, t) == IF Sweeps(c, t) THEN Swept(t) ELSE clients

\* A registry that takes one client too many.
MutHasRoom(c, registry) ==
    registry[c] # NoEntry \/ Cardinality(Registered(registry)) <= MaxClients

\* A client is refused when it has no entry and there is no room for one.
HasRoom(c, registry) == registry[c] # NoEntry \/ ~Full(registry)

\* The client's entry, new if it has none, with its last use set.
EntryFor(c, t, registry) ==
    IF registry[c] = NoEntry
    THEN [last |-> t, bucket |-> [k \in Kinds |-> NewBucket(k, t)]]
    ELSE [registry[c] EXCEPT !.last = t]

-------------------------------------------------------------------------------
Init ==
    /\ now = 0 /\ call = [r \in Calls |-> NoCall]
    /\ clients = [c \in Keys |-> NoEntry] /\ lastSweep = -SweepInterval
    /\ global = NewBucket(Global, 0)
    /\ from \in Windows /\ passed = 0
    /\ admitted = [c \in Keys |-> [k \in Kinds |-> 0]]

\* The clock; no call waits for the mutex longer than MaxLag.
Tick ==
    /\ now < MaxTime
    /\ \A r \in Calls : call[r] # NoCall => now < call[r].at + MaxLag
    /\ now' = now + 1
    /\ UNCHANGED <<call, registryVars, global, from, historyVars>>

\* A request arrives: Allow reads the clock and resolves the client.
StartAllow(r, k, origin, header, path) ==
    LET request == Forwarded(origin, header, path) IN
    /\ call[r] = NoCall
    /\ call' = [call EXCEPT ![r] =
                  [at |-> now, kind |-> k, origin |-> origin,
                   key |-> RateKey[ClientIP(request.peer, request.chain)]]]
    /\ UNCHANGED <<now, registryVars, global, from, historyVars>>

\* Allow's critical section: it refuses a new client that finds no room ...
RefuseClient(r) ==
    /\ call[r] # NoCall
    /\ LET t == call[r].at
           c == call[r].key
       IN  /\ ~HasRoom(c, RegistryFor(c, t))
           /\ clients' = RegistryFor(c, t)
           /\ lastSweep' = IF Sweeps(c, t) THEN t ELSE lastSweep
    /\ call' = [call EXCEPT ![r] = NoCall]
    /\ UNCHANGED <<now, global, from, historyVars>>

\* ... or marks it used and refuses the request, for the process's bucket or,
\* with a token of that bucket gone, for the client's ...
RefuseRequest(r) ==
    /\ call[r] # NoCall
    /\ LET t == call[r].at
           c == call[r].key
           k == call[r].kind
           registry == RegistryFor(c, t)
           entry == EntryFor(c, t, registry)
       IN  /\ HasRoom(c, registry)
           /\ clients' = [registry EXCEPT ![c] = entry]
           /\ lastSweep' = IF Sweeps(c, t) THEN t ELSE lastSweep
           /\ \/ ~Allows(global, Global, t) /\ UNCHANGED global
              \/ /\ Allows(global, Global, t) /\ ~Allows(entry.bucket[k], k, t)
                 /\ global' = Taken(global, Global, t)
    /\ call' = [call EXCEPT ![r] = NoCall]
    /\ UNCHANGED <<now, from, historyVars>>

\* The client's bucket asked before, and instead of, the process's.
MutAdmitRequest(r) ==
    /\ call[r] # NoCall
    /\ LET t == call[r].at
           c == call[r].key
           k == call[r].kind
           registry == RegistryFor(c, t)
           entry == EntryFor(c, t, registry)
       IN  /\ HasRoom(c, registry) /\ Allows(entry.bucket[k], k, t)
           /\ clients' = [registry EXCEPT ![c] =
                            [entry EXCEPT !.bucket[k] = Taken(@, k, t)]]
           /\ global' = IF Allows(global, Global, t) THEN Taken(global, Global, t) ELSE global
           /\ lastSweep' = IF Sweeps(c, t) THEN t ELSE lastSweep
           /\ admitted' = IF now >= from THEN [admitted EXCEPT ![c][k] = @ + 1] ELSE admitted
           /\ passed' = IF now >= from THEN passed + 1 ELSE passed
    /\ call' = [call EXCEPT ![r] = NoCall]
    /\ UNCHANGED <<now, from>>

\* ... or takes a token of both.
AdmitRequest(r) ==
    /\ call[r] # NoCall
    /\ LET t == call[r].at
           c == call[r].key
           k == call[r].kind
           registry == RegistryFor(c, t)
           entry == EntryFor(c, t, registry)
       IN  /\ HasRoom(c, registry)
           /\ Allows(global, Global, t) /\ Allows(entry.bucket[k], k, t)
           /\ clients' = [registry EXCEPT ![c] =
                            [entry EXCEPT !.bucket[k] = Taken(@, k, t)]]
           /\ global' = Taken(global, Global, t)
           /\ lastSweep' = IF Sweeps(c, t) THEN t ELSE lastSweep
           /\ admitted' = IF now >= from THEN [admitted EXCEPT ![c][k] = @ + 1] ELSE admitted
           /\ passed' = IF now >= from THEN passed + 1 ELSE passed
    /\ call' = [call EXCEPT ![r] = NoCall]
    /\ UNCHANGED <<now, from>>

Next ==
    \/ \E r \in Calls :
          \/ \E k \in Kinds, origin \in Senders, header \in Headers, path \in Paths :
                StartAllow(r, k, origin, header, path)
          \/ RefuseClient(r) \/ RefuseRequest(r) \/ AdmitRequest(r)
    \/ Tick

Spec == Init /\ [][Next]_vars

-------------------------------------------------------------------------------
Buckets == [level : Nat, at : Int]
Entries == [last : Int, bucket : [Kinds -> Buckets]]

\* Types; a call's clock value is past, but not long.
TypeOK ==
    /\ now \in Nat /\ from \in Nat /\ lastSweep \in Int
    /\ call \in [Calls -> [at : Nat, kind : Kinds, key : Keys, origin : Addresses]
                             \union {NoCall}]
    /\ clients \in [Keys -> Entries \union {NoEntry}] /\ global \in Buckets
    /\ admitted \in [Keys -> [Kinds -> Nat]] /\ passed \in Nat
    /\ \A r \in Calls : call[r] # NoCall => call[r].at <= now /\ now <= call[r].at + MaxLag

\* What n requests have cost, as waiting pays for it: a request that sets a
\* bucket's time back lets up to MaxLag be earned twice.
Spent(k, n) == n * (Interval[k] - MaxLag)

\* The bucket, with what was spent in the window, holds no more than was there
\* and than time has earned.
Paid(b, k, n) == n # 0 => b.level + Spent(k, n) <= Capacity(k) + b.at - from

\* Every bucket is paid for, and an entry is forgotten when that makes no
\* difference.
Ledger ==
    /\ passed # 0 => now >= from
    /\ global.at <= now /\ Paid(global, Global, passed)
    /\ \A c \in Keys, k \in Kinds :
          /\ admitted[c][k] # 0 => now >= from
          /\ clients[c] # NoEntry =>
                /\ clients[c].bucket[k].at <= now
                /\ clients[c].bucket[k].at <= clients[c].last + MaxLag
                /\ Paid(clients[c].bucket[k], k, admitted[c][k])
          /\ clients[c] = NoEntry /\ admitted[c][k] # 0 =>
                Spent(k, admitted[c][k]) <= now - from - MaxLag

\* The registry has no more than MaxClients entries (ADR 0012, "cap at 16,384").
RegistryBounded == Cardinality(Registered(clients)) <= MaxClients

IndInv == TypeOK /\ Ledger /\ RegistryBounded

\* A client has no more requests of a kind admitted, in whatever window, than a
\* full bucket and the window's length pay for, although its entry is forgotten
\* after idleness, and by a full registry, and its calls reach it out of order.
ClientRate ==
    now >= from =>
       \A c \in Keys, k \in Kinds :
          admitted[c][k] * (Interval[k] - MaxLag) <= Capacity(k) + now - from

\* All clients together have no more requests admitted than the process's bucket
\* pays for, however many of them come and go.
GlobalRate ==
    now >= from => passed * (Interval[Global] - MaxLag) <= Capacity(Global) + now - from

\* A request of an address that is no trusted proxy's is charged to that address
\* or, when it forged a header that does not parse, to the proxy that sent it on,
\* never to another client.
ChargedToSender ==
    \A r \in Calls :
       call[r] # NoCall =>
          call[r].key \in {RateKey[a] : a \in Trusted \union {call[r].origin}}

\* A new client is refused for want of room only by clients that were all active
\* within ClientIdleTTL of its request.
FullOnlyOfActive ==
    [][\A r \in Calls :
          /\ call[r] # NoCall /\ call'[r] = NoCall
          /\ clients'[call[r].key] = NoEntry
          => \A c \in Keys : clients'[c] # NoEntry =>
                                call[r].at - clients'[c].last < ClientIdleTTL]_vars
===============================================================================
