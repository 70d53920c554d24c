-------------------------- MODULE AbuseControlProofs --------------------------
(* Proofs about AbuseControl, for any number of calls, clients and kinds of    *)
(* requests, any limits that keep the named assumptions, and any window.       *)
EXTENDS AbuseControl, FiniteSetTheorems, TLAPS

USE AddressAssumption, LimiterAssumption, TimeAssumption, BoundsAssumption, NamesAssumption

\* A full bucket is worth at least one token's interval.
LEMMA CapacityNat ==
    ASSUME NEW k \in Limiters
    PROVE  /\ Interval[k] \in Nat /\ Interval[k] > MaxLag
           /\ Capacity(k) \in Nat /\ Capacity(k) >= Interval[k]
<1>1. Interval[k] \in Nat /\ Interval[k] > MaxLag /\ Burst[k] \in Nat /\ Burst[k] >= 1
      OBVIOUS
<1>2. ASSUME NEW i \in Nat, NEW b \in Nat, b >= 1 PROVE b * i \in Nat /\ b * i >= i
  <2>1. PICK m \in Nat : b = m + 1
    <3>1. b - 1 \in Nat /\ b = (b - 1) + 1 BY ONLY b \in Nat, b >= 1
    <3> QED BY ONLY <3>1
  <2>2. m * i \in Nat BY ONLY m \in Nat, i \in Nat
  <2>3. b * i = m * i + i BY ONLY <2>1, m \in Nat, i \in Nat
  <2> QED BY ONLY <2>2, <2>3, i \in Nat
<1>3. Burst[k] * Interval[k] \in Nat /\ Burst[k] * Interval[k] >= Interval[k]
      BY ONLY <1>1, <1>2
<1> QED BY <1>1, <1>3 DEF Capacity

\* The cost of a request, net of what a late clock value can earn twice.
LEMMA Cost ==
    ASSUME NEW k \in Limiters, NEW n \in Nat
    PROVE  /\ Spent(k, n) \in Nat
           /\ Spent(k, n + 1) = Spent(k, n) + Interval[k] - MaxLag
           /\ Spent(k, 0) = 0
<1>1. PICK i \in Nat : i = Interval[k] - MaxLag BY CapacityNat
<1>2. n * i \in Nat /\ (n + 1) * i = n * i + i /\ 0 * i = 0 BY ONLY n \in Nat, i \in Nat
<1>3. Interval[k] \in Nat BY CapacityNat
<1>4. Spent(k, n) = n * i /\ Spent(k, n + 1) = (n + 1) * i /\ Spent(k, 0) = 0 * i
      BY <1>1 DEF Spent
<1> QED BY ONLY <1>1, <1>2, <1>3, <1>4, TimeAssumption

\* A bucket never holds more than its capacity, and earns with the clock.
LEMMA AdvancedBounds ==
    ASSUME NEW k \in Limiters, NEW b \in Buckets, NEW t \in Int
    PROVE  /\ Advanced(b, k, t) \in Nat /\ Advanced(b, k, t) <= Capacity(k)
           /\ t > b.at => Advanced(b, k, t) <= b.level + t - b.at
           /\ t <= b.at => Advanced(b, k, t) <= b.level
<1>1. Capacity(k) \in Nat BY CapacityNat
<1>2. b.level \in Nat /\ b.at \in Int BY DEF Buckets
<1> QED BY <1>1, <1>2 DEF Advanced

\* A bucket that is paid for stays so when a token is taken that the window
\* counts, and one that it does not count.
LEMMA TakenPaid ==
    ASSUME NEW k \in Limiters, NEW b \in Buckets, NEW n \in Nat, NEW t \in Nat,
           now \in Nat, from \in Nat, t <= now, now <= t + MaxLag, b.at <= now,
           n # 0 => now >= from,
           Allows(b, k, t), Paid(b, k, n)
    PROVE  /\ Taken(b, k, t) \in Buckets /\ Taken(b, k, t).at = t
           /\ Paid(Taken(b, k, t), k, n)
           /\ now >= from => Paid(Taken(b, k, t), k, n + 1)
<1>1. PICK a \in Nat, i \in Nat, c \in Nat, s \in Nat, q \in Int :
         /\ a = Advanced(b, k, t) /\ i = Interval[k] /\ c = Capacity(k) /\ s = Spent(k, n)
         /\ q = b.at
  <2>1. Advanced(b, k, t) \in Nat BY AdvancedBounds
  <2>2. Interval[k] \in Nat /\ Capacity(k) \in Nat /\ Spent(k, n) \in Nat
        BY CapacityNat, Cost
  <2>3. b.at \in Int BY DEF Buckets
  <2> QED BY ONLY <2>1, <2>2, <2>3
<1>2. PICK v \in Nat : v = b.level BY DEF Buckets
<1>3. /\ a <= c /\ i > MaxLag /\ a >= i
      /\ t > q => a <= v + t - q
      /\ t <= q => a <= v
      BY <1>1, <1>2, CapacityNat, AdvancedBounds DEF Allows
<1>4. n # 0 => v + s <= c + q - from BY <1>1, <1>2 DEF Paid
<1>5. n = 0 => s = 0 BY <1>1, Cost
<1>6. Spent(k, n + 1) = s + i - MaxLag BY <1>1, Cost
<1>7. Taken(b, k, t) = [level |-> a - i, at |-> t] BY <1>1 DEF Taken
<1>8. a - i \in Nat BY <1>3
<1>9. n # 0 => (a - i) + s <= c + t - from
      BY ONLY <1>1, <1>3, <1>4, now \in Nat, from \in Nat, t \in Nat, t <= now,
              now <= t + MaxLag, b.at <= now, v \in Nat, TimeAssumption
<1>10. now >= from => (a - i) + (s + i - MaxLag) <= c + t - from
      BY ONLY <1>1, <1>3, <1>4, <1>5, now \in Nat, from \in Nat, t \in Nat, t <= now,
              now <= t + MaxLag, b.at <= now, v \in Nat, n \in Nat, TimeAssumption
<1>11. Taken(b, k, t) \in Buckets /\ Taken(b, k, t).at = t /\ Taken(b, k, t).level = a - i
      BY <1>7, <1>8 DEF Buckets
<1>12. Paid(Taken(b, k, t), k, n) BY <1>1, <1>9, <1>11 DEF Paid
<1>13. now >= from => Paid(Taken(b, k, t), k, n + 1) BY <1>1, <1>6, <1>10, <1>11 DEF Paid
<1> QED BY <1>11, <1>12, <1>13

-------------------------------------------------------------------------------
\* What the books say of a client's entry e, of the kind k it had n requests of.
Book(e, k, n) ==
    /\ n # 0 => now >= from
    /\ e # NoEntry =>
          /\ e.bucket[k].at <= now
          /\ e.bucket[k].at <= e.last + MaxLag
          /\ Paid(e.bucket[k], k, n)
    /\ e = NoEntry /\ n # 0 => Spent(k, n) <= now - from - MaxLag

LEMMA LedgerBooks ==
    Ledger <=> /\ passed # 0 => now >= from
               /\ global.at <= now /\ Paid(global, Global, passed)
               /\ \A c \in Keys, k \in Kinds : Book(clients[c], k, admitted[c][k])
BY DEF Ledger, Book

LEMMA EntryType ==
    ASSUME NEW e \in Entries, NEW k \in Kinds
    PROVE  /\ e # NoEntry /\ e.last \in Int /\ e.bucket \in [Kinds -> Buckets]
           /\ e.bucket[k] \in Buckets /\ e.bucket[k].level \in Nat /\ e.bucket[k].at \in Int
BY DEF Entries, Buckets

\* Nothing is registered and nothing has been spent at first.
LEMMA InitInv == Init => IndInv
<1> SUFFICES ASSUME Init PROVE IndInv
  OBVIOUS
<1>0. /\ now = 0 /\ call = [r \in Calls |-> NoCall]
      /\ clients = [c \in Keys |-> NoEntry] /\ lastSweep = -SweepInterval
      /\ global = NewBucket(Global, 0) /\ from \in Nat /\ passed = 0
      /\ admitted = [c \in Keys |-> [k \in Kinds |-> 0]]
      BY DEF Init
<1>1. global \in Buckets /\ global.at = 0
  <2>1. Capacity(Global) \in Nat BY CapacityNat DEF Limiters
  <2> QED BY <1>0, <2>1 DEF NewBucket, Buckets
<1>2. TypeOK
  <2>1. -SweepInterval \in Int OBVIOUS
  <2> QED BY <1>0, <1>1, <2>1 DEF TypeOK
<1>3. Ledger BY <1>0, <1>1 DEF Ledger, Paid
<1>4. RegistryBounded
  <2>1. Registered(clients) = {} BY <1>0 DEF Registered
  <2>2. Cardinality({}) = 0 BY FS_EmptySet
  <2>3. 0 <= MaxClients OBVIOUS
  <2> QED BY <2>1, <2>2, <2>3 DEF RegistryBounded
<1> QED BY <1>2, <1>3, <1>4 DEF IndInv

\* The registry that Allow looks the client up in has what was there, or has
\* forgotten it after an idleness that pays for everything the client has spent.
LEMMA RegistryLedger ==
    ASSUME IndInv, NEW c \in Keys, NEW t \in Nat, t <= now
    PROVE  /\ RegistryFor(c, t) \in [Keys -> Entries \union {NoEntry}]
           /\ \A d \in Keys : /\ RegistryFor(c, t)[d] \in {clients[d], NoEntry}
                              /\ \A k \in Kinds :
                                  Book(RegistryFor(c, t)[d], k, admitted[d][k])
<1> DEFINE registry == RegistryFor(c, t)
<1>1. registry \in [Keys -> Entries \union {NoEntry}]
      BY DEF RegistryFor, Swept, IndInv, TypeOK
<1>2. \A d \in Keys : registry[d] \in {clients[d], NoEntry} BY DEF RegistryFor, Swept
<1>3. ASSUME NEW d \in Keys, NEW k \in Kinds PROVE Book(registry[d], k, admitted[d][k])
  <2> DEFINE n == admitted[d][k]
             e == clients[d]
  <2>1. Book(e, k, n) BY LedgerBooks DEF IndInv
  <2>2. CASE registry[d] = e BY <2>1, <2>2
  <2>3. CASE e # NoEntry /\ registry[d] = NoEntry
    <3>1. t - e.last >= ClientIdleTTL BY <2>3 DEF RegistryFor, Swept
    <3>2. e \in Entries /\ n \in Nat /\ now \in Nat /\ from \in Nat
          BY <2>3 DEF IndInv, TypeOK
    <3>3. /\ e.last \in Int /\ e.bucket[k].level \in Nat /\ e.bucket[k].at \in Int
          BY <3>2, EntryType
    <3>4. k \in Limiters BY DEF Limiters
    <3>5. Capacity(k) \in Nat /\ Spent(k, n) \in Nat BY <3>2, <3>4, CapacityNat, Cost
    <3>6. ClientIdleTTL >= Capacity(k) + 2 * MaxLag OBVIOUS
    <3>7. n # 0 => e.bucket[k].level + Spent(k, n) <= Capacity(k) + e.bucket[k].at - from
          BY <2>1, <2>3 DEF Book, Paid
    <3>8. e.bucket[k].at <= e.last + MaxLag BY <2>1, <2>3 DEF Book
    <3>9. n # 0 => Spent(k, n) <= now - from - MaxLag
      <4> HIDE DEF n, e
      <4> QED BY ONLY <3>1, <3>2, <3>3, <3>5, <3>6, <3>7, <3>8, t \in Nat, t <= now,
                      TimeAssumption
    <3> QED BY <2>1, <2>3, <3>9 DEF Book
  <2> QED BY <1>2, <2>2, <2>3
<1> QED BY <1>1, <1>2, <1>3

\* A sweep leaves no more entries than there were.
LEMMA RegistryCount ==
    ASSUME IndInv, NEW c \in Keys, NEW t
    PROVE  LET kept == Registered(RegistryFor(c, t)) IN
           IsFiniteSet(kept) /\ Cardinality(kept) \in Nat /\ Cardinality(kept) <= MaxClients
<1> DEFINE kept == Registered(RegistryFor(c, t))
<1>1. kept \subseteq Registered(clients) BY DEF RegistryFor, Swept, Registered
<1>2. IsFiniteSet(Registered(clients))
  <2>1. Registered(clients) \subseteq Keys BY DEF Registered
  <2> QED BY <2>1, FS_Subset
<1>3. Cardinality(Registered(clients)) <= MaxClients BY DEF IndInv, RegistryBounded
<1>4. /\ IsFiniteSet(kept) /\ Cardinality(kept) <= Cardinality(Registered(clients))
      BY <1>1, <1>2, FS_Subset
<1>5. Cardinality(kept) \in Nat /\ Cardinality(Registered(clients)) \in Nat
      BY <1>2, <1>4, FS_CardinalityType
<1> QED BY <1>3, <1>4, <1>5

-------------------------------------------------------------------------------
\* A call in Allow has a clock value of the recent past.
LEMMA CallType ==
    ASSUME IndInv, NEW r \in Calls, call[r] # NoCall
    PROVE  /\ call[r].at \in Nat /\ call[r].key \in Keys /\ call[r].kind \in Kinds
           /\ call[r].kind \in Limiters /\ call[r].origin \in Addresses
           /\ call[r].at <= now /\ now <= call[r].at + MaxLag
           /\ now \in Nat /\ from \in Nat
           /\ [call EXCEPT ![r] = NoCall]
                 \in [Calls -> [at : Nat, kind : Kinds, key : Keys, origin : Addresses]
                               \union {NoCall}]
BY DEF IndInv, TypeOK, Limiters

\* The entry that Allow goes by: a new one holds no more than what the client had,
\* for its idleness has filled the bucket.
LEMMA EntryLedger ==
    ASSUME IndInv, NEW c \in Keys, NEW t \in Nat, t <= now, now <= t + MaxLag
    PROVE  LET entry == EntryFor(c, t, RegistryFor(c, t)) IN
           /\ entry \in Entries /\ entry.last = t
           /\ \A k \in Kinds : /\ entry.bucket[k] \in Buckets /\ entry.bucket[k].at <= now
                               /\ Paid(entry.bucket[k], k, admitted[c][k])
<1> DEFINE registry == RegistryFor(c, t)
           entry == EntryFor(c, t, registry)
<1>0. /\ now \in Nat /\ from \in Nat
      /\ \A k \in Kinds : k \in Limiters /\ Capacity(k) \in Nat /\ admitted[c][k] \in Nat
      BY CapacityNat DEF IndInv, TypeOK, Limiters
<1>1. /\ registry[c] \in Entries \union {NoEntry}
      /\ \A k \in Kinds : Book(registry[c], k, admitted[c][k])
      BY RegistryLedger
<1>2. CASE registry[c] = NoEntry
  <2>1. entry = [last |-> t, bucket |-> [k \in Kinds |-> NewBucket(k, t)]]
        BY <1>2 DEF EntryFor
  <2>2. \A k \in Kinds : NewBucket(k, t) \in Buckets BY <1>0 DEF NewBucket, Buckets
  <2>3. entry \in Entries /\ entry.last = t BY <2>1, <2>2 DEF Entries
  <2>4. ASSUME NEW k \in Kinds
        PROVE  /\ entry.bucket[k] \in Buckets /\ entry.bucket[k].at <= now
               /\ Paid(entry.bucket[k], k, admitted[c][k])
    <3>1. PICK n \in Nat : n = admitted[c][k] BY <1>0
    <3>2. entry.bucket[k] = [level |-> Capacity(k), at |-> t] BY <2>1 DEF NewBucket
    <3>3. n # 0 => Spent(k, n) <= now - from - MaxLag BY <1>1, <1>2, <3>1 DEF Book
    <3>4. PICK s \in Nat, cap \in Nat : s = Spent(k, n) /\ cap = Capacity(k) BY <1>0, Cost
    <3>5. n # 0 => cap + s <= cap + t - from
          BY ONLY <1>0, <3>3, <3>4, t \in Nat, now <= t + MaxLag, TimeAssumption
    <3>6. Paid(entry.bucket[k], k, n) BY <3>2, <3>4, <3>5 DEF Paid
    <3> QED BY <2>2, <3>1, <3>2, <3>6 DEF NewBucket
  <2> QED BY <2>3, <2>4
<1>3. CASE registry[c] # NoEntry
  <2>1. entry = [registry[c] EXCEPT !.last = t] /\ registry[c] \in Entries
        BY <1>1, <1>3 DEF EntryFor
  <2>2. entry \in Entries /\ entry.last = t /\ entry.bucket = registry[c].bucket
        BY <2>1 DEF Entries
  <2>3. \A k \in Kinds : entry.bucket[k] \in Buckets BY <2>2, EntryType
  <2> QED BY <1>1, <1>3, <2>2, <2>3 DEF Book
<1> QED BY <1>2, <1>3

\* What Allow leaves when it refuses the client: a registry with books in order.
LEMMA RefuseClientInv ==
    ASSUME IndInv, NEW r \in Calls, RefuseClient(r) PROVE IndInv'
<1>0. PICK t \in Nat, c \in Keys : t = call[r].at /\ c = call[r].key
      BY CallType DEF RefuseClient
<1>1. /\ call[r] # NoCall /\ clients' = RegistryFor(c, t)
      /\ lastSweep' = IF Sweeps(c, t) THEN t ELSE lastSweep
      /\ call' = [call EXCEPT ![r] = NoCall]
      /\ now' = now /\ global' = global /\ from' = from
      /\ admitted' = admitted /\ passed' = passed
      BY <1>0 DEF RefuseClient, historyVars
<1>2. t <= now BY <1>0, <1>1, CallType
<1>3. /\ clients' \in [Keys -> Entries \union {NoEntry}]
      /\ \A d \in Keys, k \in Kinds : Book(clients'[d], k, admitted[d][k])
      BY <1>1, <1>2, RegistryLedger
<1>4. TypeOK'
  <2>1. lastSweep' \in Int BY <1>1 DEF IndInv, TypeOK
  <2>2. /\ call' \in [Calls -> [at : Nat, kind : Kinds, key : Keys, origin : Addresses]
                                \union {NoCall}]
        /\ \A q \in Calls : call'[q] # NoCall =>
              call'[q].at <= now' /\ now' <= call'[q].at + MaxLag
        BY <1>1, CallType DEF IndInv, TypeOK
  <2> QED BY <1>1, <1>3, <2>1, <2>2 DEF IndInv, TypeOK
<1>5. Ledger' BY <1>1, <1>3, LedgerBooks DEF IndInv, Ledger, Book, Paid, Spent
<1>6. RegistryBounded' BY <1>1, RegistryCount DEF RegistryBounded, Registered
<1> QED BY <1>4, <1>5, <1>6 DEF IndInv

\* The entry of the client is put back, whatever was taken from its buckets.
LEMMA PutEntry ==
    ASSUME IndInv, NEW c \in Keys, NEW t \in Nat, t <= now, now <= t + MaxLag,
           HasRoom(c, RegistryFor(c, t)), NEW entry \in Entries, entry.last = t,
           NEW counts \in [Kinds -> Nat],
           \A k \in Kinds : /\ entry.bucket[k].at <= now
                            /\ Paid(entry.bucket[k], k, counts[k])
                            /\ counts[k] # 0 => now >= from,
           clients' = [RegistryFor(c, t) EXCEPT ![c] = entry],
           admitted' = [admitted EXCEPT ![c] = counts]
    PROVE  /\ clients' \in [Keys -> Entries \union {NoEntry}]
           /\ admitted' \in [Keys -> [Kinds -> Nat]]
           /\ \A d \in Keys, k \in Kinds : Book(clients'[d], k, admitted'[d][k])
           /\ RegistryBounded'
<1> DEFINE registry == RegistryFor(c, t)
<1>1. /\ registry \in [Keys -> Entries \union {NoEntry}]
      /\ \A d \in Keys, k \in Kinds : Book(registry[d], k, admitted[d][k])
      BY RegistryLedger
<1>2. clients' \in [Keys -> Entries \union {NoEntry}] BY <1>1
<1>3. admitted \in [Keys -> [Kinds -> Nat]] BY DEF IndInv, TypeOK
<1>4. admitted' \in [Keys -> [Kinds -> Nat]] BY <1>3
<1>5. ASSUME NEW d \in Keys, NEW k \in Kinds PROVE Book(clients'[d], k, admitted'[d][k])
  <2>1. CASE d = c
    <3>1. clients'[d] = entry /\ admitted'[d] = counts BY <1>1, <1>3, <2>1
    <3>2. entry # NoEntry /\ entry.bucket[k].at \in Int BY EntryType
    <3>3. entry.bucket[k].at <= now /\ Paid(entry.bucket[k], k, counts[k])
          /\ (counts[k] # 0 => now >= from)
          BY Zenon
    <3>4. now \in Nat BY DEF IndInv, TypeOK
    <3>5. entry.bucket[k].at <= entry.last + MaxLag
          BY ONLY <3>2, <3>3, <3>4, entry.last = t, t \in Nat, now <= t + MaxLag,
                  TimeAssumption
    <3>6. Book(entry, k, counts[k]) BY ONLY <3>2, <3>3, <3>5 DEF Book
    <3> QED BY <3>1, <3>6
  <2>2. CASE d # c
    <3>1. clients'[d] = registry[d] /\ admitted'[d] = admitted[d] BY <1>1, <1>3, <2>2
    <3> QED BY <1>1, <3>1
  <2> QED BY <2>1, <2>2
<1>6. RegistryBounded'
  <2> DEFINE kept == Registered(registry)
  <2>1. IsFiniteSet(kept) /\ Cardinality(kept) \in Nat /\ Cardinality(kept) <= MaxClients
        BY RegistryCount
  <2>2. Registered(clients)' = kept \union {c}
    <3>1. entry # NoEntry BY DEF Entries, Buckets
    <3> QED BY <1>1, <3>1 DEF Registered
  <2>3. Cardinality(kept \union {c}) = IF c \in kept THEN Cardinality(kept) ELSE Cardinality(kept) + 1
        BY <2>1, FS_AddElement
  <2>4. c \in kept \/ Cardinality(kept) < MaxClients
        BY <2>1 DEF HasRoom, Full, Registered
  <2>5. Cardinality(kept \union {c}) <= MaxClients
    <3> HIDE DEF kept
    <3> QED BY ONLY <2>1, <2>3, <2>4, BoundsAssumption
  <2> QED BY <2>2, <2>5 DEF RegistryBounded, Registered
<1> QED BY <1>2, <1>4, <1>5, <1>6

\* A request refused marks its client used, and may have cost the process a token.
LEMMA RefuseRequestInv ==
    ASSUME IndInv, NEW r \in Calls, RefuseRequest(r)
    PROVE  IndInv' /\ clients'[call[r].key] # NoEntry
<1>0. PICK t \in Nat, c \in Keys, k \in Kinds :
         t = call[r].at /\ c = call[r].key /\ k = call[r].kind
      BY CallType DEF RefuseRequest
<1>1. PICK entry : entry = EntryFor(c, t, RegistryFor(c, t)) OBVIOUS
<1>2. /\ call[r] # NoCall /\ HasRoom(c, RegistryFor(c, t))
      /\ clients' = [RegistryFor(c, t) EXCEPT ![c] = entry]
      /\ lastSweep' = IF Sweeps(c, t) THEN t ELSE lastSweep
      /\ \/ global' = global
         \/ Allows(global, Global, t) /\ global' = Taken(global, Global, t)
      /\ call' = [call EXCEPT ![r] = NoCall]
      /\ now' = now /\ from' = from /\ admitted' = admitted /\ passed' = passed
      BY <1>0, <1>1 DEF RefuseRequest, historyVars
<1>3. t <= now /\ now <= t + MaxLag /\ now \in Nat /\ from \in Nat
      BY <1>0, <1>2, CallType
<1>4. /\ entry \in Entries /\ entry.last = t
      /\ \A j \in Kinds : /\ entry.bucket[j].at <= now
                          /\ Paid(entry.bucket[j], j, admitted[c][j])
      BY <1>1, <1>3, EntryLedger
<1>5. /\ clients' \in [Keys -> Entries \union {NoEntry}]
      /\ \A d \in Keys, j \in Kinds : Book(clients'[d], j, admitted'[d][j])
      /\ RegistryBounded'
  <2>1. admitted[c] \in [Kinds -> Nat] /\ admitted' = [admitted EXCEPT ![c] = admitted[c]]
        BY <1>2 DEF IndInv, TypeOK
  <2>2. \A j \in Kinds : admitted[c][j] # 0 => now >= from BY DEF IndInv, Ledger
  <2>3. \A j \in Kinds : /\ entry.bucket[j].at <= now
                         /\ Paid(entry.bucket[j], j, admitted[c][j])
                         /\ admitted[c][j] # 0 => now >= from
        BY <1>4, <2>2, Zenon
  <2> QED BY ONLY IndInv, c \in Keys, t \in Nat, <1>2, <1>3, <1>4, <2>1, <2>3, PutEntry, Zenon
<1>6. /\ global' \in Buckets /\ global'.at <= now /\ Paid(global', Global, passed)
      /\ passed # 0 => now >= from
  <2>1. /\ global \in Buckets /\ passed \in Nat /\ global.at <= now
        /\ Paid(global, Global, passed) /\ (passed # 0 => now >= from)
        /\ Global \in Limiters
        BY DEF IndInv, TypeOK, Ledger, Limiters
  <2>2. CASE global' = global BY <2>1, <2>2
  <2>3. CASE Allows(global, Global, t) /\ global' = Taken(global, Global, t)
    <3>1. /\ Taken(global, Global, t) \in Buckets /\ Taken(global, Global, t).at = t
          /\ Paid(Taken(global, Global, t), Global, passed)
          BY <1>3, <2>1, <2>3, TakenPaid
    <3> QED BY <1>3, <2>1, <2>3, <3>1
  <2> QED BY <1>2, <2>2, <2>3
<1>7. TypeOK'
  <2>1. lastSweep' \in Int BY <1>2 DEF IndInv, TypeOK
  <2>2. /\ call' \in [Calls -> [at : Nat, kind : Kinds, key : Keys, origin : Addresses]
                                \union {NoCall}]
        /\ \A q \in Calls : call'[q] # NoCall =>
              call'[q].at <= now' /\ now' <= call'[q].at + MaxLag
        BY <1>2, CallType DEF IndInv, TypeOK
  <2> QED BY <1>2, <1>5, <1>6, <2>1, <2>2 DEF IndInv, TypeOK
<1>8. Ledger' BY <1>2, <1>5, <1>6 DEF Ledger, Book, Paid, Spent
<1>9. clients'[c] # NoEntry
  <2>1. clients'[c] = entry BY <1>2, <1>3, RegistryLedger
  <2> QED BY <1>4, <2>1 DEF Entries, Buckets
<1> QED BY <1>0, <1>5, <1>7, <1>8, <1>9 DEF IndInv

\* A request admitted takes from both buckets what the window then counts.
LEMMA AdmitRequestInv ==
    ASSUME IndInv, NEW r \in Calls, AdmitRequest(r)
    PROVE  IndInv' /\ clients'[call[r].key] # NoEntry
<1>0. PICK t \in Nat, c \in Keys, k \in Kinds :
         t = call[r].at /\ c = call[r].key /\ k = call[r].kind
      BY CallType DEF AdmitRequest
<1>1. PICK old : old = EntryFor(c, t, RegistryFor(c, t)) OBVIOUS
<1>2. PICK entry : entry = [old EXCEPT !.bucket[k] = Taken(@, k, t)] OBVIOUS
<1>3. PICK counts : counts = IF now >= from THEN [admitted[c] EXCEPT ![k] = @ + 1]
                                            ELSE admitted[c]
      OBVIOUS
<1>4. /\ call[r] # NoCall /\ HasRoom(c, RegistryFor(c, t))
      /\ Allows(global, Global, t) /\ Allows(old.bucket[k], k, t)
      /\ clients' = [RegistryFor(c, t) EXCEPT ![c] = entry]
      /\ lastSweep' = IF Sweeps(c, t) THEN t ELSE lastSweep
      /\ global' = Taken(global, Global, t)
      /\ call' = [call EXCEPT ![r] = NoCall]
      /\ now' = now /\ from' = from
      /\ admitted' = IF now >= from THEN [admitted EXCEPT ![c][k] = @ + 1] ELSE admitted
      /\ passed' = IF now >= from THEN passed + 1 ELSE passed
      BY <1>0, <1>1, <1>2 DEF AdmitRequest
<1>5. t <= now /\ now <= t + MaxLag /\ now \in Nat /\ from \in Nat
      BY <1>0, <1>4, CallType
<1>6. /\ old \in Entries /\ old.last = t
      /\ \A j \in Kinds : /\ old.bucket[j] \in Buckets /\ old.bucket[j].at <= now
                          /\ Paid(old.bucket[j], j, admitted[c][j])
      BY <1>1, <1>5, EntryLedger
<1>7. admitted \in [Keys -> [Kinds -> Nat]]
      /\ (\A j \in Kinds : admitted[c][j] # 0 => now >= from)
      BY DEF IndInv, TypeOK, Ledger
<1>8. /\ counts \in [Kinds -> Nat] /\ admitted' = [admitted EXCEPT ![c] = counts]
      /\ \A j \in Kinds : counts[j] # 0 => now >= from
      /\ \A j \in Kinds : j # k => counts[j] = admitted[c][j]
      /\ counts[k] = IF now >= from THEN admitted[c][k] + 1 ELSE admitted[c][k]
  <2>1. admitted[c] \in [Kinds -> Nat] BY <1>7
  <2>2. CASE now >= from
    <3>1. counts = [admitted[c] EXCEPT ![k] = admitted[c][k] + 1] BY <1>3, <2>2
    <3>2. admitted' = [admitted EXCEPT ![c] = counts] BY <1>4, <1>7, <2>2, <3>1
    <3>3. counts \in [Kinds -> Nat] BY <2>1, <3>1
    <3>4. /\ counts[k] = admitted[c][k] + 1
          /\ \A j \in Kinds : j # k => counts[j] = admitted[c][j]
          BY <2>1, <3>1
    <3> QED BY <2>2, <3>2, <3>3, <3>4
  <2>3. CASE ~(now >= from)
    <3>1. counts = admitted[c] /\ admitted' = admitted BY <1>3, <1>4, <2>3
    <3>2. admitted' = [admitted EXCEPT ![c] = counts] BY <1>7, <3>1
    <3> QED BY <1>7, <2>1, <2>3, <3>1, <3>2
  <2> QED BY <2>2, <2>3
<1>9. /\ Taken(old.bucket[k], k, t) \in Buckets /\ Taken(old.bucket[k], k, t).at = t
      /\ Paid(Taken(old.bucket[k], k, t), k, counts[k])
  <2>1. k \in Limiters /\ admitted[c][k] \in Nat BY <1>7 DEF Limiters
  <2>2. /\ old.bucket[k] \in Buckets /\ old.bucket[k].at <= now
        /\ Paid(old.bucket[k], k, admitted[c][k]) /\ (admitted[c][k] # 0 => now >= from)
        BY <1>6, <1>7, Zenon
  <2>3. /\ Taken(old.bucket[k], k, t) \in Buckets /\ Taken(old.bucket[k], k, t).at = t
        /\ Paid(Taken(old.bucket[k], k, t), k, admitted[c][k])
        /\ now >= from => Paid(Taken(old.bucket[k], k, t), k, admitted[c][k] + 1)
        BY ONLY <1>4, <1>5, <2>1, <2>2, TakenPaid
  <2> QED BY <1>8, <2>3
<1>10. /\ entry \in Entries /\ entry.last = t
       /\ \A j \in Kinds : /\ entry.bucket[j].at <= now
                           /\ Paid(entry.bucket[j], j, counts[j])
  <2>1. old.bucket \in [Kinds -> Buckets] BY <1>6 DEF Entries, Buckets
  <2>2. entry = [old EXCEPT !.bucket = [old.bucket EXCEPT ![k] = Taken(old.bucket[k], k, t)]]
        BY <1>2
  <2>3. /\ entry.last = t /\ entry.bucket = [old.bucket EXCEPT ![k] = Taken(old.bucket[k], k, t)]
        /\ entry = [last |-> t, bucket |-> entry.bucket]
        BY <1>6, <2>2 DEF Entries
  <2>4. entry.bucket \in [Kinds -> Buckets] BY <1>9, <2>1, <2>3
  <2>5. entry \in Entries BY <2>3, <2>4 DEF Entries, Buckets
  <2>6. ASSUME NEW j \in Kinds
        PROVE  entry.bucket[j].at <= now /\ Paid(entry.bucket[j], j, counts[j])
    <3>1. CASE j = k BY <1>5, <1>9, <2>1, <2>3, <3>1
    <3>2. CASE j # k
      <4>1. entry.bucket[j] = old.bucket[j] BY <2>1, <2>3, <3>2
      <4>2. counts[j] = admitted[c][j] BY <1>8, <3>2
      <4> QED BY <1>6, <4>1, <4>2
    <3> QED BY <3>1, <3>2
  <2> QED BY <2>3, <2>5, <2>6
<1>11. /\ clients' \in [Keys -> Entries \union {NoEntry}]
       /\ admitted' \in [Keys -> [Kinds -> Nat]]
       /\ \A d \in Keys, j \in Kinds : Book(clients'[d], j, admitted'[d][j])
       /\ RegistryBounded'
  <2>1. \A j \in Kinds : /\ entry.bucket[j].at <= now
                         /\ Paid(entry.bucket[j], j, counts[j])
                         /\ counts[j] # 0 => now >= from
        BY <1>8, <1>10, Zenon
  <2> QED BY ONLY IndInv, c \in Keys, t \in Nat, <1>4, <1>5, <1>8, <1>10, <2>1, PutEntry, Zenon
<1>12. /\ global' \in Buckets /\ global'.at <= now /\ Paid(global', Global, passed')
       /\ passed' \in Nat /\ (passed' # 0 => now >= from)
  <2>1. /\ global \in Buckets /\ passed \in Nat /\ global.at <= now
        /\ Paid(global, Global, passed) /\ (passed # 0 => now >= from)
        /\ Global \in Limiters
        BY DEF IndInv, TypeOK, Ledger, Limiters
  <2>2. /\ Taken(global, Global, t) \in Buckets /\ Taken(global, Global, t).at = t
        /\ Paid(Taken(global, Global, t), Global, passed)
        /\ now >= from => Paid(Taken(global, Global, t), Global, passed + 1)
        BY <1>4, <1>5, <2>1, TakenPaid
  <2> QED BY <1>4, <1>5, <2>1, <2>2
<1>13. TypeOK'
  <2>1. lastSweep' \in Int BY <1>4 DEF IndInv, TypeOK
  <2>2. /\ call' \in [Calls -> [at : Nat, kind : Kinds, key : Keys, origin : Addresses]
                                \union {NoCall}]
        /\ \A q \in Calls : call'[q] # NoCall =>
              call'[q].at <= now' /\ now' <= call'[q].at + MaxLag
        BY <1>4, CallType DEF IndInv, TypeOK
  <2> QED BY <1>4, <1>5, <1>11, <1>12, <2>1, <2>2 DEF TypeOK
<1>14. Ledger' BY <1>4, <1>11, <1>12 DEF Ledger, Book, Paid, Spent
<1>15. clients'[c] # NoEntry
  <2>1. clients'[c] = entry BY <1>4, <1>5, RegistryLedger
  <2> QED BY <1>10, <2>1 DEF Entries, Buckets
<1> QED BY <1>0, <1>11, <1>13, <1>14, <1>15 DEF IndInv

\* Time passing pays for what was spent.
LEMMA TickInv == ASSUME IndInv, Tick PROVE IndInv'
<1>0. /\ now' = now + 1 /\ call' = call /\ clients' = clients /\ lastSweep' = lastSweep
      /\ global' = global /\ from' = from /\ admitted' = admitted /\ passed' = passed
      /\ \A r \in Calls : call[r] # NoCall => now < call[r].at + MaxLag
      BY DEF Tick, registryVars, historyVars
<1>1. now \in Nat /\ from \in Nat /\ now' \in Nat BY <1>0 DEF IndInv, TypeOK
<1>2. TypeOK'
  <2>1. ASSUME NEW r \in Calls, call[r] # NoCall
        PROVE  call[r].at <= now' /\ now' <= call[r].at + MaxLag
    <3>1. call[r].at \in Nat /\ call[r].at <= now /\ now < call[r].at + MaxLag
          BY <1>0, <2>1, CallType
    <3> QED BY ONLY <1>0, <1>1, <3>1, TimeAssumption
  <2> QED BY <1>0, <1>1, <2>1 DEF IndInv, TypeOK
<1>3. Ledger'
  <2>1. global.at \in Int BY DEF IndInv, TypeOK, Buckets
  <2>2. /\ passed # 0 => now' >= from
        /\ global.at <= now' /\ Paid(global, Global, passed)
        BY <1>0, <1>1, <2>1 DEF IndInv, Ledger
  <2>3. ASSUME NEW c \in Keys, NEW k \in Kinds
        PROVE  /\ admitted[c][k] # 0 => now' >= from
               /\ clients[c] # NoEntry =>
                     /\ clients[c].bucket[k].at <= now'
                     /\ clients[c].bucket[k].at <= clients[c].last + MaxLag
                     /\ Paid(clients[c].bucket[k], k, admitted[c][k])
               /\ clients[c] = NoEntry /\ admitted[c][k] # 0 =>
                     Spent(k, admitted[c][k]) <= now' - from - MaxLag
    <3>1. clients[c] # NoEntry => clients[c].bucket[k].at \in Int
          BY EntryType DEF IndInv, TypeOK
    <3>2. Spent(k, admitted[c][k]) \in Nat
      <4>1. admitted[c][k] \in Nat BY DEF IndInv, TypeOK
      <4>2. k \in Limiters BY DEF Limiters
      <4> QED BY ONLY <4>1, <4>2, Cost
    <3> QED BY <1>0, <1>1, <3>1, <3>2 DEF IndInv, Ledger
  <2> QED BY <1>0, <2>2, <2>3 DEF Ledger, Paid, Spent
<1>4. RegistryBounded' BY <1>0 DEF IndInv, RegistryBounded, Registered
<1> QED BY <1>2, <1>3, <1>4 DEF IndInv

-------------------------------------------------------------------------------
\* The address that a request is charged to: each trusted proxy appends the address
\* it was reached from, so the last one that is no proxy's is the sender's, whatever
\* the sender wrote before it.
LEMMA SenderResolved ==
    ASSUME NEW origin \in Senders, NEW header \in Headers, NEW path \in Paths
    PROVE  LET request == Forwarded(origin, header, path) IN
           ClientIP(request.peer, request.chain) \in Trusted \union {origin}
<1> DEFINE hops == <<origin>> \o path
           peer == hops[Len(hops)]
           chain == header \o SubSeq(hops, 1, Len(path))
           untrusted == {i \in DOMAIN chain : chain[i] \notin Trusted}
<1>0. origin \in Addresses /\ origin \notin Trusted BY DEF Senders
<1>1. PICK n \in 0..2 : path \in [1..n -> Trusted] BY DEF Paths
<1>2. path \in Seq(Trusted) /\ Len(path) = n BY <1>1
<1>3. PICK m \in Nat : Len(header) = m /\ header \in Seq(Addresses \union {Malformed})
  <2>1. header = <<>> \/ \E e \in Addresses \union {Malformed} : header = <<e>> BY DEF Headers
  <2>2. CASE header = <<>> BY <2>2
  <2>3. ASSUME NEW e \in Addresses \union {Malformed}, header = <<e>>
        PROVE  Len(header) = 1 /\ header \in Seq(Addresses \union {Malformed})
        BY <2>3
  <2> QED BY <2>1, <2>2, <2>3
<1>4. /\ hops \in Seq(Addresses) /\ Len(hops) = n + 1 /\ hops[1] = origin
      /\ \A i \in 1..n : hops[i + 1] = path[i]
      BY <1>0, <1>2
<1>5. /\ Forwarded(origin, header, path).peer = peer
      /\ Forwarded(origin, header, path).chain = chain
      BY DEF Forwarded
<1>6. CASE n = 0
  <2>1. peer = origin BY <1>4, <1>6
  <2>2. ClientIP(peer, chain) = peer BY <1>0, <2>1 DEF ClientIP
  <2> QED BY <1>5, <2>1, <2>2
<1>7. CASE n # 0
  <2>1. peer \in Trusted BY <1>1, <1>2, <1>4, <1>7
  <2>2. /\ DOMAIN chain = 1..(m + n)
        /\ \A i \in 1..n : chain[m + i] = hops[i]
    <3>1. SubSeq(hops, 1, n) \in Seq(Addresses) /\ Len(SubSeq(hops, 1, n)) = n
          /\ (\A i \in 1..n : SubSeq(hops, 1, n)[i] = hops[i])
          BY <1>4
    <3> HIDE DEF hops
    <3>2. chain = header \o SubSeq(hops, 1, n) BY <1>2
    <3> QED BY <1>3, <3>1, <3>2
  <2> HIDE DEF hops, chain
  <2>3. m + 1 \in untrusted
    <3>1. 1 \in 1..n BY <1>1, <1>7
    <3>2. m + 1 \in 1..(m + n) BY <1>3, <3>1
    <3> QED BY <1>0, <1>4, <2>2, <3>1, <3>2
  <2>4. \A i \in untrusted : i <= m + 1
    <3> SUFFICES ASSUME NEW i \in 1..(m + n), i > m + 1 PROVE chain[i] \in Trusted
      BY <1>3, <2>2
    <3>1. PICK j \in 1..n : i = m + j /\ j > 1
      <4>1. i - m \in 1..n /\ i = m + (i - m) /\ i - m > 1 BY <1>1, <1>3
      <4> QED BY <4>1
    <3>2. PICK h \in 1..n : j = h + 1
      <4>1. j - 1 \in 1..n /\ j = (j - 1) + 1 BY <1>1, <3>1
      <4> QED BY <4>1
    <3>3. chain[i] = path[h] BY <1>4, <2>2, <3>1, <3>2
    <3> QED BY <1>1, <3>3
  <2>5. Max(untrusted) = m + 1
    <3>0. untrusted \subseteq Int /\ m \in Int BY <1>3, <2>2
    <3>1. \A y \in untrusted : m + 1 >= y BY ONLY <2>4, <3>0
    <3>2. \A x \in untrusted : (\A y \in untrusted : x >= y) => x = m + 1
          BY ONLY <2>3, <2>4, <3>0
    <3> HIDE DEF untrusted
    <3> QED BY <2>3, <3>1, <3>2 DEF Max
  <2>6. chain[m + 1] = origin BY <1>1, <1>4, <1>7, <2>2
  <2>7. ClientIP(peer, chain) \in {peer, chain[Max(untrusted)]} BY DEF ClientIP
  <2> QED BY <1>5, <2>1, <2>5, <2>6, <2>7
<1> QED BY <1>6, <1>7

\* A call that starts has a clock value of this moment, and an address for its key.
LEMMA StartAllowInv ==
    ASSUME IndInv, NEW r \in Calls, NEW k \in Kinds, NEW origin \in Senders,
           NEW header \in Headers, NEW path \in Paths,
           StartAllow(r, k, origin, header, path)
    PROVE  /\ IndInv'
           /\ ChargedToSender => ChargedToSender'
<1>1. PICK a \in Trusted \union {origin} :
         call' = [call EXCEPT ![r] = [at |-> now, kind |-> k, origin |-> origin,
                                      key |-> RateKey[a]]]
      BY SenderResolved DEF StartAllow
<1>2. /\ now' = now /\ clients' = clients /\ lastSweep' = lastSweep /\ global' = global
      /\ from' = from /\ admitted' = admitted /\ passed' = passed
      BY DEF StartAllow, registryVars, historyVars
<1>3. a \in Addresses /\ origin \in Addresses BY DEF Senders
<1>4. RateKey[a] \in Keys BY <1>3 DEF Keys
<1>5. now \in Nat /\ now <= now + MaxLag BY DEF IndInv, TypeOK
<1>6. call \in [Calls -> [at : Nat, kind : Kinds, key : Keys, origin : Addresses]
                             \union {NoCall}]
      BY DEF IndInv, TypeOK
<1>7. TypeOK'
  <2>1. call' \in [Calls -> [at : Nat, kind : Kinds, key : Keys, origin : Addresses]
                               \union {NoCall}]
        BY <1>1, <1>3, <1>4, <1>5, <1>6
  <2>2. \A q \in Calls : call'[q] # NoCall =>
                            call'[q].at <= now' /\ now' <= call'[q].at + MaxLag
        BY <1>1, <1>2, <1>5, <1>6 DEF IndInv, TypeOK
  <2> QED BY <1>2, <2>1, <2>2 DEF IndInv, TypeOK
<1>8. Ledger' BY <1>2 DEF IndInv, Ledger, Paid, Spent
<1>9. RegistryBounded' BY <1>2 DEF IndInv, RegistryBounded, Registered
<1>10. ASSUME ChargedToSender PROVE ChargedToSender'
  <2> SUFFICES ASSUME NEW q \in Calls, call'[q] # NoCall
               PROVE  call'[q].key \in {RateKey[b] : b \in Trusted \union {call'[q].origin}}
      BY DEF ChargedToSender
  <2>1. CASE q = r
    <3>1. call'[q].key = RateKey[a] /\ call'[q].origin = origin BY <1>1, <1>6, <2>1
    <3> QED BY <3>1
  <2>2. CASE q # r
    <3>1. call'[q] = call[q] BY <1>1, <1>6, <2>2
    <3> QED BY <1>10, <3>1 DEF ChargedToSender
  <2> QED BY <2>1, <2>2
<1> QED BY <1>7, <1>8, <1>9, <1>10 DEF IndInv

-------------------------------------------------------------------------------
\* The books are in order in every reachable state.
THEOREM Invariance == Spec => []IndInv
<1>1. ASSUME IndInv, [Next]_vars PROVE IndInv'
  <2>1. ASSUME NEW r \in Calls, NEW k \in Kinds, NEW origin \in Senders,
               NEW header \in Headers, NEW path \in Paths,
               StartAllow(r, k, origin, header, path)
        PROVE  IndInv'
        BY <1>1, <2>1, StartAllowInv
  <2>2. ASSUME NEW r \in Calls, RefuseClient(r) PROVE IndInv'
        BY <1>1, <2>2, RefuseClientInv
  <2>3. ASSUME NEW r \in Calls, RefuseRequest(r) PROVE IndInv'
        BY <1>1, <2>3, RefuseRequestInv
  <2>4. ASSUME NEW r \in Calls, AdmitRequest(r) PROVE IndInv'
        BY <1>1, <2>4, AdmitRequestInv
  <2>5. CASE Tick BY <1>1, <2>5, TickInv
  <2>6. CASE UNCHANGED vars
    <3>1. /\ now' = now /\ call' = call /\ clients' = clients /\ lastSweep' = lastSweep
          /\ global' = global /\ from' = from /\ admitted' = admitted /\ passed' = passed
          BY <2>6 DEF vars, registryVars, historyVars
    <3> QED BY <1>1, <3>1
            DEF IndInv, TypeOK, Ledger, Paid, Spent, RegistryBounded, Registered
  <2> QED BY <1>1, <2>1, <2>2, <2>3, <2>4, <2>5, <2>6 DEF Next
<1> QED BY <1>1, InitInv, PTL DEF Spec

\* No client gets more than its buckets pay for, over any window.
THEOREM ClientsRate == Spec => []ClientRate
<1>1. IndInv => ClientRate
  <2> SUFFICES ASSUME IndInv, now >= from, NEW c \in Keys, NEW k \in Kinds
               PROVE  Spent(k, admitted[c][k]) <= Capacity(k) + now - from
    BY DEF ClientRate, Spent
  <2>1. now \in Nat /\ from \in Nat /\ admitted[c][k] \in Nat BY DEF IndInv, TypeOK
  <2>2. PICK n \in Nat, s \in Nat, cap \in Nat :
           n = admitted[c][k] /\ s = Spent(k, n) /\ cap = Capacity(k)
        BY <2>1, Cost, CapacityNat DEF Limiters
  <2>3. CASE n = 0
    <3>1. s = 0 BY <2>2, <2>3, Cost DEF Limiters
    <3> QED BY <2>1, <2>2, <3>1
  <2>4. CASE n # 0 /\ clients[c] = NoEntry
    <3>1. s <= now - from - MaxLag BY <2>2, <2>4 DEF IndInv, Ledger
    <3> QED BY <2>1, <2>2, <3>1
  <2>5. CASE n # 0 /\ clients[c] # NoEntry
    <3>1. /\ clients[c].bucket[k].at <= now
          /\ clients[c].bucket[k].level + s <= cap + clients[c].bucket[k].at - from
          BY <2>2, <2>5 DEF IndInv, Ledger, Paid
    <3>2. clients[c].bucket[k].at \in Int /\ clients[c].bucket[k].level \in Nat
          BY <2>5, EntryType DEF IndInv, TypeOK
    <3> QED BY <2>1, <2>2, <3>1, <3>2
  <2> QED BY <2>3, <2>4, <2>5
<1> QED BY <1>1, Invariance, PTL

\* All clients together get no more than the process's bucket pays for.
THEOREM ProcessRate == Spec => []GlobalRate
<1>1. IndInv => GlobalRate
  <2> SUFFICES ASSUME IndInv, now >= from
               PROVE  Spent(Global, passed) <= Capacity(Global) + now - from
    BY DEF GlobalRate, Spent
  <2>1. now \in Nat /\ from \in Nat /\ passed \in Nat /\ Global \in Limiters
        BY DEF IndInv, TypeOK, Limiters
  <2>2. PICK s \in Nat, cap \in Nat : s = Spent(Global, passed) /\ cap = Capacity(Global)
        BY <2>1, Cost, CapacityNat
  <2>3. CASE passed = 0
    <3>1. s = 0 BY <2>1, <2>2, <2>3, Cost
    <3> QED BY <2>1, <2>2, <3>1
  <2>4. CASE passed # 0
    <3>1. global.at <= now /\ global.level + s <= cap + global.at - from
          BY <2>2, <2>4 DEF IndInv, Ledger, Paid
    <3>2. global.at \in Int /\ global.level \in Nat BY DEF IndInv, TypeOK, Buckets
    <3> QED BY <2>1, <2>2, <3>1, <3>2
  <2> QED BY <2>3, <2>4
<1> QED BY <1>1, Invariance, PTL

\* No client can have its requests charged to another one's address.
THEOREM SendersCharged == Spec => []ChargedToSender
<1>1. Init => ChargedToSender BY DEF Init, ChargedToSender
<1>2. ASSUME IndInv, ChargedToSender, [Next]_vars PROVE ChargedToSender'
  <2>1. ASSUME NEW r \in Calls, NEW k \in Kinds, NEW origin \in Senders,
               NEW header \in Headers, NEW path \in Paths,
               StartAllow(r, k, origin, header, path)
        PROVE  ChargedToSender'
        BY <1>2, <2>1, StartAllowInv
  <2>2. ASSUME NEW r \in Calls, call' = [call EXCEPT ![r] = NoCall]
        PROVE  ChargedToSender'
    <3>1. \A q \in Calls : call'[q] # NoCall => call'[q] = call[q]
          BY <1>2, <2>2 DEF IndInv, TypeOK
    <3> QED BY <1>2, <3>1 DEF ChargedToSender
  <2>3. CASE call' = call BY <1>2, <2>3 DEF ChargedToSender
  <2> QED BY <1>2, <2>1, <2>2, <2>3
          DEF Next, vars, Tick, RefuseClient, RefuseRequest, AdmitRequest
<1> QED BY <1>1, <1>2, Invariance, PTL DEF Spec

\* A call in Allow ends by its own refusal or admission.
LEMMA CallEnds ==
    ASSUME IndInv, [Next]_vars, NEW r \in Calls, call[r] # NoCall, call'[r] = NoCall
    PROVE  RefuseClient(r) \/ RefuseRequest(r) \/ AdmitRequest(r)
<1>1. call \in [Calls -> [at : Nat, kind : Kinds, key : Keys, origin : Addresses]
                           \union {NoCall}]
      BY DEF IndInv, TypeOK
<1>2. call'[r] # call[r] OBVIOUS
<1>3. ASSUME NEW q \in Calls, q # r, NEW value, call' = [call EXCEPT ![q] = value]
      PROVE  FALSE
      BY <1>1, <1>2, <1>3
<1>4. CASE UNCHANGED vars \/ Tick BY <1>2, <1>4 DEF vars, Tick
<1>5. ASSUME NEW q \in Calls, NEW k \in Kinds, NEW origin \in Senders,
             NEW header \in Headers, NEW path \in Paths,
             StartAllow(q, k, origin, header, path)
      PROVE  FALSE
  <2>1. q # r BY <1>5 DEF StartAllow
  <2> QED BY <1>3, <1>5, <2>1 DEF StartAllow
<1>6. ASSUME NEW q \in Calls, RefuseClient(q) \/ RefuseRequest(q) \/ AdmitRequest(q)
      PROVE  q = r
      BY <1>3, <1>6 DEF RefuseClient, RefuseRequest, AdmitRequest
<1> QED BY <1>4, <1>5, <1>6 DEF Next

\* Who finds the registry full finds it full of active clients.
THEOREM OnlyActiveFill == Spec => FullOnlyOfActive
<1> DEFINE Justified(r) ==
             /\ call[r] # NoCall /\ call'[r] = NoCall
             /\ clients'[call[r].key] = NoEntry
             => \A c \in Keys : clients'[c] # NoEntry =>
                                   call[r].at - clients'[c].last < ClientIdleTTL
<1>1. ASSUME IndInv, [Next]_vars, NEW r \in Calls,
             call[r] # NoCall, call'[r] = NoCall, clients'[call[r].key] = NoEntry,
             NEW d \in Keys, clients'[d] # NoEntry
      PROVE  call[r].at - clients'[d].last < ClientIdleTTL
  <2>0. PICK t \in Nat, c \in Keys : t = call[r].at /\ c = call[r].key
        BY <1>1, CallType
  <2>2. CASE RefuseClient(r)
    <3>1. ~HasRoom(c, RegistryFor(c, t)) /\ clients' = RegistryFor(c, t)
          BY <2>0, <2>2 DEF RefuseClient
    <3>2. Sweeps(c, t) BY <3>1 DEF HasRoom, RegistryFor, Sweeps
    <3>3. clients' = Swept(t) BY <3>1, <3>2 DEF RegistryFor
    <3>4. clients[d] # NoEntry /\ ~(t - clients[d].last >= ClientIdleTTL)
          /\ clients'[d] = clients[d]
          BY <1>1, <3>3 DEF Swept
    <3>5. clients[d].last \in Int BY <1>1, <3>4 DEF IndInv, TypeOK, Entries
    <3> QED BY <2>0, <3>4, <3>5
  <2>3. CASE RefuseRequest(r) \/ AdmitRequest(r)
    BY <1>1, <2>3, RefuseRequestInv, AdmitRequestInv
  <2>4. RefuseClient(r) \/ RefuseRequest(r) \/ AdmitRequest(r) BY <1>1, CallEnds
  <2> QED BY <2>2, <2>3, <2>4
<1>2. ASSUME IndInv, [Next]_vars PROVE \A r \in Calls : Justified(r)
      BY <1>1, <1>2
<1>3. IndInv /\ [Next]_vars => [\A r \in Calls : Justified(r)]_vars
      BY <1>2
<1> QED BY <1>3, Invariance, PTL DEF Spec, FullOnlyOfActive

-------------------------------------------------------------------------------
(* The other direction: what a limit may cost a client.  Over a window that    *)
(* starts with the process, a client's bucket lacks only tokens that its own   *)
(* requests took, so only they can use up its burst.                            *)

\* An entry lacks of a full bucket no more than n requests have taken.
Held(e, k, n) == e # NoEntry => e.bucket[k].level + n * Interval[k] >= Capacity(k)

OwnTokens ==
    from = 0 => \A c \in Keys, k \in Kinds : Held(clients[c], k, admitted[c][k])

\* The call ends refused although the registry and the process's bucket had room
\* for it: the client itself has had its whole burst admitted.
LimitedByOwn(r) ==
    /\ call[r] # NoCall /\ call'[r] = NoCall
    /\ from = 0 /\ admitted' = admitted
    /\ clients'[call[r].key] # NoEntry
    /\ Allows(global, Global, call[r].at)
    => admitted[call[r].key][call[r].kind] >= Burst[call[r].kind]

\* Clients do not use up one another's tokens: the per-client limit refuses a
\* request only of a client that had Burst[kind] such requests admitted itself
\* (Control.Allow), whoever else is served, forgotten or swept meanwhile.
OwnLimitOnly == [][\A r \in Calls : LimitedByOwn(r)]_vars

\* Taking a token takes no more than its interval off a bucket.
LEMMA TakenHeld ==
    ASSUME NEW k \in Kinds, NEW b \in Buckets, NEW n \in Nat, NEW t \in Int,
           b.level + n * Interval[k] >= Capacity(k)
    PROVE  /\ Taken(b, k, t).level + (n + 1) * Interval[k] >= Capacity(k)
           /\ ~Allows(b, k, t) => n >= Burst[k]
<1>1. PICK v \in Nat, i \in Nat, cap \in Nat, a \in Nat, u \in Nat :
         /\ v = b.level /\ i = Interval[k] /\ cap = Capacity(k) /\ u = Burst[k]
         /\ a = Advanced(b, k, t)
  <2>1. k \in Limiters BY DEF Limiters
  <2>2. /\ b.level \in Nat /\ Interval[k] \in Nat /\ Capacity(k) \in Nat
        /\ Advanced(b, k, t) \in Nat /\ Burst[k] \in Nat
        BY <2>1, CapacityNat, AdvancedBounds DEF Buckets
  <2> QED BY ONLY <2>2
<1>2. a = cap \/ a >= v
  <2>1. b.at \in Int BY DEF Buckets
  <2> QED BY <1>1, <2>1 DEF Advanced
<1>3. i <= cap /\ cap = u * i /\ i > 0
  <2>1. k \in Limiters BY DEF Limiters
  <2> QED BY <1>1, <2>1, CapacityNat DEF Capacity
<1>4. n * i \in Nat /\ (n + 1) * i = n * i + i BY ONLY n \in Nat, i \in Nat
<1>5. v + n * i >= cap BY <1>1
<1>6. (a - i) + (n + 1) * i >= cap
      BY ONLY <1>1, <1>2, <1>4, <1>5
<1>7. ASSUME a < i PROVE n >= u
  <2>1. v < i /\ n * i + i > u * i BY ONLY <1>1, <1>2, <1>3, <1>4, <1>5, <1>7
  <2>2. SUFFICES ASSUME ~(n >= u) PROVE FALSE OBVIOUS
  <2>3. PICK d \in Nat : u = (n + 1) + d
    <3>1. u - (n + 1) \in Nat /\ u = (n + 1) + (u - (n + 1))
          BY ONLY <2>2, n \in Nat, u \in Nat
    <3> QED BY ONLY <3>1
  <2>4. ((n + 1) + d) * i = (n + 1) * i + d * i /\ d * i \in Nat
        BY ONLY n \in Nat, d \in Nat, i \in Nat
  <2>5. u * i >= (n + 1) * i BY ONLY <1>4, <2>3, <2>4, i \in Nat
  <2> QED BY ONLY <1>4, <2>1, <2>5, <1>3, i \in Nat
<1>8. Taken(b, k, t).level = a - i BY <1>1 DEF Taken
<1>9. Allows(b, k, t) <=> a >= i BY <1>1 DEF Allows
<1> QED BY <1>1, <1>6, <1>7, <1>8, <1>9

\* The entry that Allow goes by lacks no more either: a new one is full.
LEMMA EntryHeld ==
    ASSUME IndInv, OwnTokens, from = 0, NEW c \in Keys, NEW t \in Nat, t <= now
    PROVE  LET registry == RegistryFor(c, t) IN
           /\ \A d \in Keys, k \in Kinds : Held(registry[d], k, admitted[d][k])
           /\ \A k \in Kinds : Held(EntryFor(c, t, registry), k, admitted[c][k])
<1> DEFINE registry == RegistryFor(c, t)
<1>1. ASSUME NEW d \in Keys, NEW k \in Kinds PROVE Held(registry[d], k, admitted[d][k])
  <2>1. registry[d] \in {clients[d], NoEntry} BY RegistryLedger
  <2>2. Held(clients[d], k, admitted[d][k]) BY DEF OwnTokens
  <2> QED BY <2>1, <2>2 DEF Held
<1>2. ASSUME NEW k \in Kinds PROVE Held(EntryFor(c, t, registry), k, admitted[c][k])
  <2>1. CASE registry[c] = NoEntry
    <3>1. EntryFor(c, t, registry).bucket[k].level = Capacity(k)
          BY <2>1 DEF EntryFor, NewBucket
    <3>2. k \in Limiters /\ admitted[c][k] \in Nat BY DEF IndInv, TypeOK, Limiters
    <3>3. Capacity(k) \in Nat /\ Interval[k] \in Nat BY <3>2, CapacityNat
    <3>4. PICK n \in Nat, i \in Nat : n = admitted[c][k] /\ i = Interval[k]
          BY ONLY <3>2, <3>3
    <3>5. n * i \in Nat BY ONLY n \in Nat, i \in Nat
    <3> QED BY <3>1, <3>3, <3>4, <3>5 DEF Held
  <2>2. CASE registry[c] # NoEntry
    <3>1. registry[c] \in Entries BY <2>2, RegistryLedger
    <3>2. EntryFor(c, t, registry).bucket = registry[c].bucket
          BY <2>2, <3>1 DEF EntryFor, Entries
    <3> QED BY <1>1, <2>2, <3>2 DEF Held
  <2> QED BY <2>1, <2>2
<1> QED BY <1>1, <1>2

\* No step takes a token from a client's bucket that is not counted as its own.
LEMMA OwnTokensInv == ASSUME IndInv, OwnTokens, [Next]_vars PROVE OwnTokens'
<1> SUFFICES ASSUME from' = 0, NEW d \in Keys, NEW j \in Kinds
             PROVE  Held(clients'[d], j, admitted'[d][j])
    BY DEF OwnTokens, Held, Capacity
<1>0. from = 0 /\ Held(clients[d], j, admitted[d][j])
  <2>1. from' = from
        BY DEF Next, vars, Tick, StartAllow, RefuseClient, RefuseRequest, AdmitRequest
  <2> QED BY <2>1 DEF OwnTokens
<1>1. CASE UNCHANGED <<clients, admitted>> BY <1>0, <1>1
<1>2. ASSUME NEW r \in Calls, RefuseClient(r) PROVE Held(clients'[d], j, admitted'[d][j])
  <2>1. PICK t \in Nat, c \in Keys : t = call[r].at /\ c = call[r].key
        BY <1>2, CallType DEF RefuseClient
  <2>2. /\ clients' = RegistryFor(c, t) /\ admitted' = admitted /\ t <= now
        BY <1>2, <2>1, CallType DEF RefuseClient, historyVars
  <2> QED BY <1>0, <2>2, EntryHeld
<1>3. ASSUME NEW r \in Calls, RefuseRequest(r) PROVE Held(clients'[d], j, admitted'[d][j])
  <2>1. PICK t \in Nat, c \in Keys : t = call[r].at /\ c = call[r].key
        BY <1>3, CallType DEF RefuseRequest
  <2>2. PICK entry : entry = EntryFor(c, t, RegistryFor(c, t)) OBVIOUS
  <2>3. /\ clients' = [RegistryFor(c, t) EXCEPT ![c] = entry]
        /\ admitted' = admitted /\ t <= now
        BY <1>3, <2>1, <2>2, CallType DEF RefuseRequest, historyVars
  <2>4. RegistryFor(c, t) \in [Keys -> Entries \union {NoEntry}] BY <2>3, RegistryLedger
  <2>5. clients'[d] = IF d = c THEN entry ELSE RegistryFor(c, t)[d] BY <2>3, <2>4
  <2> QED BY <1>0, <2>2, <2>3, <2>5, EntryHeld
<1>4. ASSUME NEW r \in Calls, AdmitRequest(r) PROVE Held(clients'[d], j, admitted'[d][j])
  <2>1. PICK t \in Nat, c \in Keys, k \in Kinds :
           t = call[r].at /\ c = call[r].key /\ k = call[r].kind
        BY <1>4, CallType DEF AdmitRequest
  <2>2. PICK old : old = EntryFor(c, t, RegistryFor(c, t)) OBVIOUS
  <2>3. /\ clients' = [RegistryFor(c, t) EXCEPT ![c] = [old EXCEPT !.bucket[k] = Taken(@, k, t)]]
        /\ admitted' = IF now >= from THEN [admitted EXCEPT ![c][k] = @ + 1] ELSE admitted
        /\ t <= now /\ now <= t + MaxLag
        BY <1>4, <2>1, <2>2, CallType DEF AdmitRequest
  <2>4. now \in Nat /\ admitted \in [Keys -> [Kinds -> Nat]] BY DEF IndInv, TypeOK
  <2>5. admitted' = [admitted EXCEPT ![c][k] = @ + 1] BY <1>0, <2>3, <2>4
  <2>6. RegistryFor(c, t) \in [Keys -> Entries \union {NoEntry}] BY <2>3, RegistryLedger
  <2>7. old \in Entries /\ old.bucket \in [Kinds -> Buckets] /\ old # NoEntry
        BY <2>2, <2>3, EntryLedger, EntryType
  <2>8. \A i \in Kinds : Held(old, i, admitted[c][i]) BY <1>0, <2>2, <2>3, EntryHeld
  <2>9. CASE d # c
    <3>1. clients'[d] = RegistryFor(c, t)[d] /\ admitted'[d] = admitted[d]
          BY <2>3, <2>4, <2>5, <2>6, <2>9
    <3> QED BY <1>0, <2>3, <3>1, EntryHeld
  <2>10. CASE d = c /\ j # k
    <3>1. clients'[d].bucket[j] = old.bucket[j] /\ admitted'[d][j] = admitted[c][j]
          BY <2>3, <2>4, <2>5, <2>6, <2>7, <2>10 DEF Entries
    <3> QED BY <2>7, <2>8, <3>1 DEF Held
  <2>11. CASE d = c /\ j = k
    <3>1. clients'[d].bucket[j] = Taken(old.bucket[k], k, t)
          BY <2>3, <2>6, <2>7, <2>11 DEF Entries
    <3>2. admitted'[d][j] = admitted[c][k] + 1 BY <2>4, <2>5, <2>11
    <3>3. old.bucket[k].level + admitted[c][k] * Interval[k] >= Capacity(k)
          BY <2>7, <2>8 DEF Held
    <3>4. Taken(old.bucket[k], k, t).level + (admitted[c][k] + 1) * Interval[k] >= Capacity(k)
          BY <2>4, <2>7, <3>3, TakenHeld
    <3> QED BY <2>11, <3>1, <3>2, <3>4 DEF Held
  <2> QED BY <2>9, <2>10, <2>11
<1> QED BY <1>1, <1>2, <1>3, <1>4
        DEF Next, vars, Tick, StartAllow, registryVars, historyVars

\* A client's own requests, and nobody else's, bring it to its limit.
THEOREM OwnLimits == Spec => OwnLimitOnly
<1>1. ASSUME Init PROVE OwnTokens BY <1>1 DEF Init, OwnTokens, Held
<1>2. ASSUME IndInv, OwnTokens, [Next]_vars, NEW r \in Calls PROVE LimitedByOwn(r)
  <2> SUFFICES ASSUME call[r] # NoCall, call'[r] = NoCall, from = 0, admitted' = admitted,
                      clients'[call[r].key] # NoEntry, Allows(global, Global, call[r].at)
               PROVE  admitted[call[r].key][call[r].kind] >= Burst[call[r].kind]
      BY DEF LimitedByOwn
  <2>1. PICK t \in Nat, c \in Keys, k \in Kinds :
           t = call[r].at /\ c = call[r].key /\ k = call[r].kind
        BY <1>2, CallType
  <2>2. /\ now \in Nat /\ admitted \in [Keys -> [Kinds -> Nat]]
        /\ t <= now /\ now <= t + MaxLag
        BY <1>2, <2>1, CallType DEF IndInv, TypeOK
  <2>3. CASE RefuseClient(r)
    <3>1. clients'[c] = NoEntry BY <2>1, <2>3 DEF RefuseClient, HasRoom
    <3> QED BY <2>1, <3>1
  <2>4. CASE AdmitRequest(r)
    <3>0. admitted' = IF now >= from
                      THEN [admitted EXCEPT ![call[r].key][call[r].kind] = @ + 1]
                      ELSE admitted
          BY <2>4 DEF AdmitRequest
    <3>1. admitted' = [admitted EXCEPT ![c][k] = @ + 1] BY ONLY <2>1, <2>2, <3>0, from = 0
    <3>2. admitted'[c][k] = admitted[c][k] + 1 /\ admitted[c][k] \in Nat BY <2>2, <3>1
    <3> QED BY <3>2
  <2>5. CASE RefuseRequest(r)
    <3>1. PICK entry : entry = EntryFor(c, t, RegistryFor(c, t)) OBVIOUS
    <3>2. ~Allows(entry.bucket[k], k, t) BY <2>1, <2>5, <3>1 DEF RefuseRequest
    <3>3. entry \in Entries BY <1>2, <2>2, <3>1, EntryLedger
    <3>4. Held(entry, k, admitted[c][k]) BY <1>2, <2>2, <3>1, EntryHeld
    <3>5. entry.bucket[k] \in Buckets /\ entry # NoEntry BY <3>3, EntryType
    <3>6. entry.bucket[k].level + admitted[c][k] * Interval[k] >= Capacity(k)
          BY <3>4, <3>5 DEF Held
    <3>7. admitted[c][k] \in Nat /\ t \in Int BY <2>2
    <3>8. admitted[c][k] >= Burst[k] BY <3>2, <3>5, <3>6, <3>7, TakenHeld
    <3> QED BY <2>1, <3>8
  <2>6. RefuseClient(r) \/ RefuseRequest(r) \/ AdmitRequest(r) BY <1>2, CallEnds
  <2> QED BY <2>3, <2>4, <2>5, <2>6
<1>3. IndInv /\ OwnTokens /\ [Next]_vars => [\A r \in Calls : LimitedByOwn(r)]_vars
      BY <1>2
<1>4. IndInv /\ OwnTokens /\ [Next]_vars => OwnTokens' BY OwnTokensInv
<1> QED BY <1>1, <1>3, <1>4, Invariance, PTL DEF Spec, OwnLimitOnly
===============================================================================
