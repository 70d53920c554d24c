------------------------- MODULE AdminSessionsProofs -------------------------
(* Proofs about AdminSessions, for any number of logins, requests and rate   *)
(* keys, any limits that keep the named assumptions, and any window.         *)
EXTENDS AdminSessions, FiniteSetTheorems, TLAPS

USE SessionAssumption, LoginAssumption, BoundsAssumption, NamesAssumption, FiniteAssumption

\* A full bucket is worth its tokens' intervals.
LEMMA CapacityNat == Capacity \in Nat /\ Capacity >= LoginInterval
BY DEF Capacity

\* The cost of an attempt, net of what a late clock value can earn twice.
LEMMA Cost ==
    ASSUME NEW n \in Nat
    PROVE  /\ n * (LoginInterval - MaxLag) \in Nat
           /\ (n + 1) * (LoginInterval - MaxLag)
                = n * (LoginInterval - MaxLag) + LoginInterval - MaxLag
           /\ 0 * (LoginInterval - MaxLag) = 0
OBVIOUS

\* The bucket never holds more than its capacity.
LEMMA AdvancedBounds ==
    ASSUME NEW e \in Entries, NEW t \in Int
    PROVE  /\ Advanced(e, t) \in 0..Capacity
           /\ t > e.at => Advanced(e, t) <= e.level + t - e.at
           /\ t <= e.at => Advanced(e, t) <= e.level
BY CapacityNat DEF Advanced, Entries

\* Nothing has been spent, and nothing is stored, when the process starts.
LEMMA InitInv == Init => IndInv
<1> SUFFICES ASSUME Init PROVE IndInv
  OBVIOUS
<1>0. /\ \A l \in Logins : login[l].pc = "idle" /\ login[l].at = 0
      /\ \A q \in Requests : request[q].pc = "idle" /\ request[q].at = 0
      BY DEF Init
<1>1. TypeOK
  <2>1. login \in [Logins -> [pc : {"idle", "limit", "verify", "in"}, at : Nat,
                             client : Clients]]
        BY DEF Init
  <2>2. request \in [Requests -> [pc : {"idle", "lookup", "clock", "csrf", "act"},
                                 session : Logins, at : Nat, changes : BOOLEAN,
                                 held : BOOLEAN]]
    <3>1. [pc : {"idle"}, session : Logins, at : {0}, changes : {FALSE}, held : {FALSE}]
             \subseteq [pc : {"idle", "lookup", "clock", "csrf", "act"}, session : Logins,
                        at : Nat, changes : BOOLEAN, held : BOOLEAN]
      <4>1. /\ {"idle"} \subseteq {"idle", "lookup", "clock", "csrf", "act"}
            /\ {0} \subseteq Nat /\ {FALSE} \subseteq BOOLEAN
            OBVIOUS
      <4> QED BY <4>1, Zenon
    <3> QED BY <3>1 DEF Init
  <2>3. /\ now \in Nat /\ from \in Nat /\ sessions = {} /\ lastSweep \in Int
        BY DEF Init
  <2>4. limits \in [Clients -> Entries \union {NoEntry}] /\ attempts \in [Clients -> Nat]
        BY DEF Init
  <2> QED BY <2>1, <2>2, <2>3, <2>4 DEF TypeOK
<1>2. ClockPast BY <1>0 DEF Init, ClockPast
<1>3. Ledger BY DEF Init, Ledger
<1>4. RegistriesBounded
  <2>1. sessions = {} /\ {c \in Clients : limits[c] # NoEntry} = {} BY DEF Init
  <2>2. Cardinality({}) = 0 BY FS_EmptySet
  <2>3. 0 <= MaxSessions /\ 0 <= MaxLoginIPs OBVIOUS
  <2> QED BY <2>1, <2>2, <2>3 DEF RegistriesBounded
<1>5. Checked BY DEF Init, Checked
<1> QED BY <1>1, <1>2, <1>3, <1>4, <1>5 DEF IndInv

-------------------------------------------------------------------------------
\* What the sweep of allowLogin leaves is what was there, or forgotten after an
\* idleness that pays for everything the client has spent.
LEMMA RemainingLedger ==
    ASSUME IndInv, NEW l \in Logins, login[l].pc = "limit", NEW c \in Clients
    PROVE  /\ Remaining(login[l].at)[c] \in {limits[c], NoEntry}
           /\ Remaining(login[l].at)[c] = NoEntry /\ attempts[c] # 0 =>
                 Spent(c) <= now - from - MaxLag
<1> DEFINE t == login[l].at
<1>1. t \in Nat /\ t <= now /\ now \in Nat /\ from \in Nat BY DEF IndInv, TypeOK, ClockPast
<1>2. Remaining(t)[c] \in {limits[c], NoEntry} BY DEF Remaining
<1>3. ASSUME limits[c] # NoEntry, Remaining(t)[c] = NoEntry, attempts[c] # 0
      PROVE  Spent(c) <= now - from - MaxLag
  <2>1. limits[c] \in Entries BY <1>3 DEF IndInv, TypeOK
  <2>2. t - limits[c].last >= LoginIdleTTL BY <1>3 DEF Remaining
  <2>3. /\ limits[c].at <= limits[c].last + MaxLag
        /\ limits[c].level + Spent(c) <= Capacity + limits[c].at - from
        BY <1>3 DEF IndInv, Ledger
  <2>4. Spent(c) \in Nat BY Cost DEF Spent, IndInv, TypeOK
  <2>5. limits[c].level \in Nat /\ limits[c].at \in Int /\ limits[c].last \in Int
        BY <2>1, CapacityNat DEF Entries
  <2> HIDE DEF t
  <2> QED BY <1>1, <2>2, <2>3, <2>4, <2>5, CapacityNat
<1>4. limits[c] = NoEntry /\ attempts[c] # 0 => Spent(c) <= now - from - MaxLag
      BY DEF IndInv, Ledger
<1> QED BY <1>2, <1>3, <1>4

\* The sweep leaves no more entries than there were, and of the types they had.
LEMMA RemainingBounded ==
    ASSUME IndInv, NEW t \in Int
    PROVE  /\ Remaining(t) \in [Clients -> Entries \union {NoEntry}]
           /\ IsFiniteSet({c \in Clients : Remaining(t)[c] # NoEntry})
           /\ Cardinality({c \in Clients : Remaining(t)[c] # NoEntry}) \in Nat
           /\ Cardinality({c \in Clients : Remaining(t)[c] # NoEntry}) <= MaxLoginIPs
<1> DEFINE kept == {c \in Clients : Remaining(t)[c] # NoEntry}
           used == {c \in Clients : limits[c] # NoEntry}
<1>1. Remaining(t) \in [Clients -> Entries \union {NoEntry}]
      BY DEF Remaining, IndInv, TypeOK
<1>2. kept \subseteq used BY DEF Remaining
<1>3. IsFiniteSet(used) BY FS_Subset
<1>4. Cardinality(used) <= MaxLoginIPs BY DEF IndInv, RegistriesBounded
<1>5. /\ IsFiniteSet(kept) /\ Cardinality(kept) \in Nat /\ Cardinality(used) \in Nat
      /\ Cardinality(kept) <= Cardinality(used)
      BY <1>2, <1>3, FS_Subset, FS_CardinalityType
<1> QED BY <1>1, <1>4, <1>5

\* A sweep of the sessions leaves sessions that were there.
LEMMA SweptBounded ==
    ASSUME IndInv, NEW t
    PROVE  /\ Swept(t) \subseteq sessions /\ IsFiniteSet(Swept(t))
           /\ Cardinality(Swept(t)) \in Nat /\ Cardinality(Swept(t)) <= MaxSessions
<1>1. IsFiniteSet(sessions) BY FS_Subset DEF IndInv, TypeOK
<1>2. Swept(t) \subseteq sessions BY DEF Swept
<1>3. Cardinality(sessions) <= MaxSessions BY DEF IndInv, RegistriesBounded
<1> QED BY <1>1, <1>2, <1>3, FS_Subset, FS_CardinalityType

-------------------------------------------------------------------------------
\* What is checked of a request stays so while the session it names keeps its
\* login, and no session that was issued comes back.
LEMMA CheckedKept ==
    ASSUME IndInv, request' = request,
           \A k \in Logins : login[k].pc = "in" => login'[k] = login[k],
           \A k \in Logins : login[k].pc = "in" /\ k \in sessions' => k \in sessions
    PROVE  Checked'
<1> SUFFICES ASSUME NEW q \in Requests, request[q].pc # "idle"
             PROVE  LET k == request[q].session IN
                    /\ login'[k].pc = "in"
                    /\ k \in sessions' /\ request[q].at < login'[k].at + SessionTTL =>
                          request[q].held
                    /\ request[q].pc \in {"clock", "csrf", "act"} => request[q].held
                    /\ request[q].pc = "act" => request[q].at < login'[k].at + SessionTTL
    BY DEF Checked, Swept, ExpiresAt
<1> DEFINE k == request[q].session
<1>1. k \in Logins BY DEF IndInv, TypeOK
<1>2. login[k].pc = "in" /\ login'[k] = login[k] BY <1>1 DEF IndInv, Checked
<1>3. /\ k \in sessions /\ request[q].at < login[k].at + SessionTTL => request[q].held
      /\ request[q].pc \in {"clock", "csrf", "act"} => request[q].held
      /\ request[q].pc = "act" => request[q].at < login[k].at + SessionTTL
      BY DEF IndInv, Checked, Swept, ExpiresAt
<1> QED BY <1>1, <1>2, <1>3

\* Time passing pays for what was spent.
LEMMA TickInv == ASSUME IndInv, Tick PROVE IndInv'
<1> USE DEF Tick, sessionVars, limitVars
<1>0. now \in Nat /\ now' = now + 1 BY DEF IndInv, TypeOK
<1>1. TypeOK' BY <1>0 DEF IndInv, TypeOK, Entries
<1>2. ClockPast'
  <2>1. ASSUME NEW l \in Logins
        PROVE  /\ login[l].at <= now'
               /\ login[l].pc = "limit" => now' <= login[l].at + MaxLag
    <3>1. login[l].at \in Nat /\ login[l].at <= now BY DEF IndInv, TypeOK, ClockPast
    <3>2. login[l].pc = "limit" => now < login[l].at + MaxLag OBVIOUS
    <3> QED BY <1>0, <3>1, <3>2
  <2>2. \A q \in Requests : request[q].at <= now'
        BY <1>0 DEF IndInv, TypeOK, ClockPast
  <2> QED BY <2>1, <2>2 DEF ClockPast
<1>3. Ledger'
  <2> SUFFICES ASSUME NEW c \in Clients
               PROVE  /\ attempts[c] # 0 => now' >= from
                      /\ limits[c] # NoEntry =>
                            /\ limits[c].at <= now'
                            /\ limits[c].at <= limits[c].last + MaxLag
                            /\ attempts[c] # 0 =>
                                  limits[c].level + Spent(c) <= Capacity + limits[c].at - from
                      /\ limits[c] = NoEntry /\ attempts[c] # 0 =>
                            Spent(c) <= now' - from - MaxLag
      BY DEF Ledger, Spent
  <2>1. Spent(c) \in Nat BY Cost DEF Spent, IndInv, TypeOK
  <2>2. from \in Nat BY DEF IndInv, TypeOK
  <2>3. limits[c] # NoEntry => limits[c].at \in Int BY DEF IndInv, TypeOK, Entries
  <2> QED BY <1>0, <2>1, <2>2, <2>3 DEF IndInv, Ledger
<1>4. RegistriesBounded' BY DEF IndInv, RegistriesBounded
<1>5. Checked' BY CheckedKept
<1> QED BY <1>1, <1>2, <1>3, <1>4, <1>5 DEF IndInv

\* A login that starts has a clock value of this moment.
LEMMA StartLoginInv ==
    ASSUME IndInv, NEW l \in Logins, NEW c \in Clients, StartLogin(l, c) PROVE IndInv'
<1> USE DEF StartLogin, limitVars
<1>1. TypeOK' BY DEF IndInv, TypeOK, Entries
<1>2. ClockPast' BY DEF IndInv, TypeOK, ClockPast
<1>3. Ledger' BY DEF IndInv, Ledger, Spent
<1>4. RegistriesBounded' BY DEF IndInv, RegistriesBounded
<1>5. Checked' BY CheckedKept DEF IndInv, TypeOK
<1> QED BY <1>1, <1>2, <1>3, <1>4, <1>5 DEF IndInv

\* A wrong token touches no session.
LEMMA LoginFailedInv == ASSUME IndInv, NEW l \in Logins, LoginFailed(l) PROVE IndInv'
<1> USE DEF LoginFailed, limitVars
<1>1. TypeOK' BY DEF IndInv, TypeOK, Entries
<1>2. ClockPast' BY DEF IndInv, TypeOK, ClockPast
<1>3. Ledger' BY DEF IndInv, Ledger, Spent
<1>4. RegistriesBounded' BY DEF IndInv, RegistriesBounded
<1>5. Checked' BY CheckedKept DEF IndInv, TypeOK
<1> QED BY <1>1, <1>2, <1>3, <1>4, <1>5 DEF IndInv

\* A refused attempt costs nothing; it marks its entry used.
LEMMA LoginLimitedInv == ASSUME IndInv, NEW l \in Logins, LoginLimited(l) PROVE IndInv'
<1> DEFINE t == login[l].at
           c == login[l].client
           left == Remaining(t)
<1>1. /\ login[l].pc = "limit" /\ login' = [login EXCEPT ![l].pc = "idle"]
      /\ UNCHANGED <<now, sessions, request, attempts, from>>
      /\ lastSweep' \in {t, lastSweep}
      BY DEF LoginLimited
<1>2. \/ limits' = left
      \/ left[c] # NoEntry /\ limits' = [left EXCEPT ![c].last = t]
      BY DEF LoginLimited
<1>3. /\ t \in Nat /\ c \in Clients /\ t <= now /\ now <= t + MaxLag /\ now \in Nat
      BY <1>1 DEF IndInv, TypeOK, ClockPast
<1>4. left \in [Clients -> Entries \union {NoEntry}]
  <2>1. t \in Int BY <1>3
  <2> QED BY ONLY IndInv, <2>1, RemainingBounded
<1> HIDE DEF t, c, left
<1>5. \A d \in Clients :
         \/ limits'[d] = left[d]
         \/ d = c /\ left[d] # NoEntry /\ limits'[d] = [left[d] EXCEPT !.last = t]
      BY <1>2, <1>3, <1>4
<1>6. \A d \in Clients : limits'[d] = NoEntry <=> left[d] = NoEntry
  <2> TAKE d \in Clients
  <2>1. CASE limits'[d] = left[d] BY <2>1
  <2>2. CASE left[d] # NoEntry /\ limits'[d] = [left[d] EXCEPT !.last = t]
    <3>1. limits'[d] \in [level : Int, at : Int, last : Int]
          BY <1>3, <1>4, <2>2, CapacityNat DEF Entries
    <3> QED BY <2>2, <3>1
  <2> QED BY <1>5, <2>1, <2>2
<1>7. TypeOK'
  <2>1. limits' \in [Clients -> Entries \union {NoEntry}]
        BY <1>2, <1>3, <1>4 DEF Entries
  <2> QED BY <1>1, <1>3, <2>1 DEF IndInv, TypeOK
<1>8. ClockPast' BY <1>1 DEF IndInv, TypeOK, ClockPast
<1>9. Ledger'
  <2> SUFFICES ASSUME NEW d \in Clients
               PROVE  /\ attempts[d] # 0 => now >= from
                      /\ limits'[d] # NoEntry =>
                            /\ limits'[d].at <= now
                            /\ limits'[d].at <= limits'[d].last + MaxLag
                            /\ attempts[d] # 0 =>
                                  limits'[d].level + Spent(d) <= Capacity + limits'[d].at - from
                      /\ limits'[d] = NoEntry /\ attempts[d] # 0 =>
                            Spent(d) <= now - from - MaxLag
      BY <1>1 DEF Ledger, Spent
  <2>1. left[d] \in {limits[d], NoEntry}
        /\ (left[d] = NoEntry /\ attempts[d] # 0 => Spent(d) <= now - from - MaxLag)
        BY <1>1, RemainingLedger DEF t, left
  <2>2. CASE limits'[d] = NoEntry BY <1>6, <2>1, <2>2 DEF IndInv, Ledger
  <2>3. CASE limits'[d] # NoEntry
    <3>1. left[d] = limits[d] /\ limits[d] # NoEntry BY <1>6, <2>1, <2>3
    <3>2. limits[d] \in Entries BY <3>1 DEF IndInv, TypeOK
    <3>3. /\ limits'[d].level = limits[d].level /\ limits'[d].at = limits[d].at
          /\ limits'[d].last \in {limits[d].last, t}
          BY <1>5, <3>1, <3>2 DEF Entries
    <3>4. /\ limits[d].at <= now /\ limits[d].at <= limits[d].last + MaxLag
          /\ attempts[d] # 0 => /\ now >= from
                                /\ limits[d].level + Spent(d) <= Capacity + limits[d].at - from
          BY <3>1 DEF IndInv, Ledger
    <3>5. limits[d].at \in Int /\ limits[d].last \in Int BY <3>2 DEF Entries
    <3> QED BY <1>3, <2>3, <3>3, <3>4, <3>5
  <2> QED BY <2>2, <2>3
<1>10. RegistriesBounded'
  <2>1. {d \in Clients : limits'[d] # NoEntry} = {d \in Clients : left[d] # NoEntry}
        BY <1>6
  <2>2. Cardinality({d \in Clients : left[d] # NoEntry}) <= MaxLoginIPs
    <3>1. t \in Int BY <1>3
    <3> QED BY ONLY IndInv, <3>1, RemainingBounded DEF left
  <2> QED BY <1>1, <2>1, <2>2 DEF IndInv, RegistriesBounded
<1>11. Checked' BY <1>1, CheckedKept DEF IndInv, TypeOK
<1> QED BY <1>7, <1>8, <1>9, <1>10, <1>11 DEF IndInv

\* An admitted attempt takes from the bucket what the window then counts.
LEMMA AdmittedLedger ==
    ASSUME IndInv, NEW l \in Logins, LoginAdmitted(l) PROVE Ledger'
<1>0. PICK c \in Clients : c = login[l].client BY DEF IndInv, TypeOK
<1> DEFINE t == login[l].at
           left == Remaining(t)
           entry == IF left[c] = NoEntry THEN NewEntry(t) ELSE left[c]
           level == Advanced(entry, t) - LoginInterval
<1>1. /\ login[l].pc = "limit" /\ now' = now /\ from' = from
      /\ limits' = [left EXCEPT ![c] = [level |-> level, at |-> t, last |-> t]]
      /\ attempts' = IF now >= from THEN [attempts EXCEPT ![c] = @ + 1] ELSE attempts
      BY <1>0 DEF LoginAdmitted
<1>2. /\ t \in Nat /\ t <= now /\ now <= t + MaxLag
      /\ now \in Nat /\ from \in Nat
      BY <1>1 DEF IndInv, TypeOK, ClockPast
<1>3. left \in [Clients -> Entries \union {NoEntry}]
  <2>1. t \in Int BY <1>2
  <2> QED BY ONLY IndInv, <2>1, RemainingBounded
<1>4. \A d \in Clients :
         /\ left[d] \in {limits[d], NoEntry}
         /\ left[d] = NoEntry /\ attempts[d] # 0 => Spent(d) <= now - from - MaxLag
      BY <1>1, RemainingLedger
<1>5. /\ entry \in Entries
      /\ level \in Int /\ level <= Capacity - LoginInterval
      /\ t > entry.at => level <= entry.level + t - entry.at - LoginInterval
      /\ t <= entry.at => level <= entry.level - LoginInterval
  <2>1. NewEntry(t) \in Entries BY <1>2, CapacityNat DEF NewEntry, Entries
  <2>2. entry \in Entries BY <1>2, <1>3, <2>1
  <2>3. entry.at \in Int /\ entry.level \in Nat BY <2>2, CapacityNat DEF Entries
  <2> HIDE DEF entry
  <2>4. t \in Int BY <1>2
  <2>5. /\ Advanced(entry, t) \in 0..Capacity
        /\ t > entry.at => Advanced(entry, t) <= entry.level + t - entry.at
        /\ t <= entry.at => Advanced(entry, t) <= entry.level
        BY ONLY <2>2, <2>4, AdvancedBounds
  <2> QED BY <1>2, <2>2, <2>3, <2>5, CapacityNat
<1>6. left[c] # NoEntry => entry = limits[c] /\ limits[c] # NoEntry BY <1>2, <1>4
<1> HIDE DEF t, left, entry, level
<1>7. limits'[c] = [level |-> level, at |-> t, last |-> t] BY <1>1, <1>2, <1>3
<1>8. limits'[c] # NoEntry
  <2>1. limits'[c] \in [level : Int, at : Int, last : Int] BY <1>2, <1>5, <1>7
  <2> QED BY <2>1
<1>9. \A d \in Clients : attempts[d] # 0 => now >= from BY DEF IndInv, Ledger
<1>10. attempts'[c] # 0 =>
          now >= from /\ level + Spent(c)' <= Capacity + t - from
  <2> SUFFICES ASSUME attempts'[c] # 0
               PROVE  now >= from /\ level + Spent(c)' <= Capacity + t - from
    OBVIOUS
  <2>1. now >= from BY <1>1, <1>2, <1>9
  <2>2. attempts'[c] = attempts[c] + 1 /\ attempts[c] \in Nat
        BY <1>1, <1>2, <2>1 DEF IndInv, TypeOK
  <2>3. /\ Spent(c) \in Nat /\ Spent(c)' = Spent(c) + LoginInterval - MaxLag
        /\ attempts[c] = 0 => Spent(c) = 0
    <3>1. /\ Spent(c) = attempts[c] * (LoginInterval - MaxLag)
          /\ Spent(c)' = attempts'[c] * (LoginInterval - MaxLag)
          BY DEF Spent
    <3>2. /\ attempts[c] * (LoginInterval - MaxLag) \in Nat
          /\ (attempts[c] + 1) * (LoginInterval - MaxLag)
               = attempts[c] * (LoginInterval - MaxLag) + LoginInterval - MaxLag
          /\ 0 * (LoginInterval - MaxLag) = 0
          BY ONLY <2>2, Cost
    <3>3. attempts'[c] * (LoginInterval - MaxLag)
             = (attempts[c] + 1) * (LoginInterval - MaxLag)
          BY ONLY <2>2
    <3>4. attempts[c] = 0 =>
             attempts[c] * (LoginInterval - MaxLag) = 0 * (LoginInterval - MaxLag)
          OBVIOUS
    <3> QED BY ONLY <3>1, <3>2, <3>3, <3>4
  <2>4. CASE attempts[c] = 0 BY <1>2, <1>5, <2>1, <2>3, <2>4, CapacityNat
  <2>5. CASE attempts[c] # 0 /\ left[c] = NoEntry
    <3>1. Spent(c) <= now - from - MaxLag BY <1>2, <1>4, <2>5
    <3> QED BY <1>2, <1>5, <2>1, <2>3, <3>1, CapacityNat
  <2>6. CASE attempts[c] # 0 /\ left[c] # NoEntry
    <3>1. entry.at <= now /\ entry.level + Spent(c) <= Capacity + entry.at - from
          BY <1>2, <1>6, <2>6 DEF IndInv, Ledger
    <3>2. entry.at \in Int /\ entry.level \in Nat BY <1>5, CapacityNat DEF Entries
    <3> QED BY <1>2, <1>5, <2>1, <2>3, <3>1, <3>2, CapacityNat
  <2> QED BY <2>4, <2>5, <2>6
<1>11. ASSUME NEW d \in Clients
       PROVE  /\ attempts'[d] # 0 => now >= from
              /\ limits'[d] # NoEntry =>
                    /\ limits'[d].at <= now
                    /\ limits'[d].at <= limits'[d].last + MaxLag
                    /\ attempts'[d] # 0 =>
                          limits'[d].level + Spent(d)' <= Capacity + limits'[d].at - from
              /\ limits'[d] = NoEntry /\ attempts'[d] # 0 =>
                    Spent(d)' <= now - from - MaxLag
  <2>1. CASE d = c
    <3>1. Spent(d)' = Spent(c)' BY <2>1 DEF Spent
    <3>2. limits'[d].at = t /\ limits'[d].last = t /\ limits'[d].level = level
          BY <1>7, <2>1
    <3>3. attempts'[d] = attempts'[c] /\ limits'[d] # NoEntry BY <1>8, <2>1
    <3> QED BY <1>2, <1>10, <3>1, <3>2, <3>3
  <2>2. CASE d # c
    <3>1. limits'[d] = left[d] BY <1>1, <1>2, <1>3, <2>2
    <3>2. attempts'[d] = attempts[d] /\ Spent(d)' = Spent(d)
          BY <1>1, <2>2 DEF IndInv, TypeOK, Spent
    <3>3. CASE left[d] = NoEntry BY <1>4, <1>9, <3>1, <3>2, <3>3
    <3>4. CASE left[d] # NoEntry
      <4>1. left[d] = limits[d] BY <1>4, <3>4
      <4> QED BY <3>1, <3>2, <3>4, <4>1 DEF IndInv, Ledger
    <3> QED BY <3>3, <3>4
  <2> QED BY <2>1, <2>2
<1> QED BY <1>1, <1>11 DEF Ledger

\* An admitted attempt adds its entry only where there is room.
LEMMA LoginAdmittedInv == ASSUME IndInv, NEW l \in Logins, LoginAdmitted(l) PROVE IndInv'
<1> DEFINE t == login[l].at
           c == login[l].client
           left == Remaining(t)
           entry == IF left[c] = NoEntry THEN NewEntry(t) ELSE left[c]
           level == Advanced(entry, t) - LoginInterval
           kept == {d \in Clients : left[d] # NoEntry}
<1>1. /\ login[l].pc = "limit" /\ login' = [login EXCEPT ![l].pc = "verify"]
      /\ UNCHANGED <<now, sessions, request, from>>
      /\ limits' = [left EXCEPT ![c] = [level |-> level, at |-> t, last |-> t]]
      /\ lastSweep' \in {t, lastSweep}
      /\ attempts' \in {attempts, [attempts EXCEPT ![c] = @ + 1]}
      /\ left[c] = NoEntry => Cardinality(kept) < MaxLoginIPs
      /\ Advanced(entry, t) >= LoginInterval
      BY DEF LoginAdmitted
<1>2. t \in Nat /\ t \in Int /\ c \in Clients BY DEF IndInv, TypeOK
<1>3. /\ left \in [Clients -> Entries \union {NoEntry}]
      /\ IsFiniteSet(kept) /\ Cardinality(kept) \in Nat /\ Cardinality(kept) <= MaxLoginIPs
      BY ONLY IndInv, <1>2, RemainingBounded
<1>4. level \in 0..Capacity
  <2>1. NewEntry(t) \in Entries BY <1>2, CapacityNat DEF NewEntry, Entries
  <2>2. entry \in Entries BY <1>2, <1>3, <2>1
  <2>3. Advanced(entry, t) \in 0..Capacity BY ONLY <1>2, <2>2, AdvancedBounds
  <2> HIDE DEF entry
  <2> QED BY <1>1, <2>3, CapacityNat
<1> HIDE DEF t, c, left, entry, level
<1>5. [level |-> level, at |-> t, last |-> t] \in Entries BY <1>2, <1>4 DEF Entries
<1>6. TypeOK'
  <2>1. limits' \in [Clients -> Entries \union {NoEntry}] BY <1>1, <1>3, <1>5
  <2>2. attempts' \in [Clients -> Nat] BY <1>1 DEF IndInv, TypeOK
  <2> QED BY <1>1, <1>2, <2>1, <2>2 DEF IndInv, TypeOK
<1>7. ClockPast' BY <1>1 DEF IndInv, TypeOK, ClockPast
<1>8. Ledger' BY AdmittedLedger
<1>9. RegistriesBounded'
  <2> DEFINE used == {d \in Clients : limits'[d] # NoEntry}
  <2>1. used \subseteq kept \union {c} BY <1>1, <1>2, <1>3
  <2>2. /\ IsFiniteSet(kept \union {c})
        /\ Cardinality(kept \union {c}) =
              IF c \in kept THEN Cardinality(kept) ELSE Cardinality(kept) + 1
        BY <1>3, FS_AddElement
  <2>3. Cardinality(kept \union {c}) <= MaxLoginIPs
    <3>1. c \in kept \/ left[c] = NoEntry BY <1>2
    <3> QED BY <1>1, <1>3, <2>2, <3>1
  <2>4. /\ Cardinality(used) \in Nat /\ Cardinality(kept \union {c}) \in Nat
        /\ Cardinality(used) <= Cardinality(kept \union {c})
        BY <2>1, <2>2, FS_Subset, FS_CardinalityType
  <2>5. Cardinality(used) <= MaxLoginIPs BY <2>3, <2>4
  <2> QED BY <1>1, <2>5 DEF IndInv, RegistriesBounded
<1>10. Checked' BY <1>1, CheckedKept DEF IndInv, TypeOK
<1> QED BY <1>6, <1>7, <1>8, <1>9, <1>10 DEF IndInv

-------------------------------------------------------------------------------
\* A login that touches no limit keeps the books; so does a request.
LEMMA LedgerKept ==
    ASSUME IndInv, UNCHANGED <<now, from, limitVars>> PROVE Ledger'
BY DEF IndInv, Ledger, Spent, limitVars

\* A session is stored where there is room, after the expired ones have gone.
LEMMA StoreSessionInv == ASSUME IndInv, NEW l \in Logins, StoreSession(l) PROVE IndInv'
<1> DEFINE left == Swept(login[l].at)
<1>1. /\ login[l].pc = "verify" /\ UNCHANGED <<now, request, limitVars, from>>
      /\ \/ sessions' = left /\ login' = [login EXCEPT ![l].pc = "idle"]
         \/ /\ Cardinality(left) < MaxSessions
            /\ sessions' = left \union {l} /\ login' = [login EXCEPT ![l].pc = "in"]
      BY DEF StoreSession
<1>2. /\ left \subseteq sessions /\ IsFiniteSet(left)
      /\ Cardinality(left) \in Nat /\ Cardinality(left) <= MaxSessions
      BY SweptBounded
<1> HIDE DEF left
<1>3. TypeOK'
  <2>1. login' \in [Logins -> [pc : {"idle", "limit", "verify", "in"}, at : Nat,
                              client : Clients]]
        BY <1>1 DEF IndInv, TypeOK
  <2>2. sessions' \subseteq {k \in Logins : login'[k].pc = "in"}
        BY <1>1, <1>2, SMTT(30) DEF IndInv, TypeOK
  <2> QED BY <1>1, <2>1, <2>2 DEF IndInv, TypeOK, limitVars
<1>4. ClockPast'
  <2>1. \A k \in Logins : login'[k].at = login[k].at /\ login'[k].pc \in {login[k].pc, "idle", "in"}
        BY <1>1 DEF IndInv, TypeOK
  <2> QED BY <1>1, <2>1 DEF IndInv, ClockPast
<1>5. Ledger' BY <1>1, LedgerKept
<1>6. RegistriesBounded'
  <2>1. /\ Cardinality(left \union {l}) =
              IF l \in left THEN Cardinality(left) ELSE Cardinality(left) + 1
        BY <1>2, FS_AddElement
  <2>2. CASE sessions' = left BY <1>1, <1>2, <2>2 DEF IndInv, RegistriesBounded, limitVars
  <2>3. CASE Cardinality(left) < MaxSessions /\ sessions' = left \union {l}
    <3>1. Cardinality(left \union {l}) <= MaxSessions BY <1>2, <2>1, <2>3
    <3> QED BY <1>1, <2>3, <3>1 DEF IndInv, RegistriesBounded, limitVars
  <2> QED BY <1>1, <2>2, <2>3
<1>7. Checked'
  <2>1. \A k \in Logins : login[k].pc = "in" => login'[k] = login[k]
        BY <1>1 DEF IndInv, TypeOK
  <2>2. \A k \in Logins : login[k].pc = "in" /\ k \in sessions' => k \in sessions
        BY <1>1, <1>2
  <2> QED BY <1>1, <2>1, <2>2, CheckedKept
<1> QED BY <1>3, <1>4, <1>5, <1>6, <1>7 DEF IndInv

\* A step of a request that takes sessions away, if any, and leaves the request
\* checked, keeps the invariant.
LEMMA RequestInv ==
    ASSUME IndInv, TypeOK', Checked', \A r \in Requests : request'[r].at <= now,
           sessions' \subseteq sessions, UNCHANGED <<now, login, limitVars, from>>
    PROVE  IndInv'
<1>1. ClockPast' BY DEF IndInv, ClockPast
<1>2. Ledger' BY LedgerKept
<1>3. RegistriesBounded'
  <2>1. IsFiniteSet(sessions) BY FS_Subset DEF IndInv, TypeOK
  <2>2. /\ Cardinality(sessions') \in Nat /\ Cardinality(sessions) \in Nat
        /\ Cardinality(sessions') <= Cardinality(sessions)
        BY <2>1, FS_Subset, FS_CardinalityType
  <2> QED BY <2>2 DEF IndInv, RegistriesBounded, limitVars
<1> QED BY <1>1, <1>2, <1>3 DEF IndInv

\* Of the requests, only r moves: what remains to show is what is checked of r.
LEMMA CheckedMove ==
    ASSUME IndInv, NEW r \in Requests, NEW k \in Logins, NEW pc, NEW at, NEW held,
           login' = login, sessions' \subseteq sessions,
           request'[r].session = k, request'[r].pc = pc, request'[r].at = at,
           request'[r].held = held,
           \A q \in Requests \ {r} : request'[q] = request[q],
           pc # "idle" => login[k].pc = "in",
           pc # "idle" /\ k \in sessions' /\ at < ExpiresAt(k) => held,
           pc \in {"clock", "csrf", "act"} => held,
           pc = "act" => at < ExpiresAt(k)
    PROVE  Checked'
<1> SUFFICES ASSUME NEW q \in Requests
             PROVE  LET j == request'[q].session IN
                    /\ request'[q].pc # "idle" => login[j].pc = "in"
                    /\ request'[q].pc # "idle" /\ j \in sessions'
                         /\ request'[q].at < login[j].at + SessionTTL => request'[q].held
                    /\ request'[q].pc \in {"clock", "csrf", "act"} => request'[q].held
                    /\ request'[q].pc = "act" => request'[q].at < login[j].at + SessionTTL
    BY DEF Checked, Swept, ExpiresAt
<1>1. CASE q = r BY <1>1 DEF ExpiresAt
<1>2. CASE q # r
  <2>1. request'[q] = request[q] BY <1>2
  <2>2. LET j == request[q].session IN
        /\ request[q].pc # "idle" => login[j].pc = "in"
        /\ request[q].pc # "idle" /\ j \in sessions
             /\ request[q].at < login[j].at + SessionTTL => request[q].held
        /\ request[q].pc \in {"clock", "csrf", "act"} => request[q].held
        /\ request[q].pc = "act" => request[q].at < login[j].at + SessionTTL
        BY DEF IndInv, Checked, Swept, ExpiresAt
  <2> QED BY <2>1, <2>2
<1> QED BY <1>1, <1>2

\* A request knows at its clock value whether its session is in force.
LEMMA SendInv ==
    ASSUME IndInv, NEW r \in Requests, NEW l \in Logins, NEW changes \in BOOLEAN,
           Send(r, l, changes)
    PROVE  IndInv'
<1> DEFINE held == l \in sessions /\ now < ExpiresAt(l)
<1>1. /\ login[l].pc = "in" /\ UNCHANGED <<now, login, sessions, limitVars, from>>
      /\ request' = [request EXCEPT ![r] = [pc |-> "lookup", session |-> l, at |-> now,
                                           changes |-> changes, held |-> held]]
      BY DEF Send
<1>2. held \in BOOLEAN OBVIOUS
<1>3. now \in Nat BY DEF IndInv, TypeOK
<1>4. held <=> l \in sessions /\ now < ExpiresAt(l) OBVIOUS
<1> HIDE DEF held
<1>5. request'[r] = [pc |-> "lookup", session |-> l, at |-> now, changes |-> changes,
                     held |-> held]
      BY <1>1 DEF IndInv, TypeOK
<1>6. \A q \in Requests \ {r} : request'[q] = request[q] BY <1>1 DEF IndInv, TypeOK
<1>7. TypeOK'
  <2>1. request'[r] \in [pc : {"idle", "lookup", "clock", "csrf", "act"},
                         session : Logins, at : Nat, changes : BOOLEAN, held : BOOLEAN]
        BY <1>2, <1>3, <1>5
  <2> QED BY <1>1, <2>1 DEF IndInv, TypeOK, limitVars
<1>8. Checked' BY <1>1, <1>4, <1>5, <1>6, CheckedMove
<1>9. \A q \in Requests : request'[q].at <= now
      BY <1>3, <1>5, <1>6 DEF IndInv, ClockPast
<1> QED BY <1>1, <1>7, <1>8, <1>9, RequestInv

\* A check that passes does so with an unexpired session of the registry.
LEMMA PassInv ==
    ASSUME IndInv, NEW r \in Requests, NEW pc \in {"clock", "csrf", "act"},
           request[r].pc # "idle",
           request' = [request EXCEPT ![r].pc = pc],
           sessions' = Swept(request[r].at), request[r].session \in sessions',
           UNCHANGED <<now, login, limitVars, from>>
    PROVE  IndInv'
<1> DEFINE k == request[r].session
           at == request[r].at
<1>1. k \in Logins /\ request[r].held \in BOOLEAN BY DEF IndInv, TypeOK
<1>2. at < ExpiresAt(k) BY DEF Swept
<1>3. /\ login[k].pc = "in" /\ request[r].held
      BY DEF IndInv, Checked
<1>4. sessions' \subseteq sessions BY DEF Swept
<1>5. /\ request'[r].pc = pc /\ request'[r].session = k /\ request'[r].at = at
      /\ request'[r].held = request[r].held
      /\ \A q \in Requests \ {r} : request'[q] = request[q]
      BY DEF IndInv, TypeOK
<1>6. TypeOK' BY <1>4 DEF IndInv, TypeOK, limitVars
<1> HIDE DEF k, at
<1>7. Checked' BY <1>1, <1>2, <1>3, <1>4, <1>5, CheckedMove
<1>8. \A q \in Requests : request'[q].at <= now BY <1>5 DEF IndInv, ClockPast, at
<1> QED BY <1>4, <1>6, <1>7, <1>8, RequestInv

\* A request that is over, refused or carried out, needs no session.
LEMMA OverInv ==
    ASSUME IndInv, NEW r \in Requests, request' = [request EXCEPT ![r].pc = "idle"],
           sessions' \subseteq sessions, UNCHANGED <<now, login, limitVars, from>>
    PROVE  IndInv'
<1>1. request[r].session \in Logins BY DEF IndInv, TypeOK
<1>2. /\ request'[r].pc = "idle" /\ request'[r].session = request[r].session
      /\ request'[r].at = request[r].at /\ request'[r].held = request[r].held
      /\ \A q \in Requests \ {r} : request'[q] = request[q]
      BY DEF IndInv, TypeOK
<1>3. TypeOK' BY DEF IndInv, TypeOK, limitVars
<1>4. Checked' BY <1>1, <1>2, CheckedMove
<1>5. \A q \in Requests : request'[q].at <= now BY <1>2 DEF IndInv, ClockPast
<1> QED BY <1>3, <1>4, <1>5, RequestInv

\* Lookup finds the session in force, or the request is over.
LEMMA LookupInv == ASSUME IndInv, NEW r \in Requests, Lookup(r) PROVE IndInv'
<1>1. sessions' = Swept(request[r].at) /\ sessions' \subseteq sessions
      BY DEF Lookup, Swept
<1>2. CASE request[r].session \notin sessions' BY <1>1, <1>2, OverInv DEF Lookup
<1>3. CASE request[r].session \in sessions'
  <2>1. PICK pc \in {"clock", "act"} : request' = [request EXCEPT ![r].pc = pc]
        BY <1>3 DEF Lookup
  <2> QED BY <1>1, <1>3, <2>1, PassInv DEF Lookup
<1> QED BY <1>2, <1>3

\* CSRFMatches reads the clock anew for a request that Lookup let pass.
LEMMA StartCSRFMatchesInv ==
    ASSUME IndInv, NEW r \in Requests, StartCSRFMatches(r) PROVE IndInv'
<1> USE DEF StartCSRFMatches
<1>1. request[r].session \in Logins /\ now \in Nat BY DEF IndInv, TypeOK
<1>2. login[request[r].session].pc = "in" /\ request[r].held BY DEF IndInv, Checked
<1>3. /\ request'[r].pc = "csrf" /\ request'[r].session = request[r].session
      /\ request'[r].at = now /\ request'[r].held = request[r].held
      /\ \A q \in Requests \ {r} : request'[q] = request[q]
      BY DEF IndInv, TypeOK
<1>4. TypeOK'
  <2>1. request' \in [Requests -> [pc : {"idle", "lookup", "clock", "csrf", "act"},
                                  session : Logins, at : Nat, changes : BOOLEAN,
                                  held : BOOLEAN]]
    <3>1. request[r] \in [pc : {"idle", "lookup", "clock", "csrf", "act"},
                          session : Logins, at : Nat, changes : BOOLEAN, held : BOOLEAN]
          BY DEF IndInv, TypeOK
    <3>2. [request[r] EXCEPT !.pc = "csrf", !.at = now]
             \in [pc : {"idle", "lookup", "clock", "csrf", "act"},
                  session : Logins, at : Nat, changes : BOOLEAN, held : BOOLEAN]
          BY ONLY <1>1, <3>1
    <3>3. request' = [request EXCEPT ![r] = [request[r] EXCEPT !.pc = "csrf", !.at = now]]
          BY Zenon DEF IndInv, TypeOK
    <3> QED BY <3>2, <3>3 DEF IndInv, TypeOK
  <2> QED BY <2>1 DEF IndInv, TypeOK, limitVars
<1>5. Checked' BY <1>1, <1>2, <1>3, CheckedMove
<1>6. \A q \in Requests : request'[q].at <= now
  <2>1. now <= now BY <1>1
  <2> QED BY <1>3, <2>1 DEF IndInv, ClockPast
<1> QED BY <1>4, <1>5, <1>6, RequestInv

\* A failed check, and the end of a request, leave nothing to check.
LEMMA EndInv ==
    ASSUME IndInv, NEW r \in Requests,
           CSRFMissing(r) \/ CSRFFails(r) \/ \E logout \in BOOLEAN : Act(r, logout)
    PROVE  IndInv'
<1>1. /\ request' = [request EXCEPT ![r].pc = "idle"]
      /\ sessions' \subseteq sessions /\ UNCHANGED <<now, login, limitVars, from>>
      BY DEF CSRFMissing, CSRFFails, Act, Swept
<1> QED BY <1>1, OverInv

\* The second check passes like the first.
LEMMA CSRFMatchesInv == ASSUME IndInv, NEW r \in Requests, CSRFMatches(r) PROVE IndInv'
BY PassInv DEF CSRFMatches

\* The invariant is inductive.
LEMMA NextInv == IndInv /\ [Next]_vars => IndInv'
<1> SUFFICES ASSUME IndInv, [Next]_vars PROVE IndInv'
  OBVIOUS
<1>1. CASE Next
      BY <1>1, LoginLimitedInv, LoginAdmittedInv, LoginFailedInv, StoreSessionInv,
         StartLoginInv, LookupInv, StartCSRFMatchesInv, EndInv, CSRFMatchesInv,
         SendInv, TickInv
      DEF Next
<1>2. CASE UNCHANGED vars
  <2> USE DEF vars, sessionVars, limitVars
  <2>1. TypeOK' BY <1>2 DEF IndInv, TypeOK, Entries
  <2>2. ClockPast' BY <1>2 DEF IndInv, ClockPast
  <2>3. Ledger' BY <1>2, LedgerKept
  <2>4. RegistriesBounded' BY <1>2 DEF IndInv, RegistriesBounded
  <2>5. Checked' BY <1>2, CheckedKept
  <2> QED BY <2>1, <2>2, <2>3, <2>4, <2>5 DEF IndInv
<1> QED BY <1>1, <1>2

-------------------------------------------------------------------------------
\* The books of the login limiter, the registries and the checks of requests
\* hold in every reachable state.
THEOREM Invariance == Spec => []IndInv
<1> QED BY InitInv, NextInv, PTL DEF Spec

\* The limiter keeps to its rate in every window, although idle buckets are
\* forgotten and clock values arrive out of order.
THEOREM RateKept == Spec => []LoginRate
<1>1. IndInv => LoginRate
  <2> SUFFICES ASSUME IndInv, now >= from, NEW c \in Clients
               PROVE  Spent(c) <= Capacity + now - from
    BY DEF LoginRate
  <2>1. now \in Nat /\ from \in Nat /\ Spent(c) \in Nat
        BY Cost DEF IndInv, TypeOK, Spent
  <2>2. CASE attempts[c] = 0
    <3>1. Spent(c) = 0 BY <2>2, Cost DEF Spent
    <3> QED BY <2>1, <3>1, CapacityNat
  <2>3. CASE attempts[c] # 0 /\ limits[c] = NoEntry
    <3>1. Spent(c) <= now - from - MaxLag BY <2>3 DEF IndInv, Ledger
    <3> QED BY <2>1, <3>1, CapacityNat
  <2>4. CASE attempts[c] # 0 /\ limits[c] # NoEntry
    <3>1. /\ limits[c].at <= now
          /\ limits[c].level + Spent(c) <= Capacity + limits[c].at - from
          BY <2>4 DEF IndInv, Ledger
    <3>2. limits[c].at \in Int /\ limits[c].level \in Nat
          BY <2>4, CapacityNat DEF IndInv, TypeOK, Entries
    <3> QED BY <2>1, <3>1, <3>2, CapacityNat
  <2> QED BY <2>2, <2>3, <2>4
<1> QED BY <1>1, Invariance, PTL

\* Neither map outgrows its bound.
THEOREM RegistriesKept == Spec => []RegistriesBounded
<1>1. IndInv => RegistriesBounded BY DEF IndInv
<1> QED BY <1>1, Invariance, PTL

\* No request is carried out under a session that had ended when it began.
THEOREM ActsInForce == Spec => []ActsOnlyInForce
<1>1. IndInv => ActsOnlyInForce
      BY DEF IndInv, Checked, ActsOnlyInForce, ExpiresAt
<1> QED BY <1>1, Invariance, PTL

\* A session ends by its own logout or its expiration, under any interleaving.
THEOREM EndsJustified == Spec => EndedOnly
<1> DEFINE Justified(l) ==
      \/ now >= ExpiresAt(l)
      \/ \E r \in Requests : /\ request[r].pc = "act" /\ request[r].session = l
                             /\ request'[r].pc = "idle"
<1>1. ASSUME IndInv, NEW l \in sessions \ sessions', NEW t \in Nat, t <= now,
             sessions' = Swept(t) \/ \E k \in Logins : sessions' = Swept(t) \union {k}
      PROVE  Justified(l)
  <2>1. ~(t < ExpiresAt(l)) BY <1>1 DEF Swept
  <2>2. ExpiresAt(l) \in Nat /\ now \in Nat BY <1>1 DEF ExpiresAt, IndInv, TypeOK
  <2> QED BY <1>1, <2>1, <2>2
<1>2. ASSUME IndInv, [Next]_vars, NEW l \in sessions \ sessions' PROVE Justified(l)
  <2>1. ASSUME NEW k \in Logins, StoreSession(k) PROVE Justified(l)
    <3>1. login[k].at \in Nat /\ login[k].at <= now
          BY <1>2 DEF IndInv, TypeOK, ClockPast
    <3> QED BY <1>1, <1>2, <2>1, <3>1 DEF StoreSession
  <2>2. ASSUME NEW r \in Requests, Lookup(r) \/ CSRFFails(r) \/ CSRFMatches(r)
        PROVE  Justified(l)
    <3>1. request[r].at \in Nat /\ request[r].at <= now
          BY <1>2 DEF IndInv, TypeOK, ClockPast
    <3>2. sessions' = Swept(request[r].at) BY <2>2 DEF Lookup, CSRFFails, CSRFMatches
    <3> QED BY <1>1, <1>2, <3>1, <3>2
  <2>3. ASSUME NEW r \in Requests, NEW logout \in BOOLEAN, Act(r, logout)
        PROVE  Justified(l)
    <3>1. l = request[r].session BY <1>2, <2>3 DEF Act
    <3>2. request[r].pc = "act" /\ request'[r].pc = "idle"
          BY <1>2, <2>3 DEF Act, IndInv, TypeOK
    <3> QED BY <3>1, <3>2
  <2>4. ASSUME \/ UNCHANGED vars \/ Tick
               \/ \E k \in Logins : \/ LoginLimited(k) \/ LoginAdmitted(k)
                                     \/ LoginFailed(k)
                                     \/ \E c \in Clients : StartLogin(k, c)
               \/ \E r \in Requests :
                     \/ CSRFMissing(r) \/ StartCSRFMatches(r)
                     \/ \E k \in Logins, changes \in BOOLEAN : Send(r, k, changes)
        PROVE  FALSE
    <3>1. sessions' = sessions
          BY <2>4 DEF vars, sessionVars, Tick, LoginLimited, LoginAdmitted, LoginFailed,
                      StartLogin, CSRFMissing, StartCSRFMatches, Send
    <3> QED BY <1>2, <3>1
  <2> QED BY <1>2, <2>1, <2>2, <2>3, <2>4 DEF Next
<1>3. IndInv /\ [Next]_vars => [\A l \in sessions \ sessions' : Justified(l)]_vars
      BY <1>2
<1> QED BY <1>3, Invariance, PTL DEF Spec, EndedOnly

-------------------------------------------------------------------------------
(* The other direction: what the limits and checks may cost an administrator. *)

\* An entry lacks of a full bucket no more than n attempts have taken.
Held(entry, n) == entry # NoEntry => entry.level + n * LoginInterval >= Capacity

OwnTokens == from = 0 => \A c \in Clients : Held(limits[c], attempts[c])

\* The login ends refused although the registry had room for its client: the
\* client itself has had its whole burst of attempts admitted.
LimitedByOwn(l) ==
    /\ login[l].pc = "limit" /\ login'[l].pc = "idle"
    /\ from = 0 /\ limits'[login[l].client] # NoEntry
    => attempts[login[l].client] >= LoginBurst

\* Nobody else's attempts use up a client's: a login is refused for an empty bucket
\* only to a client that had LoginBurst attempts since the process started
\* (allowLogin), whatever order clock values arrive in.
OwnAttemptsOnly == [][\A l \in Logins : LimitedByOwn(l)]_vars

\* Taking a token takes no more than its interval off a bucket.
LEMMA TakenHeld ==
    ASSUME NEW entry \in Entries, NEW t \in Int, NEW n \in Nat, Held(entry, n)
    PROVE  /\ Advanced(entry, t) - LoginInterval + (n + 1) * LoginInterval >= Capacity
           /\ Advanced(entry, t) < LoginInterval => n >= LoginBurst
<1>1. PICK v \in Nat, i \in Nat, cap \in Nat, a \in Nat, u \in Nat :
         /\ v = entry.level /\ i = LoginInterval /\ cap = Capacity /\ u = LoginBurst
         /\ a = Advanced(entry, t)
  <2>1. /\ entry.level \in Nat /\ LoginInterval \in Nat /\ Capacity \in Nat
        /\ LoginBurst \in Nat /\ Advanced(entry, t) \in Nat
        BY CapacityNat, AdvancedBounds DEF Entries
  <2> QED BY ONLY <2>1
<1>2. a = cap \/ a >= v
  <2>1. entry.at \in Int BY DEF Entries
  <2> QED BY <1>1, <2>1 DEF Advanced
<1>3. i <= cap /\ cap = u * i /\ i > 0 BY <1>1, CapacityNat DEF Capacity
<1>4. n * i \in Nat /\ (n + 1) * i = n * i + i BY ONLY n \in Nat, i \in Nat
<1>5. v + n * i >= cap
  <2>1. entry # NoEntry BY <1>1 DEF Entries
  <2> QED BY <1>1, <2>1 DEF Held
<1>6. (a - i) + (n + 1) * i >= cap BY ONLY <1>1, <1>2, <1>4, <1>5
<1>7. ASSUME a < i PROVE n >= u
  <2>1. n * i + i > u * i BY ONLY <1>1, <1>2, <1>3, <1>4, <1>5, <1>7
  <2> SUFFICES ASSUME ~(n >= u) PROVE FALSE OBVIOUS
  <2>2. PICK d \in Nat : u = (n + 1) + d
    <3>1. u - (n + 1) \in Nat /\ u = (n + 1) + (u - (n + 1)) BY n \in Nat, u \in Nat
    <3> QED BY ONLY <3>1
  <2>3. ((n + 1) + d) * i = (n + 1) * i + d * i /\ d * i \in Nat
        BY ONLY n \in Nat, d \in Nat, i \in Nat
  <2> QED BY ONLY <1>4, <2>1, <2>2, <2>3, i \in Nat
<1> QED BY <1>1, <1>6, <1>7

\* No step takes a token from a client's bucket that is not counted as its own.
LEMMA OwnTokensInv == ASSUME IndInv, OwnTokens, [Next]_vars PROVE OwnTokens'
<1> SUFFICES ASSUME from' = 0, NEW d \in Clients PROVE Held(limits'[d], attempts'[d])
    BY DEF OwnTokens, Held
<1>0. from = 0 /\ \A c \in Clients : Held(limits[c], attempts[c])
  <2>1. from' = from
        BY DEF Next, vars, Tick, StartLogin, LoginLimited, LoginAdmitted, LoginFailed,
           StoreSession, Send, Lookup, CSRFMissing, StartCSRFMatches, CSRFFails,
           CSRFMatches, Act
  <2> QED BY <2>1 DEF OwnTokens
<1>1. CASE UNCHANGED <<limits, attempts>> BY <1>0, <1>1
<1>2. ASSUME NEW l \in Logins, login[l].pc = "limit"
      PROVE  LET left == Remaining(login[l].at) IN
             /\ left \in [Clients -> Entries \union {NoEntry}]
             /\ \A c \in Clients : Held(left[c], attempts[c])
  <2>1. login[l].at \in Int BY DEF IndInv, TypeOK
  <2>2. \A c \in Clients : Remaining(login[l].at)[c] \in {limits[c], NoEntry}
        BY <1>2, RemainingLedger
  <2> QED BY <1>0, <2>1, <2>2, RemainingBounded DEF Held
<1>3. ASSUME NEW l \in Logins, LoginLimited(l) PROVE Held(limits'[d], attempts'[d])
  <2>1. PICK t \in Nat, c \in Clients, left \in [Clients -> Entries \union {NoEntry}] :
           /\ t = login[l].at /\ c = login[l].client /\ left = Remaining(t)
           /\ \A e \in Clients : Held(left[e], attempts[e])
    <3>1. login[l].at \in Nat /\ login[l].client \in Clients /\ login[l].pc = "limit"
          BY <1>3 DEF IndInv, TypeOK, LoginLimited
    <3> QED BY <1>2, <3>1
  <2>2. /\ attempts' = attempts
        /\ \/ limits' = left
           \/ left[c] # NoEntry /\ limits' = [left EXCEPT ![c].last = t]
        BY <1>3, <2>1 DEF LoginLimited
  <2>3. CASE limits' = left BY <2>1, <2>2, <2>3
  <2>4. CASE left[c] # NoEntry /\ limits' = [left EXCEPT ![c].last = t]
    <3>1. limits'[d] = IF d = c THEN [left[c] EXCEPT !.last = t] ELSE left[d] BY <2>4
    <3>2. left[c] \in Entries BY <2>4
    <3>3. limits'[d] # NoEntry /\ d = c => limits'[d].level = left[c].level
          BY <3>1, <3>2 DEF Entries
    <3> QED BY <2>1, <2>2, <2>4, <3>1, <3>3 DEF Held
  <2> QED BY <2>2, <2>3, <2>4
<1>4. ASSUME NEW l \in Logins, LoginAdmitted(l) PROVE Held(limits'[d], attempts'[d])
  <2>1. PICK t \in Nat, c \in Clients, left \in [Clients -> Entries \union {NoEntry}] :
           /\ t = login[l].at /\ c = login[l].client /\ left = Remaining(t)
           /\ \A e \in Clients : Held(left[e], attempts[e])
    <3>1. login[l].at \in Nat /\ login[l].client \in Clients /\ login[l].pc = "limit"
          BY <1>4 DEF IndInv, TypeOK, LoginAdmitted
    <3> QED BY <1>2, <3>1
  <2>2. PICK entry : entry = IF left[c] = NoEntry THEN NewEntry(t) ELSE left[c] OBVIOUS
  <2>3. /\ limits' = [left EXCEPT ![c] = [level |-> Advanced(entry, t) - LoginInterval,
                                          at |-> t, last |-> t]]
        /\ attempts' = IF now >= from THEN [attempts EXCEPT ![c] = @ + 1] ELSE attempts
        BY <1>4, <2>1, <2>2 DEF LoginAdmitted
  <2>4. now \in Nat /\ attempts \in [Clients -> Nat] BY DEF IndInv, TypeOK
  <2>5. attempts' = [attempts EXCEPT ![c] = @ + 1] BY <1>0, <2>3, <2>4
  <2>6. entry \in Entries /\ Held(entry, attempts[c])
    <3>1. CASE left[c] = NoEntry
      <4>1. entry = [level |-> Capacity, at |-> t, last |-> t]
            BY <2>2, <3>1 DEF NewEntry
      <4>2. Capacity \in 0..Capacity /\ t \in Int BY CapacityNat
      <4>3. entry \in Entries BY <4>1, <4>2 DEF Entries
      <4>4. attempts[c] * LoginInterval \in Nat
        <5>1. attempts[c] \in Nat /\ LoginInterval \in Nat BY <2>4
        <5>2. \A n, i \in Nat : n * i \in Nat OBVIOUS
        <5> QED BY ONLY <5>1, <5>2
      <4> QED BY <4>1, <4>3, <4>4, CapacityNat DEF Held
    <3>2. CASE left[c] # NoEntry BY <2>1, <2>2, <3>2
    <3> QED BY <3>1, <3>2
  <2>7. CASE d = c
    <3>1. limits'[d].level = Advanced(entry, t) - LoginInterval BY <2>3, <2>7
    <3>2. attempts'[d] = attempts[c] + 1 /\ attempts[c] \in Nat BY <2>4, <2>5, <2>7
    <3>3. Advanced(entry, t) - LoginInterval + (attempts[c] + 1) * LoginInterval >= Capacity
          BY <2>6, <3>2, TakenHeld
    <3> QED BY <3>1, <3>2, <3>3 DEF Held
  <2>8. CASE d # c
    <3>1. limits'[d] = left[d] /\ attempts'[d] = attempts[d] BY <2>3, <2>4, <2>5, <2>8
    <3> QED BY <2>1, <3>1
  <2> QED BY <2>7, <2>8
<1> QED BY <1>1, <1>3, <1>4
        DEF Next, vars, Tick, StartLogin, LoginFailed, StoreSession, Send, Lookup,
            CSRFMissing, StartCSRFMatches, CSRFFails, CSRFMatches, Act, limitVars

\* A login that is past StartLogin ends that step by its own refusal or admission.
LEMMA LoginEnds ==
    ASSUME IndInv, [Next]_vars, NEW l \in Logins, login[l].pc = "limit",
           login'[l].pc = "idle"
    PROVE  LoginLimited(l)
<1>1. login \in [Logins -> [pc : {"idle", "limit", "verify", "in"}, at : Nat,
                           client : Clients]]
      BY DEF IndInv, TypeOK
<1>2. ASSUME NEW k \in Logins, k # l, NEW value, login' = [login EXCEPT ![k] = value]
      PROVE  FALSE
      BY <1>1, <1>2
<1>3. ASSUME login' = login PROVE FALSE BY <1>3
<1>4. ASSUME NEW k \in Logins, LoginLimited(k) PROVE LoginLimited(l)
      BY <1>1, <1>2, <1>4 DEF LoginLimited
<1>5. ASSUME NEW k \in Logins, LoginAdmitted(k) PROVE FALSE
      BY <1>1, <1>2, <1>5 DEF LoginAdmitted
<1>6. ASSUME NEW k \in Logins,
             LoginFailed(k) \/ StoreSession(k) \/ \E c \in Clients : StartLogin(k, c)
      PROVE  FALSE
      BY <1>1, <1>2, <1>6 DEF LoginFailed, StoreSession, StartLogin
<1>7. CASE UNCHANGED vars \/ Tick BY <1>3, <1>7 DEF vars, sessionVars, Tick
<1>8. ASSUME NEW r \in Requests,
             \/ Lookup(r) \/ CSRFMissing(r) \/ StartCSRFMatches(r) \/ CSRFFails(r)
             \/ CSRFMatches(r) \/ (\E logout \in BOOLEAN : Act(r, logout))
             \/ \E k \in Logins, changes \in BOOLEAN : Send(r, k, changes)
      PROVE  FALSE
      BY <1>3, <1>8 DEF Lookup, CSRFMissing, StartCSRFMatches, CSRFFails, CSRFMatches,
                        Act, Send
<1> QED BY <1>4, <1>5, <1>6, <1>7, <1>8 DEF Next

\* A client's own attempts, and nobody else's, bring it to its limit.
THEOREM OwnAttempts == Spec => OwnAttemptsOnly
<1>1. ASSUME Init PROVE OwnTokens BY <1>1 DEF Init, OwnTokens, Held
<1>2. ASSUME IndInv, OwnTokens, [Next]_vars, NEW l \in Logins PROVE LimitedByOwn(l)
  <2> SUFFICES ASSUME login[l].pc = "limit", login'[l].pc = "idle", from = 0,
                      limits'[login[l].client] # NoEntry
               PROVE  attempts[login[l].client] >= LoginBurst
      BY DEF LimitedByOwn
  <2>1. PICK t \in Nat, c \in Clients :
           t = login[l].at /\ c = login[l].client /\ attempts[c] \in Nat
        BY <1>2 DEF IndInv, TypeOK
  <2>2. LoginLimited(l) BY <1>2, LoginEnds
  <2>3. PICK left \in [Clients -> Entries \union {NoEntry}] :
           left = Remaining(t) /\ left[c] \in {limits[c], NoEntry}
    <3>1. t \in Int BY <2>1
    <3>2. Remaining(t) \in [Clients -> Entries \union {NoEntry}]
          BY ONLY IndInv, <1>2, <3>1, RemainingBounded
    <3>3. Remaining(t)[c] \in {limits[c], NoEntry} BY <1>2, <2>1, RemainingLedger
    <3> QED BY <3>2, <3>3
  <2>4. left[c] # NoEntry /\ Advanced(left[c], t) < LoginInterval
        BY <2>1, <2>2, <2>3 DEF LoginLimited
  <2>5. left[c] \in Entries /\ Held(left[c], attempts[c])
        BY <1>2, <2>3, <2>4 DEF OwnTokens
  <2>6. attempts[c] >= LoginBurst BY <2>1, <2>4, <2>5, TakenHeld
  <2> QED BY <2>1, <2>6
<1>3. IndInv /\ OwnTokens /\ [Next]_vars => [\A l \in Logins : LimitedByOwn(l)]_vars
      BY <1>2
<1>4. IndInv /\ OwnTokens /\ [Next]_vars => OwnTokens' BY OwnTokensInv
<1> QED BY <1>1, <1>3, <1>4, Invariance, PTL DEF Spec, OwnAttemptsOnly

-------------------------------------------------------------------------------
\* A request that found its session in force read the clock before it expired.
HeldUnexpired ==
    \A r \in Requests : request[r].pc = "lookup" /\ request[r].held =>
                            request[r].at < ExpiresAt(request[r].session)

\* A session that ended, by logout, expiration or a sweep, never comes back.
EndedStays ==
    \A l \in Logins : login[l].pc = "in" /\ l \notin sessions =>
                          login'[l].pc = "in" /\ l \notin sessions'
EndedForGood == [][EndedStays]_vars

\* Lookup refuses a request that was sent under a session in force only if that
\* session has ended since; by EndedOnly, through its own logout or expiration.
LookupJust ==
    \A r \in Requests :
        /\ request[r].pc = "lookup" /\ request[r].held
        /\ request'[r].pc = "idle"
        => request[r].session \notin sessions
RefusedOnlyIfEnded == [][LookupJust]_vars

\* What each step does to logins, sessions and requests in Lookup.
LEMMA SessionStep ==
    ASSUME IndInv, HeldUnexpired, [Next]_vars
    PROVE  EndedStays /\ LookupJust /\ HeldUnexpired'
<1>1. /\ login \in [Logins -> [pc : {"idle", "limit", "verify", "in"}, at : Nat,
                               client : Clients]]
      /\ request \in [Requests -> [pc : {"idle", "lookup", "clock", "csrf", "act"},
                                   session : Logins, at : Nat, changes : BOOLEAN,
                                   held : BOOLEAN]]
      /\ \A r \in Requests : request[r].pc # "idle" => login[request[r].session].pc = "in"
      BY DEF IndInv, TypeOK, Checked
<1>2. /\ EndedStays
      /\ \A l \in Logins : login[l].pc = "in" => login'[l] = login[l]
  <2>1. ASSUME NEW l \in Logins,
               \/ LoginLimited(l) \/ LoginAdmitted(l) \/ LoginFailed(l) \/ StoreSession(l)
               \/ \E c \in Clients : StartLogin(l, c)
        PROVE  /\ \A k \in Logins : login[k].pc = "in" => login'[k] = login[k]
               /\ \A k \in Logins : login[k].pc = "in" /\ k \in sessions' => k \in sessions
        BY <1>1, <2>1 DEF LoginLimited, LoginAdmitted, LoginFailed, StoreSession,
                          StartLogin, Swept
  <2>2. CASE login' = login /\ sessions' \subseteq sessions BY <2>2 DEF EndedStays
  <2>3. ASSUME NEW r \in Requests,
               \/ Lookup(r) \/ CSRFMissing(r) \/ StartCSRFMatches(r) \/ CSRFFails(r)
               \/ CSRFMatches(r) \/ (\E logout \in BOOLEAN : Act(r, logout))
               \/ \E k \in Logins, changes \in BOOLEAN : Send(r, k, changes)
        PROVE  login' = login /\ sessions' \subseteq sessions
        BY <2>3 DEF Lookup, CSRFMissing, StartCSRFMatches, CSRFFails, CSRFMatches, Act,
                    Send, Swept
  <2>4. CASE UNCHANGED vars \/ Tick BY <2>2, <2>4 DEF vars, sessionVars, Tick
  <2> QED BY <2>1, <2>2, <2>3, <2>4 DEF Next, EndedStays
<1>3. CASE UNCHANGED request
  <2>1. HeldUnexpired' BY <1>1, <1>2, <1>3 DEF HeldUnexpired, ExpiresAt
  <2>2. LookupJust BY <1>3 DEF LookupJust
  <2> QED BY <1>2, <2>1, <2>2
<1>4. ASSUME NEW r \in Requests, NEW l \in Logins, NEW changes \in BOOLEAN,
             Send(r, l, changes)
      PROVE  LookupJust /\ HeldUnexpired'
  <2>1. /\ request[r].pc = "idle" /\ login' = login
        /\ request'[r].session = l /\ request'[r].at = now
        /\ request'[r].held => now < login[l].at + SessionTTL
        /\ \A q \in Requests \ {r} : request'[q] = request[q]
        BY <1>1, <1>4 DEF Send, ExpiresAt
  <2>2. LookupJust BY <2>1 DEF LookupJust
  <2>3. HeldUnexpired' BY <2>1 DEF HeldUnexpired, ExpiresAt
  <2> QED BY <2>2, <2>3
<1>5. ASSUME NEW r \in Requests,
             \/ Lookup(r) \/ CSRFMissing(r) \/ StartCSRFMatches(r) \/ CSRFFails(r)
             \/ CSRFMatches(r) \/ (\E logout \in BOOLEAN : Act(r, logout))
      PROVE  LookupJust /\ HeldUnexpired'
  <2>1. /\ login' = login /\ request'[r].pc # "lookup"
        /\ \A q \in Requests \ {r} : request'[q] = request[q]
        BY <1>1, <1>5 DEF Lookup, CSRFMissing, StartCSRFMatches, CSRFFails, CSRFMatches, Act
  <2>2. HeldUnexpired' BY <2>1 DEF HeldUnexpired, ExpiresAt
  <2>3. request[r].pc = "lookup" /\ request[r].held /\ request'[r].pc = "idle" =>
           request[r].session \notin sessions
        BY <1>1, <1>5 DEF Lookup, CSRFMissing, StartCSRFMatches, CSRFFails, CSRFMatches, Act,
           Swept, HeldUnexpired
  <2>4. LookupJust BY <2>1, <2>3 DEF LookupJust
  <2> QED BY <2>2, <2>4
<1> QED BY <1>2, <1>3, <1>4, <1>5
        DEF Next, vars, sessionVars, Tick, LoginLimited, LoginAdmitted, LoginFailed,
            StoreSession, StartLogin

\* The requests that found their session in force, always.
LEMMA UnexpiredAlways == Spec => []HeldUnexpired
<1>1. Init => HeldUnexpired BY DEF Init, HeldUnexpired
<1>2. IndInv /\ HeldUnexpired /\ [Next]_vars => HeldUnexpired' BY SessionStep
<1> QED BY <1>1, <1>2, Invariance, PTL DEF Spec

\* No interleaving of logins, lookups and sweeps restores a session.
THEOREM EndsForGood == Spec => EndedForGood
<1>1. IndInv /\ HeldUnexpired /\ [Next]_vars => [EndedStays]_vars BY SessionStep
<1> QED BY <1>1, Invariance, UnexpiredAlways, PTL DEF Spec, EndedForGood

\* And no request loses a session that is still there.
THEOREM RefusedJust == Spec => RefusedOnlyIfEnded
<1>1. IndInv /\ HeldUnexpired /\ [Next]_vars => [LookupJust]_vars BY SessionStep
<1> QED BY <1>1, Invariance, UnexpiredAlways, PTL DEF Spec, RefusedOnlyIfEnded
===============================================================================
