----------------------------- MODULE AdminSessions -----------------------------
(***************************************************************************)
(* The administrator's sessions (admin/manager.go) and the requests that   *)
(* use them (adminapi/adminapi.go), in the lifetime of one process.        *)
(*                                                                         *)
(* Every method of Manager reads the clock before it takes the mutex, so   *)
(* the critical sections do not run in the order of their clock values; a  *)
(* login takes the mutex twice with one clock value, and a state-changing  *)
(* request is checked in two critical sections, Lookup and CSRFMatches.    *)
(*                                                                         *)
(* A session is named by the login request that created it.  A token       *)
(* bucket is measured in time: its level is the time it took to earn, so   *)
(* an attempt costs LoginInterval.  The bucket is golang.org/x/time/rate.  *)
(***************************************************************************)
EXTENDS Integers, FiniteSets

CONSTANTS
    Logins,         \* login requests
    Requests,       \* connections that send requests with a session cookie
    Clients,        \* rate keys
    NoEntry,        \* no entry in loginLimits
    SessionTTL, MaxSessions,
    LoginInterval, LoginBurst, LoginIdleTTL, MaxLoginIPs,
    MaxLag,         \* bound: how long a login waits for the mutex
    Windows,        \* the start times of the windows in which attempts are counted
    MaxTime         \* bound: the last clock value explored

Capacity == LoginBurst * LoginInterval

ASSUME SessionAssumption == SessionTTL \in Nat \ {0} /\ MaxSessions \in Nat \ {0}
\* 12 s per token and 60 s for all five, against 10 minutes of idleness and the
\* wait for a mutex.
ASSUME LoginAssumption ==
    /\ LoginBurst \in Nat \ {0} /\ LoginInterval \in Nat /\ MaxLag \in Nat
    /\ LoginInterval > MaxLag
    /\ LoginIdleTTL \in Nat /\ LoginIdleTTL >= Capacity + 2 * MaxLag
    /\ MaxLoginIPs \in Nat \ {0}
ASSUME BoundsAssumption == MaxTime \in Nat /\ Windows \subseteq Nat
ASSUME NamesAssumption == NoEntry \notin [level : Int, at : Int, last : Int]
ASSUME FiniteAssumption == IsFiniteSet(Logins) /\ IsFiniteSet(Clients)

VARIABLES
    now,        \* the server clock
    login,      \* of each login request: step, clock value, rate key
    sessions,   \* manager.sessions
    limits,     \* manager.loginLimits: level and time of the bucket, last use
    lastSweep,  \* manager.lastSweep
    request,    \* of each connection: step, session, clock value, kind
    from,       \* history: when the window starts
    attempts    \* history: attempts admitted in the window

sessionVars == <<login, sessions, request>>
limitVars == <<limits, lastSweep, attempts>>
vars == <<now, sessionVars, limitVars, from>>

\* sessionRecord.expiresAt
ExpiresAt(l) == login[l].at + SessionTTL

\* The expiration's own millisecond still counted in.
MutSwept(t) == {l \in sessions : t <= ExpiresAt(l)}

\* sweepLocked
Swept(t) == {l \in sessions : t < ExpiresAt(l)}

-------------------------------------------------------------------------------
Init ==
    /\ now = 0 /\ sessions = {}
    /\ login \in [Logins -> [pc : {"idle"}, at : {0}, client : Clients]]
    /\ limits = [c \in Clients |-> NoEntry] /\ lastSweep = -LoginIdleTTL
    /\ request \in [Requests -> [pc : {"idle"}, session : Logins, at : {0},
                                 changes : {FALSE}, held : {FALSE}]]
    /\ from \in Windows /\ attempts = [c \in Clients |-> 0]

\* The clock; no login waits for the mutex longer than MaxLag.
Tick ==
    /\ now < MaxTime
    /\ \A l \in Logins : login[l].pc = "limit" => now < login[l].at + MaxLag
    /\ now' = now + 1
    /\ UNCHANGED <<sessionVars, limitVars, from>>

\* Login reads the clock ...
StartLogin(l, c) ==
    /\ login[l].pc = "idle"
    /\ login' = [login EXCEPT ![l] = [pc |-> "limit", at |-> now, client |-> c]]
    /\ UNCHANGED <<now, sessions, request, limitVars, from>>

\* The first login of every loginIdleTTL sweeps.
SweepDue(t) == t - lastSweep >= LoginIdleTTL

\* The sweep that forgets an entry at once.
MutRemaining(t) == [c \in Clients |-> IF SweepDue(t) THEN NoEntry ELSE limits[c]]

\* The entries that the periodic sweep of allowLogin leaves.
Remaining(t) ==
    [c \in Clients |-> IF /\ limits[c] # NoEntry /\ SweepDue(t)
                          /\ t - limits[c].last >= LoginIdleTTL
                       THEN NoEntry ELSE limits[c]]

\* rate.NewLimiter: full.
NewEntry(t) == [level |-> Capacity, at |-> t, last |-> t]

\* The bucket without its capacity.
MutAdvanced(entry, t) ==
    IF t > entry.at THEN entry.level + (t - entry.at) ELSE entry.level

\* rate.Limiter.advance: a time before the bucket's own earns nothing.
Advanced(entry, t) ==
    LET earned == IF t > entry.at THEN entry.level + (t - entry.at) ELSE entry.level
    IN  IF earned < Capacity THEN earned ELSE Capacity

\* ... is refused, as the bucket is empty or the registry full ...
LoginLimited(l) ==
    LET t == login[l].at
        c == login[l].client
        left == Remaining(t)
    IN  /\ login[l].pc = "limit"
        /\ \/ /\ left[c] = NoEntry
              /\ Cardinality({d \in Clients : left[d] # NoEntry}) >= MaxLoginIPs
              /\ limits' = left
           \/ /\ left[c] # NoEntry
              /\ Advanced(left[c], t) < LoginInterval
              /\ limits' = [left EXCEPT ![c].last = t]
        /\ lastSweep' = IF SweepDue(t) THEN t ELSE lastSweep
        /\ login' = [login EXCEPT ![l].pc = "idle"]
        /\ UNCHANGED <<now, sessions, request, attempts, from>>

\* ... or admitted, which takes a token and sets the bucket's time, even back.
LoginAdmitted(l) ==
    LET t == login[l].at
        c == login[l].client
        left == Remaining(t)
        entry == IF left[c] = NoEntry THEN NewEntry(t) ELSE left[c]
    IN  /\ login[l].pc = "limit"
        /\ left[c] = NoEntry =>
              Cardinality({d \in Clients : left[d] # NoEntry}) < MaxLoginIPs
        /\ Advanced(entry, t) >= LoginInterval
        /\ limits' = [left EXCEPT ![c] = [level |-> Advanced(entry, t) - LoginInterval,
                                          at |-> t, last |-> t]]
        /\ lastSweep' = IF SweepDue(t) THEN t ELSE lastSweep
        /\ login' = [login EXCEPT ![l].pc = "verify"]
        /\ attempts' = IF now >= from THEN [attempts EXCEPT ![c] = @ + 1] ELSE attempts
        /\ UNCHANGED <<now, sessions, request, from>>

\* The token is wrong, or no random bytes are to be had.
LoginFailed(l) ==
    /\ login[l].pc = "verify"
    /\ login' = [login EXCEPT ![l].pc = "idle"]
    /\ UNCHANGED <<now, sessions, request, limitVars, from>>

\* A bound that lets one session too many in.
MutStoreOneMore(l) ==
    /\ login[l].pc = "verify"
    /\ LET left == Swept(login[l].at) IN
       \/ /\ Cardinality(left) > MaxSessions
          /\ sessions' = left
          /\ login' = [login EXCEPT ![l].pc = "idle"]
       \/ /\ Cardinality(left) <= MaxSessions
          /\ sessions' = left \union {l}
          /\ login' = [login EXCEPT ![l].pc = "in"]
    /\ UNCHANGED <<now, request, limitVars, from>>

\* A full registry that makes room.
MutStoreEvicting(l) ==
    /\ login[l].pc = "verify"
    /\ LET left == Swept(login[l].at) IN
       \E gone \in SUBSET left :
          /\ Cardinality(left \ gone) < MaxSessions
          /\ Cardinality(gone) <= 1
          /\ sessions' = (left \ gone) \union {l}
          /\ login' = [login EXCEPT ![l].pc = "in"]
    /\ UNCHANGED <<now, request, limitVars, from>>

\* The session is stored, unless as many are active as there may be.
StoreSession(l) ==
    /\ login[l].pc = "verify"
    /\ LET left == Swept(login[l].at) IN
       \/ /\ Cardinality(left) >= MaxSessions
          /\ sessions' = left
          /\ login' = [login EXCEPT ![l].pc = "idle"]
       \/ /\ Cardinality(left) < MaxSessions
          /\ sessions' = left \union {l}
          /\ login' = [login EXCEPT ![l].pc = "in"]
    /\ UNCHANGED <<now, request, limitVars, from>>

\* A request with the cookie of a session that was issued: Lookup reads the
\* clock.  held records whether the session is in force.
Send(r, l, changes) ==
    /\ request[r].pc = "idle" /\ login[l].pc = "in"
    /\ request' = [request EXCEPT ![r] =
                     [pc |-> "lookup", session |-> l, at |-> now, changes |-> changes,
                      held |-> l \in sessions /\ now < ExpiresAt(l)]]
    /\ UNCHANGED <<now, login, sessions, limitVars, from>>

\* Lookup's critical section.
Lookup(r) ==
    /\ request[r].pc = "lookup"
    /\ sessions' = Swept(request[r].at)
    /\ request' = [request EXCEPT ![r].pc =
                     IF request[r].session \notin sessions' THEN "idle"
                     ELSE IF request[r].changes THEN "clock" ELSE "act"]
    /\ UNCHANGED <<now, login, limitVars, from>>

\* The request carries no CSRF header.
CSRFMissing(r) ==
    /\ request[r].pc = "clock"
    /\ request' = [request EXCEPT ![r].pc = "idle"]
    /\ UNCHANGED <<now, login, sessions, limitVars, from>>

\* CSRFMatches reads the clock ...
StartCSRFMatches(r) ==
    /\ request[r].pc = "clock"
    /\ request' = [request EXCEPT ![r].pc = "csrf", ![r].at = now]
    /\ UNCHANGED <<now, login, sessions, limitVars, from>>

\* ... and, in its critical section, finds the session gone or the value wrong ...
CSRFFails(r) ==
    /\ request[r].pc = "csrf"
    /\ sessions' = Swept(request[r].at)
    /\ request' = [request EXCEPT ![r].pc = "idle"]
    /\ UNCHANGED <<now, login, limitVars, from>>

\* ... or matches it.
CSRFMatches(r) ==
    /\ request[r].pc = "csrf"
    /\ sessions' = Swept(request[r].at)
    /\ request[r].session \in sessions'
    /\ request' = [request EXCEPT ![r].pc = "act"]
    /\ UNCHANGED <<now, login, limitVars, from>>

\* What the request was for, ending the session in the case of a logout.
Act(r, logout) ==
    /\ request[r].pc = "act"
    /\ logout => request[r].changes
    /\ sessions' = IF logout THEN sessions \ {request[r].session} ELSE sessions
    /\ request' = [request EXCEPT ![r].pc = "idle"]
    /\ UNCHANGED <<now, login, limitVars, from>>

Next ==
    \/ \E l \in Logins : \/ LoginLimited(l) \/ LoginAdmitted(l)
                         \/ LoginFailed(l) \/ StoreSession(l)
                         \/ \E c \in Clients : StartLogin(l, c)
    \/ \E r \in Requests :
          \/ Lookup(r) \/ CSRFMissing(r) \/ StartCSRFMatches(r) \/ CSRFFails(r)
          \/ CSRFMatches(r)
          \/ \E l \in Logins, changes \in BOOLEAN : Send(r, l, changes)
          \/ \E logout \in BOOLEAN : Act(r, logout)
    \/ Tick

Spec == Init /\ [][Next]_vars

-------------------------------------------------------------------------------
\* Types, and the clock values that were read are past.
Entries == [level : 0..Capacity, at : Int, last : Int]

TypeOK ==
    /\ now \in Nat /\ from \in Nat
    /\ login \in [Logins -> [pc : {"idle", "limit", "verify", "in"}, at : Nat,
                             client : Clients]]
    /\ sessions \subseteq {l \in Logins : login[l].pc = "in"}
    /\ limits \in [Clients -> Entries \union {NoEntry}]
    /\ lastSweep \in Int /\ attempts \in [Clients -> Nat]
    /\ request \in [Requests -> [pc : {"idle", "lookup", "clock", "csrf", "act"},
                                 session : Logins, at : Nat, changes : BOOLEAN,
                                 held : BOOLEAN]]

ClockPast ==
    /\ \A l \in Logins : /\ login[l].at <= now
                         /\ login[l].pc = "limit" => now <= login[l].at + MaxLag
    /\ \A r \in Requests : request[r].at <= now

\* What the attempts of the window have cost, as waiting pays for it.  An
\* attempt that sets the bucket's time back lets up to MaxLag be earned twice.
Spent(c) == attempts[c] * (LoginInterval - MaxLag)

\* The bucket's level with what was spent never exceeds what was there and what
\* the time has earned; an entry is forgotten when that makes no difference.
Ledger ==
    \A c \in Clients :
        /\ attempts[c] # 0 => now >= from
        /\ limits[c] # NoEntry =>
              /\ limits[c].at <= now /\ limits[c].at <= limits[c].last + MaxLag
              /\ attempts[c] # 0 => limits[c].level + Spent(c) <= Capacity + limits[c].at - from
        /\ limits[c] = NoEntry /\ attempts[c] # 0 => Spent(c) <= now - from - MaxLag

\* A request past its checks uses an unexpired clock value of its session, which
\* was issued.
Checked ==
    \A r \in Requests :
        LET l == request[r].session IN
        /\ request[r].pc # "idle" => login[l].pc = "in"
        /\ request[r].pc # "idle" /\ l \in Swept(request[r].at) => request[r].held
        /\ request[r].pc \in {"clock", "csrf", "act"} => request[r].held
        /\ request[r].pc = "act" => request[r].at < ExpiresAt(l)

\* No more than maxSessions sessions, no more than maxLoginIPs limiters.
RegistriesBounded ==
    /\ Cardinality(sessions) <= MaxSessions
    /\ Cardinality({c \in Clients : limits[c] # NoEntry}) <= MaxLoginIPs

IndInv == TypeOK /\ ClockPast /\ Ledger /\ RegistriesBounded /\ Checked

\* A client identity has no more attempts at the token admitted, in whatever
\* window, than a full bucket and the window's length pay for, although its
\* bucket is forgotten after idleness and its attempts reach it out of order.
LoginRate ==
    now >= from => \A c \in Clients : Spent(c) <= Capacity + now - from

\* A request that began after its session had been logged out or had expired is
\* never carried out, nor one whose last check was at the expiration or later.
ActsOnlyInForce ==
    \A r \in Requests :
        request[r].pc = "act" =>
           /\ request[r].held
           /\ request[r].at < login[request[r].session].at + SessionTTL

\* A session leaves the registry by its own logout or once it has expired, never
\* to make room for another.
EndedOnly ==
    [][\A l \in sessions \ sessions' :
          \/ now >= ExpiresAt(l)
          \/ \E r \in Requests : /\ request[r].pc = "act" /\ request[r].session = l
                                 /\ request'[r].pc = "idle"]_vars
===============================================================================
