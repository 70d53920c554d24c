----------------------------- MODULE AdminListing -----------------------------
(***************************************************************************)
(* The administrator's listing (share/admin.go, AdminList): keyset         *)
(* pagination over (created_at, id), one SQL query per page, while Shares  *)
(* are created, updated, deleted and purged between the pages.             *)
(*                                                                         *)
(* created_at is read from the clock before the row can commit, so rows do *)
(* not appear in its order.  The filters on kind, privacy and ID never     *)
(* change their verdict on a row; only the lifecycle filter does, and it   *)
(* is the only one here.  An ID is drawn at random, which orders Shares of *)
(* the same millisecond arbitrarily.                                       *)
(***************************************************************************)
EXTENDS Integers, FiniteSets

CONSTANTS
    Shares,    \* the create requests, named by the ID they draw; ordered
    Never,     \* expires_at IS NULL
    NoCursor,  \* the first page
    Limit,     \* the page size, after parseFilter and AdminList clamp it
    MaxTime    \* bound: the last clock value explored

\* IDs compare as SQLite compares their text: totally.
ASSUME SharesAssumption == Shares \subseteq Nat
ASSUME LimitAssumption == Limit \in Nat \ {0} /\ MaxTime \in Nat
ASSUME NamesAssumption == Never \notin Int /\ NoCursor \notin Shares

VARIABLES
    now,      \* the server clock
    up,       \* unused, creating (clock read, row not committed) or created
    rows,     \* Shares with a committed row
    created,  \* created_at, from the moment the create request read it
    expires,  \* expires_at
    pager,    \* one traversal: its parameters, page clock value and cursor
    times,    \* how often the traversal has listed each Share
    steady    \* history: Shares the traversal could have listed throughout

vars == <<now, up, rows, created, expires, pager, times, steady>>

Times == 0..MaxTime
Expirations == Times \union {Never}

\* domain.IsExpired
IsExpired(e, t) == e # Never /\ e <= t

\* The lifecycle filter, of which "all" is the absence.
Matches(s, lifecycle, t) ==
    /\ lifecycle = "active" => ~IsExpired(expires[s], t)
    /\ lifecycle = "expired" => IsExpired(expires[s], t)

\* ORDER BY created_at, id, both descending or both ascending.
Before(s, t, sort) ==
    IF sort = "newest"
    THEN created[s] > created[t] \/ (created[s] = created[t] /\ s > t)
    ELSE created[s] < created[t] \/ (created[s] = created[t] /\ s < t)

\* The comparison taken for its complement: it includes the cursor's own row.
MutRest(p) ==
    {s \in rows : /\ Matches(s, p.lifecycle, p.at)
                  /\ p.cursor = NoCursor \/ ~Before(s, p.cursor, p.sort)}

\* The WHERE clause.  The cursor carries created_at and id of the last row of
\* the page before; both are fixed for good, so the ID stands for both.
Rest(p) ==
    {s \in rows : /\ Matches(s, p.lifecycle, p.at)
                  /\ p.cursor = NoCursor \/ Before(p.cursor, s, p.sort)}

-------------------------------------------------------------------------------
Init ==
    /\ now = 0 /\ rows = {} /\ steady = {}
    /\ up = [s \in Shares |-> "unused"]
    /\ created = [s \in Shares |-> 0]
    /\ expires = [s \in Shares |-> Never]
    /\ pager = [pc |-> "idle", at |-> 0, sort |-> "newest", lifecycle |-> "all",
                cursor |-> NoCursor]
    /\ times = [s \in Shares |-> 0]

\* The create request reads the clock ...
Create(s, e) ==
    /\ up[s] = "unused" /\ ~IsExpired(e, now)
    /\ up' = [up EXCEPT ![s] = "creating"]
    /\ created' = [created EXCEPT ![s] = now]
    /\ expires' = [expires EXCEPT ![s] = e]
    /\ UNCHANGED <<now, rows, pager, times>>

\* ... and its row commits, however much later.
Commit(s) ==
    /\ up[s] = "creating"
    /\ up' = [up EXCEPT ![s] = "created"]
    /\ rows' = rows \union {s}
    /\ UNCHANGED <<now, created, expires, pager, times>>

\* An update, judged by the clock value it read before it waited for the lock.
Update(s, e) ==
    /\ s \in rows
    /\ \E at \in created[s]..now : ~IsExpired(expires[s], at) /\ ~IsExpired(e, at)
    /\ expires' = [expires EXCEPT ![s] = e]
    /\ UNCHANGED <<now, up, rows, created, pager, times>>

\* A deletion or a purge.
Remove(s) ==
    /\ s \in rows
    /\ rows' = rows \ {s}
    /\ UNCHANGED <<now, up, created, expires, pager, times>>

Tick ==
    /\ now < MaxTime
    /\ now' = now + 1
    /\ UNCHANGED <<up, rows, created, expires, pager, times>>

\* A request for the first page; the clock is read before the query.
FirstPage(sort, lifecycle) ==
    /\ pager.pc = "idle"
    /\ pager' = [pc |-> "query", at |-> now, sort |-> sort, lifecycle |-> lifecycle,
                 cursor |-> NoCursor]
    /\ times' = [s \in Shares |-> 0]
    /\ UNCHANGED <<now, up, rows, created, expires>>

\* A request for the page after next_cursor.
NextPage ==
    /\ pager.pc = "more"
    /\ pager' = [pager EXCEPT !.pc = "query", !.at = now]
    /\ UNCHANGED <<now, up, rows, created, expires, times>>

\* The cursor of the first row that did not fit, which the next page then skips.
MutQuery ==
    /\ pager.pc = "query"
    /\ \E page \in SUBSET Rest(pager) :
          /\ Cardinality(page) <= Limit
          /\ page = Rest(pager) \/ Cardinality(page) = Limit
          /\ \A s \in page, t \in Rest(pager) \ page : Before(s, t, pager.sort)
          /\ times' = [s \in Shares |-> IF s \in page THEN times[s] + 1 ELSE times[s]]
          /\ IF page = Rest(pager)
             THEN pager' = [pager EXCEPT !.pc = "done"]
             ELSE \E next \in Rest(pager) \ page :
                     /\ \A t \in Rest(pager) \ page :
                           t = next \/ Before(next, t, pager.sort)
                     /\ pager' = [pager EXCEPT !.pc = "more", !.cursor = next]
    /\ UNCHANGED <<now, up, rows, created, expires>>

\* The query, for one row more than the limit: that row only tells that there
\* is a next page, whose cursor is the last row of this one.
Query ==
    /\ pager.pc = "query"
    /\ \E page \in SUBSET Rest(pager) :
          /\ Cardinality(page) <= Limit
          /\ page = Rest(pager) \/ Cardinality(page) = Limit
          /\ \A s \in page, t \in Rest(pager) \ page : Before(s, t, pager.sort)
          /\ times' = [s \in Shares |-> IF s \in page THEN times[s] + 1 ELSE times[s]]
          /\ IF page = Rest(pager)
             THEN pager' = [pager EXCEPT !.pc = "done"]
             ELSE \E last \in page :
                     /\ \A s \in page : s = last \/ Before(s, last, pager.sort)
                     /\ pager' = [pager EXCEPT !.pc = "more", !.cursor = last]
    /\ UNCHANGED <<now, up, rows, created, expires>>

\* The request fails, or the administrator starts over.
Leave ==
    /\ pager.pc # "idle"
    /\ pager' = [pager EXCEPT !.pc = "idle"]
    /\ UNCHANGED <<now, up, rows, created, expires, times>>

Step ==
    \/ \E s \in Shares : \/ Commit(s) \/ Remove(s)
                         \/ \E e \in Expirations : Create(s, e) \/ Update(s, e)
    \/ \E sort \in {"newest", "oldest"}, lifecycle \in {"all", "active", "expired"} :
          FirstPage(sort, lifecycle)
    \/ NextPage \/ Query \/ Leave \/ Tick

\* There, and matching by the page's clock value as well as by the clock.
Standing ==
    {s \in rows : /\ Matches(s, pager.lifecycle, pager.at)
                  /\ Matches(s, pager.lifecycle, now)}

Remember == steady' = IF pager.pc = "idle" THEN Standing' ELSE steady \intersect Standing'

Next == Step /\ Remember

Spec == Init /\ [][Next]_vars

-------------------------------------------------------------------------------
\* Types; a Share that has a row, or has been listed, has its created_at.
TypeOK ==
    /\ now \in Times
    /\ up \in [Shares -> {"unused", "creating", "created"}]
    /\ rows \subseteq Shares /\ steady \subseteq Shares
    /\ created \in [Shares -> Times] /\ expires \in [Shares -> Expirations]
    /\ pager \in [pc : {"idle", "query", "more", "done"}, at : Times,
                  sort : {"newest", "oldest"}, lifecycle : {"all", "active", "expired"},
                  cursor : Shares \union {NoCursor}]
    /\ times \in [Shares -> Nat]
    /\ \A s \in Shares : up[s] = "unused" => /\ s \notin rows /\ times[s] = 0
                                             /\ pager.cursor # s

\* What has been listed lies before the cursor, and nothing twice.
ListedBehind ==
    \A s \in Shares :
        /\ times[s] <= 1
        /\ pager.pc \in {"query", "more"} /\ times[s] = 1 =>
              /\ pager.cursor # NoCursor
              /\ s = pager.cursor \/ Before(s, pager.cursor, pager.sort)

\* What the traversal could have listed throughout, it has listed or will.
SteadyAhead ==
    /\ steady \subseteq Standing
    /\ \A s \in steady :
          /\ pager.pc \in {"query", "more"} =>
                \/ times[s] = 1 \/ pager.cursor = NoCursor
                \/ Before(pager.cursor, s, pager.sort)
          /\ pager.pc = "done" => times[s] = 1

IndInv == TypeOK /\ ListedBehind /\ SteadyAhead

\* No Share is listed twice in one traversal, although rows with smaller and
\* larger created_at appear and disappear between its pages.
ListedOnce == \A s \in Shares : times[s] <= 1

\* A traversal that has reached its last page has listed every Share that was
\* there, and matched the filter, from its first request on.
NothingMissed ==
    pager.pc = "done" => \A s \in steady : times[s] = 1
===============================================================================
