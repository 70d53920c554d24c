-------------------------- MODULE AdminListingProofs --------------------------
(* Proofs about AdminListing, for any set of Shares and any page size.       *)
EXTENDS AdminListing, TLAPS

USE SharesAssumption, LimitAssumption, NamesAssumption

\* created_at is a number.
LEMMA CreatedInt == ASSUME TypeOK, NEW s \in Shares PROVE created[s] \in Int
<1>1. created[s] \in Times BY DEF TypeOK
<1> QED BY <1>1 DEF Times

\* The order of the listing is a strict order on the Shares, whichever way it is
\* sorted.
LEMMA BeforeOrder ==
    ASSUME TypeOK, NEW sort \in {"newest", "oldest"},
           NEW r \in Shares, NEW s \in Shares, NEW t \in Shares
    PROVE  /\ ~Before(s, s, sort)
           /\ Before(r, s, sort) /\ Before(s, t, sort) => Before(r, t, sort)
<1>1. r \in Int /\ s \in Int /\ t \in Int OBVIOUS
<1>2. created[r] \in Int /\ created[s] \in Int /\ created[t] \in Int
      BY CreatedInt
<1>3. CASE sort = "newest" BY <1>1, <1>2, <1>3 DEF Before
<1>4. CASE sort = "oldest" BY <1>1, <1>2, <1>4 DEF Before
<1> QED BY <1>3, <1>4

\* Nothing is listed, and nothing is steady, in an empty database.
LEMMA InitInv == Init => IndInv
<1> SUFFICES ASSUME Init PROVE IndInv
  OBVIOUS
<1>1. 0 \in Times BY DEF Times
<1>2. TypeOK BY <1>1 DEF Init, TypeOK, Expirations
<1>3. pager.pc = "idle" /\ \A s \in Shares : times[s] = 0 BY DEF Init
<1>4. ListedBehind BY <1>3 DEF ListedBehind
<1>5. SteadyAhead BY DEF Init, SteadyAhead, Standing
<1> QED BY <1>2, <1>4, <1>5 DEF IndInv

\* What the next page can list has not been listed: it lies past the cursor.
LEMMA RestIsNew ==
    ASSUME IndInv, pager.pc = "query", NEW s \in Rest(pager)
    PROVE  s \in Shares /\ times[s] = 0
<1>1. s \in Shares /\ times[s] \in Nat BY DEF IndInv, TypeOK, Rest
<1>2. ASSUME times[s] = 1 PROVE FALSE
  <2>1. /\ pager.cursor \in Shares
        /\ s = pager.cursor \/ Before(s, pager.cursor, pager.sort)
        BY <1>1, <1>2 DEF IndInv, ListedBehind, TypeOK
  <2>2. Before(pager.cursor, s, pager.sort) BY <2>1 DEF Rest
  <2>3. pager.sort \in {"newest", "oldest"} BY DEF IndInv, TypeOK
  <2>4. TypeOK BY DEF IndInv
  <2>5. CASE s = pager.cursor
    <3>1. ~Before(s, s, pager.sort) BY <1>1, <2>3, <2>4, BeforeOrder
    <3> QED BY <2>2, <2>5, <3>1
  <2>6. CASE Before(s, pager.cursor, pager.sort)
    <3>1. Before(s, s, pager.sort)
          BY <1>1, <2>1, <2>2, <2>3, <2>4, <2>6, BeforeOrder
    <3>2. ~Before(s, s, pager.sort) BY <1>1, <2>3, <2>4, BeforeOrder
    <3> QED BY <3>1, <3>2
  <2> QED BY <2>1, <2>5, <2>6
<1> QED BY <1>1, <1>2 DEF IndInv, ListedBehind

\* A steady Share that has not been listed is among what the next page can list.
LEMMA SteadyInRest ==
    ASSUME IndInv, pager.pc = "query", NEW s \in steady
    PROVE  times[s] = 1 \/ s \in Rest(pager)
BY DEF IndInv, SteadyAhead, Standing, Rest

\* A page moves the cursor to its last row: what it lists falls behind it, what
\* it leaves stays ahead.
LEMMA QueryInv ==
    ASSUME IndInv, Query, Remember PROVE IndInv'
<1> USE DEF IndInv
<1>1. PICK page \in SUBSET Rest(pager) :
         /\ page = Rest(pager) \/ Cardinality(page) = Limit
         /\ \A s \in page, t \in Rest(pager) \ page : Before(s, t, pager.sort)
         /\ times' = [s \in Shares |-> IF s \in page THEN times[s] + 1 ELSE times[s]]
         /\ IF page = Rest(pager)
            THEN pager' = [pager EXCEPT !.pc = "done"]
            ELSE \E last \in page :
                    /\ \A s \in page : s = last \/ Before(s, last, pager.sort)
                    /\ pager' = [pager EXCEPT !.pc = "more", !.cursor = last]
      BY DEF Query
<1>2. \A s \in page : s \in Shares /\ times[s] = 0 BY RestIsNew, <1>1 DEF Query
<1>3. \A s \in Shares : times'[s] = IF s \in page THEN 1 ELSE times[s]
  <2> TAKE s \in Shares
  <2>1. times'[s] = IF s \in page THEN times[s] + 1 ELSE times[s] BY <1>1
  <2> QED BY <1>2, <2>1
<1>4. pager.pc = "query" /\ UNCHANGED <<now, up, rows, created, expires>> BY DEF Query
<1>5. pager.sort \in {"newest", "oldest"} BY DEF TypeOK
<1>6. steady' \subseteq steady /\ steady' \subseteq Standing'
      BY <1>4 DEF Remember
<1>7. TypeOK'
  <2>1. pager' \in [pc : {"idle", "query", "more", "done"}, at : Times,
                    sort : {"newest", "oldest"}, lifecycle : {"all", "active", "expired"},
                    cursor : Shares \union {NoCursor}]
    <3>1. \/ pager' = [pager EXCEPT !.pc = "done"]
          \/ \E last \in Shares : pager' = [pager EXCEPT !.pc = "more", !.cursor = last]
          BY <1>1, <1>2
    <3> QED BY <3>1 DEF TypeOK
  <2>2. times' \in [Shares -> Nat]
    <3>1. \A s \in Shares : times[s] \in Nat BY DEF TypeOK
    <3>2. \A s \in Shares : times'[s] \in Nat BY <1>3, <3>1
    <3> QED BY <1>1, <3>2
  <2>3. \A s \in page : up[s] # "unused" BY <1>2 DEF Rest, TypeOK
  <2>4. pager'.cursor = pager.cursor \/ pager'.cursor \in page BY <1>1 DEF TypeOK
  <2> QED BY <1>3, <1>4, <1>6, <2>1, <2>2, <2>3, <2>4 DEF TypeOK
<1>8. CASE page = Rest(pager)
  <2>1. pager' = [pager EXCEPT !.pc = "done"] BY <1>1, <1>8
  <2>2. pager'.pc = "done" BY <2>1 DEF TypeOK
  <2>3. ListedBehind' BY <1>2, <1>3, <2>2 DEF ListedBehind
  <2>4. SteadyAhead'
        BY <1>3, <1>4, <1>6, <1>8, <2>2, SteadyInRest DEF SteadyAhead, TypeOK
  <2> QED BY <1>7, <2>3, <2>4
<1>9. CASE page # Rest(pager)
  <2>1. PICK last \in page :
           /\ \A s \in page : s = last \/ Before(s, last, pager.sort)
           /\ pager' = [pager EXCEPT !.pc = "more", !.cursor = last]
        BY <1>1, <1>9
  <2>2. /\ pager'.pc = "more" /\ pager'.cursor = last /\ pager'.sort = pager.sort
        /\ last \in Shares /\ last # NoCursor
        BY <1>2, <2>1 DEF TypeOK
  <2>3. \A s, t \in Shares : Before(s, t, pager.sort)' <=> Before(s, t, pager.sort)
    <3>1. created' = created BY <1>4
    <3> QED BY <2>2, <3>1 DEF Before
  <2>4. ASSUME NEW s \in Shares, times'[s] = 1
        PROVE  s = last \/ Before(s, last, pager.sort)
    <3>1. CASE s \in page BY <2>1, <3>1
    <3>2. CASE s \notin page
      <4>1. times[s] = 1 BY <1>3, <2>4, <3>2
      <4>2. /\ pager.cursor \in Shares
            /\ s = pager.cursor \/ Before(s, pager.cursor, pager.sort)
            BY <1>4, <4>1 DEF ListedBehind, TypeOK
      <4>3. Before(pager.cursor, last, pager.sort) BY <1>1, <4>2 DEF Rest
      <4>4. TypeOK OBVIOUS
      <4>5. CASE s = pager.cursor BY <4>3, <4>5
      <4>6. CASE Before(s, pager.cursor, pager.sort)
            BY <1>5, <2>2, <2>4, <4>2, <4>3, <4>4, <4>6, BeforeOrder
      <4> QED BY <4>2, <4>5, <4>6
    <3> QED BY <3>1, <3>2
  <2>5. ListedBehind'
    <3>1. \A s \in Shares : times'[s] <= 1 BY <1>2, <1>3 DEF ListedBehind
    <3>2. \A s \in Shares : times'[s] = 1 =>
             s = pager'.cursor \/ Before(s, pager.cursor, pager.sort)'
          BY <2>2, <2>3, <2>4
    <3> QED BY <2>2, <3>1, <3>2 DEF ListedBehind
  <2>6. ASSUME NEW s \in steady'
        PROVE  times'[s] = 1 \/ Before(last, s, pager.sort)
    <3>1. s \in Shares BY <1>6 DEF TypeOK
    <3>2. times[s] = 1 \/ s \in Rest(pager) BY <1>4, <1>6, SteadyInRest
    <3>3. CASE s \in page BY <1>3, <3>1, <3>3
    <3>4. CASE s \notin page BY <1>1, <1>3, <3>1, <3>2, <3>4
    <3> QED BY <3>3, <3>4
  <2>7. SteadyAhead'
    <3>1. \A s \in steady' : s \in Shares BY <1>6 DEF TypeOK
    <3>2. \A s \in steady' :
             times'[s] = 1 \/ Before(pager.cursor, s, pager.sort)'
          BY <2>2, <2>3, <2>6, <3>1
    <3> QED BY <1>6, <2>2, <3>2 DEF SteadyAhead
  <2> QED BY <1>7, <2>5, <2>7
<1> QED BY <1>8, <1>9

\* A first page forgets what was listed; nothing lies behind its cursor.
LEMMA FirstPageInv ==
    ASSUME IndInv, Remember, NEW sort \in {"newest", "oldest"},
           NEW lifecycle \in {"all", "active", "expired"}, FirstPage(sort, lifecycle)
    PROVE  IndInv'
<1>1. TypeOK' BY DEF IndInv, FirstPage, TypeOK, Remember, Standing
<1>2. \A s \in Shares : times'[s] = 0 BY DEF FirstPage
<1>3. ListedBehind' BY <1>2 DEF ListedBehind
<1>4. SteadyAhead' BY DEF IndInv, FirstPage, SteadyAhead, Remember, TypeOK
<1> QED BY <1>1, <1>3, <1>4 DEF IndInv

\* A step that lists nothing, moves no cursor, and touches neither the row nor
\* the created_at of a create request not yet sent, keeps the invariant.
LEMMA QuietInv ==
    ASSUME IndInv, Remember, TypeOK',
           times' = times, pager'.cursor = pager.cursor, pager'.sort = pager.sort,
           \/ pager'.pc = "idle" \/ pager'.pc = pager.pc
           \/ pager.pc = "more" /\ pager'.pc = "query",
           \A s \in Shares : up[s] # "unused" => created'[s] = created[s]
    PROVE  IndInv'
<1> USE DEF IndInv
<1>1. \A s, t \in Shares : up[s] # "unused" /\ up[t] # "unused" =>
         (Before(s, t, pager.sort)' <=> Before(s, t, pager.sort))
      BY DEF Before
<1>2. \A s \in Shares : times[s] # 0 \/ s \in rows \/ s = pager.cursor => up[s] # "unused"
      BY DEF TypeOK
<1>3. pager.cursor \in Shares \union {NoCursor} BY DEF TypeOK
<1>4. ListedBehind'
  <2>1. \A s \in Shares : times'[s] <= 1 BY DEF ListedBehind
  <2>2. ASSUME NEW s \in Shares, pager'.pc \in {"query", "more"}, times'[s] = 1
        PROVE  /\ pager'.cursor # NoCursor
               /\ s = pager'.cursor \/ Before(s, pager.cursor, pager.sort)'
    <3>1. /\ pager.cursor # NoCursor
          /\ s = pager.cursor \/ Before(s, pager.cursor, pager.sort)
          BY <2>2 DEF ListedBehind
    <3>2. times[s] # 0 => up[s] # "unused" BY <1>2
    <3>3. times[s] = 1 BY <2>2
    <3>4. pager.cursor \in Shares BY <1>3, <3>1
    <3>5. up[pager.cursor] # "unused" BY <1>2, <3>4
    <3>6. up[s] # "unused" BY <3>2, <3>3
    <3>7. Before(s, pager.cursor, pager.sort)' <=> Before(s, pager.cursor, pager.sort)
          BY <1>1, <3>4, <3>5, <3>6
    <3> QED BY <3>1, <3>7
  <2> QED BY <2>1, <2>2 DEF ListedBehind
<1>5. SteadyAhead'
  <2>1. steady' \subseteq Standing' BY DEF Remember
  <2>2. steady \subseteq rows /\ steady \subseteq Shares BY DEF SteadyAhead, Standing, TypeOK
  <2>3. CASE pager'.pc = "idle" BY <2>1, <2>3 DEF SteadyAhead
  <2>4. CASE pager'.pc # "idle" /\ pager.pc = "idle" BY <2>4
  <2>5. CASE pager'.pc # "idle" /\ pager.pc # "idle"
    <3>1. steady' \subseteq steady BY <2>5 DEF Remember
    <3>2. ASSUME NEW s \in steady', pager'.pc \in {"query", "more"}
          PROVE  \/ times'[s] = 1 \/ pager'.cursor = NoCursor
                 \/ Before(pager.cursor, s, pager.sort)'
      <4>1. \/ times[s] = 1 \/ pager.cursor = NoCursor
            \/ Before(pager.cursor, s, pager.sort)
            BY <3>1, <3>2 DEF SteadyAhead
      <4>2. s \in Shares /\ up[s] # "unused" BY <1>2, <2>2, <3>1
      <4> QED BY <1>1, <1>2, <1>3, <4>1, <4>2
    <3>3. ASSUME NEW s \in steady', pager'.pc = "done" PROVE times'[s] = 1
          BY <3>1, <3>3 DEF SteadyAhead
    <3> QED BY <2>1, <3>2, <3>3 DEF SteadyAhead
  <2> QED BY <2>3, <2>4, <2>5
<1> QED BY <1>4, <1>5

\* What is steady has a row.
LEMMA TypesOfSteady == Remember /\ rows' \subseteq Shares => steady' \subseteq Shares
BY DEF Remember, Standing

\* Creating reads the clock for a Share nothing knows of yet.
LEMMA CreateInv ==
    ASSUME IndInv, Remember, NEW s \in Shares, NEW e \in Expirations, Create(s, e)
    PROVE  IndInv'
<1> USE DEF IndInv, Create
<1>1. TypeOK' BY TypesOfSteady DEF TypeOK
<1> QED BY <1>1, QuietInv DEF TypeOK

\* A committing row was being created: its created_at is set.
LEMMA CommitInv ==
    ASSUME IndInv, Remember, NEW s \in Shares, Commit(s) PROVE IndInv'
<1> USE DEF IndInv, Commit
<1>1. TypeOK' BY TypesOfSteady DEF TypeOK
<1> QED BY <1>1, QuietInv DEF TypeOK

\* An update changes only when a Share expires.
LEMMA UpdateInv ==
    ASSUME IndInv, Remember, NEW s \in Shares, NEW e \in Expirations, Update(s, e)
    PROVE  IndInv'
<1> USE DEF IndInv, Update
<1>1. TypeOK' BY TypesOfSteady DEF TypeOK
<1> QED BY <1>1, QuietInv

\* A removed row may be the cursor's: the cursor keeps its place without it.
LEMMA RemoveInv ==
    ASSUME IndInv, Remember, NEW s \in Shares, Remove(s) PROVE IndInv'
<1> USE DEF IndInv, Remove
<1>1. TypeOK' BY TypesOfSteady DEF TypeOK
<1> QED BY <1>1, QuietInv

\* The clock and the administrator move nothing in the database.
LEMMA RestInv ==
    ASSUME IndInv, Remember, NextPage \/ Leave \/ Tick PROVE IndInv'
<1> USE DEF IndInv
<1>1. CASE NextPage
  <2>1. TypeOK' BY <1>1, TypesOfSteady DEF NextPage, TypeOK
  <2> QED BY <1>1, <2>1, QuietInv DEF NextPage, TypeOK
<1>2. CASE Leave
  <2>1. TypeOK' BY <1>2, TypesOfSteady DEF Leave, TypeOK
  <2> QED BY <1>2, <2>1, QuietInv DEF Leave, TypeOK
<1>3. CASE Tick
  <2>1. now' \in Times
    <3>1. now \in 0..MaxTime /\ now < MaxTime /\ now' = now + 1
          BY <1>3 DEF Tick, TypeOK, Times
    <3> QED BY <3>1 DEF Times
  <2>2. TypeOK' BY <1>3, <2>1, TypesOfSteady DEF Tick, TypeOK
  <2> QED BY <1>3, <2>2, QuietInv DEF Tick
<1> QED BY <1>1, <1>2, <1>3

\* The invariant is inductive.
LEMMA NextInv == IndInv /\ [Next]_vars => IndInv'
<1> SUFFICES ASSUME IndInv, [Next]_vars PROVE IndInv'
  OBVIOUS
<1>1. CASE Next
      BY <1>1, QueryInv, FirstPageInv, CreateInv, CommitInv, UpdateInv, RemoveInv, RestInv
      DEF Next, Step
<1>2. CASE UNCHANGED vars
      BY <1>2 DEF vars, IndInv, TypeOK, ListedBehind, SteadyAhead, Standing, Matches, Before
<1> QED BY <1>1, <1>2

\* Types, what is listed lies behind the cursor, what is steady ahead of it.
THEOREM Invariance == Spec => []IndInv
<1> QED BY InitInv, NextInv, PTL DEF Spec

\* Keyset pagination lists no Share twice, whatever commits between its pages.
THEOREM ListsOnce == Spec => []ListedOnce
<1>1. IndInv => ListedOnce BY DEF IndInv, ListedBehind, ListedOnce
<1> QED BY <1>1, Invariance, PTL

\* A complete traversal has listed all that was there, and matched, throughout.
THEOREM MissesNothing == Spec => []NothingMissed
<1>1. IndInv => NothingMissed BY DEF IndInv, SteadyAhead, NothingMissed
<1> QED BY <1>1, Invariance, PTL

-------------------------------------------------------------------------------
\* What a page lists comes, in the order asked for, after everything the pages
\* before it listed, and a cursor handed out lies past the one it replaces.
Onward ==
    /\ \A s, t \in Shares :
          times'[s] > times[s] /\ times[t] = 1 => Before(t, s, pager.sort)
    /\ pager.cursor \in Shares /\ pager'.cursor \in Shares =>
          \/ pager'.cursor = pager.cursor
          \/ Before(pager.cursor, pager'.cursor, pager.sort)

\* The pages of a traversal, one after another, are in the order of the listing
\* (ORDER BY in AdminList), although rows commit out of the order of created_at;
\* no page goes back behind a cursor that was handed out.
ListedInOrder == [][Onward]_vars

\* Rest is past the cursor, the listed Shares are behind it: the order is transitive.
LEMMA QueryOnward == ASSUME IndInv, Query PROVE Onward
<1>1. PICK page \in SUBSET Rest(pager) :
         /\ times' = [s \in Shares |-> IF s \in page THEN times[s] + 1 ELSE times[s]]
         /\ pager'.cursor = pager.cursor \/ pager'.cursor \in page
  <2>1. PICK page \in SUBSET Rest(pager) :
           /\ times' = [s \in Shares |-> IF s \in page THEN times[s] + 1 ELSE times[s]]
           /\ \/ pager' = [pager EXCEPT !.pc = "done"]
              \/ \E last \in page : pager' = [pager EXCEPT !.pc = "more", !.cursor = last]
        BY DEF Query
  <2>2. pager'.cursor = pager.cursor \/ pager'.cursor \in page
        BY <2>1 DEF IndInv, TypeOK
  <2> QED BY <2>1, <2>2
<1>2. /\ TypeOK /\ pager.pc = "query" /\ pager.sort \in {"newest", "oldest"}
      /\ pager.cursor \in Shares \union {NoCursor} /\ times \in [Shares -> Nat]
      BY DEF IndInv, TypeOK, Query
<1>3. ASSUME NEW s \in Shares, NEW t \in Shares, times'[s] > times[s], times[t] = 1
      PROVE  Before(t, s, pager.sort)
  <2>1. s \in page BY <1>1, <1>2, <1>3
  <2>2. /\ pager.cursor \in Shares
        /\ t = pager.cursor \/ Before(t, pager.cursor, pager.sort)
        BY <1>2, <1>3 DEF IndInv, ListedBehind
  <2>3. Before(pager.cursor, s, pager.sort) BY <2>1, <2>2 DEF Rest
  <2>4. CASE t = pager.cursor BY <2>3, <2>4
  <2>5. CASE Before(t, pager.cursor, pager.sort)
        BY <1>2, <2>2, <2>3, <2>5, BeforeOrder
  <2> QED BY <2>2, <2>4, <2>5
<1>4. ASSUME pager.cursor \in Shares, pager'.cursor \in page
      PROVE  Before(pager.cursor, pager'.cursor, pager.sort)
      BY <1>4 DEF Rest
<1> QED BY <1>1, <1>3, <1>4 DEF Onward

\* No other step lists a Share or hands out a cursor.
LEMMA StepOnward == ASSUME IndInv, [Next]_vars PROVE Onward
<1>1. CASE Query BY <1>1, QueryOnward
<1>2. CASE times' = times /\ pager'.cursor = pager.cursor
  <2>1. \A s \in Shares : ~(times'[s] > times[s]) BY <1>2 DEF IndInv, TypeOK
  <2> QED BY <1>2, <2>1 DEF Onward
<1>3. ASSUME NEW sort, NEW lifecycle, FirstPage(sort, lifecycle) PROVE Onward
  <2>1. \A s \in Shares : times[s] \in Nat BY DEF IndInv, TypeOK
  <2>2. \A s \in Shares : times'[s] = 0 BY <1>3 DEF FirstPage
  <2>3. \A s \in Shares : ~(times'[s] > times[s]) BY <2>1, <2>2
  <2>4. pager'.cursor \notin Shares BY <1>3 DEF FirstPage
  <2> QED BY <2>3, <2>4 DEF Onward
<1>4. CASE NextPage \/ Leave \/ Tick
      BY <1>2, <1>4 DEF NextPage, Leave, Tick, IndInv, TypeOK
<1>5. ASSUME NEW s \in Shares,
             \/ Commit(s) \/ Remove(s)
             \/ \E e \in Expirations : Create(s, e) \/ Update(s, e)
      PROVE  Onward
      BY <1>2, <1>5 DEF Commit, Remove, Create, Update
<1>6. CASE UNCHANGED vars BY <1>2, <1>6 DEF vars
<1> QED BY <1>1, <1>3, <1>4, <1>5, <1>6 DEF Next, Step

\* A traversal lists Shares in the order asked for, from its first page to its last.
THEOREM ListsInOrder == Spec => ListedInOrder
<1>1. IndInv /\ [Next]_vars => [Onward]_vars BY StepOnward
<1> QED BY <1>1, Invariance, PTL DEF Spec, ListedInOrder
===============================================================================
