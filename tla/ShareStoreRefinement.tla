------------------------- MODULE ShareStoreRefinement -------------------------
(* ShareStore implements ShareLifecycle: rows, objects, staging files and    *)
(* the order of their changes are invisible to the users of a Share.         *)
EXTENDS ShareStore

\* A Share is live when its row AND, for a File, its object are there: a row
\* without its object is no state of the lifecycle at all.
Life(s) ==
    IF s \in rows
    THEN IF meta[s].kind = "file" /\ s \notin final THEN "broken" ELSE "live"
    ELSE IF up[s] \in {"created", "failed", "undo"} THEN "gone" ELSE "pending"

Shown(s, value, hidden) == IF s \in rows THEN value ELSE hidden

Lifecycle == INSTANCE ShareLifecycle WITH
    clock <- now,
    life <- [s \in Shares |-> Life(s)],
    created <- [s \in Shares |-> Shown(s, meta[s].created, 0)],
    expires <- [s \in Shares |-> Shown(s, meta[s].expires, Never)]

\* Every behaviour of the store, seen through this mapping, is one of the
\* lifecycle: content appears atomically with the row, nothing gone returns.
ImplementsLifecycle == Lifecycle!Spec
===============================================================================
