---------------------------- MODULE ShareLifecycle ----------------------------
(***************************************************************************)
(* What the Share store promises its users, with no database, disk or      *)
(* maintenance pass: a Share is pending, then live with its whole content, *)
(* then gone for good (docs/DOMAIN_MODEL.md, "Conceptual lifecycle").      *)
(* ShareStore implements this module, see ShareStoreRefinement.            *)
(***************************************************************************)
EXTENDS Integers

CONSTANTS Shares, Never, Public, MaxTTL

VARIABLES
    clock,    \* the server clock
    life,     \* pending, live or gone
    created,  \* when a live Share was created
    expires   \* when a live Share expires, or Never

vars == <<clock, life, created, expires>>

\* The retention a public instance guarantees.
Within(e, c) == Public => e # Never /\ e <= c + MaxTTL

Init ==
    /\ clock = 0
    /\ life = [s \in Shares |-> "pending"]
    /\ created = [s \in Shares |-> 0]
    /\ expires = [s \in Shares |-> Never]

\* The create request succeeds: the Share appears with all of its content. It
\* expires after its creation, though perhaps before the request is answered.
Appear(s) ==
    /\ life[s] = "pending"
    /\ life' = [life EXCEPT ![s] = "live"]
    /\ created'[s] \in 0..clock
    /\ created' = [created EXCEPT ![s] = created'[s]]
    /\ expires'[s] = Never \/ expires'[s] > created'[s]
    /\ Within(expires'[s], created'[s])
    /\ expires' = [expires EXCEPT ![s] = expires'[s]]
    /\ UNCHANGED clock

\* Create requests end in failure, one or, when the process dies, several.
Fail ==
    /\ life' \in [Shares -> {"pending", "live", "gone"}]
    /\ \A s \in Shares : life'[s] # life[s] =>
          life[s] = "pending" /\ life'[s] = "gone"
    /\ UNCHANGED <<clock, created, expires>>

\* Live Shares go, with their dates.
Lose(lost) ==
    /\ life' = [s \in Shares |-> IF s \in lost THEN "gone" ELSE life[s]]
    /\ created' = [s \in Shares |-> IF s \in lost THEN 0 ELSE created[s]]
    /\ expires' = [s \in Shares |-> IF s \in lost THEN Never ELSE expires[s]]
    /\ UNCHANGED clock

\* One Share is deleted, by its owner or an administrator.
Delete(s) == life[s] = "live" /\ Lose({s})

\* Expired Shares are purged, any number at once.
Purge ==
    LET expired == {s \in Shares : /\ life[s] = "live"
                                   /\ expires[s] # Never /\ expires[s] <= clock}
    IN  \E lost \in SUBSET expired : Lose(lost)

\* The owner moves the expiration of a live Share, never its creation.
Extend(s) ==
    /\ life[s] = "live"
    /\ Within(expires'[s], created[s])
    /\ expires' = [expires EXCEPT ![s] = expires'[s]]
    /\ UNCHANGED <<clock, life, created>>

Pass == clock' = clock + 1 /\ UNCHANGED <<life, created, expires>>

Next ==
    \/ \E s \in Shares : Appear(s) \/ Extend(s) \/ Delete(s)
    \/ Fail \/ Purge \/ Pass

Spec == Init /\ [][Next]_vars
===============================================================================
