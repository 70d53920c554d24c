-------------------------------- MODULE MCAbuse --------------------------------
(* Instances of AbuseControl: two clients behind one reverse proxy.            *)
EXTENDS AbuseControl, TLC

CONSTANTS c1, c2, proxy, k1, k2, kp, create

MCInterval == (create :> 5) @@ (Global :> 3)
MCBurst == (create :> 1) @@ (Global :> 1)

\* The two clients, with their keys, are alike.
SwapClients == (c1 :> c2) @@ (c2 :> c1) @@ (k1 :> k2) @@ (k2 :> k1)
Symmetry == Permutations(Calls) \union {SwapClients}

MCRateKey == (c1 :> k1) @@ (c2 :> k2) @@ (proxy :> kp)
===============================================================================
