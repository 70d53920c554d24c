----------------------------- MODULE MCHttpRequests -----------------------------
(* Instances of HttpRequests.                                                  *)
EXTENDS HttpRequests, TLC
CONSTANTS r1, r2
=================================================================================
