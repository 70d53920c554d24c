---------------------------- MODULE MCServerProcess ----------------------------
(* Instances of ServerProcess: settings that Parse takes and settings that it    *)
(* refuses.                                                                      *)
EXTENDS ServerProcess
CONSTANTS MCNothing

\* The settings that were thought of, in both modes; TTLs in days.
MCSettings ==
    [mode : {"private", "public", "staging"}, provider : {"none", "cap", "unknown"},
     admin : {"none", "token", "malformed"}, secure : BOOLEAN \union {MCNothing},
     defaultTTL : {0, 1}, maxTTL : {1, 7}, wellFormed : BOOLEAN]
=================================================================================
