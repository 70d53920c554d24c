-------------------------- MODULE ServerProcessProofs --------------------------
(***************************************************************************)
(* Proofs about ServerProcess, for any settings, deadlines and number of   *)
(* connections.  What rests on fairness (Ends) is left to TLC.             *)
(***************************************************************************)
EXTENDS ServerProcess, TLAPS

USE TimeAssumption, NothingAssumption

Starting == {"parse", "db", "store", "handlers", "fileListener", "appListener", "start"}
Running == {"serving", "stopMaintenance", "drain"}
Closing == {"closeApp", "closeFile", "closeStore", "closeDB", "exited"}

\* What is open in each phase.
Opened ==
    /\ phase \in {"parse", "db"} => open = {}
    /\ phase = "store" => open = {"db"}
    /\ phase \in {"handlers", "fileListener"} => open = {"db", "store"}
    /\ phase = "appListener" => open = {"db", "store", "file"}
    /\ phase \in {"start", "closeApp", "closeFile", "closeStore"} \union Running =>
          {"db", "store"} \subseteq open
    /\ phase = "closeFile" => "app" \notin open
    /\ phase = "closeStore" => open \subseteq {"db", "store"}
    /\ phase = "closeDB" => open = {"db"}
    /\ phase = "exited" => open = {}

\* What is running in each phase.
Underway ==
    /\ served["app"] = "new" <=> served["file"] = "new"
    /\ ~Started => /\ pass = "none" /\ since = Nothing
                   /\ \A c \in Closers : closer[c].at = "waiting"
    /\ Started => pass # "none"
    /\ phase \in Starting => ~Started
    /\ phase \in Running => Started
    /\ phase = "drain" => pass = "stopped"
    /\ phase \in Closing /\ Started => closer["defer"].at = "done" /\ pass = "stopped"

Protected ==
    /\ 0 < cfg.defaultTTL /\ cfg.defaultTTL <= cfg.maxTTL
    /\ IF cfg.mode = "public" THEN cfg.challenge /\ cfg.admin /\ cfg.secure
                              ELSE ~cfg.challenge

\* A server that was shut down accepts nothing.
Silent == \A v \in down : ~(served[v] = "serving" /\ v \in open)

\* The connections of a server that was waited for are over, or its time is.
Drained(v) == busy[v] = 0 \/ since >= Grace
Waited(c) ==
    /\ closer[c].at = "waiting" => closer[c].left = Grace
    /\ closer[c].at # "waiting" =>
          since \in Nat /\ since >= Grace - closer[c].left /\ "app" \in down
    /\ closer[c].at \in {"file", "done"} => "file" \in down /\ Drained("app")
    /\ closer[c].at = "done" => Drained("file")

\* The time since the shutdown began: none passes while run has something to do, a
\* pass takes its slack, and the rest is the time of the deferred shutdown.
Timed ==
    /\ slack <= PassTime /\ closer["defer"].left <= Grace
    /\ since # Nothing =>
          /\ "app" \in down
          /\ phase = "serving" => since = 0
          /\ phase = "stopMaintenance" => since <= PassTime - slack
          /\ phase = "drain" => since <= PassTime + Grace - closer["defer"].left
          /\ phase \in Closing \ {"exited"} => since <= PassTime + Grace

\* The files' listener is open as long as nobody is through with the application's.
Latest ==
    /\ late["app"] = 0 /\ late["file"] <= Grace
    /\ since # Nothing /\ "file" \notin down =>
          \E c \in Closers : closer[c].at = "app" /\ since <= Grace - closer[c].left

IndInv ==
    /\ TypeOK /\ Opened /\ Underway /\ Silent /\ Timed /\ Latest
    /\ phase \notin {"parse", "exited"} \/ Started => Protected
    /\ \A c \in Closers : Waited(c)

USE DEF Servers, Closers

-------------------------------------------------------------------------------
\* A step of run that touches no goroutine.
LEMMA PhaseInv ==
    ASSUME IndInv, UNCHANGED <<servers, pass, timers, signal>>,
           TypeOK', Opened', Underway', Silent', Timed',
           (phase \notin {"parse", "exited"} \/ Started => Protected)'
    PROVE  IndInv'
<1>1. ASSUME NEW c \in Closers PROVE Waited(c)'
  BY DEF IndInv, Waited, Drained, servers, timers
<1>2. Latest' BY DEF IndInv, Latest, servers, timers
<1> QED BY <1>1, <1>2 DEF IndInv

LEMMA ParseInv ==
    ASSUME IndInv, ParseConfig
    PROVE  IndInv'
<1>1. phase = "parse" /\ ~Started /\ open = {} /\ since = Nothing
      BY DEF IndInv, Opened, Underway, Starting, ParseConfig
<1>2. UNCHANGED <<open, servers, pass, timers, signal>> BY DEF ParseConfig
<1>t. Timed' BY <1>1, <1>2 DEF IndInv, Timed, timers
<1>3. CASE phase' = "exited" /\ failure' = TRUE /\ UNCHANGED cfg
  <2>1. TypeOK' BY <1>2, <1>3 DEF IndInv, TypeOK, Phases, servers, timers
  <2>2. Opened' BY <1>1, <1>2, <1>3 DEF Opened, Running
  <2>3. Underway' BY <1>1, <1>2, <1>3
    DEF IndInv, Underway, Started, Starting, Running, Closing, servers, timers
  <2>4. Silent' BY <1>2 DEF IndInv, Silent, servers
  <2>5. phase' = "exited" /\ ~Started' BY <1>1, <1>2, <1>3 DEF Started, servers
  <2> QED BY <1>2, <1>t, <2>1, <2>2, <2>3, <2>4, <2>5, PhaseInv
<1>4. ASSUME NEW s \in Settings, Accepts(s), phase' = "db", cfg' = Parsed(s), UNCHANGED failure
      PROVE  IndInv'
  <2>1. /\ s.admin \in {"none", "token", "malformed"} /\ s.secure \in BOOLEAN \union {Nothing}
        /\ s.defaultTTL \in Int /\ s.maxTTL \in Int
    BY SettingsAssumption
  <2>2. cfg' \in Configurations
    <3>1. s.mode \in {"private", "public"} /\ s.defaultTTL \in Nat /\ s.maxTTL \in Nat
      BY <1>4, <2>1 DEF Accepts
    <3>2. (IF s.secure = Nothing THEN s.mode = "public" ELSE s.secure) \in BOOLEAN
      <4>1. CASE s.secure = Nothing BY <4>1
      <4>2. CASE s.secure # Nothing BY <2>1, <4>2
      <4> QED BY <4>1, <4>2
    <3>3. (s.provider # "none") \in BOOLEAN /\ (s.admin = "token") \in BOOLEAN OBVIOUS
    <3>4. PICK provider, admin, secure \in BOOLEAN :
             /\ provider = (s.provider # "none") /\ admin = (s.admin = "token")
             /\ secure = IF s.secure = Nothing THEN s.mode = "public" ELSE s.secure
      BY <3>2, <3>3
    <3>5. cfg' = [mode |-> s.mode, challenge |-> provider, admin |-> admin, secure |-> secure,
                  defaultTTL |-> s.defaultTTL, maxTTL |-> s.maxTTL]
      BY <1>4, <3>4 DEF Parsed
    <3> QED BY <3>1, <3>5 DEF Configurations
  <2>3. Protected' BY <1>4, <2>1 DEF Accepts, Parsed, Protected
  <2>4. TypeOK' BY <1>2, <1>4, <2>2 DEF IndInv, TypeOK, Phases, servers, timers
  <2>5. Opened' BY <1>1, <1>2, <1>4 DEF Opened, Running
  <2>6. Underway' BY <1>1, <1>2, <1>4
    DEF IndInv, Underway, Started, Starting, Running, Closing, servers, timers
  <2>7. Silent' BY <1>2 DEF IndInv, Silent, servers
  <2> QED BY <1>2, <1>t, <2>3, <2>4, <2>5, <2>6, <2>7, PhaseInv
<1> QED BY <1>3, <1>4 DEF ParseConfig

\* A step of the start: it fails, or opens what it is for.
LEMMA StartupInv ==
    ASSUME IndInv, OpenDatabase \/ OpenStore \/ BuildHandlers \/ ListenFile \/ ListenApp
    PROVE  IndInv'
<1>1. /\ phase \in {"db", "store", "handlers", "fileListener", "appListener"}
      /\ phase' \in Phases /\ failure' \in BOOLEAN /\ open' \subseteq Resources
      /\ UNCHANGED <<cfg, servers, pass, timers, signal>>
      BY DEF IndInv, TypeOK, OpenDatabase, OpenStore, BuildHandlers, ListenFile, ListenApp,
             Startup, Abandon, Phases, Resources
<1>2. ~Started BY <1>1 DEF IndInv, Underway, Starting
<1>3. phase' \in Starting \union Closing
      BY DEF OpenDatabase, OpenStore, BuildHandlers, ListenFile, ListenApp, Startup, Abandon,
             Starting, Closing
<1>4. TypeOK' BY <1>1 DEF IndInv, TypeOK, servers, timers
<1>5. Opened'
  <2>1. Opened BY DEF IndInv
  <2>2. CASE OpenDatabase BY <2>1, <2>2 DEF Opened, OpenDatabase, Startup, Abandon, Running
  <2>3. CASE OpenStore BY <2>1, <2>3 DEF Opened, OpenStore, Startup, Abandon, Running
  <2>4. CASE BuildHandlers BY <2>1, <2>4 DEF Opened, BuildHandlers, Startup, Abandon, Running
  <2>5. CASE ListenFile BY <2>1, <2>5 DEF Opened, ListenFile, Startup, Abandon, Running
  <2>6. CASE ListenApp BY <2>1, <2>6 DEF Opened, ListenApp, Startup, Abandon, Running
  <2> QED BY <2>2, <2>3, <2>4, <2>5, <2>6
<1>6. Underway' BY <1>1, <1>2, <1>3
      DEF IndInv, Underway, Started, Starting, Running, Closing, servers, timers
<1>7. Silent'
  <2>1. \A v \in Servers : served[v] = "new" BY <1>2 DEF IndInv, Underway, Started
  <2> QED BY <1>1, <1>4, <2>1 DEF Silent, TypeOK, servers
<1>8. Protected' BY <1>1 DEF IndInv, Protected
<1>9. Timed' BY <1>1, <1>2 DEF IndInv, Underway, Timed, timers
<1> QED BY <1>1, <1>4, <1>5, <1>6, <1>7, <1>8, <1>9, PhaseInv

LEMMA StartInv ==
    ASSUME IndInv, StartGoroutines
    PROVE  IndInv'
<1>1. /\ phase = "start" /\ phase' = "serving" /\ pass' = "running"
      /\ served' = [v \in Servers |-> "spawned"]
      /\ UNCHANGED <<failure, open, cfg, down, busy, late, timers, signal>>
      BY DEF StartGoroutines
<1>2. TypeOK' BY <1>1 DEF IndInv, TypeOK, Phases, timers
<1>3. Opened' BY <1>1 DEF IndInv, Opened, Running
<1>4. Underway' BY <1>1 DEF Underway, Started, Starting, Running, Closing, timers
<1>5. Silent' BY <1>1 DEF IndInv, TypeOK, Silent
<1>6. Protected' BY <1>1 DEF IndInv, Protected
<1>7. ASSUME NEW c \in Closers PROVE Waited(c)' BY <1>1 DEF IndInv, Waited, Drained, timers
<1>8. Timed' /\ Latest' BY <1>1 DEF IndInv, Underway, Starting, Timed, Latest, timers
<1> QED BY <1>2, <1>3, <1>4, <1>5, <1>6, <1>7, <1>8 DEF IndInv

\* run returns: it waits for the pass, then for the shutdown, then closes.
LEMMA ReturnInv ==
    ASSUME IndInv, Return
    PROVE  IndInv'
<1>1. /\ phase \in Running \union {"closeApp", "closeFile", "closeStore", "closeDB"}
      /\ phase' \in Phases /\ failure' \in BOOLEAN /\ open' \subseteq open
      /\ UNCHANGED <<cfg, servers, pass, timers, signal>>
      BY DEF IndInv, TypeOK, Return, ServingEnds, MaintenanceStopped, ServersStopped, CloseApp,
             CloseFile, CloseStore, CloseDatabase, Deferred, Phases, Running
<1>2. TypeOK' BY <1>1 DEF IndInv, TypeOK, servers, timers
<1>3. Opened'
  <2>1. Opened /\ open \subseteq Resources BY DEF IndInv, TypeOK
  <2>2. CASE ServingEnds BY <2>1, <2>2 DEF Opened, ServingEnds, Running
  <2>3. CASE MaintenanceStopped BY <2>1, <2>3 DEF Opened, MaintenanceStopped, Deferred, Running
  <2>4. CASE ServersStopped BY <2>1, <2>4 DEF Opened, ServersStopped, Deferred, Running
  <2>5. CASE CloseApp BY <2>1, <2>5 DEF Opened, CloseApp, Deferred, Running
  <2>6. CASE CloseFile BY <2>1, <2>6 DEF Opened, CloseFile, Deferred, Running, Resources
  <2>7. CASE CloseStore BY <2>1, <2>7 DEF Opened, CloseStore, Deferred, Running
  <2>8. CASE CloseDatabase BY <2>1, <2>8 DEF Opened, CloseDatabase, Deferred, Running
  <2> QED BY <2>2, <2>3, <2>4, <2>5, <2>6, <2>7, <2>8 DEF Return
<1>4. Underway'
  <2>1. Underway BY DEF IndInv
  <2>2. UNCHANGED <<served, pass, closer, since>> BY <1>1 DEF servers, timers
  <2>3. CASE ServingEnds
    BY <2>1, <2>2, <2>3 DEF Underway, ServingEnds, Started, Starting, Running, Closing
  <2>4. CASE MaintenanceStopped
    BY <2>1, <2>2, <2>4 DEF Underway, MaintenanceStopped, Deferred, Started, Starting, Running, Closing
  <2>5. CASE ServersStopped
    BY <2>1, <2>2, <2>5 DEF Underway, ServersStopped, Deferred, Started, Starting, Running, Closing
  <2>6. CASE CloseApp \/ CloseFile \/ CloseStore \/ CloseDatabase
    BY <2>1, <2>2, <2>6 DEF Underway, CloseApp, CloseFile, CloseStore, CloseDatabase, Deferred,
                            Started, Starting, Running, Closing
  <2> QED BY <2>3, <2>4, <2>5, <2>6 DEF Return
<1>5. Silent' BY <1>1 DEF IndInv, Silent, servers
<1>6. Protected' BY <1>1 DEF IndInv, Protected, Running
<1>7. Timed'
  <2>1. /\ Timed /\ slack \in Nat /\ since \in Nat \union {Nothing}
        /\ closer["defer"].left \in Nat
    BY DEF IndInv, TypeOK
  <2>2. UNCHANGED <<down, slack, closer, since>> BY <1>1 DEF servers, timers
  <2>3. CASE ServingEnds BY <2>1, <2>2, <2>3 DEF Timed, ServingEnds, Closing
  <2>4. CASE MaintenanceStopped BY <2>1, <2>2, <2>4 DEF Timed, MaintenanceStopped, Deferred, Closing
  <2>5. CASE ServersStopped BY <2>1, <2>2, <2>5 DEF Timed, ServersStopped, Deferred, Closing
  <2>6. CASE CloseApp \/ CloseFile \/ CloseStore \/ CloseDatabase
    BY <2>1, <2>2, <2>6 DEF Timed, CloseApp, CloseFile, CloseStore, CloseDatabase, Deferred, Closing
  <2> QED BY <2>3, <2>4, <2>5, <2>6 DEF Return
<1> QED BY <1>1, <1>2, <1>3, <1>4, <1>5, <1>6, <1>7, PhaseInv

-------------------------------------------------------------------------------
LEMMA ServeInv ==
    ASSUME IndInv, NEW v \in Servers, Serve(v) \/ EndServe(v) \/ FailServe(v)
    PROVE  IndInv'
<1>1. /\ served[v] # "new" /\ open' \in {open, open \ {v}}
      /\ UNCHANGED <<phase, failure, cfg, down, busy, late, pass, timers, signal>>
      BY DEF Serve, EndServe, FailServe, lifecycle
<1>2. PICK how \in {"serving", "closed", "failed"} : served' = [served EXCEPT ![v] = how]
      BY DEF Serve, EndServe, FailServe
<1>3. served \in [Servers -> {"new", "spawned", "serving", "closed", "failed"}]
      BY DEF IndInv, TypeOK
<1>4. how = "serving" => v \notin down
      BY <1>2, <1>3 DEF Serve, EndServe, FailServe
<1>5. TypeOK' BY <1>1, <1>2 DEF IndInv, TypeOK, timers
<1>6. /\ served'["app"] = "new" <=> served["app"] = "new"
      /\ served'["file"] = "new" <=> served["file"] = "new"
      /\ Started
      BY <1>1, <1>2, <1>3 DEF IndInv, Underway, Started
<1>7. Underway' BY <1>1, <1>6 DEF IndInv, Underway, Started, timers
<1>8. Opened'
  <2>1. phase \notin Starting BY <1>6 DEF IndInv, Underway
  <2>2. "db" # v /\ "store" # v OBVIOUS
  <2> QED BY <1>1, <2>1, <2>2 DEF IndInv, Opened, Starting, Running
<1>9. Silent' BY <1>1, <1>2, <1>3, <1>4 DEF IndInv, Silent
<1>10. Protected' BY <1>1, <1>6 DEF IndInv, Protected
<1>11. ASSUME NEW c \in Closers PROVE Waited(c)' BY <1>1 DEF IndInv, Waited, Drained, timers
<1>12. Timed' /\ Latest' BY <1>1 DEF IndInv, Timed, Latest, timers
<1> QED BY <1>5, <1>7, <1>8, <1>9, <1>10, <1>11, <1>12 DEF IndInv

LEMMA ConnectionInv ==
    ASSUME IndInv, NEW v \in Servers, Accept(v) \/ FinishRequest(v)
    PROVE  IndInv'
<1>1. UNCHANGED <<lifecycle, cfg, served, down, pass, timers, signal>> BY DEF Accept, FinishRequest
<1>2. busy \in [Servers -> Nat] /\ late \in [Servers -> Nat] /\ since \in Nat \union {Nothing}
      BY DEF IndInv, TypeOK
<1>3. /\ busy' \in [Servers -> Nat] /\ late' \in [Servers -> Nat]
      /\ \A w \in Servers : busy[w] = 0 /\ busy'[w] # 0 => w \notin down
  <2>1. CASE Accept(v)
    <3>1. v \notin down BY <2>1 DEF Accept, IndInv, Silent
    <3>2. busy' = [busy EXCEPT ![v] = @ + 1] BY <2>1 DEF Accept
    <3>3. late' \in [Servers -> Nat] BY <1>2, <2>1 DEF Accept
    <3> QED BY <1>2, <3>1, <3>2, <3>3
  <2>2. CASE FinishRequest(v) BY <1>2, <2>2 DEF FinishRequest
  <2> QED BY <2>1, <2>2
<1>4. TypeOK' BY <1>1, <1>3 DEF IndInv, TypeOK, lifecycle, timers
<1>5. Opened' /\ Underway' /\ Silent'
      BY <1>1 DEF IndInv, Opened, Underway, Started, Silent, lifecycle, timers
<1>6. (phase \notin {"parse", "exited"} \/ Started => Protected)'
      BY <1>1 DEF IndInv, Started, Protected, lifecycle
<1>7. ASSUME NEW c \in Closers PROVE Waited(c)'
      BY <1>1, <1>3 DEF IndInv, Waited, Drained, timers
<1>8. Timed' BY <1>1 DEF IndInv, Timed, lifecycle, timers
<1>9. late'["app"] = 0 /\ late'["file"] <= Grace
  <2>1. Latest /\ Timed BY DEF IndInv
  <2>2. CASE FinishRequest(v) BY <2>1, <2>2 DEF FinishRequest, Latest
  <2>3. CASE Accept(v)
    <3>1. late' = [late EXCEPT ![v] = IF since = Nothing THEN 0 ELSE since] BY <2>3 DEF Accept
    <3>2. v \notin down BY <2>3 DEF Accept, IndInv, Silent
    <3>3. CASE v = "app"
      <4>1. since = Nothing BY <2>1, <3>2, <3>3 DEF Timed
      <4> QED BY <1>2, <2>1, <3>1, <3>3, <4>1 DEF Latest
    <3>4. CASE v = "file"
      <4>1. since # Nothing => since <= Grace
        <5> SUFFICES ASSUME since # Nothing PROVE since <= Grace OBVIOUS
        <5>1. PICK c \in Closers : since <= Grace - closer[c].left BY <2>1, <3>2, <3>4 DEF Latest
        <5>2. closer[c].left \in Nat BY DEF IndInv, TypeOK
        <5> QED BY <1>2, <5>1, <5>2
      <4> QED BY <1>2, <2>1, <3>1, <3>4, <4>1 DEF Latest
    <3> QED BY <3>3, <3>4
  <2> QED BY <2>2, <2>3
<1>10. Latest' BY <1>1, <1>9 DEF IndInv, Latest, timers
<1> QED BY <1>4, <1>5, <1>6, <1>7, <1>8, <1>10 DEF IndInv

LEMMA MaintenanceInv ==
    ASSUME IndInv, RunPass \/ EndPass \/ StopMaintenance \/ Signal
    PROVE  IndInv'
<1>1. UNCHANGED <<lifecycle, cfg, servers, timers>>
      BY DEF RunPass, EndPass, StopMaintenance, Signal, Maintain
<1>2. pass' = pass \/ (pass \in {"waiting", "running"} /\ pass' \in {"waiting", "running", "stopped"})
      BY DEF RunPass, EndPass, StopMaintenance, Signal, Maintain
<1>3. signal' \in BOOLEAN
      BY DEF RunPass, EndPass, StopMaintenance, Signal, Maintain, IndInv, TypeOK
<1>4. TypeOK' BY <1>1, <1>2, <1>3 DEF IndInv, TypeOK, lifecycle, servers, timers
<1>5. Underway'
      BY <1>1, <1>2 DEF IndInv, Underway, Started, lifecycle, servers, timers
<1>6. Opened' /\ Silent' BY <1>1 DEF IndInv, Opened, Silent, lifecycle, servers
<1>7. (phase \notin {"parse", "exited"} \/ Started => Protected)'
      BY <1>1 DEF IndInv, Started, Protected, lifecycle, servers
<1>8. ASSUME NEW c \in Closers PROVE Waited(c)'
      BY <1>1 DEF IndInv, Waited, Drained, servers, timers
<1>9. Timed' /\ Latest' BY <1>1 DEF IndInv, Timed, Latest, lifecycle, servers, timers
<1> QED BY <1>4, <1>5, <1>6, <1>7, <1>8, <1>9 DEF IndInv

-------------------------------------------------------------------------------
\* A step of goroutine c that shuts server v down.
LEMMA CloseInv ==
    ASSUME IndInv, NEW c \in Closers, NEW v \in Servers, Close(c, v, v), Started,
           closer[c].at # "done",
           v = "app" => closer[c].at = "waiting",
           v = "file" => closer[c].at = "app" /\ Drained("app")
    PROVE  IndInv'
<1>1. /\ down' = down \union {v} /\ open' \in {open, open \ {v}}
      /\ served[v] = "serving" => v \notin open'
      /\ since' = IF since = Nothing THEN 0 ELSE since
      /\ closer' = [closer EXCEPT ![c].at = v]
      /\ UNCHANGED <<phase, failure, cfg, served, busy, late, pass, slack, signal>>
      BY DEF Close
<1>2. /\ closer \in [Closers -> [at : {"waiting", "done"} \union Servers, left : Nat]]
      /\ since \in Nat \union {Nothing}
      BY DEF IndInv, TypeOK
<1>3. /\ closer'[c].at = v /\ closer'[c].left = closer[c].left
      /\ \A d \in Closers \ {c} : closer'[d] = closer[d]
      /\ closer' \in [Closers -> [at : {"waiting", "done"} \union Servers, left : Nat]]
      BY <1>1, <1>2
<1>4. since' \in Nat /\ (since # Nothing => since' = since) BY <1>1, <1>2
<1>5. TypeOK' BY <1>1, <1>3, <1>4 DEF IndInv, TypeOK
<1>6. Opened'
  <2>1. phase \notin Starting BY DEF IndInv, Underway
  <2>2. "db" # v /\ "store" # v OBVIOUS
  <2> QED BY <1>1, <2>1, <2>2 DEF IndInv, Opened, Starting, Running
<1>7. Underway'
  <2>1. c = "defer" => phase \notin Closing BY DEF IndInv, Underway
  <2> QED BY <1>1, <1>3, <2>1 DEF IndInv, Underway, Started
<1>8. Silent' BY <1>1 DEF IndInv, Silent
<1>9. Protected' BY <1>1 DEF IndInv, Protected
<1>10. ASSUME NEW d \in Closers PROVE Waited(d)'
  <2>1. Waited(d) /\ Waited(c) BY DEF IndInv
  <2>2. CASE d = c
    <3>1. CASE v = "app"
      <4>1. closer[c].left = Grace BY <2>1, <3>1 DEF Waited
      <4>2. since' >= Grace - closer'[c].left BY <1>3, <1>4, <4>1
      <4> QED BY <1>1, <1>3, <1>4, <2>2, <3>1, <4>2 DEF Waited
    <3>2. CASE v = "file"
      <4>1. since \in Nat /\ since' = since BY <1>4, <2>1, <3>2 DEF Waited
      <4> QED BY <1>1, <1>3, <1>4, <2>1, <2>2, <3>2, <4>1 DEF Waited, Drained
    <3> QED BY <3>1, <3>2
  <2>3. CASE d # c
    <3>1. closer'[d] = closer[d] BY <1>3, <2>3
    <3>2. CASE closer[d].at = "waiting" BY <2>1, <3>1, <3>2 DEF Waited
    <3>3. CASE closer[d].at # "waiting"
      <4>1. since \in Nat /\ since' = since BY <1>4, <2>1, <3>3 DEF Waited
      <4> QED BY <1>1, <2>1, <3>1, <3>3, <4>1 DEF Waited, Drained
    <3> QED BY <3>2, <3>3
  <2> QED BY <2>2, <2>3
<1>11. Timed'
  <2>1. Timed /\ closer'["defer"].left = closer["defer"].left BY <1>3 DEF IndInv
  <2>2. slack \in Nat /\ closer["defer"].left \in Nat BY DEF IndInv, TypeOK
  <2>3. "app" \in down' BY <1>1 DEF IndInv, Waited
  <2>4. CASE since = Nothing
    <3>1. since' = 0 BY <1>1, <2>4
    <3> QED BY <1>1, <2>1, <2>2, <2>3, <3>1 DEF Timed
  <2>5. CASE since # Nothing BY <1>1, <1>4, <2>1, <2>3, <2>5 DEF Timed
  <2> QED BY <2>4, <2>5
<1>12. Latest'
  <2>1. Latest BY DEF IndInv
  <2>2. CASE v = "file" BY <1>1, <2>1, <2>2 DEF Latest
  <2>3. CASE v = "app" /\ since = Nothing
    <3>1. closer'[c].left = Grace /\ since' = 0 BY <1>1, <1>3, <2>3 DEF IndInv, Waited
    <3>2. closer'[c].at = "app" /\ since' <= Grace - closer'[c].left BY <1>3, <2>3, <3>1
    <3> QED BY <1>1, <2>1, <3>2 DEF Latest
  <2>4. CASE v = "app" /\ since # Nothing
    <3>1. \A d \in Closers : closer[d].at = "app" => d # c /\ closer'[d] = closer[d]
      BY <1>3, <2>4
    <3> QED BY <1>1, <1>4, <2>1, <2>4, <3>1 DEF Latest
  <2> QED BY <2>2, <2>3, <2>4
<1> QED BY <1>5, <1>6, <1>7, <1>8, <1>9, <1>10, <1>11, <1>12 DEF IndInv

LEMMA ReturnsDrained ==
    ASSUME IndInv, NEW c \in Closers, NEW v \in Servers, Returns(c, v)
    PROVE  Drained(v) /\ Started
<1>1. closer[c].at = v /\ (busy[v] = 0 \/ closer[c].left = 0) BY DEF Returns
<1>2. closer[c].at # "waiting" /\ closer[c].at # "done" BY <1>1
<1>3. Waited(c) BY DEF IndInv
<1>4. Drained(v) BY <1>1, <1>2, <1>3 DEF Waited, Drained
<1>5. Started BY <1>2 DEF IndInv, Underway
<1> QED BY <1>4, <1>5

LEMMA ShutdownInv ==
    ASSUME IndInv, NEW c \in Closers, BeginShutdown(c) \/ NextShutdown(c) \/ EndShutdown(c)
    PROVE  IndInv'
<1>1. CASE BeginShutdown(c)
  <2>1. Started BY <1>1 DEF BeginShutdown, IndInv, Underway, Running
  <2> QED BY <1>1, <2>1, CloseInv DEF BeginShutdown
<1>2. CASE NextShutdown(c)
  <2>1. Drained("app") /\ Started /\ closer[c].at = "app"
    BY <1>2, ReturnsDrained DEF NextShutdown, Returns
  <2> QED BY <1>2, <2>1, CloseInv DEF NextShutdown
<1>3. CASE EndShutdown(c)
  <2>1. Drained("file") /\ Started /\ closer[c].at = "file"
    BY <1>3, ReturnsDrained DEF EndShutdown, Returns
  <2>2. /\ closer' = [closer EXCEPT ![c].at = "done"]
        /\ UNCHANGED <<lifecycle, cfg, servers, pass, slack, since, signal>>
    BY <1>3 DEF EndShutdown
  <2>3. closer \in [Closers -> [at : {"waiting", "done"} \union Servers, left : Nat]]
    BY DEF IndInv, TypeOK
  <2>4. /\ closer'[c].at = "done" /\ closer'[c].left = closer[c].left
        /\ \A d \in Closers \ {c} : closer'[d] = closer[d]
        /\ closer' \in [Closers -> [at : {"waiting", "done"} \union Servers, left : Nat]]
    BY <2>2, <2>3
  <2>5. TypeOK' BY <2>2, <2>4 DEF IndInv, TypeOK, lifecycle, servers
  <2>6. Opened' /\ Silent' BY <2>2 DEF IndInv, Opened, Silent, lifecycle, servers
  <2>7. Underway' BY <2>1, <2>2, <2>4 DEF IndInv, Underway, Started, lifecycle, servers
  <2>8. Protected' BY <2>1, <2>2 DEF IndInv, Protected
  <2>9. ASSUME NEW d \in Closers PROVE Waited(d)'
    <3>1. Waited(d) BY DEF IndInv
    <3>2. CASE d = c BY <2>1, <2>2, <2>4, <3>1, <3>2 DEF Waited, Drained, servers
    <3>3. CASE d # c
      <4>1. closer'[d] = closer[d] BY <2>4, <3>3
      <4> QED BY <2>2, <3>1, <4>1 DEF Waited, Drained, servers
    <3> QED BY <3>2, <3>3
  <2>10. Timed'
    <3>1. closer'["defer"].left = closer["defer"].left BY <2>4
    <3> QED BY <2>2, <3>1 DEF IndInv, Timed, lifecycle, servers
  <2>11. Latest'
    <3>1. "file" \in down BY <2>1 DEF IndInv, Waited
    <3> QED BY <2>2, <3>1 DEF IndInv, Latest, servers
  <2> QED BY <2>5, <2>6, <2>7, <2>8, <2>9, <2>10, <2>11 DEF IndInv
<1> QED BY <1>1, <1>2, <1>3

LEMMA TickInv ==
    ASSUME IndInv, Tick
    PROVE  IndInv'
<1>1. /\ closer' = [c \in Closers |-> IF closer[c].at \in Servers
                                      THEN [closer[c] EXCEPT !.left = Down(@)] ELSE closer[c]]
      /\ slack' = IF pass = "running" /\ Cancelled THEN slack - 1 ELSE slack
      /\ pass = "running" /\ Cancelled => slack > 0
      /\ since' = IF since = Nothing \/ since > PassTime + Grace THEN since ELSE since + 1
      /\ UNCHANGED <<lifecycle, cfg, servers, pass, signal>>
      BY DEF Tick
<1>2. /\ closer \in [Closers -> [at : {"waiting", "done"} \union Servers, left : Nat]]
      /\ since \in Nat \union {Nothing} /\ slack \in Nat
      BY DEF IndInv, TypeOK
<1>3. \A n \in Nat : Down(n) \in Nat /\ Down(n) >= n - 1 BY DEF Down
<1>4. ASSUME NEW c \in Closers
      PROVE  /\ closer'[c] \in [at : {"waiting", "done"} \union Servers, left : Nat]
             /\ closer'[c].at = closer[c].at /\ closer'[c].left >= closer[c].left - 1
             /\ closer[c].at = "waiting" => closer'[c] = closer[c]
  <2>1. CASE closer[c].at \in Servers
    <3>1. closer'[c] = [closer[c] EXCEPT !.left = Down(@)] BY <1>1, <2>1
    <3> QED BY <1>2, <1>3, <2>1, <3>1
  <2>2. CASE closer[c].at \notin Servers
    <3>1. closer'[c] = closer[c] BY <1>1, <2>2
    <3> QED BY <1>2, <3>1
  <2> QED BY <2>1, <2>2
<1>5. closer' \in [Closers -> [at : {"waiting", "done"} \union Servers, left : Nat]]
      BY <1>1, <1>4
<1>6. slack' \in Nat /\ since' \in Nat \union {Nothing} BY <1>1, <1>2
<1>7. since \in Nat => /\ since' \in Nat /\ since' >= since
                       /\ since' >= since + 1 \/ since > PassTime + Grace
      BY <1>1
<1>8. TypeOK' BY <1>1, <1>5, <1>6 DEF IndInv, TypeOK, lifecycle, servers
<1>9. Opened' /\ Silent' BY <1>1 DEF IndInv, Opened, Silent, lifecycle, servers
<1>10. Underway' BY <1>1, <1>4 DEF IndInv, Underway, Started, lifecycle, servers
<1>11. (phase \notin {"parse", "exited"} \/ Started => Protected)'
      BY <1>1 DEF IndInv, Started, Protected, lifecycle, servers
<1>12. ASSUME NEW c \in Closers PROVE Waited(c)'
  <2>1. Waited(c) BY DEF IndInv
  <2>2. CASE closer[c].at = "waiting" BY <1>4, <2>1, <2>2 DEF Waited
  <2>3. CASE closer[c].at # "waiting"
    <3>1. since \in Nat /\ since >= Grace - closer[c].left BY <2>1, <2>3 DEF Waited
    <3>2. closer[c].left \in Nat /\ closer'[c].left \in Nat BY <1>2, <1>4
    <3>3. since' >= Grace - closer'[c].left BY <1>4, <1>7, <3>1, <3>2
    <3>4. UNCHANGED <<down, busy>> BY <1>1 DEF servers
    <3>5. \A v \in Servers : Drained(v) => Drained(v)' BY <1>7, <3>1, <3>4 DEF Drained
    <3> QED BY <1>4, <1>7, <2>1, <2>3, <3>1, <3>3, <3>4, <3>5 DEF Waited
  <2> QED BY <2>2, <2>3
<1>13. ~Due BY DEF Tick
<1>14. UNCHANGED <<phase, down, late>> BY <1>1 DEF lifecycle, servers
<1>15. ASSUME NEW c \in Closers, closer[c].at \in Servers
       PROVE  closer'[c].left = closer[c].left - 1 /\ closer[c].left \in Nat
  <2>1. closer[c].left # 0
    <3>1. ~Returns(c, closer[c].at) BY <1>13, <1>15 DEF Due
    <3> QED BY <3>1 DEF Returns
  <2>2. closer[c].left \in Nat BY <1>2
  <2>3. Down(closer[c].left) = closer[c].left - 1 BY <2>1 DEF Down
  <2>4. closer'[c] = [closer[c] EXCEPT !.left = Down(@)] BY <1>1, <1>15
  <2>5. closer[c] \in [at : {"waiting", "done"} \union Servers, left : Nat] BY <1>2
  <2> QED BY <2>2, <2>3, <2>4, <2>5
<1>16. since # Nothing => since \in Nat /\ since' \in Nat /\ since' <= since + 1
       BY <1>1, <1>2
<1>17. since' # Nothing => since # Nothing BY <1>1
<1>18. Timed'
  <2>1. Timed BY DEF IndInv
  <2>2. slack' <= PassTime BY <1>1, <1>2, <2>1 DEF Timed
  <2>3. closer'["defer"].left <= Grace
    <3>1. CASE closer["defer"].at \in Servers BY <1>15, <2>1, <3>1 DEF Timed
    <3>2. CASE closer["defer"].at \notin Servers
      <4>1. closer'["defer"] = closer["defer"] BY <1>1, <3>2
      <4> QED BY <2>1, <4>1 DEF Timed
    <3> QED BY <3>1, <3>2
  <2>4. phase \notin Closing \ {"exited"} BY <1>13 DEF Due, Closing
  <2>5. ASSUME phase = "serving", since # Nothing PROVE FALSE
    <3>1. served["app"] # "new" /\ "app" \in down BY <2>1, <2>5 DEF IndInv, Underway, Started, Timed
    <3>2. served["app"] \in {"spawned", "serving", "closed", "failed"} BY <3>1 DEF IndInv, TypeOK
    <3> QED BY <1>13, <2>5, <3>1, <3>2 DEF Due
  <2>6. ASSUME phase = "stopMaintenance", since # Nothing PROVE since' <= PassTime - slack'
    <3>1. Started BY <2>6 DEF IndInv, Underway, Running
    <3>2. pass \in {"running", "waiting", "stopped"} BY <3>1 DEF IndInv, Underway, TypeOK
    <3>3. pass = "running" /\ Cancelled BY <1>13, <2>6, <3>2 DEF Due, Cancelled
    <3>4. slack' = slack - 1 BY <1>1, <3>3
    <3>5. since <= PassTime - slack BY <2>1, <2>6 DEF Timed
    <3> QED BY <1>2, <1>16, <2>6, <3>4, <3>5
  <2>7. ASSUME phase = "drain", since # Nothing
        PROVE  since' <= PassTime + Grace - closer'["defer"].left
    <3>1. closer["defer"].at \in Servers BY <1>2, <1>13, <2>7 DEF Due
    <3>2. closer'["defer"].left = closer["defer"].left - 1 /\ closer["defer"].left \in Nat
      BY <1>15, <3>1
    <3>3. since <= PassTime + Grace - closer["defer"].left BY <2>1, <2>7 DEF Timed
    <3> QED BY <1>16, <2>7, <3>2, <3>3
  <2> QED BY <1>14, <1>17, <2>1, <2>2, <2>3, <2>4, <2>5, <2>6, <2>7 DEF Timed
<1>19. Latest'
  <2>1. Latest BY DEF IndInv
  <2>2. ASSUME since # Nothing, "file" \notin down
        PROVE  \E c \in Closers : closer'[c].at = "app" /\ since' <= Grace - closer'[c].left
    <3>1. PICK c \in Closers : closer[c].at = "app" /\ since <= Grace - closer[c].left
      BY <2>1, <2>2 DEF Latest
    <3>2. closer'[c].left = closer[c].left - 1 /\ closer[c].left \in Nat BY <1>15, <3>1
    <3>3. closer'[c].at = "app" BY <1>4, <3>1
    <3>4. since' <= Grace - closer'[c].left BY <1>16, <2>2, <3>1, <3>2
    <3> QED BY <3>3, <3>4
  <2> QED BY <1>14, <1>17, <2>1, <2>2 DEF Latest
<1> QED BY <1>8, <1>9, <1>10, <1>11, <1>12, <1>18, <1>19 DEF IndInv

-------------------------------------------------------------------------------
LEMMA InitInv == Init => IndInv
<1> SUFFICES ASSUME Init PROVE IndInv OBVIOUS
<1> USE DEF Init
<1>1. TypeOK BY DEF TypeOK, Phases
<1>2. Opened /\ Underway /\ Silent BY DEF Opened, Underway, Silent, Started, Running, Closing
<1>3. phase = "parse" /\ ~Started BY DEF Started
<1>4. ASSUME NEW c \in Closers PROVE Waited(c) BY DEF Waited
<1>5. Timed /\ Latest BY DEF Timed, Latest
<1> QED BY <1>1, <1>2, <1>3, <1>4, <1>5 DEF IndInv

LEMMA StepInv == IndInv /\ [Next]_vars => IndInv'
<1> SUFFICES ASSUME IndInv, [Next]_vars PROVE IndInv' OBVIOUS
<1>1. CASE UNCHANGED vars
  <2>1. UNCHANGED <<lifecycle, cfg, servers, pass, timers, signal>> BY <1>1 DEF vars
  <2>2. TypeOK' BY <2>1 DEF IndInv, TypeOK, lifecycle, servers, timers
  <2>3. (phase \notin {"parse", "exited"} \/ Started => Protected)'
    BY <2>1 DEF IndInv, Protected, Started, lifecycle, servers
  <2>4. Opened' /\ Underway' /\ Silent'
    BY <2>1 DEF IndInv, Opened, Underway, Silent, Started, lifecycle, servers, timers
  <2>5. Timed' BY <2>1 DEF IndInv, Timed, lifecycle, servers, timers
  <2> QED BY <2>1, <2>2, <2>3, <2>4, <2>5, PhaseInv
<1>2. CASE Begin BY <1>2, ParseInv, StartupInv, StartInv DEF Begin
<1>3. CASE Return BY <1>3, ReturnInv
<1>4. CASE Goroutines BY <1>4, ServeInv, ShutdownInv, MaintenanceInv DEF Goroutines
<1>5. CASE Tick BY <1>5, TickInv
<1>6. ASSUME NEW v \in Servers, FailServe(v) \/ Accept(v) \/ FinishRequest(v) PROVE IndInv'
      BY <1>6, ServeInv, ConnectionInv
<1>7. CASE RunPass \/ EndPass \/ Signal BY <1>7, MaintenanceInv
<1> QED BY <1>1, <1>2, <1>3, <1>4, <1>5, <1>6, <1>7 DEF Next

\* The invariant of the process: what is open and what is running in each phase,
\* and what a goroutine that shuts down has waited for.
THEOREM Invariance == Spec => []IndInv
BY InitInv, StepInv, PTL DEF Spec

\* The process serves only under a configuration that protects its mode.
THEOREM ServesOnlyProtected == Spec => []ServesProtected
<1>1. IndInv => ServesProtected BY DEF IndInv, ServesProtected, Protected
<1> QED BY <1>1, Invariance, PTL

\* The store and the database outlive the maintenance pass and every request that
\* a shutdown waits for.
THEOREM StorageClosesLast == Spec => []StorageOutlives
<1>1. IndInv => StorageOutlives
  <2> SUFFICES ASSUME IndInv, Started, ~({"db", "store"} \subseteq open)
               PROVE  pass = "stopped"
                      /\ \A v \in Servers : busy[v] = 0 \/ (since # Nothing /\ since >= Grace)
    BY DEF StorageOutlives
  <2>1. phase \in Phases BY DEF IndInv, TypeOK
  <2>2. phase \notin Starting \union Running BY DEF IndInv, Underway, Opened
  <2>3. phase \in Closing BY <2>1, <2>2 DEF Phases, Starting, Running, Closing
  <2>4. closer["defer"].at = "done" /\ pass = "stopped" BY <2>3 DEF IndInv, Underway
  <2>5. Waited("defer") BY DEF IndInv
  <2>6. since \in Nat /\ Drained("app") /\ Drained("file") BY <2>4, <2>5 DEF Waited
  <2> QED BY <2>4, <2>6 DEF Drained
<1> QED BY <1>1, Invariance, PTL

\* The process leaves nothing open, and the database is the last to close.
THEOREM EverythingCloses == Spec => []AllClosed
<1>1. IndInv => AllClosed
  <2> SUFFICES ASSUME IndInv PROVE AllClosed OBVIOUS
  <2>1. Opened /\ phase \in Phases /\ open \subseteq Resources BY DEF IndInv, TypeOK
  <2> QED BY <2>1 DEF Opened, AllClosed, Phases, Running
<1> QED BY <1>1, Invariance, PTL

\* The process exits no later than a pass and one timeout after its shutdown began.
THEOREM ExitsInTime == Spec => []TimelyExit
<1>1. IndInv => TimelyExit
  <2> SUFFICES ASSUME IndInv, since # Nothing, phase # "exited"
               PROVE  since <= PassTime + Grace
    BY DEF TimelyExit
  <2>1. /\ Timed /\ phase \in Phases /\ since \in Nat /\ slack \in Nat
        /\ closer["defer"].left \in Nat
    BY DEF IndInv, TypeOK
  <2>2. phase \notin Starting BY DEF IndInv, Underway
  <2>3. CASE phase = "serving" BY <2>1, <2>3 DEF Timed
  <2>4. CASE phase = "stopMaintenance" BY <2>1, <2>4 DEF Timed
  <2>5. CASE phase = "drain" BY <2>1, <2>5 DEF Timed
  <2>6. CASE phase \in Closing \ {"exited"} BY <2>1, <2>6 DEF Timed
  <2> QED BY <2>1, <2>2, <2>3, <2>4, <2>5, <2>6 DEF Phases, Starting, Closing
<1> QED BY <1>1, Invariance, PTL

\* The application's listener accepts nothing once the shutdown has begun, the
\* files' one nothing after the timeout.
THEOREM AcceptsNoMore == Spec => []StopsAccepting
<1>1. IndInv => StopsAccepting BY DEF IndInv, Latest, StopsAccepting
<1> QED BY <1>1, Invariance, PTL
-------------------------------------------------------------------------------
(* The safety half of Ends: what a shutdown waits for is always bounded by time.  *)

ShuttingDown ==
    \/ signal /\ Started
    \/ \E v \in Servers : served[v] = "failed"
    \/ phase \in {"stopMaintenance", "drain"}

\* The time that cancelled passes and shutdowns may still take, all in all.
Remaining == slack + closer["signal"].left + closer["defer"].left

\* While the process shuts down and has nothing to do at once, it waits for a
\* maintenance pass that was cancelled, or in a Shutdown whose time is not up; never for
\* a client.
WaitsForTime ==
    ShuttingDown /\ phase # "exited" /\ ~Due =>
       \/ pass = "running" /\ Cancelled
       \/ \E c \in Closers, v \in Servers : closer[c].at = v /\ closer[c].left > 0

\* The time it may take never grows, and is used up as time passes.
UsesUpTime ==
    [][Remaining' <= Remaining /\ (Tick /\ ShuttingDown => Remaining' < Remaining)]_vars

LEMMA WaitsInv == IndInv => WaitsForTime
<1> SUFFICES ASSUME IndInv, ShuttingDown, phase # "exited", ~Due
             PROVE  \/ pass = "running" /\ Cancelled
                    \/ \E c \in Closers, v \in Servers : closer[c].at = v /\ closer[c].left > 0
    BY DEF WaitsForTime
<1>1. /\ phase \in Phases /\ pass \in {"none", "running", "waiting", "stopped"}
      /\ served \in [Servers -> {"new", "spawned", "serving", "closed", "failed"}]
      /\ closer \in [Closers -> [at : {"waiting", "done"} \union Servers, left : Nat]]
      BY DEF IndInv, TypeOK
<1>2. Started
  <2>1. ASSUME NEW v \in Servers, served[v] = "failed" PROVE Started
    BY <2>1 DEF IndInv, Underway, Started
  <2> QED BY <2>1 DEF ShuttingDown, IndInv, Underway, Running
<1>3. pass # "none" /\ phase \notin Starting BY <1>2 DEF IndInv, Underway
<1>4. phase \in Running BY <1>1, <1>3 DEF Due, Phases, Starting, Running
<1>5. ASSUME NEW c \in Closers, closer[c].at \in Servers
      PROVE  \E d \in Closers, v \in Servers : closer[d].at = v /\ closer[d].left > 0
  <2>1. ~Returns(c, closer[c].at) BY <1>5 DEF Due
  <2>2. closer[c].left # 0 BY <2>1 DEF Returns
  <2>3. closer[c].left \in Nat BY <1>1
  <2>4. closer[c].left > 0 BY <2>2, <2>3
  <2> QED BY <1>5, <2>4
<1>6. CASE phase = "stopMaintenance"
  <2>1. Cancelled BY <1>6 DEF Cancelled
  <2>2. pass # "stopped" /\ pass # "waiting" BY <1>6, <2>1 DEF Due
  <2> QED BY <1>1, <1>3, <2>1, <2>2
<1>7. CASE phase = "drain"
  <2>1. closer["defer"].at \notin {"waiting", "done"} BY <1>7 DEF Due
  <2>2. closer["defer"].at \in Servers BY <1>1, <2>1
  <2> QED BY <1>5, <2>2
<1>8. CASE phase = "serving"
  <2>1. signal BY <1>8 DEF ShuttingDown, Due
  <2>2. closer["signal"].at # "waiting" BY <1>2, <2>1 DEF Due
  <2>3. "app" \notin down
    <3>1. served["app"] \notin {"new", "spawned", "closed", "failed"}
      BY <1>2, <1>8 DEF Started, Due
    <3>2. served["app"] = "serving" BY <1>1, <3>1
    <3> QED BY <3>2 DEF Due
  <2>4. Waited("signal") BY DEF IndInv
  <2> QED BY <2>2, <2>3, <2>4 DEF Waited
<1> QED BY <1>4, <1>6, <1>7, <1>8 DEF Running
\* A step of the clock takes time from the pass and from every shutdown that waits.
LEMMA ClockRuns ==
    ASSUME IndInv, Tick
    PROVE  /\ slack \in Nat /\ slack' \in Nat /\ slack' <= slack
           /\ pass = "running" /\ Cancelled => slack' < slack
           /\ \A c \in Closers :
                 /\ closer[c].left \in Nat /\ closer'[c].left \in Nat
                 /\ closer'[c].left <= closer[c].left
                 /\ closer[c].at \in Servers /\ closer[c].left > 0 =>
                       closer'[c].left < closer[c].left
<1>1. /\ closer \in [Closers -> [at : {"waiting", "done"} \union Servers, left : Nat]]
      /\ slack \in Nat
      BY DEF IndInv, TypeOK
<1>2. /\ closer' = [c \in Closers |-> IF closer[c].at \in Servers
                                      THEN [closer[c] EXCEPT !.left = Down(@)] ELSE closer[c]]
      /\ slack' = IF pass = "running" /\ Cancelled THEN slack - 1 ELSE slack
      /\ pass = "running" /\ Cancelled => slack > 0
      BY DEF Tick
<1>3. ASSUME NEW c \in Closers
      PROVE  /\ closer[c].left \in Nat /\ closer'[c].left \in Nat
             /\ closer'[c].left <= closer[c].left
             /\ closer[c].at \in Servers /\ closer[c].left > 0 =>
                   closer'[c].left < closer[c].left
  <2>1. closer[c] \in [at : {"waiting", "done"} \union Servers, left : Nat] BY <1>1
  <2>2. \A n \in Nat : Down(n) \in Nat /\ Down(n) <= n /\ (n > 0 => Down(n) < n) BY DEF Down
  <2>3. CASE closer[c].at \in Servers
    <3>1. closer'[c] = [closer[c] EXCEPT !.left = Down(@)] BY <1>2, <2>3
    <3>2. closer'[c].left = Down(closer[c].left) BY <2>1, <3>1
    <3>3. closer[c].left \in Nat BY <2>1
    <3> QED BY <2>2, <3>2, <3>3
  <2>4. CASE closer[c].at \notin Servers
    <3>1. closer'[c] = closer[c] BY <1>2, <2>4
    <3> QED BY <2>1, <2>4, <3>1
  <2> QED BY <2>3, <2>4
<1>4. slack' \in Nat /\ slack' <= slack /\ (pass = "running" /\ Cancelled => slack' < slack)
      BY <1>1, <1>2
<1> QED BY <1>1, <1>3, <1>4

LEMMA TickUsesUp ==
    ASSUME IndInv, Tick
    PROVE  /\ Remaining' <= Remaining
           /\ ShuttingDown /\ phase # "exited" => Remaining' < Remaining
<1>1. /\ slack \in Nat /\ slack' \in Nat /\ slack' <= slack
      /\ \A c \in Closers : /\ closer[c].left \in Nat /\ closer'[c].left \in Nat
                            /\ closer'[c].left <= closer[c].left
      BY ClockRuns
<1>2. Remaining' <= Remaining BY <1>1 DEF Remaining
<1>3. CASE pass = "running" /\ Cancelled
  <2>1. slack' < slack BY <1>3, ClockRuns
  <2> QED BY <1>1, <1>2, <2>1 DEF Remaining
<1>4. CASE ShuttingDown /\ phase # "exited" /\ ~(pass = "running" /\ Cancelled)
  <2>1. ~Due BY DEF Tick
  <2>2. PICK c \in Closers, v \in Servers : closer[c].at = v /\ closer[c].left > 0
    BY <1>4, <2>1, WaitsInv DEF WaitsForTime
  <2>3. closer'[c].left < closer[c].left BY <2>2, ClockRuns
  <2>4. CASE c = "signal" BY <1>1, <2>3, <2>4 DEF Remaining
  <2>5. CASE c = "defer" BY <1>1, <2>3, <2>5 DEF Remaining
  <2> QED BY <2>4, <2>5
<1> QED BY <1>2, <1>3, <1>4

\* Another step leaves it as it is.
LEMMA RemainingKept ==
    ASSUME IndInv, [Next]_vars, ~Tick
    PROVE  Remaining' = Remaining
<1>1. \/ slack' = slack /\ closer' = closer
      \/ slack' = slack /\ \E c \in Closers : BeginShutdown(c) \/ NextShutdown(c) \/ EndShutdown(c)
  <2>1. ASSUME UNCHANGED timers PROVE slack' = slack /\ closer' = closer BY <2>1 DEF timers
  <2>2. CASE UNCHANGED vars BY <2>2 DEF vars, timers
  <2>3. CASE Begin
    BY <2>1, <2>3 DEF Begin, ParseConfig, OpenDatabase, OpenStore, BuildHandlers, ListenFile,
                      ListenApp, StartGoroutines, Startup, Abandon
  <2>4. CASE Return
    BY <2>1, <2>4 DEF Return, ServingEnds, MaintenanceStopped, ServersStopped, CloseApp,
                      CloseFile, CloseStore, CloseDatabase, Deferred
  <2>5. ASSUME NEW v \in Servers, Serve(v) \/ EndServe(v) \/ FailServe(v) PROVE UNCHANGED timers
    BY <2>5 DEF Serve, EndServe, FailServe
  <2>6. ASSUME NEW v \in Servers, Accept(v) \/ FinishRequest(v) PROVE UNCHANGED timers
    BY <2>6 DEF Accept, FinishRequest
  <2>7. CASE StopMaintenance \/ RunPass \/ EndPass
    BY <2>1, <2>7 DEF StopMaintenance, RunPass, EndPass, Maintain
  <2>8. CASE Signal BY <2>1, <2>8 DEF Signal
  <2>9. ASSUME NEW c \in Closers, BeginShutdown(c) \/ NextShutdown(c) \/ EndShutdown(c)
        PROVE  slack' = slack
    BY <2>9 DEF BeginShutdown, NextShutdown, EndShutdown, Close
  <2> QED BY <2>1, <2>2, <2>3, <2>4, <2>5, <2>6, <2>7, <2>8, <2>9 DEF Next, Goroutines
<1>2. ASSUME NEW c \in Closers, BeginShutdown(c) \/ NextShutdown(c) \/ EndShutdown(c)
      PROVE  \A d \in Closers : closer'[d].left = closer[d].left
  <2>1. PICK at \in {"app", "file", "done"} : closer' = [closer EXCEPT ![c].at = at]
    BY <1>2 DEF BeginShutdown, NextShutdown, EndShutdown, Close
  <2>2. closer \in [Closers -> [at : {"waiting", "done"} \union Servers, left : Nat]]
    BY DEF IndInv, TypeOK
  <2> QED BY <2>1, <2>2
<1> QED BY <1>1, <1>2 DEF Remaining

\* The safety half of Ends: in a shutdown run waits for nothing but a cancelled pass and
\* the deadlines of Shutdown, whatever the clients do.
THEOREM NeverHangs == Spec => []WaitsForTime
BY WaitsInv, Invariance, PTL

\* The time these may take is used up: a shutdown sees no more ticks than a pass and two
\* timeouts.
THEOREM TimeRunsOut == Spec => UsesUpTime
<1>1. ASSUME IndInv, [Next]_vars
      PROVE  [Remaining' <= Remaining
              /\ (Tick /\ ShuttingDown => Remaining' < Remaining)]_vars
  <2>1. CASE UNCHANGED vars BY <2>1
  <2>2. CASE Next
    <3>1. phase # "exited" BY <2>2 DEF Next
    <3>2. CASE Tick BY <1>1, <3>1, <3>2, TickUsesUp
    <3>3. CASE ~Tick
      <4>1. /\ slack \in Nat
            /\ closer \in [Closers -> [at : {"waiting", "done"} \union Servers, left : Nat]]
        BY <1>1 DEF IndInv, TypeOK
      <4>2. Remaining \in Nat BY <4>1 DEF Remaining
      <4>3. Remaining' <= Remaining BY <1>1, <2>2, <3>3, <4>2, RemainingKept
      <4> QED BY <3>3, <4>3
    <3> QED BY <3>2, <3>3
  <2> QED BY <1>1, <2>1, <2>2
<1> QED BY <1>1, Invariance, PTL DEF Spec, UsesUpTime
================================================================================
