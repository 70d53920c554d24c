----------------------------- MODULE ServerProcess -----------------------------
(***************************************************************************)
(* The process (cmd/upaste/main.go): run acquires its resources one by     *)
(* one, serves on two listeners with a maintenance goroutine beside, and   *)
(* gives everything back, in the reverse order, by deferred calls, when a  *)
(* step fails, a server stops or SIGTERM comes.  Its configuration comes   *)
(* from config.Parse.                                                      *)
(*                                                                         *)
(* Two goroutines call http.Server.Shutdown, each with ten seconds for     *)
(* both servers: the one that waits for the signal, and run itself.        *)
(* Shutdown closes the server's listener at once and then waits for its    *)
(* connections.  A tick of the clock is long for the process's own steps,  *)
(* and a connection is in use from its acceptance.                         *)
(***************************************************************************)
EXTENDS Integers, FiniteSets

CONSTANTS
    Settings,       \* what the environment and the flags may say
    Grace,          \* the timeout of both shutdown contexts
    PassTime,       \* how long a maintenance pass runs on when it is cancelled
    MaxBusy,        \* bound: the connections a server has in use
    Nothing         \* no configuration, no time

Servers == {"app", "file"}
Closers == {"signal", "defer"}

ASSUME TimeAssumption == Grace \in Nat \ {0} /\ PassTime \in Nat /\ MaxBusy \in Nat \ {0}
ASSUME NothingAssumption == Nothing \notin Nat \union BOOLEAN
ASSUME SettingsAssumption ==
    \A s \in Settings : /\ s.admin \in {"none", "token", "malformed"}
                        /\ s.secure \in BOOLEAN \union {Nothing}
                        /\ s.defaultTTL \in Int /\ s.maxTTL \in Int

VARIABLES
    phase,      \* how far run is
    failure,    \* whether run returns an error
    open,       \* what run has opened: the database, the store, the listeners
    cfg,        \* the configuration
    served,     \* of each server: its goroutine, in Serve
    down,       \* the servers whose Shutdown was called
    busy,       \* of each server: its connections in use
    pass,       \* the maintenance goroutine
    slack,      \* the time left to a cancelled pass
    closer,     \* of the goroutines that shut down: where they are, the time left
    signal,     \* SIGTERM has come: the context is cancelled
    since,      \* history: the time since the first Shutdown
    late        \* history: of each server, what since was when it last accepted

lifecycle == <<phase, failure, open>>
servers == <<served, down, busy, late>>
timers == <<slack, closer, since>>
vars == <<lifecycle, cfg, servers, pass, timers, signal>>

-------------------------------------------------------------------------------
(* config.Parse.                                                           *)

\* Without the verification of what public mode needs.
MutAccepts(s) ==
    /\ s.mode \in {"private", "public"}
    /\ 0 < s.defaultTTL /\ s.defaultTTL <= s.maxTTL
    /\ s.provider # "unknown" /\ s.admin # "malformed" /\ s.wellFormed
    /\ s.mode = "private" => s.provider = "none"

\* The settings that Parse takes.  wellFormed is the syntax of the rest: the
\* addresses and their difference, the origin, the proxies, the data directory, the
\* provider's keys.
Accepts(s) ==
    /\ s.mode \in {"private", "public"}
    /\ 0 < s.defaultTTL /\ s.defaultTTL <= s.maxTTL
    /\ s.provider # "unknown" /\ s.admin # "malformed" /\ s.wellFormed
    /\ s.mode = "private" => s.provider = "none"
    /\ s.mode = "public" => s.provider # "none" /\ s.admin # "none" /\ s.secure # FALSE

\* The configuration made of them: an unset cookie policy depends on the mode.
Parsed(s) ==
    [mode |-> s.mode, challenge |-> s.provider # "none", admin |-> s.admin = "token",
     secure |-> IF s.secure = Nothing THEN s.mode = "public" ELSE s.secure,
     defaultTTL |-> s.defaultTTL, maxTTL |-> s.maxTTL]

-------------------------------------------------------------------------------
Init ==
    /\ phase = "parse" /\ failure = FALSE /\ open = {} /\ cfg = Nothing
    /\ served = [v \in Servers |-> "new"] /\ down = {}
    /\ busy = [v \in Servers |-> 0] /\ late = [v \in Servers |-> 0]
    /\ pass = "none" /\ slack = PassTime
    /\ closer = [c \in Closers |-> [at |-> "waiting", left |-> Grace]]
    /\ signal = FALSE /\ since = Nothing

(***************************************************************************)
(* Starting up.  A step that fails leaves the deferred calls of those      *)
(* before it.                                                              *)
(***************************************************************************)
Startup(from, resources, to) ==
    /\ phase = from
    /\ open' = open \union resources
    /\ phase' = to
    /\ UNCHANGED <<failure, cfg, servers, pass, timers, signal>>

Abandon(from, to) ==
    /\ phase = from
    /\ phase' = to /\ failure' = TRUE
    /\ UNCHANGED <<open, cfg, servers, pass, timers, signal>>

ParseConfig ==
    /\ phase = "parse"
    /\ \E s \in Settings :
          IF Accepts(s) THEN phase' = "db" /\ cfg' = Parsed(s) /\ UNCHANGED failure
                        ELSE phase' = "exited" /\ failure' = TRUE /\ UNCHANGED cfg
    /\ UNCHANGED <<open, servers, pass, timers, signal>>

\* database.Open gives up when the context is cancelled.
OpenDatabase == (~signal /\ Startup("db", {"db"}, "store")) \/ Abandon("db", "exited")
OpenStore == Startup("store", {"store"}, "handlers") \/ Abandon("store", "closeDB")
\* The challenge verifier, the embedded frontend and the handlers.
BuildHandlers == Startup("handlers", {}, "fileListener") \/ Abandon("handlers", "closeStore")
ListenFile == Startup("fileListener", {"file"}, "appListener")
              \/ Abandon("fileListener", "closeStore")
\* A file listener forgotten when the other one fails.
MutListenApp == Startup("appListener", {"app"}, "start") \/ Abandon("appListener", "closeStore")
ListenApp == Startup("appListener", {"app"}, "start") \/ Abandon("appListener", "closeFile")

\* The goroutines of the servers, of the signal and of the maintenance.
StartGoroutines ==
    /\ phase = "start"
    /\ phase' = "serving"
    /\ served' = [v \in Servers |-> "spawned"]
    /\ pass' = "running"
    /\ UNCHANGED <<failure, open, cfg, down, busy, late, timers, signal>>

Started == served["app"] # "new"

(***************************************************************************)
(* Serving.                                                                *)
(***************************************************************************)
\* Serve takes its listener over, and closes it when the server is down already.
Serve(v) ==
    /\ served[v] = "spawned"
    /\ IF v \in down
       THEN served' = [served EXCEPT ![v] = "closed"] /\ open' = open \ {v}
       ELSE served' = [served EXCEPT ![v] = "serving"] /\ UNCHANGED open
    /\ UNCHANGED <<phase, failure, cfg, down, busy, late, pass, timers, signal>>

\* Serve returns ErrServerClosed.
EndServe(v) ==
    /\ served[v] = "serving" /\ v \in down
    /\ served' = [served EXCEPT ![v] = "closed"]
    /\ UNCHANGED <<lifecycle, cfg, down, busy, late, pass, timers, signal>>

\* Serve returns another error, and closes its listener.
FailServe(v) ==
    /\ served[v] = "serving" /\ v \notin down
    /\ served' = [served EXCEPT ![v] = "failed"]
    /\ open' = open \ {v}
    /\ UNCHANGED <<phase, failure, cfg, down, busy, late, pass, timers, signal>>

Accept(v) ==
    /\ served[v] = "serving" /\ v \in open /\ busy[v] < MaxBusy
    /\ busy' = [busy EXCEPT ![v] = @ + 1]
    /\ late' = [late EXCEPT ![v] = IF since = Nothing THEN 0 ELSE since]
    /\ UNCHANGED <<lifecycle, cfg, served, down, pass, timers, signal>>

\* A request is over and its connection idle.
FinishRequest(v) ==
    /\ busy[v] > 0
    /\ busy' = [busy EXCEPT ![v] = @ - 1]
    /\ UNCHANGED <<lifecycle, cfg, served, down, late, pass, timers, signal>>

Signal ==
    /\ phase # "parse" /\ ~signal
    /\ signal' = TRUE
    /\ UNCHANGED <<lifecycle, cfg, servers, pass, timers>>

(***************************************************************************)
(* maintenance.Start: a pass at once and one after each Interval, until    *)
(* the context is cancelled, by the signal or by run.                      *)
(***************************************************************************)
\* Without run's cancelMaintenance.
MutCancelled == signal

Cancelled == signal \/ phase = "stopMaintenance"

Maintain(from, to) ==
    /\ pass = from
    /\ pass' = to
    /\ UNCHANGED <<lifecycle, cfg, servers, timers, signal>>

RunPass == ~Cancelled /\ Maintain("waiting", "running")
EndPass == Maintain("running", "waiting")
StopMaintenance == Cancelled /\ Maintain("waiting", "stopped")

(***************************************************************************)
(* Shutting down: the application's server first, then the files'.         *)
(***************************************************************************)
\* Goroutine c calls Shutdown(v), which closes the listener.
Close(c, v, at) ==
    /\ down' = down \union {v}
    /\ open' = IF served[v] = "serving" THEN open \ {v} ELSE open
    /\ since' = IF since = Nothing THEN 0 ELSE since
    /\ closer' = [closer EXCEPT ![c].at = at]
    /\ UNCHANGED <<phase, failure, cfg, served, busy, late, pass, slack, signal>>

BeginShutdown(c) ==
    /\ closer[c].at = "waiting"
    /\ IF c = "signal" THEN signal /\ Started ELSE phase = "drain"
    /\ Close(c, "app", "app")

\* A Shutdown without deadline.
MutReturns(c, v) == closer[c].at = v /\ busy[v] = 0

\* Shutdown(v) returns: no connection is in use, or the time is up.
Returns(c, v) == closer[c].at = v /\ (busy[v] = 0 \/ closer[c].left = 0)

NextShutdown(c) == Returns(c, "app") /\ Close(c, "file", "file")

EndShutdown(c) ==
    /\ Returns(c, "file")
    /\ closer' = [closer EXCEPT ![c].at = "done"]
    /\ UNCHANGED <<lifecycle, cfg, servers, pass, slack, since, signal>>

(***************************************************************************)
(* run returns, through its deferred calls.                                *)
(***************************************************************************)
\* The first of the servers to end ends run; ErrServerClosed is no error.
ServingEnds ==
    /\ phase = "serving"
    /\ \E v \in Servers :
          /\ served[v] \in {"closed", "failed"}
          /\ failure' = (served[v] = "failed")
    /\ phase' = "stopMaintenance"
    /\ UNCHANGED <<open, cfg, servers, pass, timers, signal>>

\* One deferred call.
Deferred(from, closed, to) ==
    /\ phase = from
    /\ open' = open \ closed
    /\ phase' = to
    /\ UNCHANGED <<failure, cfg, servers, pass, timers, signal>>

MaintenanceStopped == pass = "stopped" /\ Deferred("stopMaintenance", {}, "drain")
\* Shutdown called in a goroutine that run does not wait for.
MutServersStopped == Deferred("drain", {}, "closeApp")
ServersStopped == closer["defer"].at = "done" /\ Deferred("drain", {}, "closeApp")
CloseApp == Deferred("closeApp", {"app"}, "closeFile")
CloseFile == Deferred("closeFile", {"file"}, "closeStore")
CloseStore == Deferred("closeStore", {"store"}, "closeDB")
CloseDatabase == Deferred("closeDB", {"db"}, "exited")

-------------------------------------------------------------------------------
Begin == ParseConfig \/ OpenDatabase \/ OpenStore \/ BuildHandlers \/ ListenFile \/ ListenApp
         \/ StartGoroutines
Return == ServingEnds \/ MaintenanceStopped \/ ServersStopped
          \/ CloseApp \/ CloseFile \/ CloseStore \/ CloseDatabase
Goroutines ==
    \/ \E v \in Servers : Serve(v) \/ EndServe(v)
    \/ \E c \in Closers : BeginShutdown(c) \/ NextShutdown(c) \/ EndShutdown(c)
    \/ StopMaintenance

\* What the process does without delay: where Return or Goroutines is enabled.
Due ==
    \/ phase = "serving" /\ \E v \in Servers : served[v] \in {"closed", "failed"}
    \/ phase = "stopMaintenance" /\ pass = "stopped"
    \/ phase = "drain" /\ closer["defer"].at \in {"waiting", "done"}
    \/ phase \in {"closeApp", "closeFile", "closeStore", "closeDB"}
    \/ \E v \in Servers : served[v] = "spawned" \/ (served[v] = "serving" /\ v \in down)
    \/ closer["signal"].at = "waiting" /\ signal /\ Started
    \/ \E c \in Closers, v \in Servers : Returns(c, v)
    \/ Cancelled /\ pass = "waiting"

\* Time passes when nothing is due.
Down(n) == IF n = 0 THEN 0 ELSE n - 1
Tick ==
    /\ ~Due
    /\ pass = "running" /\ Cancelled => slack > 0
    /\ closer' = [c \in Closers |-> IF closer[c].at \in Servers
                                    THEN [closer[c] EXCEPT !.left = Down(@)] ELSE closer[c]]
    /\ slack' = IF pass = "running" /\ Cancelled THEN slack - 1 ELSE slack
    /\ since' = IF since = Nothing \/ since > PassTime + Grace THEN since ELSE since + 1
    /\ UNCHANGED <<lifecycle, cfg, servers, pass, signal>>

Next ==
    /\ phase # "exited"
    /\ \/ Begin \/ Return \/ Goroutines \/ Tick
       \/ \E v \in Servers : FailServe(v) \/ Accept(v) \/ FinishRequest(v)
       \/ RunPass \/ EndPass \/ Signal

Spec == Init /\ [][Next]_vars

\* What the process can do it does, a pass ends, and time passes; a client may
\* never end its request.
Fairness ==
    /\ WF_vars(Begin) /\ WF_vars(phase # "exited" /\ Return)
    /\ WF_vars(phase # "exited" /\ StopMaintenance)
    /\ \A v \in Servers : WF_vars(phase # "exited" /\ (Serve(v) \/ EndServe(v)))
    /\ \A c \in Closers :
          WF_vars(phase # "exited" /\ (BeginShutdown(c) \/ NextShutdown(c) \/ EndShutdown(c)))
    /\ WF_vars(phase # "exited" /\ EndPass) /\ WF_vars(phase # "exited" /\ Tick)

FairSpec == Spec /\ Fairness

-------------------------------------------------------------------------------
Phases == {"parse", "db", "store", "handlers", "fileListener", "appListener", "start",
           "serving", "stopMaintenance", "drain",
           "closeApp", "closeFile", "closeStore", "closeDB", "exited"}
Resources == {"db", "store"} \union Servers
Configurations == [mode : {"private", "public"}, challenge : BOOLEAN, admin : BOOLEAN,
                   secure : BOOLEAN, defaultTTL : Nat, maxTTL : Nat]

TypeOK ==
    /\ phase \in Phases /\ failure \in BOOLEAN /\ open \subseteq Resources
    /\ cfg \in Configurations \union {Nothing}
    /\ served \in [Servers -> {"new", "spawned", "serving", "closed", "failed"}]
    /\ down \subseteq Servers /\ busy \in [Servers -> Nat]
    /\ pass \in {"none", "running", "waiting", "stopped"} /\ slack \in Nat
    /\ closer \in [Closers -> [at : {"waiting", "done"} \union Servers, left : Nat]]
    /\ signal \in BOOLEAN
    /\ since \in Nat \union {Nothing} /\ late \in [Servers -> Nat]

\* In public mode the process serves only with a challenge, an administrator, a
\* secure session cookie and a finite retention; in private mode with no challenge
\* (README.md:127).
ServesProtected ==
    Started =>
       /\ 0 < cfg.defaultTTL /\ cfg.defaultTTL <= cfg.maxTTL
       /\ IF cfg.mode = "public" THEN cfg.challenge /\ cfg.admin /\ cfg.secure
                                 ELSE ~cfg.challenge

\* The store and the database are there for whoever uses them: they close after the
\* maintenance pass has ended, and after every request, or ten seconds after the
\* servers stopped.
StorageOutlives ==
    Started /\ ~({"db", "store"} \subseteq open) =>
       /\ pass = "stopped"
       /\ \A v \in Servers : busy[v] = 0 \/ (since # Nothing /\ since >= Grace)

\* The process leaves nothing open, wherever its start failed, and closes the
\* database last.
AllClosed ==
    /\ phase = "exited" => open = {}
    /\ open # {} => "db" \in open

\* The process exits no later than a pass and ten seconds after it begins to shut
\* down, well within systemd's TimeoutStopSec.
TimelyExit == since # Nothing /\ phase # "exited" => since <= PassTime + Grace

\* The application's listener accepts nothing once the shutdown has begun, the
\* files' listener nothing after the ten seconds.
StopsAccepting == late["app"] = 0 /\ late["file"] <= Grace

\* docs/DEPLOYMENT.md:250: on SIGTERM "uPaste stops accepting new connections and
\* allows the HTTP servers up to 10 seconds for active handlers to finish".
StopsAcceptingAtOnce == \A v \in Servers : late[v] = 0

\* The process ends when it is told to, and when a server fails, whatever its
\* clients do.
Ends == signal \/ (\E v \in Servers : served[v] = "failed") ~> phase = "exited"
=================================================================================
