------------------------------- MODULE Server -------------------------------
(***************************************************************************)
(* The process: Server (server.cpp) starts its modules, waits for a signal *)
(* and shuts them down, around the ServableManager.  Four threads matter:  *)
(* the main thread, the watcher and the cleaner that the servable manager  *)
(* starts, and a worker of the HTTP server that serves config reloads.     *)
(***************************************************************************)
EXTENDS ServableManager

CONSTANTS CommandLines,  \* settings the process may be started with
          MaxReloads,    \* bound on REST config reloads
          Cores          \* number of CPU cores

ASSUME CommandLinesAssumption ==
  \A c \in CommandLines : c.model \in Names /\ c.stateful \in BOOLEAN

VARIABLES
  settings,     \* the command line
  modules,      \* the state of each module
  accepting,    \* the HTTP server takes new requests
  signal,       \* shutdown_request
  exit,         \* exitTrigger and cleanerExitTrigger are set
  cleaner,      \* the cleaner thread: none, waiting, exited
  reloads

serverVars == <<settings, modules, accepting, signal, exit, cleaner, reloads>>
vars == <<managerVars, environmentVars, serverVars>>

Modules == {"python", "metrics", "servables", "grpc", "http"}

\* Config::validate.
ValidSettings(c) ==
  /\ c.configPath # c.modelPath
  /\ c.configPath => ~c.modelParameters
  /\ c.grpcWorkers \in 1..Cores
  /\ c.restWorkers \in 2..10000
  /\ c.restWorkersSet => c.restPort # 0
  /\ c.port <= 65535 /\ c.restPort <= 65535
  /\ c.metricsEnabled => c.restPort # 0
  /\ c.metricsList => c.metricsEnabled
  /\ c.port # c.restPort
  /\ c.addresses /\ c.cpuExtension
  /\ c.logLevel \in {"TRACE", "DEBUG", "INFO", "WARNING", "ERROR"}
  /\ c.sequenceOptions => c.stateful

Init ==
  /\ InitManager
  /\ settings \in CommandLines
  /\ at = [main |-> "off", watcher |-> "none", rest |-> "idle"]
  /\ modules = [m \in Modules |-> "none"]
  /\ accepting = FALSE /\ signal = FALSE /\ exit = FALSE
  /\ cleaner = "none"
  /\ reloads = 0

Go(step) == at' = [at EXCEPT !["main"] = step]

-----------------------------------------------------------------------------
(* Starting. *)

\* start: the settings are checked before any module is created.
Start ==
  /\ at["main"] = "off"
  /\ Go(IF ValidSettings(settings) THEN "python" ELSE "failed")
  /\ UNCHANGED <<configVars, servableVars, lock, job, environmentVars, serverVars>>

\* startModules, INSERT_MODULE and START_MODULE: a module that fails to start
\* ends it.  The servable manager is created before the servers and started
\* after them.
StartModule(step, m, next, fails) ==
  /\ at["main"] = step
  /\ modules' = [modules EXCEPT ![m] = IF fails THEN "created" ELSE "initialized"]
  /\ Go(IF fails THEN "failed" ELSE next)
  /\ UNCHANGED <<configVars, servableVars, lock, job, environmentVars, settings, signal,
                 exit, cleaner, reloads>>

StartPython == StartModule("python", "python", "metrics", FALSE) /\ UNCHANGED accepting
StartMetrics == StartModule("metrics", "metrics", "create", FALSE) /\ UNCHANGED accepting

CreateServableManager ==
  /\ at["main"] = "create"
  /\ modules' = [modules EXCEPT !["servables"] = "created"]
  /\ Go("grpc")
  /\ UNCHANGED <<configVars, servableVars, lock, job, environmentVars, settings, accepting,
                 signal, exit, cleaner, reloads>>

\* The port of a server may be in use.
StartGrpc ==
  \E fails \in BOOLEAN :
     /\ StartModule("grpc", "grpc", IF settings.restPort = 0 THEN "servables" ELSE "http", fails)
     /\ UNCHANGED accepting

StartHttp ==
  \E fails \in BOOLEAN :
     /\ StartModule("http", "http", "servables", fails)
     /\ accepting' = ~fails

\* startFromFile takes configMtx in loadConfig ...
StartFromFile ==
  /\ at["main"] = "servables" /\ settings.configPath
  /\ lock = "free"
  /\ StartLoad("main")
  /\ UNCHANGED <<configVars, servableVars, environmentVars, serverVars>>

\* ... startFromConfig does not take it at all.  The configuration goes into
\* servedModelConfigs first and is parsed there, then the model is loaded.
CommandLineModel ==
  [name |-> settings.model, version |-> 1, parsed |-> TRUE, plugin |-> TRUE,
   dynamic |-> FALSE, stateful |-> settings.stateful, loader |-> {}]

StartFromConfig ==
  /\ at["main"] = "servables" /\ ~settings.configPath
  /\ served' = [served EXCEPT ![settings.model] = [CommandLineModel EXCEPT !.version = 0]]
  /\ metrics' = TRUE
  /\ Go("parseConfig")
  /\ UNCHANGED <<md5, lastStatus, loaders, libraries, servableVars, lock, job,
                 environmentVars, serverVars>>

StartFromConfigParsed ==
  /\ at["main"] = "parseConfig"
  /\ IF settings.validModel
     THEN /\ served' = [served EXCEPT ![settings.model] = CommandLineModel]
          /\ Go("loadModel")
     ELSE Go("failed") /\ UNCHANGED served
  /\ UNCHANGED <<md5, metrics, lastStatus, loaders, libraries, servableVars, lock, job,
                 environmentVars, serverVars>>

StartFromConfigLoads ==
  /\ at["main"] = "loadModel"
  /\ ReloadModel(settings.model, CommandLineModel)
  /\ Go(IF Ok(ReloadStatus(settings.model, CommandLineModel)) THEN "started" ELSE "failed")
  /\ UNCHANGED <<configVars, graphs, lock, job, environmentVars, serverVars>>

\* startWatcher and startCleaner.
StartThreads ==
  /\ at["main"] = "started"
  /\ modules' = [modules EXCEPT !["servables"] = "initialized"]
  /\ at' = [at EXCEPT !["main"] = "running",
                      !["watcher"] = IF settings.pollWait = 0 THEN "none" ELSE "idle"]
  /\ cleaner' = "waiting"
  /\ UNCHANGED <<configVars, servableVars, lock, job, environmentVars, settings, accepting,
                 signal, exit, reloads>>

-----------------------------------------------------------------------------
(* Running. *)

\* onInterrupt and onTerminate, at any time.
Signal ==
  /\ ~signal
  /\ signal' = TRUE
  /\ UNCHANGED <<managerVars, environmentVars, settings, modules, accepting, exit, cleaner, reloads>>

WatcherRound ==
  /\ ~exit
  /\ Watcher(settings.configPath)
  /\ UNCHANGED serverVars

RestReload ==
  /\ accepting /\ reloads < MaxReloads
  /\ ConfigReloadRequest
  /\ reloads' = reloads + 1
  /\ UNCHANGED <<settings, modules, accepting, signal, exit, cleaner>>

RestProceeds == ConfigReloadProceeds /\ UNCHANGED serverVars

ManagerStep(t) == (Load(t) \/ Update(t)) /\ UNCHANGED serverVars

-----------------------------------------------------------------------------
(* Shutting down: shutdownModules, in this order. *)

\* A failed start and a signal lead here (ModulesShutdownGuard); so does a
\* signal that came during the start, once that is over.
BeginShutdown ==
  /\ at["main"] = "failed" \/ (at["main"] = "running" /\ signal)
  /\ Go("stopGrpc")
  /\ UNCHANGED <<configVars, servableVars, lock, job, environmentVars, serverVars>>

Stopped(m) == IF modules[m] = "none" THEN modules ELSE [modules EXCEPT ![m] = "shutdown"]

StopGrpc ==
  /\ at["main"] = "stopGrpc"
  /\ modules' = Stopped("grpc")
  /\ Go("stopHttp")
  /\ UNCHANGED <<configVars, servableVars, lock, job, environmentVars, settings, accepting,
                 signal, exit, cleaner, reloads>>

\* Mutant: the requests that are being served are not waited for.
StopHttpAtOnce ==
  /\ at["main"] = "stopHttp"
  /\ accepting' = FALSE
  /\ modules' = Stopped("http")
  /\ Go("stopServables")
  /\ UNCHANGED <<configVars, servableVars, lock, job, environmentVars, settings, signal, exit,
                 cleaner, reloads>>

\* Terminate stops the listening, WaitForTermination waits for the requests.
StopHttp ==
  /\ at["main"] = "stopHttp"
  /\ accepting' = FALSE
  /\ IF at["rest"] = "idle"
     THEN modules' = Stopped("http") /\ Go("stopServables")
     ELSE UNCHANGED <<modules, at>>
  /\ UNCHANGED <<configVars, servableVars, lock, job, environmentVars, settings, signal, exit,
                 cleaner, reloads>>

\* join: both threads are told to exit, then waited for; the manager is
\* destroyed after that.
StopServables ==
  /\ at["main"] = "stopServables"
  /\ exit' = TRUE
  /\ IF at["watcher"] \in {"none", "exited"} /\ cleaner \in {"none", "exited"}
     THEN modules' = Stopped("servables") /\ Go("exited")
     ELSE UNCHANGED <<modules, at>>
  /\ UNCHANGED <<configVars, servableVars, lock, job, environmentVars, settings, accepting,
                 signal, cleaner, reloads>>

\* Mutant: the watcher is not told to exit.
WatcherExitsNot == FALSE /\ UNCHANGED vars

\* The watcher sees the signal where it waits, between two rounds.
WatcherExits ==
  /\ exit /\ at["watcher"] = "idle"
  /\ at' = [at EXCEPT !["watcher"] = "exited"]
  /\ UNCHANGED <<configVars, servableVars, lock, job, environmentVars, serverVars>>

CleanerExits ==
  /\ exit /\ cleaner = "waiting"
  /\ cleaner' = "exited"
  /\ UNCHANGED <<managerVars, environmentVars, settings, modules, accepting, signal, exit,
                 reloads>>

\* Without --config_path there is no configuration file to change.
Change == Environment /\ (settings.configPath \/ UNCHANGED file) /\ UNCHANGED serverVars

Main ==
  \/ Start \/ StartPython \/ StartMetrics \/ CreateServableManager \/ StartGrpc \/ StartHttp
  \/ StartFromFile \/ StartFromConfig \/ StartFromConfigParsed \/ StartFromConfigLoads
  \/ StartThreads \/ BeginShutdown \/ StopGrpc \/ StopHttp \/ StopServables

Next ==
  \/ Main \/ Signal
  \/ Change
  \/ WatcherRound \/ WatcherExits \/ CleanerExits
  \/ RestReload \/ RestProceeds
  \/ \E t \in Threads : ManagerStep(t)

(* Every thread makes progress when it can: the main thread, the watcher   *)
(* (its waits have timeouts), the cleaner and the thread that holds        *)
(* configMtx.  A request that waits for configMtx gets it in the end: the  *)
(* watcher frees it and sleeps for at least a second after every round.    *)
(* REST requests, signals and edits may or may not come.                   *)
Spec ==
  /\ Init /\ [][Next]_vars
  /\ WF_vars(Main) /\ WF_vars(WatcherRound \/ WatcherExits) /\ WF_vars(CleanerExits)
  /\ SF_vars(RestProceeds)
  /\ \A t \in Threads : WF_vars(ManagerStep(t))

-----------------------------------------------------------------------------
(* Properties. *)

Available(n) == models[n].state = "available"

\* No pipeline that takes requests uses a model with an automatic shape or
\* batch size: such a model could change under it.  The subscriptions made in
\* an earlier load refuse the model's new configuration in a later one
\* (isAnyVersionSubscribed), and the validation refuses the pipeline.
NoAutoModelInPipeline ==
  \A p \in Names : \A m \in Names :
     pipelines[p].state = "available" /\ m \in pipelines[p].def.models /\ Available(m)
        => ~models[m].config.dynamic

\* The entries loadModels gets to: up to the first wrong plugin configuration.
Reached(list) ==
  {list[i] : i \in {i \in DOMAIN list : \A j \in 1..i : list[j].parsed => list[j].plugin}}

Listed(c) ==
  UNION ({Reached(c.models)} \cup
         {Reached(g.models) : g \in Range(ParseMediapipeConfig(c))})

\* A load takes a model out of service only if the file that is being loaded
\* does not list it any more, lists it in a form that does not parse or after
\* a wrong plugin configuration, or lists it with a custom loader that is not
\* there; an update does it only if the custom loader of the model is gone.
\* One failing model, pipeline, graph or subconfig does not take others with
\* it.
OthersKept ==
  [][\A n \in Names :
       Available(n) /\ models'[n].state = "unloaded"
       => LET entries == {e \in Listed(Content(job.content)) : e.name = n /\ e.parsed}
          IN \/ job.step = "update" /\ ~(served[n].loader \subseteq loaders)
             \/ job.step = "models" /\ entries = {}
             \/ /\ job.step \in {"models", "gated"}
                /\ \E e \in entries : ~(e.loader \subseteq loaders)]_vars

\* The servable manager is destroyed when neither the watcher nor the cleaner
\* nor a REST request can still use it, also when a start fails half way or a
\* reload is being served while the process shuts down.
ManagerOutlivesUsers ==
  modules["servables"] = "shutdown" =>
     at["rest"] = "idle" /\ at["watcher"] \in {"none", "exited"} /\ cleaner \in {"none", "exited"}

\* A signal ends the process: main waits for the watcher, which may be in a
\* load, and for the REST request, which may be waiting for configMtx.
ShutdownCompletes == signal ~> at["main"] = "exited"

\* An entry of the file that has to be served: reached, correct, the first of
\* its name, not automatic (a refused one may be lost) and of the same type.
ToServe(c) ==
  {e \in Listed(c) :
     /\ e.parsed /\ e.plugin /\ ~e.dynamic /\ ~e.stateful
     /\ \A d \in Listed(c) : d.name = e.name => d = e
     /\ ~Occupied(e.name) /\ e.name \notin broken /\ e.loader \subseteq loaders
     /\ ~TypeChanges(e.name, e)}

Applied ==
  LET c == Content(file) IN
  /\ \A e \in ToServe(c) : Available(e.name) /\ models[e.name].config = e
  /\ \A n \in Names : Available(n) => \E e \in Listed(c) : e.name = n
  /\ \A p \in Range(c.pipelines) :
       /\ \A q \in Range(c.pipelines) : q.name = p.name => q = p
       /\ ValidatePipeline(p.name, p, p.library \subseteq libraries) = "OK"
       => pipelines[p.name].state = "available" /\ pipelines[p.name].def = p
  /\ \A n \in Names : pipelines[n].state = "available" =>
                        \E p \in Range(c.pipelines) : p.name = n

Running == at["main"] = "running" /\ at["watcher"] \notin {"none", "exited"} /\ ~signal

\* While the server runs and the configuration file keeps a content that can
\* be read, the file is applied in the end: what it lists is served with its
\* settings, what it does not list is not, whatever files, unreadable ones
\* too, were there before and whenever the change came.
FileApplied ==
  [](<>[](Running /\ settings.configPath /\ Content(file).kind = "ok"
          /\ \A g \in Range(Content(file).graphs) : g.subconfig # "invalid")
     => <>[]Applied)

=============================================================================
