---------------------------- MODULE Server_proofs ----------------------------
(***************************************************************************)
(* Proofs about the process and its servables: loads and updates of the    *)
(* configuration by three threads, and the shutdown, for any configuration *)
(* files, names, settings and numbers of edits and reloads.                *)
(***************************************************************************)
EXTENDS Server, NaturalsInduction, WellFoundedInduction, TLAPS

MainSteps ==
  {"off", "python", "metrics", "create", "grpc", "http", "servables", "parseConfig", "loadModel",
   "load", "started", "running", "failed", "stopGrpc", "stopHttp", "stopServables", "exited"}
WatcherSteps == {"none", "idle", "load", "update", "exited"}
RestSteps == {"idle", "loadWait", "updateWait", "load", "update"}
Steps == MainSteps \cup WatcherSteps \cup RestSteps

LoadSteps == {"parse", "models", "pipelines", "graphs", "gated"}

ModelType == [state : {"none", "unloaded", "available"}, config : Entries \cup {NoModel},
              stateful : BOOLEAN]
PipelineType == [state : {"none", "available", "failed", "retired"}, dirty : BOOLEAN,
                 def : Definitions \cup {NoModel}, bound : BOOLEAN, subs : SUBSET Names]
GraphType == [state : {"none", "available", "failed", "retired"},
              def : GraphEntries \cup {NoModel}]

Statuses ==
  {"OK", "OK_RELOADED", "REQUESTED_DYNAMIC_PARAMETERS_ON_STATEFUL_MODEL",
   "REQUESTED_MODEL_TYPE_CHANGE", "PATH_INVALID", "LOADER_INVALID", "MODEL_CONFIG_INVALID",
   "PLUGIN_CONFIG_INVALID", "MODEL_NAME_OCCUPIED", "JSON_INVALID", "PIPELINE_NAME_OCCUPIED",
   "PIPELINE_INVALID", "GRAPH_NAME_OCCUPIED", "GRAPH_INVALID"} \cup Gated

JobType ==
  [step : {"none", "update"} \cup LoadSteps, tries : Nat, content : Files \cup {Unread},
   todo : Seq(Entries) \cup Seq(Definitions) \cup Seq(GraphEntries), subs : Seq(GraphEntries),
   gated : Seq(Entries), new : [Names -> Entries \cup {NoModel}], names : SUBSET Names,
   invalid : SUBSET Names, status : Statuses]

ThreadTypes ==
  /\ at \in [Threads -> Steps]
  /\ at["main"] \in MainSteps /\ at["watcher"] \in WatcherSteps /\ at["rest"] \in RestSteps
  /\ modules \in [Modules -> {"none", "created", "initialized", "shutdown"}]
  /\ settings \in CommandLines
  /\ file \in Files
  /\ lock \in Threads \cup {"free"}

ServableTypes ==
  /\ models \in [Names -> ModelType]
  /\ pipelines \in [Names -> PipelineType]
  /\ graphs \in [Names -> GraphType]
  /\ served \in [Names -> Entries \cup {NoModel}]
  /\ job \in JobType

\* The thread that holds configMtx is the one that loads or updates.
Locking ==
  /\ \A t \in Threads : at[t] \in {"load", "update"} <=> lock = t
  /\ lock = "free" => job = NoJob
  /\ \A t \in Threads : lock = t =>
       /\ at[t] = "load" => job.step \in LoadSteps
       /\ at[t] = "update" => job.step = "update"

\* What is left of a load belongs to its step.
Todo ==
  /\ job.step \in {"models", "gated"} => job.todo \in Seq(Entries)
  /\ job.step = "pipelines" => job.todo \in Seq(Definitions)
  /\ job.step = "graphs" => job.todo \in Seq(GraphEntries)
  /\ job.step \in LoadSteps \ {"parse"} => job.content \in Files
  /\ job.step = "update" => \A n \in job.names : served[n] \in Entries

\* Without a configuration file nothing is read from one.
OnlyWithFile ==
  /\ at["main"] \in {"parseConfig", "loadModel"} => ~settings.configPath
  /\ ~settings.configPath =>
       /\ md5 = Unread
       /\ \A t \in Threads : at[t] \notin {"load", "loadWait"}
       /\ \A n \in Names : ~Occupied(n)

\* A name belongs to one servable, also to a retired one.
OneServablePerName ==
  \A n \in Names : /\ Exists(n) => ~Occupied(n)
                   /\ pipelines[n].state # "none" => graphs[n].state = "none"

\* A configuration that is kept belongs to a model that exists, or will be
\* refused again.
Kept(c, n) == c # NoModel => Exists(n) \/ (c.stateful /\ c.dynamic)

KeptConfigs ==
  settings.configPath =>
    /\ \A n \in Names : Kept(served[n], n)
    /\ job.step = "models" => \A n \in Names : Kept(job.new[n], n)
    /\ \A i \in DOMAIN job.gated : Exists(job.gated[i].name)
    /\ job.step = "gated" => \A i \in DOMAIN job.todo : Exists(job.todo[i].name)

\* A pipeline is subscribed to the models it uses that exist, but for the time
\* in which a load creates models and has not come to the pipeline.
UpToDate(p) ==
  pipelines[p].state \in {"available", "failed"} =>
    \A m \in Names : m \in pipelines[p].def.models /\ Exists(m) => m \in pipelines[p].subs

Subscriptions ==
  \A p \in Names : /\ \/ job.step = "models"
                      \/ job.step = "pipelines" /\ p \notin job.names
                      \/ UpToDate(p)
                   /\ pipelines[p].dirty => pipelines[p].state \in {"available", "failed"}
                   /\ \A m \in pipelines[p].subs : Exists(m)

\* A pipeline that takes requests is subscribed to all its models, and none
\* of them is automatic.
ServesFixedModels ==
  \A p \in Names : pipelines[p].state = "available" =>
    \A m \in Names : m \in pipelines[p].def.models =>
      /\ Exists(m) /\ m \in pipelines[p].subs
      /\ Available(m) => ~models[m].config.dynamic

\* A load comes to every model of the file: it has, or it will.
ComesTo(e) ==
  \/ e.name \in job.names
  \/ e \in Reached(job.todo)
  \/ \E i \in DOMAIN job.subs : e \in Reached(job.subs[i].models)

Progress ==
  /\ job.step = "models" =>
       /\ \A e \in Listed(Content(job.content)) : e.parsed /\ Exists(e.name) => ComesTo(e)
       /\ Reached(job.todo) \subseteq Listed(Content(job.content))
       /\ \A i \in DOMAIN job.subs :
            Reached(job.subs[i].models) \subseteq Listed(Content(job.content))
  /\ job.step \in LoadSteps \ {"parse"} => \A i \in DOMAIN job.gated :
       job.gated[i].parsed /\ job.gated[i] \in Listed(Content(job.content))
  /\ job.step = "gated" => \A i \in DOMAIN job.todo :
       job.todo[i].parsed /\ job.todo[i] \in Listed(Content(job.content))

ServableInv ==
  /\ ServableTypes /\ Todo /\ OneServablePerName /\ KeptConfigs /\ Subscriptions
  /\ ServesFixedModels /\ Progress

\* The watcher is started last, and the HTTP server is stopped before the
\* servable manager.
Started == {"running", "stopGrpc", "stopHttp", "stopServables", "exited"}

Stops ==
  /\ at["main"] \notin Started => at["watcher"] = "none"
  /\ at["main"] \in {"stopServables", "exited"} => ~accepting /\ at["rest"] = "idle"
  /\ modules["servables"] = "shutdown" => at["main"] = "exited"
  /\ at["main"] = "exited" =>
       at["watcher"] \in {"none", "exited"} /\ cleaner \in {"none", "exited"}

ThreadInv == ThreadTypes /\ Locking /\ OnlyWithFile /\ Stops
Inv == ThreadInv /\ ServableInv

-----------------------------------------------------------------------------
\* the threads

\* Steps that leave the servables, the lock and the load in progress alone.
Quiet ==
  \/ Start \/ StartPython \/ StartMetrics \/ CreateServableManager \/ StartGrpc \/ StartHttp
  \/ StartThreads \/ BeginShutdown \/ StopGrpc \/ StopHttp \/ StopServables
  \/ Signal \/ Change \/ WatcherExits \/ CleanerExits \/ RestReload

\* Steps outside loads and updates leave the servables, configMtx and the job.
LEMMA QuietFrame ==
  ASSUME Quiet PROVE UNCHANGED <<configVars, servableVars, lock, job, settings>>
BY DEF Quiet, Start, StartPython, StartMetrics, StartModule, CreateServableManager, StartGrpc,
       StartHttp, StartThreads, BeginShutdown, StopGrpc, StopHttp, StopServables, Signal, Change,
       WatcherExits, CleanerExits, RestReload, ConfigReloadRequest, Environment, managerVars,
       serverVars

\* A step that changes none of its variables keeps the invariant of the servables.
LEMMA QuietServables ==
  ASSUME ServableInv, UNCHANGED <<configVars, servableVars, job, settings>> PROVE ServableInv'
BY DEF configVars, servableVars, ServableInv, ServableTypes, Todo, OneServablePerName, KeptConfigs,
       Kept, Subscriptions, UpToDate, ServesFixedModels, Progress, ComesTo, Exists, Occupied, Available

\* Starting and stopping the modules, signals, edits and reload requests keep the
\* invariant of the threads.
LEMMA QuietThreads ==
  ASSUME ThreadInv, Quiet PROVE ThreadInv'
<1>1. /\ lock' = lock /\ job' = job /\ settings' = settings /\ md5' = md5 /\ pipelines' = pipelines
      /\ graphs' = graphs
  BY QuietFrame DEF configVars, servableVars
<1>2. ThreadTypes /\ Locking /\ OnlyWithFile /\ Stops
  BY DEF ThreadInv
<1> USE DEF Threads, Modules, Go
<1>3. CASE Start
  BY <1>1, <1>2, <1>3
  DEF ThreadInv, ThreadTypes, Locking, OnlyWithFile, Stops, Started, Occupied, Steps, MainSteps,
      WatcherSteps, RestSteps, environmentVars, serverVars, Start
<1>4. CASE StartPython \/ StartMetrics \/ CreateServableManager
  BY <1>1, <1>2, <1>4
  DEF ThreadInv, ThreadTypes, Locking, OnlyWithFile, Stops, Started, Occupied, Steps, MainSteps,
      WatcherSteps, RestSteps, environmentVars, serverVars, StartPython, StartMetrics, StartModule, CreateServableManager
<1>5. CASE StartGrpc
  BY <1>1, <1>2, <1>5
  DEF ThreadInv, ThreadTypes, Locking, OnlyWithFile, Stops, Started, Occupied, Steps, MainSteps,
      WatcherSteps, RestSteps, environmentVars, serverVars, StartGrpc, StartModule
<1>6. CASE StartHttp
  BY <1>1, <1>2, <1>6
  DEF ThreadInv, ThreadTypes, Locking, OnlyWithFile, Stops, Started, Occupied, Steps, MainSteps,
      WatcherSteps, RestSteps, environmentVars, serverVars, StartHttp, StartModule
<1>7. CASE StartThreads
  BY <1>1, <1>2, <1>7
  DEF ThreadInv, ThreadTypes, Locking, OnlyWithFile, Stops, Started, Occupied, Steps, MainSteps,
      WatcherSteps, RestSteps, environmentVars, serverVars, StartThreads
<1>8. CASE BeginShutdown
  BY <1>1, <1>2, <1>8
  DEF ThreadInv, ThreadTypes, Locking, OnlyWithFile, Stops, Started, Occupied, Steps, MainSteps,
      WatcherSteps, RestSteps, environmentVars, serverVars, BeginShutdown
<1>9. CASE StopGrpc
  BY <1>1, <1>2, <1>9
  DEF ThreadInv, ThreadTypes, Locking, OnlyWithFile, Stops, Started, Occupied, Steps, MainSteps,
      WatcherSteps, RestSteps, environmentVars, serverVars, StopGrpc, Stopped
<1>10. CASE StopHttp
  BY <1>1, <1>2, <1>10
  DEF ThreadInv, ThreadTypes, Locking, OnlyWithFile, Stops, Started, Occupied, Steps, MainSteps,
      WatcherSteps, RestSteps, environmentVars, serverVars, StopHttp, Stopped
<1>11. CASE StopServables
  BY <1>1, <1>2, <1>11
  DEF ThreadInv, ThreadTypes, Locking, OnlyWithFile, Stops, Started, Occupied, Steps, MainSteps,
      WatcherSteps, RestSteps, environmentVars, serverVars, StopServables, Stopped
<1>12. CASE Signal \/ Change \/ CleanerExits
  BY <1>1, <1>2, <1>12
  DEF ThreadInv, ThreadTypes, Locking, OnlyWithFile, Stops, Started, Occupied, Steps, MainSteps,
      WatcherSteps, RestSteps, environmentVars, serverVars, Signal, Change, CleanerExits, Environment, managerVars
<1>13. CASE WatcherExits
  BY <1>1, <1>2, <1>13
  DEF ThreadInv, ThreadTypes, Locking, OnlyWithFile, Stops, Started, Occupied, Steps, MainSteps,
      WatcherSteps, RestSteps, environmentVars, serverVars, WatcherExits
<1>14. CASE RestReload
  BY <1>1, <1>2, <1>14
  DEF ThreadInv, ThreadTypes, Locking, OnlyWithFile, Stops, Started, Occupied, Steps, MainSteps,
      WatcherSteps, RestSteps, environmentVars, serverVars, RestReload, ConfigReloadRequest
<1> QED BY <1>3, <1>4, <1>5, <1>6, <1>7, <1>8, <1>9, <1>10, <1>11, <1>12, <1>13, <1>14 DEF Quiet

\* A step of the thread that loads or updates, after which it still does or
\* not.
LEMMA HolderMoves ==
  ASSUME ThreadInv, NEW t \in Threads, lock = t, NEW step \in Steps, at' = [at EXCEPT ![t] = step],
         \/ step = at[t] /\ lock' = lock
         \/ t = "watcher" /\ step = "update" /\ lock' = lock
         \/ t = "watcher" /\ step = "idle" /\ lock' = "free" /\ job' = NoJob
         \/ t = "rest" /\ step \in {"updateWait", "idle"} /\ lock' = "free" /\ job' = NoJob
         \/ t = "main" /\ step \in {"started", "failed"} /\ lock' = "free" /\ job' = NoJob,
         step = "load" => job'.step \in LoadSteps,
         step = "update" => job'.step = "update",
         UNCHANGED <<settings, modules, accepting, cleaner, file>>,
         ~settings.configPath => md5' = md5 /\ \A n \in Names : ~Occupied(n)'
  PROVE  ThreadInv'
BY DEF ThreadInv, ThreadTypes, Locking, OnlyWithFile, Stops, Started, Steps, MainSteps,
       WatcherSteps, RestSteps, Threads

\* A thread gets configMtx.
LEMMA HolderStarts ==
  ASSUME ThreadInv, NEW t \in Threads, lock = "free", StartLoad(t) \/ StartUpdate(t),
         \/ t = "main" /\ at[t] = "servables" /\ settings.configPath /\ StartLoad(t)
         \/ t = "watcher" /\ at[t] = "idle" /\ (StartLoad(t) => settings.configPath)
         \/ t = "rest" /\ at[t] = "loadWait" /\ StartLoad(t)
         \/ t = "rest" /\ at[t] = "updateWait" /\ StartUpdate(t),
         job'.step = IF StartLoad(t) THEN "parse" ELSE "update",
         UNCHANGED <<settings, modules, accepting, cleaner, file, md5, pipelines, graphs>>
  PROVE  ThreadInv'
BY DEF ThreadInv, ThreadTypes, Locking, OnlyWithFile, Stops, Started, Steps, MainSteps,
       WatcherSteps, RestSteps, Threads, StartLoad, StartUpdate, LoadSteps, Occupied

-----------------------------------------------------------------------------
\* between two loads

NewLoad == [NoJob EXCEPT !.step = "parse"]
NewUpdate == [NoJob EXCEPT !.step = "update", !.names = {n \in Names : served'[n] # NoModel}]

\* The fields of the job when no load or update is in progress ...
LEMMA NoJobType ==
  /\ NoJob \in JobType /\ NoJob.step = "none" /\ NoJob.gated = <<>> /\ NoJob.names = {}
  /\ NoJob.todo = <<>> /\ NoJob.subs = <<>> /\ NoJob.new = [n \in Names |-> NoModel]
BY DEF NoJob, JobType, Statuses, Unread

\* ... and of one that has just begun.
LEMMA NewJobs ==
  /\ NewLoad \in JobType /\ NewLoad.step = "parse" /\ NewLoad.gated = <<>>
  /\ NewUpdate \in JobType /\ NewUpdate.step = "update" /\ NewUpdate.gated = <<>>
  /\ NewUpdate.names = {n \in Names : served'[n] # NoModel}
BY NoJobType DEF NewLoad, NewUpdate, JobType, LoadSteps

\* A load or an update starts or ends.
LEMMA JobBetween ==
  ASSUME ServableInv, job.step \notin {"models", "pipelines"}, UNCHANGED <<served, servableVars, settings>>,
         job' \in {NoJob, NewLoad, NewUpdate}
  PROVE  ServableInv'
<1>1. /\ job' \in JobType /\ job'.step \in {"none", "parse", "update"} /\ job'.gated = <<>>
      /\ job'.step = "update" => job'.names = {n \in Names : served'[n] # NoModel}
  BY NoJobType, NewJobs
<1>2. DOMAIN job'.gated = {}
  BY <1>1
<1>3. ServableTypes' /\ Todo'
  BY <1>1 DEF ServableInv, ServableTypes, Todo, servableVars, LoadSteps
<1> QED
  BY <1>1, <1>2, <1>3
  DEF servableVars, ServableInv, OneServablePerName, KeptConfigs,
      Kept, Subscriptions, UpToDate, ServesFixedModels, Progress, Exists, Occupied, Available, LoadSteps

-----------------------------------------------------------------------------
\* what the reload of a model does

Accepted == {"OK", "OK_RELOADED", "PATH_INVALID"}

\* An automatic model is not accepted while a pipeline is subscribed to it.
LEMMA ReloadStatuses ==
  ASSUME NEW n, NEW c
  PROVE  /\ ReloadStatus(n, c) \in Statuses
         /\ ReloadStatus(n, c) \in Accepted =>
              /\ ~(c.stateful /\ c.dynamic)
              /\ c.dynamic => ~Subscribed(n)
         /\ ReloadStatus(n, c) \in Gated => Subscribed(n)
         /\ ReloadStatus(n, c) \notin Accepted => (c.stateful /\ c.dynamic) \/ Exists(n) \/ Subscribed(n)
BY DEF ReloadStatus, Statuses, Accepted, Gated, TypeChanges

\* A model once created stays, and the others are left alone.
LEMMA Reloads ==
  ASSUME ServableTypes, NEW n \in Names, NEW c \in Entries
  PROVE  /\ Reloaded(n, c) \in ModelType
         /\ Exists(n) => Reloaded(n, c).state # "none"
         /\ Reloaded(n, c).state # "none" => Exists(n) \/ ~(c.stateful /\ c.dynamic)
         /\ ReloadStatus(n, c) \in Accepted => Reloaded(n, c).state # "none"
         /\ Reloaded(n, c).state = "available" =>
              \/ Reloaded(n, c) = models[n]
              \/ ReloadStatus(n, c) \in Accepted /\ Reloaded(n, c).config = c
         /\ Available(n) /\ Reloaded(n, c).state = "unloaded" => ~(c.loader \subseteq loaders)
<1> DEFINE created == IF Exists(n) THEN models[n]
                      ELSE [state |-> "unloaded", config |-> NoModel, stateful |-> c.stateful]
<1>1. models[n] \in ModelType /\ c.stateful \in BOOLEAN
  BY DEF ServableTypes, Entries
<1>2. /\ created \in ModelType /\ created.state # "none" /\ (Exists(n) => created = models[n])
      /\ ~Exists(n) => created.state = "unloaded"
  BY <1>1 DEF ModelType, Exists
<1> DEFINE s == ReloadStatus(n, c)
<1>3. s \in Accepted => ~(c.stateful /\ c.dynamic)
  BY ReloadStatuses
<1>4. Reloaded(n, c) = CASE s \in {"OK", "OK_RELOADED"} ->
                              IF c.loader \subseteq loaders
                              THEN [created EXCEPT !.state = "available", !.config = c]
                              ELSE [created EXCEPT !.state = "unloaded"]
                         [] s = "PATH_INVALID" -> created
                         [] OTHER -> models[n]
  BY DEF Reloaded
<1> HIDE DEF created, s
<1>5. CASE s \in {"OK", "OK_RELOADED"} /\ c.loader \subseteq loaders
  <2>1. Reloaded(n, c) = [created EXCEPT !.state = "available", !.config = c]
    BY <1>4, <1>5
  <2>2. Reloaded(n, c) \in ModelType /\ Reloaded(n, c).state = "available" /\ Reloaded(n, c).config = c
    BY <1>2, <2>1 DEF ModelType
  <2> QED BY <1>3, <1>5, <2>2 DEF Accepted, s
<1>6. CASE s \in {"OK", "OK_RELOADED"} /\ ~(c.loader \subseteq loaders)
  <2>1. Reloaded(n, c) = [created EXCEPT !.state = "unloaded"]
    BY <1>4, <1>6
  <2>2. Reloaded(n, c) \in ModelType /\ Reloaded(n, c).state = "unloaded"
    BY <1>2, <2>1 DEF ModelType
  <2> QED BY <1>3, <1>6, <2>2 DEF Accepted, s
<1>7. CASE s = "PATH_INVALID"
  <2>1. Reloaded(n, c) = created
    BY <1>4, <1>7
  <2> QED BY <1>2, <1>3, <1>7, <2>1 DEF Accepted, s, Exists, Available
<1>8. CASE s \notin Accepted
  <2>1. Reloaded(n, c) = models[n]
    BY <1>4, <1>8 DEF Accepted
  <2> QED BY <1>1, <1>8, <2>1 DEF s, Exists, Available
<1> QED BY <1>5, <1>6, <1>7, <1>8 DEF Accepted

\* A notification only marks pipelines.
LEMMA Notifies ==
  ASSUME ServableTypes, NEW ms
  PROVE  /\ Notified(ms) \in [Names -> PipelineType]
         /\ \A p \in Names : /\ Notified(ms)[p].state = pipelines[p].state
                             /\ Notified(ms)[p].def = pipelines[p].def
                             /\ Notified(ms)[p].subs = pipelines[p].subs
                             /\ Notified(ms)[p].dirty =>
                                  \/ pipelines[p].dirty
                                  \/ pipelines[p].state \in {"available", "failed"}
<1>1. ASSUME NEW p \in Names
      PROVE  /\ Notified(ms)[p] \in PipelineType /\ Notified(ms)[p].state = pipelines[p].state
             /\ Notified(ms)[p].def = pipelines[p].def
             /\ Notified(ms)[p].subs = pipelines[p].subs
             /\ Notified(ms)[p].dirty =>
                  \/ pipelines[p].dirty
                  \/ pipelines[p].state \in {"available", "failed"}
  <2>1. pipelines[p] \in PipelineType
    BY DEF ServableTypes
  <2> QED BY <2>1 DEF Notified, PipelineType
<1> QED BY <1>1 DEF Notified

\* The pipelines that a reload leaves, but for the marks.
SamePipelines ==
  /\ pipelines' \in [Names -> PipelineType]
  /\ \A p \in Names : /\ pipelines'[p].state = pipelines[p].state
                      /\ pipelines'[p].def = pipelines[p].def
                      /\ pipelines'[p].subs = pipelines[p].subs
                      /\ pipelines'[p].dirty =>
                           \/ pipelines[p].dirty
                           \/ pipelines[p].state \in {"available", "failed"}

\* All that a reload does to the servables.
LEMMA ReloadsOne ==
  ASSUME ServableTypes, Subscriptions, ServesFixedModels, NEW n \in Names, NEW c \in Entries,
         ReloadModel(n, c)
  PROVE  /\ models' \in [Names -> ModelType] /\ SamePipelines /\ ServesFixedModels'
         /\ \A m \in Names : Exists(m) => Exists(m)'
         /\ \A m \in Names \ {n} : models'[m] = models[m]
         /\ Exists(n)' => Exists(n) \/ ~(c.stateful /\ c.dynamic)
         /\ ReloadStatus(n, c) \in Gated => Exists(n)
         /\ Exists(n)' \/ (c.stateful /\ c.dynamic)
         /\ Available(n) /\ models'[n].state = "unloaded" => ~(c.loader \subseteq loaders)
<1> DEFINE r == Reloaded(n, c)
<1>1. /\ models' = [models EXCEPT ![n] = r] /\ models \in [Names -> ModelType] /\ r \in ModelType
      /\ pipelines' = pipelines \/ pipelines' = Notified({n})
  BY Reloads DEF ReloadModel, ServableTypes
<1>2. SamePipelines
  <2>1. CASE pipelines' = pipelines
    BY <2>1 DEF SamePipelines, ServableTypes
  <2>2. CASE pipelines' = Notified({n})
    BY <2>2, Notifies DEF SamePipelines
  <2> QED BY <1>1, <2>1, <2>2
<1>3. models' \in [Names -> ModelType] /\ models'[n] = r /\ \A m \in Names \ {n} : models'[m] = models[m]
  BY <1>1
<1>4. Subscribed(n) => Exists(n)
  BY DEF Subscribed, Subscriptions
<1>5. \A m \in Names : Exists(m) => Exists(m)'
  BY <1>3, Reloads DEF Exists
<1>6. ServesFixedModels'
  <2> SUFFICES ASSUME NEW p \in Names, pipelines'[p].state = "available", NEW m \in Names,
                      m \in pipelines'[p].def.models
               PROVE  /\ Exists(m)' /\ m \in pipelines'[p].subs
                      /\ models'[m].state = "available" => ~models'[m].config.dynamic
    BY DEF ServesFixedModels, Available
  <2>1. /\ pipelines[p].state = "available" /\ m \in pipelines[p].def.models
        /\ pipelines'[p].subs = pipelines[p].subs
    BY <1>2 DEF SamePipelines
  <2>2. /\ Exists(m) /\ m \in pipelines[p].subs
        /\ models[m].state = "available" => ~models[m].config.dynamic
    BY <2>1 DEF ServesFixedModels, Available
  <2>3. CASE m = n
    <3>1. Subscribed(n)
      BY <2>2, <2>3 DEF Subscribed
    <3>2. ReloadStatus(n, c) \in Accepted => ~c.dynamic
      BY <3>1, ReloadStatuses
    <3>3. r.state = "available" => r = models[n] \/ (ReloadStatus(n, c) \in Accepted /\ r.config = c)
      BY Reloads
    <3> HIDE DEF r
    <3> QED BY <1>3, <1>5, <2>1, <2>2, <2>3, <3>2, <3>3
  <2>4. CASE m # n
    BY <1>3, <1>5, <2>1, <2>2, <2>4
  <2> QED BY <2>3, <2>4
<1>7. /\ Exists(n)' => Exists(n) \/ ~(c.stateful /\ c.dynamic)
      /\ Available(n) /\ models'[n].state = "unloaded" => ~(c.loader \subseteq loaders)
  BY <1>3, Reloads DEF Exists
<1>8. Exists(n)' \/ (c.stateful /\ c.dynamic)
  BY <1>3, <1>4, Reloads, ReloadStatuses DEF Exists
<1>9. ReloadStatus(n, c) \in Gated => Exists(n)
  BY <1>4, ReloadStatuses
<1> QED BY <1>2, <1>3, <1>5, <1>6, <1>7, <1>8, <1>9

-----------------------------------------------------------------------------
\* the steps of a load

\* The entries of a list that are reached from its second element on.
LEMMA ReachedRest ==
  ASSUME NEW list \in Seq(Entries), list # <<>>
  PROVE  /\ Head(list) \in Entries /\ Tail(list) \in Seq(Entries)
         /\ (Head(list).parsed => Head(list).plugin) => Head(list) \in Reached(list)
         /\ \A e \in Reached(list) : e = Head(list) \/ e \in Reached(Tail(list))
         /\ (Head(list).parsed => Head(list).plugin) => Reached(Tail(list)) \subseteq Reached(list)
         /\ Head(list).parsed /\ ~Head(list).plugin => Reached(list) = {}
<1> DEFINE k == Len(list)
           tail == Tail(list)
           Good(l, i) == \A j \in 1..i : l[j].parsed => l[j].plugin
<1>1. /\ k \in Nat \ {0} /\ DOMAIN list = 1..k /\ Head(list) = list[1] /\ list[1] \in Entries
      /\ tail \in Seq(Entries) /\ Len(tail) = k - 1 /\ DOMAIN tail = 1..(k - 1)
      /\ \A i \in 1..(k - 1) : tail[i] = list[i + 1]
  OBVIOUS
<1>2. \A l : Reached(l) = {l[i] : i \in {i \in DOMAIN l : Good(l, i)}}
  BY DEF Reached
<1> HIDE DEF k, tail
<1>3. ASSUME NEW e \in Reached(list) PROVE e = list[1] \/ e \in Reached(tail)
  <2>1. PICK i \in 1..k : e = list[i] /\ Good(list, i)
    BY <1>1, <1>2
  <2>2. CASE i = 1
    BY <2>1, <2>2
  <2>3. CASE i # 1
    <3>1. i - 1 \in 1..(k - 1) /\ tail[i - 1] = e
      BY <1>1, <2>1, <2>3
    <3>2. ASSUME NEW j \in 1..(i - 1) PROVE tail[j].parsed => tail[j].plugin
      <4>1. j + 1 \in 1..i /\ tail[j] = list[j + 1]
        BY <1>1, <2>1
      <4> QED BY <2>1, <4>1
    <3> QED BY <1>1, <1>2, <3>1, <3>2
  <2> QED BY <2>2, <2>3
<1>4. ASSUME list[1].parsed => list[1].plugin, NEW e \in Reached(tail) PROVE e \in Reached(list)
  <2>1. PICK i \in 1..(k - 1) : e = tail[i] /\ Good(tail, i)
    BY <1>1, <1>2
  <2>2. i + 1 \in 1..k /\ e = list[i + 1]
    BY <1>1, <2>1
  <2>3. ASSUME NEW j \in 1..(i + 1) PROVE list[j].parsed => list[j].plugin
    <3>1. CASE j = 1
      BY <1>4, <3>1
    <3>2. CASE j # 1
      <4>1. j - 1 \in 1..i /\ tail[j - 1] = list[j]
        BY <1>1, <2>1, <3>2
      <4> QED BY <2>1, <4>1
    <3> QED BY <3>1, <3>2
  <2> QED BY <1>1, <1>2, <2>2, <2>3
<1>5. ASSUME list[1].parsed, ~list[1].plugin PROVE Reached(list) = {}
  <2>1. \A i \in 1..k : 1 \in 1..i
    BY <1>1
  <2>2. \A i \in 1..k : ~Good(list, i)
    BY <1>5, <2>1
  <2> QED BY <1>1, <1>2, <2>2
<1>6. (list[1].parsed => list[1].plugin) => list[1] \in Reached(list)
  <2>1. 1 \in 1..k /\ \A j \in 1..1 : j = 1
    BY <1>1
  <2> QED BY <1>1, <1>2, <2>1
<1> QED BY <1>1, <1>3, <1>4, <1>5, <1>6 DEF tail

\* The first error wins.
LEMMA FirstStatus == ASSUME NEW a \in Statuses, NEW b \in Statuses PROVE First(a, b) \in Statuses
BY DEF First

\* A load comes to an entry of the file.  What it does not reload it leaves
\* out: it does not parse, follows a wrong plugin configuration, or its name is
\* in use.
LEMMA LoadModelSkips ==
  ASSUME ServableInv, NEW t \in Threads, LoadModel(t), UNCHANGED <<served, models, pipelines, settings>>,
         NEW s \in Statuses, NEW todo, NEW invalid \in SUBSET Names,
         job' = [job EXCEPT !.todo = todo, !.status = First(@, s), !.invalid = invalid],
         \/ todo = Tail(job.todo) /\ ~Head(job.todo).parsed
         \/ todo = <<>> /\ Head(job.todo).parsed /\ ~Head(job.todo).plugin
         \/ /\ todo = Tail(job.todo)
            /\ Head(job.todo).parsed /\ Head(job.todo).plugin
            /\ Occupied(Head(job.todo).name) \/ Head(job.todo).name \in job.names
  PROVE  ServableInv'
<1> DEFINE c == Head(job.todo)
<1>1. job.step = "models" /\ job.todo # <<>> /\ graphs' = graphs
  BY DEF LoadModel, Loading
<1>2. job \in JobType /\ job.todo \in Seq(Entries)
  BY <1>1 DEF ServableInv, ServableTypes, Todo
<1>3. /\ c \in Entries /\ Tail(job.todo) \in Seq(Entries)
      /\ \A e \in Reached(job.todo) : e = c \/ e \in Reached(Tail(job.todo))
      /\ (c.parsed => c.plugin) => Reached(Tail(job.todo)) \subseteq Reached(job.todo)
      /\ c.parsed /\ ~c.plugin => Reached(job.todo) = {}
  BY <1>1, <1>2, ReachedRest
<1>4. /\ todo \in Seq(Entries)
      /\ Reached(todo) \subseteq Reached(job.todo)
      /\ \A e \in Reached(job.todo) :
           \/ e \in Reached(todo)
           \/ e = c /\ (~c.parsed \/ Occupied(c.name) \/ c.name \in job.names)
  <2>1. CASE todo = <<>> /\ c.parsed /\ ~c.plugin
    <3>1. Reached(todo) = {} /\ todo \in Seq(Entries)
      BY <2>1 DEF Reached
    <3> QED BY <1>3, <2>1, <3>1
  <2>2. CASE todo = Tail(job.todo) /\ (c.parsed => c.plugin)
    <3>1. ~c.parsed \/ Occupied(c.name) \/ c.name \in job.names
      BY <2>2
    <3> HIDE DEF c
    <3> QED BY <1>3, <2>2, <3>1
  <2> QED BY <2>1, <2>2
<1>5. /\ job' \in JobType /\ job'.step = "models" /\ job'.todo = todo /\ job'.content = job.content
      /\ job'.subs = job.subs /\ job'.gated = job.gated /\ job'.new = job.new
      /\ job'.names = job.names
  <2>1. First(job.status, s) \in Statuses
    BY <1>2, FirstStatus DEF JobType
  <2> QED BY <1>1, <1>2, <1>4, <2>1 DEF JobType
<1> HIDE DEF c
<1>6. ServableTypes' /\ Todo'
  BY <1>1, <1>4, <1>5 DEF ServableInv, ServableTypes, Todo, LoadSteps
<1>7. OneServablePerName' /\ KeptConfigs' /\ ServesFixedModels'
  BY <1>1, <1>5
  DEF ServableInv, OneServablePerName, KeptConfigs, Kept, ServesFixedModels, Exists, Occupied, Available
<1>8. Subscriptions'
  BY <1>5 DEF ServableInv, Subscriptions, Exists
<1>9. Progress'
  <2>1. ASSUME NEW e \in Listed(Content(job.content)), e.parsed, Exists(e.name) PROVE ComesTo(e)'
    <3>1. ComesTo(e)
      BY <1>1, <2>1 DEF ServableInv, Progress
    <3>2. CASE e \in Reached(job.todo)
      <4>1. e = c => ~Occupied(e.name)
        <5>1. c.name \in Names
          BY <1>3 DEF Entries
        <5> QED BY <2>1, <5>1 DEF ServableInv, OneServablePerName
      <4> QED BY <1>4, <1>5, <2>1, <3>2, <4>1 DEF ComesTo
    <3> QED BY <1>5, <3>1, <3>2 DEF ComesTo
  <2> QED BY <1>1, <1>4, <1>5, <2>1 DEF ServableInv, Progress, Exists, LoadSteps
<1> QED BY <1>6, <1>7, <1>8, <1>9 DEF ServableInv

\* A set of natural numbers has a least element.
LEMMA LeastOfNaturals ==
  ASSUME NEW S \in SUBSET Nat, S # {} PROVE \E m \in S : \A k \in S : m <= k
<1> DEFINE Less == {p \in Nat \X Nat : p[1] < p[2]}
<1>1. OpToRel(<, Nat) = Less
  BY Zenon DEF OpToRel
<1>2. IsWellFoundedOn(Less, Nat)
  BY <1>1, NatLessThanWellFounded, Zenon
<1> HIDE DEF Less
<1>3. PICK m \in S : \A k \in S : ~(<<k, m>> \in Less)
  BY <1>2, WFMin
<1>4. ASSUME NEW k \in S PROVE m <= k
  <2>1. m \in Nat /\ k \in Nat /\ ~(<<k, m>> \in Less)
    BY <1>3
  <2>2. <<k, m>> \in Nat \X Nat /\ <<k, m>>[1] = k /\ <<k, m>>[2] = m
    BY <2>1
  <2>3. ~(k < m)
    BY <2>1, <2>2, Zenon DEF Less
  <2> QED BY <2>1, <2>3
<1> QED BY <1>4

\* What a file lists.
LEMMA ParsedGraphs ==
  ASSUME NEW f \in Files
  PROVE  /\ ParseMediapipeConfig(Content(f)) \in Seq(GraphEntries)
         /\ Content(f).models \in Seq(Entries) /\ Content(f).pipelines \in Seq(Definitions)
<1> DEFINE g == Content(f).graphs
           bad == {i \in DOMAIN g : ~g[i].parsed}
           k == CHOOSE i \in bad : \A j \in bad : i <= j
<1>1. /\ g \in Seq(GraphEntries) /\ Content(f).models \in Seq(Entries)
      /\ Content(f).pipelines \in Seq(Definitions)
  BY ContentsAssumption DEF Content
<1>2. CASE bad = {}
  BY <1>1, <1>2 DEF ParseMediapipeConfig
<1>3. CASE bad # {}
  <2>1. bad \in SUBSET Nat
    BY <1>1
  <2>2. k \in bad
    BY <1>3, <2>1, LeastOfNaturals
  <2>3. k \in DOMAIN g
    BY <2>2
  <2>4. ParseMediapipeConfig(Content(f)) = SubSeq(g, 1, k - 1)
    BY <1>3 DEF ParseMediapipeConfig
  <2> HIDE DEF g, k
  <2>5. k \in 1..Len(g)
    BY <1>1, <2>3
  <2> QED BY <1>1, <2>4, <2>5
<1> QED BY <1>1, <1>2, <1>3

\* What a file lists are entries.
LEMMA ListedEntries ==
  ASSUME NEW f \in Files
  PROVE  Listed(Content(f)) \subseteq Entries
<1>1. ASSUME NEW list \in Seq(Entries) PROVE Reached(list) \subseteq Entries
  BY DEF Reached
<1>2. ASSUME NEW g \in GraphEntries PROVE g.models \in Seq(Entries)
  BY DEF GraphEntries
<1>3. Range(ParseMediapipeConfig(Content(f))) \subseteq GraphEntries
  BY ParsedGraphs DEF Range
<1> QED BY <1>1, <1>2, <1>3, ParsedGraphs DEF Listed

\* A load reloads a model, or keeps it for later because a pipeline uses it.
LEMMA LoadModelReloads ==
  ASSUME ServableInv, NEW t \in Threads, LoadModel(t), settings' = settings,
         NEW c, c = Head(job.todo), NEW n, n = c.name, ReloadModel(n, c),
         c.parsed, c.plugin, ~Occupied(n), NEW s \in Statuses, NEW gated, NEW new,
         job' = [job EXCEPT !.todo = Tail(@), !.status = First(@, s), !.names = @ \cup {n},
                            !.gated = gated, !.new = new],
         \/ /\ s \in Gated /\ s = ReloadStatus(n, c)
            /\ served' = [served EXCEPT ![n] = NoModel]
            /\ \/ new = job.new /\ gated = job.gated
               \/ new = [job.new EXCEPT ![n] = served[n]] /\ gated = Append(job.gated, c)
         \/ /\ served' = served /\ gated = job.gated
            /\ new = [job.new EXCEPT ![n] = c]
  PROVE  ServableInv'
<1>1. job.step = "models" /\ job.todo # <<>> /\ graphs' = graphs
  BY DEF LoadModel, Loading
<1>2. job \in JobType /\ job.todo \in Seq(Entries)
  BY <1>1 DEF ServableInv, ServableTypes, Todo
<1>3. /\ c \in Entries /\ Tail(job.todo) \in Seq(Entries)
      /\ \A e \in Reached(job.todo) : e = c \/ e \in Reached(Tail(job.todo))
      /\ Reached(Tail(job.todo)) \subseteq Reached(job.todo) /\ c \in Reached(job.todo)
  BY <1>1, <1>2, ReachedRest
<1>4. n \in Names
  BY <1>3 DEF Entries
<1>5. /\ job.gated \in Seq(Entries) /\ job.new \in [Names -> Entries \cup {NoModel}]
      /\ served \in [Names -> Entries \cup {NoModel}]
  BY <1>2 DEF JobType, ServableInv, ServableTypes
<1>6. /\ gated \in Seq(Entries)
      /\ \A i \in DOMAIN gated : \/ i \in DOMAIN job.gated /\ gated[i] = job.gated[i]
                                 \/ gated[i] = c /\ s \in Gated /\ s = ReloadStatus(n, c)
  <2>1. CASE gated = job.gated
    BY <1>5, <2>1
  <2>2. CASE gated = Append(job.gated, c) /\ s \in Gated /\ s = ReloadStatus(n, c)
    BY <1>3, <1>5, <2>2
  <2> QED BY <2>1, <2>2
<1>7. /\ new \in [Names -> Entries \cup {NoModel}]
      /\ \A m \in Names \ {n} : new[m] = job.new[m]
      /\ \/ new[n] = c
         \/ s \in Gated /\ s = ReloadStatus(n, c)
  <2>1. new \in {job.new, [job.new EXCEPT ![n] = served[n]], [job.new EXCEPT ![n] = c]}
    OBVIOUS
  <2>2. new = [job.new EXCEPT ![n] = c] \/ (s \in Gated /\ s = ReloadStatus(n, c))
    OBVIOUS
  <2> QED BY <1>3, <1>4, <1>5, <2>1, <2>2
<1>8. /\ job' \in JobType /\ job'.step = "models" /\ job'.todo = Tail(job.todo)
      /\ job'.content = job.content /\ job'.subs = job.subs /\ job'.gated = gated
      /\ job'.new = new /\ job'.names = job.names \cup {n}
  <2>1. First(job.status, s) \in Statuses
    BY <1>2, FirstStatus DEF JobType
  <2> QED BY <1>1, <1>2, <1>3, <1>4, <1>6, <1>7, <2>1 DEF JobType
<1>9. /\ models' \in [Names -> ModelType] /\ SamePipelines /\ ServesFixedModels'
      /\ \A m \in Names : Exists(m) => Exists(m)'
      /\ \A m \in Names \ {n} : models'[m] = models[m]
      /\ ReloadStatus(n, c) \in Gated => Exists(n)
      /\ Exists(n)' \/ (c.stateful /\ c.dynamic)
  BY <1>3, <1>4, ReloadsOne DEF ServableInv
<1>10. ~Occupied(n) /\ c.parsed
  OBVIOUS
<1>11. /\ served' \in [Names -> Entries \cup {NoModel}]
       /\ \A m \in Names : served'[m] = NoModel \/ served'[m] = served[m]
  <2>1. served' = served \/ served' = [served EXCEPT ![n] = NoModel]
    OBVIOUS
  <2> QED BY <1>5, <2>1
<1>12. ServableTypes' /\ Todo'
  BY <1>1, <1>3, <1>8, <1>9, <1>11 DEF ServableInv, ServableTypes, Todo, SamePipelines, LoadSteps
<1>13. OneServablePerName'
  BY <1>1, <1>9, <1>10 DEF ServableInv, OneServablePerName, SamePipelines, Occupied, Exists
<1>14. KeptConfigs'
  <2>1. ASSUME settings.configPath, NEW m \in Names PROVE Kept(served[m], m)' /\ Kept(job.new[m], m)'
    <3>1. Kept(served[m], m) /\ Kept(job.new[m], m) /\ (Exists(m) => Exists(m)')
      BY <1>1, <1>9, <2>1 DEF ServableInv, KeptConfigs
    <3>2. Kept(served[m], m)'
      BY <1>11, <3>1 DEF Kept
    <3>3. Kept(job.new[m], m)'
      BY <1>7, <1>8, <1>9, <3>1 DEF Kept
    <3> QED BY <3>2, <3>3
  <2>2. ASSUME settings.configPath, NEW i \in DOMAIN gated PROVE Exists(gated[i].name)'
    <3>1. CASE i \in DOMAIN job.gated /\ gated[i] = job.gated[i]
      <4>1. Exists(job.gated[i].name)
        BY <2>2, <3>1 DEF ServableInv, KeptConfigs
      <4>2. job.gated[i].name \in Names
        <5>1. job.gated[i] \in Entries
          BY <1>5, <3>1
        <5> QED BY <5>1 DEF Entries
      <4> QED BY <1>9, <3>1, <4>1, <4>2
    <3>2. CASE gated[i] = c /\ s \in Gated /\ s = ReloadStatus(n, c)
      <4>1. Exists(n)'
        BY <1>4, <1>9, <3>2
      <4> QED BY <3>2, <4>1
    <3> QED BY <1>6, <3>1, <3>2
  <2> QED BY <1>8, <2>1, <2>2 DEF KeptConfigs
<1>15. Subscriptions'
  <2>1. ASSUME NEW p \in Names, NEW m \in pipelines'[p].subs PROVE Exists(m)'
    <3>1. m \in pipelines[p].subs /\ pipelines[p] \in PipelineType
      BY <1>9 DEF ServableInv, ServableTypes, SamePipelines
    <3>2. m \in Names /\ Exists(m)
      BY <3>1 DEF ServableInv, Subscriptions, PipelineType
    <3> QED BY <1>9, <3>2
  <2> QED BY <1>8, <1>9, <2>1 DEF ServableInv, Subscriptions, SamePipelines
<1>16. Progress'
  <2>1. ASSUME NEW e \in Listed(Content(job.content)), e.parsed, Exists(e.name)', e.name \in Names
        PROVE ComesTo(e)'
    <3>1. CASE e.name = n
      BY <1>8, <3>1 DEF ComesTo
    <3>2. CASE e.name # n
      <4>1. Exists(e.name)
        BY <1>9, <2>1, <3>2 DEF Exists
      <4>2. ComesTo(e)
        BY <1>1, <2>1, <4>1 DEF ServableInv, Progress
      <4>3. e # c
        BY <3>2
      <4> QED BY <1>3, <1>8, <4>2, <4>3 DEF ComesTo
    <3> QED BY <3>1, <3>2
  <2>2. ASSUME NEW i \in DOMAIN gated
        PROVE  gated[i].parsed /\ gated[i] \in Listed(Content(job.content))
    BY <1>1, <1>3, <1>6, <1>10 DEF ServableInv, Progress, LoadSteps
  <2>3. Listed(Content(job.content)) \subseteq Entries
    BY <1>1, ListedEntries DEF ServableInv, Todo, LoadSteps
  <2>4. \A e \in Listed(Content(job.content)) : e.name \in Names
    BY <2>3 DEF Entries
  <2> QED BY <1>1, <1>3, <1>8, <2>1, <2>2, <2>4 DEF ServableInv, Progress, LoadSteps
<1> QED BY <1>9, <1>12, <1>13, <1>14, <1>15, <1>16 DEF ServableInv

\* loadModels, one entry.
LEMMA LoadModelStep ==
  ASSUME ServableInv, NEW t \in Threads, LoadModel(t), settings' = settings
  PROVE  ServableInv'
<1>1. PICK c : c = Head(job.todo)
  OBVIOUS
<1>2. PICK n : n = c.name
  OBVIOUS
<1> DEFINE s == ReloadStatus(n, c)
<1>3. job \in JobType /\ job.todo \in Seq(Entries) /\ job.todo # <<>>
  BY DEF LoadModel, Loading, ServableInv, ServableTypes, Todo
<1>4. c \in Entries /\ s \in Statuses /\ job.invalid \in SUBSET Names /\ n \in Names
  <2>1. c \in Entries
    BY <1>1, <1>3, ReachedRest
  <2> QED BY <1>2, <1>3, <2>1, ReloadStatuses DEF JobType, Entries
<1>5. CASE ~c.parsed
  <2>1. /\ job' = [job EXCEPT !.todo = Tail(job.todo), !.status = First(@, "MODEL_CONFIG_INVALID"),
                              !.invalid = job.invalid \cup {n}]
        /\ UNCHANGED <<served, models, pipelines>>
    BY <1>1, <1>2, <1>3, <1>5 DEF LoadModel, JobType
  <2>2. "MODEL_CONFIG_INVALID" \in Statuses /\ job.invalid \cup {n} \in SUBSET Names
    BY <1>4 DEF Statuses
  <2> QED BY <1>1, <1>5, <2>1, <2>2, LoadModelSkips
<1>6. CASE c.parsed /\ ~c.plugin
  <2>1. /\ job' = [job EXCEPT !.todo = <<>>, !.status = First(@, "PLUGIN_CONFIG_INVALID"),
                              !.invalid = job.invalid]
        /\ UNCHANGED <<served, models, pipelines>>
    BY <1>1, <1>2, <1>3, <1>6 DEF LoadModel, JobType
  <2>2. "PLUGIN_CONFIG_INVALID" \in Statuses
    BY DEF Statuses
  <2> QED BY <1>1, <1>4, <1>6, <2>1, <2>2, LoadModelSkips
<1>7. CASE c.parsed /\ c.plugin /\ (Occupied(n) \/ n \in job.names)
  <2>1. /\ job' = [job EXCEPT !.todo = Tail(job.todo), !.status = First(@, "MODEL_NAME_OCCUPIED"),
                              !.invalid = job.invalid]
        /\ UNCHANGED <<served, models, pipelines>>
    BY <1>1, <1>2, <1>3, <1>7 DEF LoadModel, JobType
  <2>2. "MODEL_NAME_OCCUPIED" \in Statuses
    BY DEF Statuses
  <2> QED BY <1>1, <1>2, <1>4, <1>7, <2>1, <2>2, LoadModelSkips
<1>8. CASE c.parsed /\ c.plugin /\ ~Occupied(n) /\ n \notin job.names
  <2>1. ReloadModel(n, c)
    BY <1>1, <1>2, <1>8 DEF LoadModel
  <2>2. \E gated, new :
          /\ job' = [job EXCEPT !.todo = Tail(@), !.status = First(@, s), !.names = @ \cup {n},
                                !.gated = gated, !.new = new]
          /\ \/ /\ s \in Gated /\ served' = [served EXCEPT ![n] = NoModel]
                /\ \/ new = job.new /\ gated = job.gated
                   \/ new = [job.new EXCEPT ![n] = served[n]] /\ gated = Append(job.gated, c)
             \/ /\ served' = served /\ gated = job.gated
                /\ new = [job.new EXCEPT ![n] = c]
    <3>1. CASE s \in Gated /\ served[n] = NoModel
      <4> WITNESS job.gated, job.new
      <4> QED BY <1>1, <1>2, <1>3, <1>8, <3>1 DEF LoadModel, JobType
    <3>2. CASE s \in Gated /\ served[n] # NoModel
      <4> WITNESS Append(job.gated, c), [job.new EXCEPT ![n] = served[n]]
      <4> QED BY <1>1, <1>2, <1>3, <1>8, <3>2 DEF LoadModel, JobType
    <3>3. CASE s \notin Gated
      <4> WITNESS job.gated, [job.new EXCEPT ![n] = c]
      <4> QED BY <1>1, <1>2, <1>3, <1>8, <3>3 DEF LoadModel, JobType
    <3> QED BY <3>1, <3>2, <3>3
  <2>3. PICK u \in Statuses : u = s
    BY <1>4
  <2>4. PICK gated, new :
          /\ job' = [job EXCEPT !.todo = Tail(@), !.status = First(@, u), !.names = @ \cup {n},
                                !.gated = gated, !.new = new]
          /\ \/ /\ u \in Gated /\ served' = [served EXCEPT ![n] = NoModel]
                /\ \/ new = job.new /\ gated = job.gated
                   \/ new = [job.new EXCEPT ![n] = served[n]] /\ gated = Append(job.gated, c)
             \/ /\ served' = served /\ gated = job.gated
                /\ new = [job.new EXCEPT ![n] = c]
    BY <2>2, <2>3
  <2> QED BY <1>1, <1>2, <1>8, <2>1, <2>3, <2>4, LoadModelReloads
<1> QED BY <1>5, <1>6, <1>7, <1>8

\* The file is read and its models are to be loaded.
LEMMA ParseStep ==
  ASSUME ServableInv, job.step = "parse", UNCHANGED <<served, servableVars, settings>>,
         NEW f \in Files, NEW s \in Statuses,
         job' = [NoJob EXCEPT !.step = "models", !.content = f, !.todo = Content(f).models,
                   !.subs = ParseMediapipeConfig(Content(f)), !.status = s]
  PROVE  ServableInv'
<1> DEFINE list == Content(f).models
           subs == ParseMediapipeConfig(Content(f))
<1>1. list \in Seq(Entries) /\ subs \in Seq(GraphEntries)
  BY ParsedGraphs
<1> HIDE DEF list, subs
<1>2. /\ job' \in JobType /\ job'.step = "models" /\ job'.content = f /\ job'.todo = list
      /\ job'.subs = subs /\ job'.gated = <<>> /\ job'.new = [n \in Names |-> NoModel]
  BY <1>1, NoJobType DEF JobType, LoadSteps, list, subs
<1>3. DOMAIN job'.gated = {} /\ \A n \in Names : job'.new[n] = NoModel
  BY <1>2
<1>4. ServableTypes' /\ Todo'
  BY <1>1, <1>2 DEF ServableInv, ServableTypes, Todo, servableVars, LoadSteps
<1>5. OneServablePerName' /\ KeptConfigs' /\ ServesFixedModels'
  BY <1>2, <1>3
  DEF ServableInv, OneServablePerName, KeptConfigs, Kept, ServesFixedModels, Exists, Occupied,
      Available, servableVars
<1>6. Subscriptions'
  BY <1>2 DEF ServableInv, Subscriptions, Exists, servableVars
<1>7. Listed(Content(f)) = Reached(list) \cup UNION {Reached(subs[i].models) : i \in DOMAIN subs}
  BY DEF Listed, Range, list, subs
<1>8. Progress'
  BY <1>2, <1>3, <1>7 DEF Progress, ComesTo, LoadSteps
<1> QED BY <1>4, <1>5, <1>6, <1>8 DEF ServableInv

\* The models of the next subconfig, or no more models.
LEMMA SubconfigStep ==
  ASSUME ServableInv, NEW t \in Threads, LoadSubconfig(t), settings' = settings
  PROVE  ServableInv'
<1>1. PICK g : g = Head(job.subs)
  OBVIOUS
<1>2. /\ job \in JobType /\ job.step = "models" /\ job.todo = <<>> /\ job.subs # <<>>
      /\ UNCHANGED <<served, models, pipelines, graphs>> /\ job.content \in Files
  BY DEF LoadSubconfig, Loading, servableVars, ServableInv, ServableTypes, Todo, LoadSteps
<1>3. /\ job.subs \in Seq(GraphEntries) /\ g \in GraphEntries /\ Tail(job.subs) \in Seq(GraphEntries)
      /\ \A i \in DOMAIN job.subs :
           job.subs[i] = g \/ \E j \in DOMAIN Tail(job.subs) : job.subs[i] = Tail(job.subs)[j]
      /\ \A j \in DOMAIN Tail(job.subs) : \E i \in DOMAIN job.subs : job.subs[i] = Tail(job.subs)[j]
      /\ \E i \in DOMAIN job.subs : job.subs[i] = g
  <2> DEFINE subs == job.subs
             k == Len(subs)
  <2>1. subs \in Seq(GraphEntries) /\ subs # <<>>
    BY <1>2 DEF JobType
  <2> HIDE DEF subs
  <2>2. /\ k \in Nat \ {0} /\ DOMAIN subs = 1..k /\ Head(subs) = subs[1] /\ subs[1] \in GraphEntries
        /\ Tail(subs) \in Seq(GraphEntries) /\ DOMAIN Tail(subs) = 1..(k - 1)
        /\ \A i \in 1..(k - 1) : Tail(subs)[i] = subs[i + 1]
    BY <2>1
  <2> HIDE DEF k
  <2>3. ASSUME NEW i \in 1..k
        PROVE  i = 1 \/ (i - 1 \in 1..(k - 1) /\ subs[i] = Tail(subs)[i - 1])
    BY <2>2
  <2>4. \A j \in 1..(k - 1) : j + 1 \in 1..k
    BY <2>2
  <2>5. g = subs[1] /\ 1 \in 1..k
    BY <1>1, <2>2 DEF subs
  <2> QED BY <2>1, <2>2, <2>3, <2>4, <2>5 DEF subs
<1>4. g.models \in Seq(Entries)
  BY <1>3 DEF GraphEntries
<1>5. CASE g.subconfig = "invalid"
  <2>1. /\ job' \in JobType /\ job'.step = "pipelines" /\ job'.names = {}
        /\ job'.todo = Content(job.content).pipelines /\ job'.content = job.content
        /\ job'.gated = job.gated
    <3>1. PICK ps \in Seq(Definitions) : ps = Content(job.content).pipelines
      BY <1>2, ParsedGraphs
    <3>2. PICK s \in Statuses : s = First(job.status, "JSON_INVALID")
      BY <1>2, FirstStatus DEF JobType, Statuses
    <3>3. PICK no \in Seq(GraphEntries) : no = <<>>
      <4>1. <<>> \in Seq(GraphEntries)
        OBVIOUS
      <4> QED BY <4>1, Zenon
    <3>4. job' = [job EXCEPT !.step = "pipelines", !.todo = ps, !.names = {}, !.subs = no, !.status = s]
      BY <1>1, <1>2, <1>5, <3>1, <3>2, <3>3 DEF LoadSubconfig, JobType
    <3>5. job' \in JobType
      BY <1>2, <3>4 DEF JobType, LoadSteps
    <3>6. /\ job'.step = "pipelines" /\ job'.names = {} /\ job'.todo = ps
          /\ job'.content = job.content /\ job'.gated = job.gated
      BY <1>2, <3>4 DEF JobType
    <3> QED BY <3>1, <3>5, <3>6
  <2>2. ServableTypes' /\ Todo'
    BY <1>2, <2>1, ParsedGraphs DEF ServableInv, ServableTypes, Todo, LoadSteps
  <2>3. OneServablePerName' /\ KeptConfigs' /\ ServesFixedModels'
    BY <1>2, <2>1
    DEF ServableInv, OneServablePerName, KeptConfigs, Kept, ServesFixedModels, Exists, Occupied,
        Available
  <2>4. Subscriptions'
    BY <1>2, <2>1 DEF ServableInv, Subscriptions, Exists
  <2>5. Progress'
    BY <1>2, <2>1 DEF ServableInv, Progress, LoadSteps
  <2> QED BY <2>2, <2>3, <2>4, <2>5 DEF ServableInv
<1>6. CASE g.subconfig # "invalid"
  <2>1. job' = [job EXCEPT !.subs = Tail(@), !.todo = g.models]
    BY <1>1, <1>6 DEF LoadSubconfig
  <2>2. /\ job' \in JobType /\ job'.step = "models" /\ job'.names = job.names
        /\ job'.todo = g.models /\ job'.subs = Tail(job.subs) /\ job'.content = job.content
        /\ job'.gated = job.gated /\ job'.new = job.new
    BY <1>2, <1>3, <1>4, <2>1 DEF JobType
  <2>3. ServableTypes' /\ Todo'
    BY <1>2, <1>4, <2>2 DEF ServableInv, ServableTypes, Todo, LoadSteps
  <2>4. OneServablePerName' /\ KeptConfigs' /\ ServesFixedModels'
    BY <1>2, <2>2
    DEF ServableInv, OneServablePerName, KeptConfigs, Kept, ServesFixedModels, Exists, Occupied,
        Available
  <2>5. Subscriptions'
    BY <1>2, <2>2 DEF ServableInv, Subscriptions, Exists
  <2>6. Reached(job.todo) = {}
    BY <1>2 DEF Reached
  <2>7. \A e \in Listed(Content(job.content)) : ComesTo(e) => ComesTo(e)'
    <3> SUFFICES ASSUME NEW e, ComesTo(e) PROVE ComesTo(e)'
      OBVIOUS
    <3>1. CASE e.name \in job.names
      BY <2>2, <3>1 DEF ComesTo
    <3>2. ASSUME NEW i \in DOMAIN job.subs, e \in Reached(job.subs[i].models) PROVE ComesTo(e)'
      <4>1. CASE job.subs[i] = g
        BY <2>2, <3>2, <4>1 DEF ComesTo
      <4>2. CASE job.subs[i] # g
        <5>1. PICK j \in DOMAIN Tail(job.subs) : job.subs[i] = Tail(job.subs)[j]
          BY <1>3, <4>2
        <5>2. j \in DOMAIN job'.subs /\ e \in Reached(job'.subs[j].models)
          BY <2>2, <3>2, <5>1
        <5> QED BY <5>2 DEF ComesTo
      <4> QED BY <4>1, <4>2
    <3> QED BY <2>6, <3>1, <3>2 DEF ComesTo
  <2>8. Progress'
    BY <1>2, <1>3, <2>2, <2>7 DEF ServableInv, Progress, LoadSteps, Exists
  <2> QED BY <2>3, <2>4, <2>5, <2>8 DEF ServableInv
<1> QED BY <1>5, <1>6

\* The models that are not in the file are retired.
LEMMA RetireStep ==
  ASSUME ServableInv, NEW t \in Threads, RetireModelsRemovedFromConfigFile(t), settings' = settings
  PROVE  ServableInv'
<1>1. PICK removed : removed = RemovedModels(job.names)
  OBVIOUS
<1>2. /\ job \in JobType /\ job.step = "models" /\ job.content \in Files /\ graphs' = graphs
      /\ served' = job.new /\ pipelines' = Notified(removed)
      /\ models' = [n \in Names |-> IF n \in removed THEN [models[n] EXCEPT !.state = "unloaded"]
                                    ELSE models[n]]
      /\ job' = [job EXCEPT !.step = "pipelines", !.todo = Content(job.content).pipelines,
                            !.names = {}]
  BY <1>1
  DEF RetireModelsRemovedFromConfigFile, Loading, ServableInv, ServableTypes, Todo, LoadSteps
<1>3. ASSUME NEW n \in Names
      PROVE  /\ models'[n] \in ModelType /\ (Exists(n)' <=> Exists(n))
             /\ models'[n].state = "available" => models'[n] = models[n]
  <2>1. models[n] \in ModelType
    BY DEF ServableInv, ServableTypes
  <2>2. n \in removed => Exists(n)
    BY <1>1 DEF RemovedModels
  <2> QED BY <1>2, <2>1, <2>2 DEF ModelType, Exists
<1>4. SamePipelines
  BY <1>2, Notifies DEF SamePipelines, ServableInv
<1>5. /\ job' \in JobType /\ job'.step = "pipelines" /\ job'.names = {}
      /\ job'.todo = Content(job.content).pipelines /\ job'.content = job.content
      /\ job'.gated = job.gated
  <2>1. Content(job.content).pipelines \in Seq(Definitions)
    BY <1>2, ParsedGraphs
  <2> QED BY <1>2, <2>1 DEF JobType, LoadSteps
<1>6. ServableTypes' /\ Todo'
  <2>1. models' \in [Names -> ModelType]
    BY <1>2, <1>3
  <2>2. served' \in [Names -> Entries \cup {NoModel}]
    BY <1>2 DEF JobType
  <2> QED BY <1>2, <1>4, <1>5, <2>1, <2>2, ParsedGraphs
          DEF ServableInv, ServableTypes, Todo, SamePipelines, LoadSteps
<1>7. OneServablePerName'
  BY <1>2, <1>3, <1>4 DEF ServableInv, OneServablePerName, SamePipelines, Occupied
<1>8. KeptConfigs'
  <2>1. ASSUME NEW i \in DOMAIN job.gated PROVE job.gated[i].name \in Names
    <3>1. job.gated[i] \in Entries
      BY <1>2 DEF JobType
    <3> QED BY <3>1 DEF Entries
  <2> QED BY <1>2, <1>3, <1>5, <2>1 DEF ServableInv, KeptConfigs, Kept
<1>9. ServesFixedModels'
  BY <1>3, <1>4 DEF ServableInv, ServesFixedModels, SamePipelines, Available
<1>10. Subscriptions'
  <2>1. ASSUME NEW p \in Names, NEW m \in pipelines'[p].subs PROVE Exists(m)'
    <3>1. m \in pipelines[p].subs /\ pipelines[p] \in PipelineType
      BY <1>4 DEF ServableInv, ServableTypes, SamePipelines
    <3>2. m \in Names /\ Exists(m)
      BY <3>1 DEF ServableInv, Subscriptions, PipelineType
    <3> QED BY <1>3, <3>2
  <2> QED BY <1>4, <1>5, <2>1 DEF ServableInv, Subscriptions, SamePipelines
<1>11. Progress'
  BY <1>2, <1>5 DEF ServableInv, Progress, LoadSteps
<1> QED BY <1>6, <1>7, <1>8, <1>9, <1>10, <1>11 DEF ServableInv

-----------------------------------------------------------------------------
\* pipelines, graphs and the models that were refused

\* Steps that leave the models and the refused ones alone.
LEMMA LaterSteps ==
  ASSUME ServableInv, job.step \in {"pipelines", "graphs"},
         UNCHANGED <<models, served, settings>>,
         job' \in JobType, job'.step \in {"pipelines", "graphs", "gated"},
         job'.content = job.content, job'.gated = job.gated,
         job'.step = "pipelines" => job'.todo \in Seq(Definitions),
         job'.step = "graphs" => job'.todo \in Seq(GraphEntries),
         job'.step = "gated" => job'.todo = job.gated,
         pipelines' \in [Names -> PipelineType], graphs' \in [Names -> GraphType],
         OneServablePerName', Subscriptions', ServesFixedModels'
  PROVE  ServableInv'
<1>1. ServableTypes' /\ Todo'
  BY DEF ServableInv, ServableTypes, Todo, LoadSteps, JobType
<1>2. KeptConfigs'
  BY DEF ServableInv, KeptConfigs, Kept, Exists
<1>3. Progress'
  BY DEF ServableInv, Progress, LoadSteps
<1> QED BY <1>1, <1>2, <1>3 DEF ServableInv

\* The first element and the rest of what is left to do.
LEMMA FirstAndRest ==
  ASSUME NEW S, NEW s \in Seq(S), s # <<>> PROVE Head(s) \in S /\ Tail(s) \in Seq(S)
OBVIOUS

\* The statuses that validations return.
LEMMA ValidationStatuses ==
  /\ \A n, def, bound : ValidatePipeline(n, def, bound) \in Statuses
  /\ \A g : ValidateGraph(g) \in Statuses
BY DEF ValidatePipeline, ValidateGraph, Statuses

\* A pipeline that is validated uses models that exist and are not automatic.
LEMMA ValidPipeline ==
  ASSUME NEW n, NEW def, NEW bound
  PROVE  /\ ValidatePipeline(n, def, bound) # "PIPELINE_NAME_OCCUPIED" =>
              ~Exists(n) /\ graphs[n].state = "none"
         /\ ValidatePipeline(n, def, bound) = "OK" =>
              \A m \in def.models : Available(m) /\ ~models[m].config.dynamic
BY DEF ValidatePipeline, NodeModels, Available

\* A pipeline of the file is created or reloaded.
LEMMA ProcessPipelineStep ==
  ASSUME ServableInv, job.step = "pipelines", NEW def \in Definitions, NEW rest \in Seq(Definitions),
         NEW s \in Statuses,
         def.name \notin job.names, pipelines' = ProcessPipelineConfig(def),
         job' = [job EXCEPT !.todo = rest, !.names = @ \cup {def.name}, !.status = s],
         UNCHANGED <<models, graphs, served, settings>>
  PROVE  ServableInv'
<1>1. PICK n \in Names : n = def.name
  BY DEF Definitions
<1>2. PICK b \in BOOLEAN : b = (def.library \subseteq libraries)
  BY Zenon
<1>3. PICK v \in Statuses : v = ValidatePipeline(n, def, b)
  BY ValidationStatuses
<1>4. PICK subs \in SUBSET Names : subs = {m \in def.models : Exists(m)}
  BY DEF Definitions
<1>5. PICK d : d = Validated([state |-> "begin", dirty |-> FALSE, def |-> def, bound |-> b,
                              subs |-> subs], v)
  OBVIOUS
<1>6. /\ d \in PipelineType /\ d.dirty = FALSE /\ d.def = def /\ d.subs = subs
      /\ d.state = IF v = "OK" THEN "available" ELSE "failed"
  BY <1>5 DEF Validated, PipelineType
<1>7. pipelines' = IF pipelines[n].state = "none" /\ v = "PIPELINE_NAME_OCCUPIED" THEN pipelines
                   ELSE [pipelines EXCEPT ![n] = d]
  BY <1>1, <1>2, <1>3, <1>4, <1>5 DEF ProcessPipelineConfig, MakeSubscriptions, NodeModels
<1>8. pipelines \in [Names -> PipelineType] /\ graphs \in [Names -> GraphType] /\ job \in JobType
  BY DEF ServableInv, ServableTypes
<1>9. /\ pipelines' \in [Names -> PipelineType] /\ \A p \in Names \ {n} : pipelines'[p] = pipelines[p]
      /\ \/ pipelines'[n] = d /\ (v # "PIPELINE_NAME_OCCUPIED" \/ pipelines[n].state # "none")
         \/ pipelines'[n] = pipelines[n] /\ pipelines[n].state = "none"
  BY <1>6, <1>7, <1>8
<1>10. /\ job' \in JobType /\ job'.step = "pipelines" /\ job'.content = job.content
       /\ job'.gated = job.gated /\ job'.todo = rest /\ job'.names = job.names \cup {n}
  <2>1. job.names \cup {n} \in SUBSET Names
    BY <1>8 DEF JobType
  <2> QED BY <1>1, <1>8, <2>1 DEF JobType
<1>11. v # "PIPELINE_NAME_OCCUPIED" => ~Exists(n) /\ graphs[n].state = "none"
  BY <1>3, ValidPipeline
<1>12. OneServablePerName'
  BY <1>9, <1>11 DEF ServableInv, OneServablePerName, Exists, Occupied
<1>13. ASSUME NEW p \in Names, NEW m \in pipelines'[p].subs PROVE Exists(m)'
  BY <1>4, <1>6, <1>9 DEF ServableInv, Subscriptions, Exists
<1>14. Subscriptions'
  <2>1. ASSUME NEW p \in Names
        PROVE  pipelines'[p].dirty => pipelines'[p].state \in {"available", "failed"}
    BY <1>6, <1>9 DEF ServableInv, Subscriptions
  <2>2. ASSUME NEW p \in Names, p \in job'.names PROVE UpToDate(p)'
    <3>1. CASE p = n
      BY <1>4, <1>6, <1>9, <3>1 DEF UpToDate, Exists
    <3>2. CASE p # n
      BY <1>9, <1>10, <2>2, <3>2 DEF ServableInv, Subscriptions, UpToDate, Exists
    <3> QED BY <3>1, <3>2
  <2> QED BY <1>10, <1>13, <2>1, <2>2 DEF Subscriptions
<1>15. ServesFixedModels'
  <2> SUFFICES ASSUME NEW p \in Names, pipelines'[p].state = "available", NEW m \in Names,
                      m \in pipelines'[p].def.models
               PROVE  /\ Exists(m) /\ m \in pipelines'[p].subs
                      /\ Available(m) => ~models[m].config.dynamic
    BY DEF ServesFixedModels, Available, Exists
  <2>1. CASE pipelines'[p] = pipelines[p]
    BY <2>1 DEF ServableInv, ServesFixedModels
  <2>2. CASE p = n /\ pipelines'[n] = d
    <3>1. v = "OK" /\ m \in def.models /\ m \in Names
      BY <1>6, <2>2
    <3>2. Available(m) /\ ~models[m].config.dynamic
      BY <1>3, <3>1, ValidPipeline
    <3> QED BY <1>4, <1>6, <2>2, <3>1, <3>2 DEF Available, Exists
  <2> QED BY <1>9, <2>1, <2>2
<1> QED BY <1>8, <1>9, <1>10, <1>12, <1>14, <1>15, LaterSteps

\* loadPipelinesConfig: one pipeline, or the retirement of the others.
LEMMA LoadPipelineStep ==
  ASSUME ServableInv, NEW t \in Threads, LoadPipeline(t), settings' = settings
  PROVE  ServableInv'
<1>1. /\ job \in JobType /\ job.step = "pipelines" /\ job.todo \in Seq(Definitions)
      /\ job.content \in Files /\ pipelines \in [Names -> PipelineType]
      /\ graphs \in [Names -> GraphType] /\ UNCHANGED <<models, graphs, served>>
  BY DEF LoadPipeline, Loading, configVars, ServableInv, ServableTypes, Todo, LoadSteps
<1>2. CASE job.todo # <<>>
  <2>1. PICK def \in Definitions : def = Head(job.todo)
    BY <1>1, <1>2, FirstAndRest
  <2>2. PICK rest \in Seq(Definitions) : rest = Tail(job.todo)
    BY <1>1, <1>2, FirstAndRest
  <2>3. CASE def.name \in job.names
    <3>1. job' = [job EXCEPT !.todo = rest] /\ pipelines' = pipelines
      BY <1>2, <2>1, <2>2, <2>3 DEF LoadPipeline
    <3>2. /\ job' \in JobType /\ job'.step = "pipelines" /\ job'.content = job.content
          /\ job'.gated = job.gated /\ job'.todo = rest /\ job'.names = job.names
      BY <1>1, <3>1 DEF JobType
    <3>3. OneServablePerName' /\ Subscriptions' /\ ServesFixedModels'
      BY <1>1, <3>1, <3>2
      DEF ServableInv, OneServablePerName, Subscriptions, UpToDate, ServesFixedModels, Exists,
          Occupied, Available
    <3> QED BY <1>1, <3>1, <3>2, <3>3, LaterSteps
  <2>4. CASE def.name \notin job.names
    <3>1. PICK v \in Statuses : v = ValidatePipeline(def.name, def, def.library \subseteq libraries)
      BY ValidationStatuses
    <3>2. PICK s \in Statuses : s = First(job.status, v)
      BY <1>1, FirstStatus DEF JobType
    <3>3. /\ pipelines' = ProcessPipelineConfig(def)
          /\ job' = [job EXCEPT !.todo = rest, !.names = @ \cup {def.name}, !.status = s]
      BY <1>1, <1>2, <2>1, <2>2, <2>4, <3>1, <3>2 DEF LoadPipeline, JobType
    <3> QED BY <1>1, <2>4, <3>3, ProcessPipelineStep
  <2> QED BY <2>3, <2>4
<1>3. CASE job.todo = <<>>
  <2>1. PICK gs \in Seq(GraphEntries) : gs = ParseMediapipeConfig(Content(job.content))
    BY <1>1, ParsedGraphs
  <2>2. /\ pipelines' = RetireOtherPipelines(job.names)
        /\ job' = [job EXCEPT !.step = "graphs", !.names = {}, !.todo = gs]
    BY <1>3, <2>1 DEF LoadPipeline
  <2>3. /\ job' \in JobType /\ job'.step = "graphs" /\ job'.content = job.content
        /\ job'.gated = job.gated /\ job'.todo = gs
    BY <1>1, <2>2 DEF JobType, LoadSteps
  <2>4. ASSUME NEW p \in Names
        PROVE  /\ pipelines'[p] \in PipelineType
               /\ \/ pipelines'[p] = pipelines[p]
                     /\ (p \in job.names \/ pipelines[p].state \in {"none", "retired"})
                  \/ /\ pipelines'[p].state = "retired" /\ pipelines[p].state # "none"
                     /\ pipelines'[p].dirty = FALSE /\ pipelines'[p].subs = {}
    <3>1. pipelines[p] \in PipelineType
      BY <1>1
    <3>2. pipelines'[p] = IF p \in job.names \/ pipelines[p].state \in {"none", "retired"}
                          THEN pipelines[p]
                          ELSE [pipelines[p] EXCEPT !.state = "retired", !.dirty = FALSE, !.subs = {}]
      BY <2>2 DEF RetireOtherPipelines
    <3> QED BY <3>1, <3>2 DEF PipelineType
  <2>5. pipelines' \in [Names -> PipelineType]
    BY <2>2, <2>4 DEF RetireOtherPipelines
  <2>6. OneServablePerName'
    BY <1>1, <2>4 DEF ServableInv, OneServablePerName, Exists, Occupied
  <2>7. ServesFixedModels'
    BY <1>1, <2>4 DEF ServableInv, ServesFixedModels, Exists, Available
  <2>8. Subscriptions'
    <3>1. ASSUME NEW p \in Names PROVE UpToDate(p)'
      <4>1. CASE pipelines'[p] = pipelines[p] /\ p \in job.names
        BY <1>1, <4>1 DEF ServableInv, Subscriptions, UpToDate, Exists
      <4>2. CASE pipelines'[p].state \in {"none", "retired"}
        BY <4>2 DEF UpToDate
      <4> QED BY <2>4, <4>1, <4>2
    <3>2. ASSUME NEW p \in Names
          PROVE  /\ pipelines'[p].dirty => pipelines'[p].state \in {"available", "failed"}
                 /\ \A m \in pipelines'[p].subs : Exists(m)'
      BY <1>1, <2>4 DEF ServableInv, Subscriptions, Exists
    <3> QED BY <3>1, <3>2 DEF Subscriptions
  <2> QED BY <1>1, <2>3, <2>5, <2>6, <2>7, <2>8, LaterSteps
<1> QED BY <1>2, <1>3

\* loadMediapipeGraphsConfig.
LEMMA LoadGraphStep ==
  ASSUME ServableInv, NEW t \in Threads, LoadGraph(t), settings' = settings
  PROVE  ServableInv'
<1>1. /\ job \in JobType /\ job.step = "graphs" /\ job.todo \in Seq(GraphEntries)
      /\ job.content \in Files /\ pipelines \in [Names -> PipelineType]
      /\ graphs \in [Names -> GraphType] /\ UNCHANGED <<models, pipelines, served>>
  BY DEF LoadGraph, Loading, configVars, ServableInv, ServableTypes, Todo, LoadSteps
<1>2. ASSUME job'.step \in {"graphs", "gated"} PROVE Subscriptions' /\ ServesFixedModels'
  BY <1>1, <1>2
  DEF ServableInv, Subscriptions, UpToDate, ServesFixedModels, Exists, Available
<1>3. CASE job.todo # <<>>
  <2>1. PICK g \in GraphEntries : g = Head(job.todo)
    BY <1>1, <1>3, FirstAndRest
  <2>2. PICK rest \in Seq(GraphEntries) : rest = Tail(job.todo)
    BY <1>1, <1>3, FirstAndRest
  <2>3. CASE g.name \in job.names
    <3>1. job' = [job EXCEPT !.todo = rest] /\ graphs' = graphs
      BY <1>3, <2>1, <2>2, <2>3 DEF LoadGraph
    <3>2. /\ job' \in JobType /\ job'.step = "graphs" /\ job'.content = job.content
          /\ job'.gated = job.gated /\ job'.todo = rest
      BY <1>1, <3>1 DEF JobType
    <3>3. OneServablePerName'
      BY <1>1, <3>1 DEF ServableInv, OneServablePerName, Exists, Occupied
    <3> QED BY <1>1, <1>2, <3>1, <3>2, <3>3, LaterSteps
  <2>4. CASE g.name \notin job.names
    <3>1. PICK v \in Statuses : v = IF graphs' = graphs THEN "OK" ELSE ValidateGraph(g)
      BY ValidationStatuses DEF Statuses
    <3>2. PICK s \in Statuses : s = First(job.status, v)
      BY <1>1, FirstStatus DEF JobType
    <3>3. PICK n \in Names : n = g.name
      BY DEF GraphEntries
    <3>4. job' = [job EXCEPT !.todo = rest, !.names = @ \cup {n}, !.status = s]
      BY <1>1, <1>3, <2>1, <2>2, <2>4, <3>1, <3>2, <3>3 DEF LoadGraph, JobType
    <3>5. /\ job' \in JobType /\ job'.step = "graphs" /\ job'.content = job.content
          /\ job'.gated = job.gated /\ job'.todo = rest
      BY <1>1, <3>4 DEF JobType
    <3>6. PICK d : d = [state |-> IF ValidateGraph(g) = "OK" THEN "available" ELSE "failed", def |-> g]
      OBVIOUS
    <3>7. d \in GraphType
      BY <3>6 DEF GraphType
    <3>8. /\ graphs' = graphs \/ graphs' = [graphs EXCEPT ![n] = d]
          /\ graphs' = graphs \/ graphs[n].state # "none" \/ ValidateGraph(g) # "GRAPH_NAME_OCCUPIED"
      BY <1>1, <1>3, <2>1, <2>4, <3>3, <3>6 DEF LoadGraph, ProcessMediapipeConfig
    <3>9. graphs' \in [Names -> GraphType]
      BY <1>1, <3>7, <3>8
    <3>10. ValidateGraph(g) # "GRAPH_NAME_OCCUPIED" => ~Exists(n) /\ pipelines[n].state = "none"
      BY <3>3 DEF ValidateGraph
    <3>11. OneServablePerName'
      BY <1>1, <3>8, <3>10 DEF ServableInv, OneServablePerName, Exists, Occupied
    <3> QED BY <1>1, <1>2, <3>5, <3>9, <3>11, LaterSteps
  <2> QED BY <2>3, <2>4
<1>4. CASE job.todo = <<>>
  <2>1. graphs' = RetireOtherGraphs(job.names) /\ job' = [job EXCEPT !.step = "gated", !.todo = job.gated]
    BY <1>4 DEF LoadGraph
  <2>2. /\ job' \in JobType /\ job'.step = "gated" /\ job'.content = job.content
        /\ job'.gated = job.gated /\ job'.todo = job.gated
    BY <1>1, <2>1 DEF JobType, LoadSteps
  <2>3. ASSUME NEW n \in Names
        PROVE  graphs'[n] \in GraphType /\ (graphs'[n].state = "none" <=> graphs[n].state = "none")
    <3>1. graphs[n] \in GraphType
      BY <1>1
    <3>2. graphs'[n] = IF n \in job.names \/ graphs[n].state = "none" THEN graphs[n]
                       ELSE [graphs[n] EXCEPT !.state = "retired"]
      BY <2>1 DEF RetireOtherGraphs
    <3> QED BY <3>1, <3>2 DEF GraphType
  <2>4. graphs' \in [Names -> GraphType]
    BY <2>1, <2>3 DEF RetireOtherGraphs
  <2>5. OneServablePerName'
    BY <1>1, <2>3 DEF ServableInv, OneServablePerName, Exists, Occupied
  <2> QED BY <1>1, <1>2, <2>2, <2>4, <2>5, LaterSteps
<1> QED BY <1>3, <1>4

\* The reload of a model that exists, or of one that is refused or while there
\* is no other servable, when no load creates models.
LEMMA ReloadElsewhere ==
  ASSUME ServableInv, job.step \notin {"models", "pipelines"}, NEW n \in Names, NEW c \in Entries,
         ReloadModel(n, c), graphs' = graphs,
         Exists(n) \/ (c.stateful /\ c.dynamic) \/ \A m \in Names : ~Occupied(m)
  PROVE  /\ models' \in [Names -> ModelType] /\ pipelines' \in [Names -> PipelineType]
         /\ OneServablePerName' /\ Subscriptions' /\ ServesFixedModels'
         /\ \A m \in Names : Exists(m) => Exists(m)'
         /\ \A m \in Names : pipelines'[m].state = pipelines[m].state
<1>1. /\ models' \in [Names -> ModelType] /\ SamePipelines /\ ServesFixedModels'
      /\ \A m \in Names : Exists(m) => Exists(m)'
      /\ \A m \in Names \ {n} : models'[m] = models[m]
      /\ Exists(n)' => Exists(n) \/ ~(c.stateful /\ c.dynamic)
  BY ReloadsOne DEF ServableInv
<1>2. ASSUME NEW m \in Names, Exists(m)' PROVE Exists(m) \/ \A k \in Names : ~Occupied(k)
  BY <1>1, <1>2 DEF Exists
<1>3. OneServablePerName'
  BY <1>1, <1>2 DEF ServableInv, OneServablePerName, SamePipelines, Occupied
<1>4. Subscriptions'
  <2>1. ASSUME NEW p \in Names, NEW m \in pipelines'[p].subs PROVE Exists(m)'
    <3>1. m \in pipelines[p].subs /\ pipelines[p] \in PipelineType
      BY <1>1 DEF ServableInv, ServableTypes, SamePipelines
    <3>2. m \in Names /\ Exists(m)
      BY <3>1 DEF ServableInv, Subscriptions, PipelineType
    <3> QED BY <1>1, <3>2
  <2>2. ASSUME NEW p \in Names PROVE UpToDate(p)'
    <3>1. UpToDate(p)
      BY DEF ServableInv, Subscriptions
    <3>2. CASE pipelines[p].state = "none"
      BY <1>1, <3>2 DEF UpToDate, SamePipelines
    <3>3. CASE pipelines[p].state # "none"
      <4>1. \A m \in Names : Exists(m)' => Exists(m)
        BY <1>2, <3>3 DEF Occupied
      <4> QED BY <1>1, <3>1, <4>1 DEF UpToDate, SamePipelines
    <3> QED BY <3>2, <3>3
  <2> QED BY <1>1, <2>1, <2>2 DEF ServableInv, Subscriptions, SamePipelines
<1> QED BY <1>1, <1>3, <1>4 DEF SamePipelines

\* tryReloadGatedModelConfigs, one model.
LEMMA GatedStep ==
  ASSUME ServableInv, NEW t \in Threads, TryReloadGatedModelConfigs(t), job.todo # <<>>,
         settings.configPath, settings' = settings
  PROVE  ServableInv'
<1>1. /\ job \in JobType /\ job.step = "gated" /\ job.todo \in Seq(Entries) /\ graphs' = graphs
      /\ job.content \in Files
  BY DEF TryReloadGatedModelConfigs, Loading, ServableInv, ServableTypes, Todo, LoadSteps
<1>2. PICK c \in Entries : c = Head(job.todo)
  BY <1>1, FirstAndRest
<1>3. PICK rest \in Seq(Entries) : rest = Tail(job.todo)
  BY <1>1, FirstAndRest
<1>4. PICK n \in Names : n = c.name
  BY DEF Entries
<1>5. PICK s \in Statuses : s = First(job.status, ReloadStatus(n, c))
  BY <1>1, FirstStatus, ReloadStatuses DEF JobType
<1>6. /\ ReloadModel(n, c) /\ served' \in {served, [served EXCEPT ![n] = c]}
      /\ job' = [job EXCEPT !.todo = rest, !.status = s]
  BY <1>1, <1>2, <1>3, <1>4, <1>5 DEF TryReloadGatedModelConfigs, JobType
<1>7. \A i \in DOMAIN rest : \E j \in DOMAIN job.todo : rest[i] = job.todo[j]
  <2> DEFINE todo == job.todo
  <2>1. todo \in Seq(Entries) /\ todo # <<>> /\ rest = Tail(todo)
    BY <1>1, <1>3
  <2> HIDE DEF todo
  <2>2. /\ Len(todo) \in Nat \ {0} /\ DOMAIN todo = 1..Len(todo) /\ DOMAIN rest = 1..(Len(todo) - 1)
        /\ \A i \in 1..(Len(todo) - 1) : rest[i] = todo[i + 1]
    BY <2>1
  <2>3. \A i \in 1..(Len(todo) - 1) : i + 1 \in 1..Len(todo)
    BY <2>2
  <2> QED BY <2>2, <2>3 DEF todo
<1>8. \E j \in DOMAIN job.todo : c = job.todo[j]
  <2>1. 1 \in DOMAIN job.todo /\ Head(job.todo) = job.todo[1]
    BY <1>1
  <2> QED BY <1>2, <2>1
<1>9. Exists(n)
  BY <1>1, <1>4, <1>8 DEF ServableInv, KeptConfigs
<1>10. /\ models' \in [Names -> ModelType] /\ pipelines' \in [Names -> PipelineType]
       /\ OneServablePerName' /\ Subscriptions' /\ ServesFixedModels'
       /\ \A m \in Names : Exists(m) => Exists(m)'
  BY <1>1, <1>6, <1>9, ReloadElsewhere
<1>11. /\ job' \in JobType /\ job'.step = "gated" /\ job'.content = job.content
       /\ job'.gated = job.gated /\ job'.todo = rest
  BY <1>1, <1>6 DEF JobType
<1>12. served \in [Names -> Entries \cup {NoModel}] /\ served' \in [Names -> Entries \cup {NoModel}]
  BY <1>6 DEF ServableInv, ServableTypes
<1>13. ServableTypes' /\ Todo'
  BY <1>1, <1>10, <1>11, <1>12 DEF ServableInv, ServableTypes, Todo, LoadSteps
<1>14. KeptConfigs'
  <2>1. ASSUME NEW m \in Names PROVE Kept(served[m], m)'
    <3>1. Kept(served[m], m)
      BY DEF ServableInv, KeptConfigs
    <3> QED BY <1>6, <1>9, <1>10, <1>12, <3>1 DEF Kept
  <2>2. ASSUME NEW l \in Seq(Entries), NEW i \in DOMAIN l PROVE l[i].name \in Names
    <3>1. l[i] \in Entries
      OBVIOUS
    <3> QED BY <3>1 DEF Entries
  <2>3. \A i \in DOMAIN job.gated : models'[job.gated[i].name].state # "none"
    <3>1. job.gated \in Seq(Entries)
      BY <1>1 DEF JobType
    <3>2. \A i \in DOMAIN job.gated : job.gated[i].name \in Names
      BY <2>2, <3>1
    <3> QED BY <1>10, <3>2 DEF ServableInv, KeptConfigs, Exists
  <2>4. \A i \in DOMAIN rest : models'[rest[i].name].state # "none"
    BY <1>1, <1>7, <1>10, <2>2 DEF ServableInv, KeptConfigs, Exists
  <2> QED BY <1>11, <2>1, <2>3, <2>4 DEF KeptConfigs, Exists
<1>15. Progress'
  BY <1>1, <1>7, <1>11 DEF ServableInv, Progress, LoadSteps
<1> QED BY <1>10, <1>13, <1>14, <1>15 DEF ServableInv

-----------------------------------------------------------------------------
\* all steps of a load

\* loadConfig ends, for each of its callers.
LEMMA EndLoadJob ==
  ASSUME NEW t \in Threads, NEW s, EndLoad(t, s) PROVE job' \in {NoJob, NewUpdate}
BY DEF EndLoad, NewUpdate

\* After the end of a load its thread goes on in a way the other threads allow.
LEMMA EndLoadThreads ==
  ASSUME ThreadInv, NEW t \in Threads, Loading(t, job.step), NEW s, EndLoad(t, s),
         UNCHANGED <<settings, modules, accepting, cleaner, file>>
  PROVE  ThreadInv'
<1>1. /\ lock = t /\ at[t] = "load" /\ settings.configPath
  BY DEF Loading, ThreadInv, OnlyWithFile
<1>2. NewUpdate.step = "update"
  BY NewJobs
<1>3. CASE t = "watcher"
  <2>1. at' = [at EXCEPT ![t] = "update"] /\ lock' = t /\ job' = NewUpdate
    BY <1>3 DEF EndLoad, NewUpdate
  <2>2. "update" \in Steps
    BY DEF Steps, WatcherSteps
  <2> QED BY <1>1, <1>2, <1>3, <2>1, <2>2, HolderMoves
<1>4. CASE t = "rest"
  <2>1. PICK step \in {"updateWait", "idle"} : at' = [at EXCEPT ![t] = step]
    BY <1>4 DEF EndLoad
  <2>2. step \in Steps /\ lock' = "free" /\ job' = NoJob
    BY <1>4 DEF EndLoad, Steps, RestSteps
  <2> QED BY <1>1, <1>4, <2>1, <2>2, HolderMoves
<1>5. CASE t = "main"
  <2>1. PICK step \in {"started", "failed"} : at' = [at EXCEPT ![t] = step]
    BY <1>5 DEF EndLoad
  <2>2. step \in Steps /\ lock' = "free" /\ job' = NoJob
    BY <1>5 DEF EndLoad, Steps, MainSteps
  <2> QED BY <1>1, <1>5, <2>1, <2>2, HolderMoves
<1> QED BY <1>3, <1>4, <1>5 DEF Threads

\* A step within a load.
LEMMA LoadGoesOn ==
  ASSUME ThreadInv, NEW t \in Threads, Loading(t, job.step), UNCHANGED <<lock, at>>,
         job'.step \in LoadSteps, UNCHANGED <<settings, modules, accepting, cleaner, file>>
  PROVE  ThreadInv'
<1>1. lock = t /\ at[t] = "load" /\ settings.configPath
  BY DEF Loading, ThreadInv, OnlyWithFile
<1>2. at' = [at EXCEPT ![t] = "load"] /\ "load" \in Steps
  BY <1>1 DEF ThreadInv, ThreadTypes, Steps, MainSteps
<1> QED BY <1>1, <1>2, HolderMoves

\* Every step of loadConfig keeps the invariant.
LEMMA LoadStep ==
  ASSUME Inv, NEW t \in Threads, Load(t), UNCHANGED serverVars PROVE Inv'
<1>1. /\ ThreadInv /\ ServableInv /\ job \in JobType
      /\ UNCHANGED <<settings, modules, accepting, cleaner>>
  BY DEF Inv, ServableInv, ServableTypes, serverVars
<1>2. UNCHANGED <<file, broken, edits>>
  BY DEF Load, ParseConfigFailed, ParseConfig, LoadModel, LoadSubconfig,
         RetireModelsRemovedFromConfigFile, LoadPipeline, LoadGraph, TryReloadGatedModelConfigs,
         environmentVars
<1>3. CASE ParseConfigFailed(t)
  <2>1. /\ Loading(t, job.step) /\ job.step = "parse"
        /\ UNCHANGED <<served, models, pipelines, graphs>> /\ file \in Files
    BY <1>1, <1>3 DEF ParseConfigFailed, Loading, servableVars, ThreadInv, ThreadTypes
  <2>2. CASE job.tries + 1 < MaxReads
    <3>1. PICK f \in Files \cup {Unread} : job' = [job EXCEPT !.tries = @ + 1, !.content = f]
      BY <1>1, <1>3, <2>1, <2>2 DEF ParseConfigFailed, JobType
    <3>2. /\ job' \in JobType /\ job'.step = "parse" /\ job'.gated = job.gated
      <4>1. PICK k \in Nat : k = job.tries + 1
        BY <1>1 DEF JobType
      <4>2. job' = [job EXCEPT !.tries = k, !.content = f]
        BY <3>1, <4>1
      <4>3. job' \in JobType
        BY <1>1, <4>2 DEF JobType
      <4> QED BY <1>1, <2>1, <4>2, <4>3 DEF JobType
    <3>3. ServableInv'
      BY <1>1, <2>1, <3>2
      DEF ServableInv, ServableTypes, Todo, OneServablePerName, KeptConfigs, Kept, Subscriptions,
          UpToDate, ServesFixedModels, Progress, Exists, Occupied, Available, LoadSteps
    <3>4. ThreadInv'
      BY <1>1, <1>2, <1>3, <2>1, <2>2, <3>2, LoadGoesOn DEF ParseConfigFailed, LoadSteps
    <3> QED BY <3>3, <3>4 DEF Inv
  <2>3. CASE ~(job.tries + 1 < MaxReads)
    <3>1. PICK s : EndLoad(t, s)
      BY <1>3, <2>3 DEF ParseConfigFailed
    <3>2. ServableInv'
      BY <1>1, <2>1, <3>1, EndLoadJob, JobBetween DEF servableVars
    <3> QED BY <1>1, <1>2, <2>1, <3>1, <3>2, EndLoadThreads DEF Inv
  <2> QED BY <2>2, <2>3
<1>4. CASE ParseConfig(t)
  <2>1. /\ Loading(t, job.step) /\ job.step = "parse"
        /\ UNCHANGED <<served, models, pipelines, graphs>> /\ file \in Files
    BY <1>1, <1>4 DEF ParseConfig, Loading, servableVars, ThreadInv, ThreadTypes
  <2>2. ASSUME NEW s, EndLoad(t, s) PROVE Inv'
    <3>1. ServableInv'
      BY <1>1, <2>1, <2>2, EndLoadJob, JobBetween DEF servableVars
    <3> QED BY <1>1, <1>2, <2>1, <2>2, <3>1, EndLoadThreads DEF Inv
  <2>3. ASSUME NEW s \in Statuses, UNCHANGED <<lock, at>>,
               job' = [NoJob EXCEPT !.step = "models", !.content = file,
                         !.todo = Content(file).models,
                         !.subs = ParseMediapipeConfig(Content(file)), !.status = s]
        PROVE  Inv'
    <3>1. ServableInv'
      BY <1>1, <2>1, <2>3, ParseStep DEF servableVars
    <3>2. job'.step = "models"
      BY <2>3, NoJobType DEF JobType
    <3>3. ThreadInv'
      BY <1>1, <1>2, <2>1, <2>3, <3>2, LoadGoesOn DEF LoadSteps
    <3> QED BY <3>1, <3>3 DEF Inv
  <2>4. "OK" \in Statuses /\ "LOADER_INVALID" \in Statuses
    BY DEF Statuses
  <2> QED BY <1>4, <2>2, <2>3, <2>4 DEF ParseConfig
<1>5. CASE LoadModel(t)
  <2>1. Loading(t, job.step) /\ UNCHANGED <<lock, at>> /\ job.step = "models"
    BY <1>5 DEF LoadModel, Loading
  <2>2. job'.step = "models"
    BY <1>1, <1>5, <2>1 DEF LoadModel, JobType
  <2>3. ServableInv'
    BY <1>1, <1>5, LoadModelStep
  <2> QED BY <1>1, <1>2, <2>1, <2>2, <2>3, LoadGoesOn DEF Inv, LoadSteps
<1>6. CASE LoadSubconfig(t)
  <2>1. Loading(t, job.step) /\ UNCHANGED <<lock, at>> /\ job.step = "models"
    BY <1>6 DEF LoadSubconfig, Loading
  <2>2. job'.step \in {"models", "pipelines"}
    BY <1>1, <1>6, <2>1 DEF LoadSubconfig, JobType
  <2>3. ServableInv'
    BY <1>1, <1>6, SubconfigStep
  <2> QED BY <1>1, <1>2, <2>1, <2>2, <2>3, LoadGoesOn DEF Inv, LoadSteps
<1>7. CASE RetireModelsRemovedFromConfigFile(t)
  <2>1. Loading(t, job.step) /\ UNCHANGED <<lock, at>> /\ job.step = "models"
    BY <1>7 DEF RetireModelsRemovedFromConfigFile, Loading
  <2>2. job'.step = "pipelines"
    BY <1>1, <1>7, <2>1 DEF RetireModelsRemovedFromConfigFile, JobType
  <2>3. ServableInv'
    BY <1>1, <1>7, RetireStep
  <2> QED BY <1>1, <1>2, <2>1, <2>2, <2>3, LoadGoesOn DEF Inv, LoadSteps
<1>8. CASE LoadPipeline(t)
  <2>1. Loading(t, job.step) /\ UNCHANGED <<lock, at>> /\ job.step = "pipelines"
    BY <1>8 DEF LoadPipeline, Loading
  <2>2. job'.step \in {"pipelines", "graphs"}
    BY <1>1, <1>8, <2>1 DEF LoadPipeline, JobType
  <2>3. ServableInv'
    BY <1>1, <1>8, LoadPipelineStep
  <2> QED BY <1>1, <1>2, <2>1, <2>2, <2>3, LoadGoesOn DEF Inv, LoadSteps
<1>9. CASE LoadGraph(t)
  <2>1. Loading(t, job.step) /\ UNCHANGED <<lock, at>> /\ job.step = "graphs"
    BY <1>9 DEF LoadGraph, Loading
  <2>2. job'.step \in {"graphs", "gated"}
    BY <1>1, <1>9, <2>1 DEF LoadGraph, JobType
  <2>3. ServableInv'
    BY <1>1, <1>9, LoadGraphStep
  <2> QED BY <1>1, <1>2, <2>1, <2>2, <2>3, LoadGoesOn DEF Inv, LoadSteps
<1>10. CASE TryReloadGatedModelConfigs(t)
  <2>1. Loading(t, job.step) /\ job.step = "gated" /\ settings.configPath
    BY <1>1, <1>10 DEF TryReloadGatedModelConfigs, Loading, ThreadInv, OnlyWithFile
  <2>2. CASE job.todo # <<>>
    <3>1. UNCHANGED <<lock, at>> /\ job'.step = "gated"
      BY <1>1, <1>10, <2>1, <2>2 DEF TryReloadGatedModelConfigs, JobType
    <3>2. ServableInv'
      BY <1>1, <1>10, <2>1, <2>2, GatedStep
    <3> QED BY <1>1, <1>2, <2>1, <3>1, <3>2, LoadGoesOn DEF Inv, LoadSteps
  <2>3. CASE job.todo = <<>>
    <3>1. EndLoad(t, job.status) /\ UNCHANGED <<served, models, pipelines, graphs>>
      BY <1>10, <2>3 DEF TryReloadGatedModelConfigs
    <3>2. ServableInv'
      BY <1>1, <2>1, <3>1, EndLoadJob, JobBetween DEF servableVars
    <3> QED BY <1>1, <1>2, <2>1, <3>1, <3>2, EndLoadThreads DEF Inv
  <2> QED BY <2>2, <2>3
<1> QED BY <1>3, <1>4, <1>5, <1>6, <1>7, <1>8, <1>9, <1>10 DEF Load

-----------------------------------------------------------------------------
\* updates

\* updateConfigurationWithoutConfigFile, one served model.
LEMMA UpdateModelStep ==
  ASSUME Inv, NEW t \in Threads, UpdateModel(t), UNCHANGED serverVars PROVE Inv'
<1>1. /\ ThreadInv /\ ServableInv /\ job \in JobType /\ lock = t /\ at[t] = "update"
      /\ job.step = "update" /\ UNCHANGED <<settings, modules, accepting, cleaner, file>>
      /\ UNCHANGED <<md5, served, graphs, lock, at>>
  BY DEF Inv, ServableInv, ServableTypes, serverVars, UpdateModel, ThreadInv, Locking, configVars,
         environmentVars
<1>2. PICK n \in job.names : ReloadModel(n, served[n]) /\ job' = [job EXCEPT !.names = @ \ {n}]
  BY DEF UpdateModel
<1>3. PICK c \in Entries : c = served[n]
  BY <1>1 DEF ServableInv, Todo
<1>4. n \in Names /\ c # NoModel
  <2>1. c.parsed \in BOOLEAN /\ DOMAIN c # {"name"}
    BY DEF Entries
  <2>2. DOMAIN NoModel = {"name"}
    BY DEF NoModel
  <2> QED BY <1>1, <2>1, <2>2 DEF JobType
<1>5. Exists(n) \/ (c.stateful /\ c.dynamic) \/ \A m \in Names : ~Occupied(m)
  BY <1>1, <1>3, <1>4 DEF ThreadInv, OnlyWithFile, ServableInv, KeptConfigs, Kept
<1>6. /\ models' \in [Names -> ModelType] /\ pipelines' \in [Names -> PipelineType]
      /\ OneServablePerName' /\ Subscriptions' /\ ServesFixedModels'
      /\ \A m \in Names : Exists(m) => Exists(m)'
      /\ \A m \in Names : pipelines'[m].state = pipelines[m].state
  <2>1. Subscriptions
    BY <1>1 DEF ServableInv
  <2> QED BY <1>1, <1>2, <1>3, <1>4, <1>5, ReloadElsewhere
<1>7. /\ job' \in JobType /\ job'.step = "update" /\ job'.gated = job.gated
      /\ job'.names = job.names \ {n}
  BY <1>1, <1>2 DEF JobType
<1>8. ServableTypes' /\ Todo'
  BY <1>1, <1>6, <1>7 DEF ServableInv, ServableTypes, Todo, LoadSteps
<1>9. KeptConfigs'
  <2>1. ASSUME NEW i \in DOMAIN job.gated PROVE job.gated[i].name \in Names
    <3>1. job.gated[i] \in Entries
      BY <1>1 DEF JobType
    <3> QED BY <3>1 DEF Entries
  <2>2. \A i \in DOMAIN job.gated : settings.configPath => models'[job.gated[i].name].state # "none"
    BY <1>1, <1>6, <2>1 DEF ServableInv, KeptConfigs, Exists
  <2>3. \A m \in Names : settings.configPath => Kept(served[m], m)'
    <3> SUFFICES ASSUME NEW m \in Names, settings.configPath PROVE Kept(served[m], m)'
      OBVIOUS
    <3>1. Kept(served[m], m)
      BY <1>1 DEF ServableInv, KeptConfigs
    <3> QED BY <1>1, <1>6, <3>1 DEF Kept
  <2> QED BY <1>1, <1>7, <2>2, <2>3 DEF KeptConfigs, Exists
<1>10. Progress'
  BY <1>7 DEF Progress, LoadSteps
<1>11. ServableInv'
  BY <1>6, <1>8, <1>9, <1>10 DEF ServableInv
<1>12. ~settings.configPath => \A m \in Names : ~Occupied(m)'
  BY <1>1, <1>6 DEF ThreadInv, OnlyWithFile, Occupied
<1>13. at' = [at EXCEPT ![t] = "update"] /\ "update" \in Steps
  BY <1>1 DEF ThreadInv, ThreadTypes, Steps, WatcherSteps
<1>14. ThreadInv'
  BY <1>1, <1>7, <1>12, <1>13, HolderMoves
<1> QED BY <1>11, <1>14 DEF Inv

\* revalidatePipelines.
LEMMA EndUpdateStep ==
  ASSUME Inv, NEW t \in Threads, EndUpdate(t), UNCHANGED serverVars PROVE Inv'
<1>1. /\ ThreadInv /\ ServableInv /\ lock = t /\ at[t] = "update" /\ job.step = "update"
      /\ UNCHANGED <<settings, modules, accepting, cleaner, file>>
      /\ UNCHANGED <<md5, served, models, graphs>>
      /\ job' = NoJob /\ lock' = "free" /\ at' = [at EXCEPT ![t] = "idle"]
      /\ pipelines' = RevalidatePipelines /\ pipelines \in [Names -> PipelineType]
  BY DEF Inv, ServableInv, ServableTypes, serverVars, EndUpdate, ThreadInv, Locking, configVars,
         environmentVars
<1>2. ASSUME NEW p \in Names
      PROVE  /\ pipelines'[p] \in PipelineType
             /\ pipelines'[p].state = "none" <=> pipelines[p].state = "none"
             /\ pipelines'[p].def = pipelines[p].def /\ pipelines'[p].subs = pipelines[p].subs
             /\ \/ pipelines'[p] = pipelines[p]
                \/ /\ pipelines'[p].dirty = FALSE /\ pipelines[p].state \in {"available", "failed"}
                   /\ pipelines'[p].state = "available" =>
                        \A m \in pipelines[p].def.models : Available(m) /\ ~models[m].config.dynamic
  <2>1. PICK d \in PipelineType : d = pipelines[p]
    BY <1>1
  <2>2. PICK v : v = ValidatePipeline(p, d.def, d.bound)
    OBVIOUS
  <2>3. pipelines'[p] = IF d.dirty THEN Validated(d, v) ELSE d
    BY <1>1, <2>1, <2>2 DEF RevalidatePipelines
  <2>4. d.dirty => d.state \in {"available", "failed"}
    BY <1>1, <2>1 DEF ServableInv, Subscriptions
  <2>5. v = "OK" => \A m \in d.def.models : Available(m) /\ ~models[m].config.dynamic
    BY <2>2, ValidPipeline
  <2>6. /\ Validated(d, v) \in PipelineType /\ Validated(d, v).dirty = FALSE
        /\ Validated(d, v).def = d.def /\ Validated(d, v).subs = d.subs
        /\ Validated(d, v).state = IF v = "OK" THEN "available" ELSE "failed"
    BY DEF Validated, PipelineType
  <2> QED BY <2>1, <2>3, <2>4, <2>5, <2>6
<1>3. pipelines' \in [Names -> PipelineType]
  BY <1>1, <1>2 DEF RevalidatePipelines
<1>4. /\ job' \in JobType /\ job'.step = "none" /\ DOMAIN job'.gated = {}
  BY <1>1, NoJobType
<1>5. ServableTypes' /\ Todo' /\ KeptConfigs' /\ Progress'
  BY <1>1, <1>3, <1>4
  DEF ServableInv, ServableTypes, Todo, KeptConfigs, Kept, Progress, LoadSteps, Exists
<1>6. OneServablePerName'
  BY <1>1, <1>2 DEF ServableInv, OneServablePerName, Exists, Occupied
<1>7. \A p \in Names : UpToDate(p)
  BY <1>1 DEF ServableInv, Subscriptions
<1>8. Subscriptions'
  <2>1. ASSUME NEW p \in Names PROVE UpToDate(p)'
    BY <1>1, <1>2, <1>7 DEF UpToDate, Exists
  <2>2. ASSUME NEW p \in Names
        PROVE  /\ pipelines'[p].dirty => pipelines'[p].state \in {"available", "failed"}
               /\ \A m \in pipelines'[p].subs : Exists(m)'
    BY <1>1, <1>2 DEF ServableInv, Subscriptions, Exists
  <2> QED BY <2>1, <2>2 DEF Subscriptions
<1>9. ServesFixedModels'
  <2> SUFFICES ASSUME NEW p \in Names, pipelines'[p].state = "available", NEW m \in Names,
                      m \in pipelines'[p].def.models
               PROVE  /\ Exists(m) /\ m \in pipelines'[p].subs
                      /\ Available(m) => ~models[m].config.dynamic
    BY <1>1 DEF ServesFixedModels, Available, Exists
  <2>1. CASE pipelines'[p] = pipelines[p]
    BY <1>1, <2>1 DEF ServableInv, ServesFixedModels
  <2>2. CASE pipelines'[p] # pipelines[p]
    <3>1. /\ m \in pipelines[p].def.models /\ pipelines[p].state \in {"available", "failed"}
          /\ Available(m) /\ ~models[m].config.dynamic
      BY <1>2, <2>2
    <3>2. Exists(m)
      BY <3>1 DEF Available, Exists
    <3> QED BY <1>2, <1>7, <3>1, <3>2 DEF UpToDate
  <2> QED BY <2>1, <2>2
<1>10. ServableInv'
  BY <1>5, <1>6, <1>8, <1>9 DEF ServableInv
<1>11. ~settings.configPath => \A m \in Names : ~Occupied(m)'
  BY <1>1, <1>2 DEF ThreadInv, OnlyWithFile, Occupied
<1>12. t \in {"watcher", "rest"} /\ "idle" \in Steps
  BY <1>1 DEF ThreadInv, ThreadTypes, MainSteps, Threads, Steps, WatcherSteps
<1>13. ThreadInv'
  BY <1>1, <1>11, <1>12, HolderMoves
<1> QED BY <1>10, <1>13 DEF Inv

-----------------------------------------------------------------------------
\* starts

\* A thread gets configMtx for a load or an update.
LEMMA StartsStep ==
  ASSUME Inv, StartFromFile \/ WatcherRound \/ RestProceeds PROVE Inv'
<1>1. /\ ThreadInv /\ ServableInv /\ lock = "free" /\ job = NoJob
      /\ UNCHANGED <<settings, modules, accepting, cleaner, file, md5, served, models, pipelines, graphs>>
  BY DEF Inv, ThreadInv, Locking, StartFromFile, WatcherRound, Watcher, RestProceeds,
         ConfigReloadProceeds, serverVars, configVars, servableVars, environmentVars
<1>2. PICK t \in Threads :
         /\ StartLoad(t) \/ StartUpdate(t)
         /\ \/ t = "main" /\ at[t] = "servables" /\ settings.configPath /\ StartLoad(t)
            \/ t = "watcher" /\ at[t] = "idle" /\ (StartLoad(t) => settings.configPath)
            \/ t = "rest" /\ at[t] = "loadWait" /\ StartLoad(t)
            \/ t = "rest" /\ at[t] = "updateWait" /\ StartUpdate(t)
  <2>1. \A t \in Threads : StartUpdate(t) => ~StartLoad(t)
    BY NewJobs, NoJobType DEF StartLoad, StartUpdate, JobType, NewLoad
  <2>2. CASE StartFromFile
    BY <2>2 DEF StartFromFile, Threads
  <2>3. CASE WatcherRound
    BY <2>1, <2>3 DEF WatcherRound, Watcher, Threads
  <2>4. CASE RestProceeds
    BY <2>4 DEF RestProceeds, ConfigReloadProceeds, Threads
  <2> QED BY <2>2, <2>3, <2>4
<1>3. /\ StartLoad(t) => job' = NewLoad
      /\ StartUpdate(t) => job' = NewUpdate
  BY <1>1 DEF StartLoad, StartUpdate, NewLoad, NewUpdate
<1>4. job'.step = IF StartLoad(t) THEN "parse" ELSE "update"
  BY <1>2, <1>3, NewJobs
<1>5. ThreadInv'
  BY <1>1, <1>2, <1>4, HolderStarts
<1>6. job.step = "none"
  BY <1>1, NoJobType
<1>7. ServableInv'
  BY <1>1, <1>2, <1>3, <1>6, JobBetween DEF servableVars
<1> QED BY <1>5, <1>7 DEF Inv

\* Without a configuration file there is no load.
LEMMA NoLoad ==
  ASSUME ThreadInv, ~settings.configPath
  PROVE  job.step \in {"none", "update"} /\ \A n \in Names : ~Occupied(n)
BY NoJobType DEF ThreadInv, ThreadTypes, Locking, OnlyWithFile

\* The model of the command line is an entry like those of a file.
LEMMA CommandLineEntry ==
  ASSUME settings \in CommandLines
  PROVE  /\ settings.model \in Names /\ CommandLineModel \in Entries
         /\ [CommandLineModel EXCEPT !.version = 0] \in Entries
BY CommandLinesAssumption DEF CommandLineModel, Entries

\* startFromConfig, which runs beside REST updates without configMtx.
LEMMA StartFromConfigStep ==
  ASSUME Inv, StartFromConfig \/ StartFromConfigParsed \/ StartFromConfigLoads PROVE Inv'
<1>1. /\ ThreadInv /\ ServableInv /\ ~settings.configPath /\ settings \in CommandLines
      /\ at["main"] \in {"servables", "parseConfig", "loadModel"}
      /\ UNCHANGED <<settings, modules, accepting, cleaner, file, md5, graphs, lock, job>>
  BY DEF Inv, ThreadInv, ThreadTypes, OnlyWithFile, StartFromConfig, StartFromConfigParsed,
         StartFromConfigLoads, serverVars, configVars, servableVars, environmentVars
<1>2. PICK n \in Names : n = settings.model
  BY <1>1, CommandLineEntry
<1>3. PICK c \in Entries : c = CommandLineModel
  BY <1>1, CommandLineEntry
<1>4. job.step \in {"none", "update"} /\ \A m \in Names : ~Occupied(m)
  BY <1>1, NoLoad
<1>5. /\ served' \in [Names -> Entries \cup {NoModel}]
      /\ \A m \in Names : served[m] \in Entries => served'[m] \in Entries
  <2>1. \/ served' = served \/ served' = [served EXCEPT ![n] = c]
        \/ served' = [served EXCEPT ![n] = [CommandLineModel EXCEPT !.version = 0]]
    BY <1>2, <1>3 DEF StartFromConfig, StartFromConfigParsed, StartFromConfigLoads, configVars
  <2> QED BY <1>1, <2>1, CommandLineEntry DEF ServableInv, ServableTypes
<1>6. /\ models' \in [Names -> ModelType] /\ pipelines' \in [Names -> PipelineType]
      /\ OneServablePerName' /\ Subscriptions' /\ ServesFixedModels'
      /\ \A m \in Names : pipelines'[m].state = pipelines[m].state
  <2>1. CASE UNCHANGED servableVars
    BY <1>1, <2>1
    DEF servableVars, ServableInv, ServableTypes, OneServablePerName, Subscriptions, UpToDate,
        ServesFixedModels, Exists, Occupied, Available
  <2>2. CASE StartFromConfigLoads
    <3>1. ReloadModel(n, c)
      BY <1>2, <1>3, <2>2 DEF StartFromConfigLoads
    <3> QED BY <1>1, <1>4, <3>1, ReloadElsewhere
  <2> QED BY <2>1, <2>2 DEF StartFromConfig, StartFromConfigParsed
<1>7. ServableInv'
  <2>1. ServableTypes' /\ Todo'
    BY <1>1, <1>4, <1>5, <1>6 DEF ServableInv, ServableTypes, Todo, LoadSteps, JobType
  <2>2. KeptConfigs' /\ Progress'
    BY <1>1, <1>4 DEF KeptConfigs, Progress, LoadSteps
  <2> QED BY <1>6, <2>1, <2>2 DEF ServableInv
<1>8. PICK step \in {"parseConfig", "loadModel", "failed", "started"} : at' = [at EXCEPT !["main"] = step]
  BY DEF StartFromConfig, StartFromConfigParsed, StartFromConfigLoads, Go
<1>9. \A m \in Names : ~Occupied(m)'
  BY <1>1, <1>4, <1>6 DEF Occupied
<1>10. ThreadInv'
  BY <1>1, <1>8, <1>9
  DEF ThreadInv, ThreadTypes, Locking, OnlyWithFile, Stops, Started, Steps, MainSteps, Threads
<1> QED BY <1>7, <1>10 DEF Inv

-----------------------------------------------------------------------------
\* the invariant

\* The invariant holds when the process starts.
LEMMA InitInv == Init => Inv
<1> SUFFICES ASSUME Init PROVE Inv
  OBVIOUS
<1>1. /\ job = NoJob /\ lock = "free" /\ served = [n \in Names |-> NoModel]
      /\ models = [n \in Names |-> [state |-> "none", config |-> NoModel, stateful |-> FALSE]]
      /\ pipelines = [n \in Names |-> [state |-> "none", dirty |-> FALSE, def |-> NoModel,
                                       bound |-> FALSE, subs |-> {}]]
      /\ graphs = [n \in Names |-> [state |-> "none", def |-> NoModel]]
      /\ md5 = Unread /\ file \in Files /\ settings \in CommandLines
      /\ modules = [m \in Modules |-> "none"]
  BY ContentsAssumption DEF Init, InitManager
<1>2. /\ at \in [Threads -> Steps] /\ at["main"] = "off" /\ at["watcher"] = "none"
      /\ at["rest"] = "idle"
  BY DEF Init, Threads, Steps, MainSteps, WatcherSteps, RestSteps
<1>3. /\ models \in [Names -> ModelType] /\ pipelines \in [Names -> PipelineType]
      /\ graphs \in [Names -> GraphType]
  BY <1>1 DEF ModelType, PipelineType, GraphType
<1>4. \A n \in Names : /\ ~Exists(n) /\ ~Occupied(n) /\ pipelines[n].state = "none"
                       /\ pipelines[n].dirty = FALSE /\ pipelines[n].subs = {}
  BY <1>1 DEF Exists, Occupied
<1>5. job.step = "none" /\ DOMAIN job.gated = {} /\ job \in JobType
  BY <1>1, NoJobType
<1>6. ServableInv
  <2>1. ServableTypes /\ Todo
    BY <1>1, <1>3, <1>5 DEF ServableTypes, Todo, LoadSteps
  <2>2. OneServablePerName /\ KeptConfigs /\ Progress
    BY <1>1, <1>4, <1>5 DEF OneServablePerName, KeptConfigs, Kept, Progress, LoadSteps
  <2>3. Subscriptions /\ ServesFixedModels
    BY <1>4, <1>5 DEF Subscriptions, UpToDate, ServesFixedModels
  <2> QED BY <2>1, <2>2, <2>3 DEF ServableInv
<1>7. ThreadTypes
  BY <1>1, <1>2 DEF ThreadTypes, MainSteps, WatcherSteps, RestSteps
<1>8. ThreadInv
  BY <1>1, <1>2, <1>4, <1>7
  DEF ThreadInv, Locking, OnlyWithFile, Stops, Started, Threads, Modules
<1> QED BY <1>6, <1>8 DEF Inv

\* Every step of every thread keeps the invariant.
LEMMA StepInv == Inv /\ [Next]_vars => Inv'
<1> SUFFICES ASSUME Inv, [Next]_vars PROVE Inv'
  OBVIOUS
<1>1. CASE UNCHANGED vars
  <2>1. UNCHANGED <<configVars, servableVars, lock, job, settings, at, modules, accepting, cleaner, file>>
    BY <1>1 DEF vars, managerVars, serverVars, environmentVars
  <2>2. ServableInv'
    BY <2>1, QuietServables DEF Inv
  <2>3. ThreadInv'
    BY <2>1
    DEF Inv, ThreadInv, ThreadTypes, Locking, OnlyWithFile, Stops, Occupied, configVars, servableVars
  <2> QED BY <2>2, <2>3 DEF Inv
<1>2. CASE Quiet
  <2>1. UNCHANGED <<configVars, servableVars, lock, job, settings>>
    BY <1>2, QuietFrame
  <2> QED BY <1>2, <2>1, QuietServables, QuietThreads DEF Inv
<1>3. CASE StartFromFile \/ WatcherRound \/ RestProceeds
  BY <1>3, StartsStep
<1>4. CASE StartFromConfig \/ StartFromConfigParsed \/ StartFromConfigLoads
  BY <1>4, StartFromConfigStep
<1>5. ASSUME NEW t \in Threads, ManagerStep(t) PROVE Inv'
  BY <1>5, LoadStep, UpdateModelStep, EndUpdateStep DEF ManagerStep, Update
<1> QED BY <1>1, <1>2, <1>3, <1>4, <1>5 DEF Next, Main, Quiet

\* The invariant holds in every state of every behaviour.
LEMMA Invariance == Spec => []Inv
BY InitInv, StepInv, PTL DEF Spec

-----------------------------------------------------------------------------
\* results

\* join and the shutdown order of the modules (server.cpp): the servable
\* manager is destroyed when no request, watcher or cleaner can use it, after
\* any start, failed or not, and with any number of reloads in progress.
THEOREM ManagerOutlives == Spec => []ManagerOutlivesUsers
<1>1. Inv => ManagerOutlivesUsers
  BY DEF Inv, ThreadInv, Stops, ManagerOutlivesUsers
<1> QED BY <1>1, Invariance, PTL

\* isAnyVersionSubscribed and the validation of pipelines: no pipeline that
\* takes requests uses an automatic model, whatever files are loaded and
\* whichever load or update is half way.
THEOREM FixedModels == Spec => []NoAutoModelInPipeline
<1>1. Inv => NoAutoModelInPipeline
  BY DEF Inv, ServableInv, ServesFixedModels, NoAutoModelInPipeline
<1> QED BY <1>1, Invariance, PTL

\* modelExists, pipelineDefinitionExists and mediapipeGraphExists, which loads
\* ask in different orders: a name never belongs to two servables.
THEOREM OneServable == Spec => []OneServablePerName
<1>1. Inv => OneServablePerName
  BY DEF Inv, ServableInv
<1> QED BY <1>1, Invariance, PTL

\* The thread that loads or updates is the one that holds configMtx, and the
\* load in progress is its own.
THEOREM OneLoader == Spec => []Locking
<1>1. Inv => Locking
  BY DEF Inv, ThreadInv
<1> QED BY <1>1, Invariance, PTL

\* A step takes a model out of service only for its own entry in the file.
LEMMA StepKeeps ==
  ASSUME Inv, Next, NEW n \in Names, Available(n), models'[n].state = "unloaded"
  PROVE  LET entries == {e \in Listed(Content(job.content)) : e.name = n /\ e.parsed}
         IN  \/ job.step = "update" /\ ~(served[n].loader \subseteq loaders)
             \/ job.step = "models" /\ entries = {}
             \/ /\ job.step \in {"models", "gated"}
                /\ \E e \in entries : ~(e.loader \subseteq loaders)
<1> DEFINE entries == {e \in Listed(Content(job.content)) : e.name = n /\ e.parsed}
<1>1. /\ ThreadInv /\ ServableInv /\ ServableTypes /\ Subscriptions /\ ServesFixedModels
      /\ job \in JobType
  BY DEF Inv, ServableInv, ServableTypes
<1>2. models' # models
  BY DEF Available
<1>3. ASSUME NEW m \in Names, NEW c \in Entries, ReloadModel(m, c)
      PROVE  m = n /\ ~(c.loader \subseteq loaders)
  <2>1. /\ \A k \in Names \ {m} : models'[k] = models[k]
        /\ Available(m) /\ models'[m].state = "unloaded" => ~(c.loader \subseteq loaders)
    BY <1>1, <1>3, ReloadsOne
  <2> QED BY <2>1 DEF Available
<1>4. ASSUME NEW c \in Entries, c \in Listed(Content(job.content)), c.parsed, ReloadModel(c.name, c)
      PROVE  \E e \in entries : ~(e.loader \subseteq loaders)
  <2>1. c.name \in Names
    BY DEF Entries
  <2>2. c.name = n /\ ~(c.loader \subseteq loaders)
    BY <1>3, <1>4, <2>1
  <2> QED BY <1>4, <2>2
<1>5. ASSUME NEW t \in Threads, LoadModel(t)
      PROVE  job.step = "models" /\ \E e \in entries : ~(e.loader \subseteq loaders)
  <2>1. job.step = "models" /\ job.todo # <<>> /\ job.todo \in Seq(Entries)
    BY <1>1, <1>5 DEF LoadModel, Loading, ServableInv, Todo
  <2>2. PICK c \in Entries : c = Head(job.todo)
    BY <2>1, FirstAndRest
  <2>3. c.parsed /\ c.plugin /\ ReloadModel(c.name, c)
    BY <1>2, <1>5, <2>2 DEF LoadModel
  <2>4. c \in Listed(Content(job.content))
    BY <1>1, <2>1, <2>2, <2>3, ReachedRest DEF ServableInv, Progress
  <2> QED BY <1>4, <2>1, <2>3, <2>4
<1>6. ASSUME NEW t \in Threads, RetireModelsRemovedFromConfigFile(t)
      PROVE  job.step = "models" /\ entries = {}
  <2>1. /\ job.step = "models" /\ job.todo = <<>> /\ job.subs = <<>>
        /\ models'[n] # models[n] /\ (models'[n] # models[n] => n \in RemovedModels(job.names))
    BY <1>6 DEF RetireModelsRemovedFromConfigFile, Loading, Available
  <2>2. Exists(n) /\ n \notin job.names
    BY <2>1 DEF RemovedModels
  <2>3. Reached(job.todo) = {} /\ DOMAIN job.subs = {}
    BY <2>1 DEF Reached
  <2>4. \A e : e.name = n => ~ComesTo(e)
    BY <2>2, <2>3 DEF ComesTo
  <2>5. \A e \in Listed(Content(job.content)) : e.parsed /\ Exists(e.name) => ComesTo(e)
    BY <1>1, <2>1 DEF ServableInv, Progress
  <2> QED BY <2>1, <2>2, <2>4, <2>5
<1>7. ASSUME NEW t \in Threads, TryReloadGatedModelConfigs(t)
      PROVE  job.step = "gated" /\ \E e \in entries : ~(e.loader \subseteq loaders)
  <2>1. job.step = "gated" /\ job.todo # <<>> /\ job.todo \in Seq(Entries)
    BY <1>1, <1>2, <1>7 DEF TryReloadGatedModelConfigs, Loading, ServableInv, Todo
  <2>2. PICK c \in Entries : c = Head(job.todo)
    BY <2>1, FirstAndRest
  <2>3. ReloadModel(c.name, c)
    BY <1>7, <2>1, <2>2 DEF TryReloadGatedModelConfigs
  <2>4. 1 \in DOMAIN job.todo /\ c = job.todo[1]
    BY <2>1, <2>2
  <2>5. c.parsed /\ c \in Listed(Content(job.content))
    BY <1>1, <2>1, <2>4 DEF ServableInv, Progress
  <2> QED BY <1>4, <2>1, <2>3, <2>5
<1>8. ASSUME NEW t \in Threads, UpdateModel(t)
      PROVE  job.step = "update" /\ ~(served[n].loader \subseteq loaders)
  <2>1. PICK m \in job.names : ReloadModel(m, served[m])
    BY <1>8 DEF UpdateModel
  <2>2. job.step = "update"
    BY <1>1, <1>8 DEF UpdateModel, ThreadInv, Locking
  <2>3. m \in Names /\ served[m] \in Entries
    BY <1>1, <2>2 DEF ServableInv, Todo, JobType
  <2>4. m = n /\ ~(served[m].loader \subseteq loaders)
    BY <1>3, <2>1, <2>3
  <2> QED BY <2>2, <2>4
<1>9. ~StartFromConfigLoads
  <2> SUFFICES ASSUME StartFromConfigLoads PROVE FALSE
    OBVIOUS
  <2>1. settings.model \in Names /\ CommandLineModel \in Entries
    BY <1>1, CommandLineEntry DEF ThreadInv, ThreadTypes
  <2>2. ~(CommandLineModel.loader \subseteq loaders)
    BY <1>3, <2>1 DEF StartFromConfigLoads
  <2> QED BY <2>2 DEF CommandLineModel
<1>10. ~Quiet
  BY <1>2, QuietFrame DEF servableVars
<1>11. ~StartFromFile /\ ~WatcherRound /\ ~RestProceeds /\ ~StartFromConfig /\ ~StartFromConfigParsed
  BY <1>2 DEF StartFromFile, WatcherRound, Watcher, RestProceeds, ConfigReloadProceeds,
              StartFromConfig, StartFromConfigParsed, servableVars
<1>12. PICK t \in Threads : ManagerStep(t)
  BY <1>9, <1>10, <1>11 DEF Next, Main, Quiet
<1>13. \/ LoadModel(t) \/ RetireModelsRemovedFromConfigFile(t) \/ TryReloadGatedModelConfigs(t)
       \/ UpdateModel(t)
  BY <1>2, <1>12
  DEF ManagerStep, Load, Update, EndUpdate, ParseConfigFailed, ParseConfig, LoadSubconfig,
      LoadPipeline, LoadGraph, servableVars
<1> QED BY <1>5, <1>6, <1>7, <1>8, <1>13

\* loadModels, retireModelsRemovedFromConfigFile, tryReloadGatedModelConfigs
\* and the updates: a model that is served stays in service unless its own
\* entry is the reason.
THEOREM KeepsOthers == Spec => OthersKept
<1>1. ASSUME NEW n \in Names, Inv, [Next]_vars, Available(n), models'[n].state = "unloaded"
      PROVE  LET entries == {e \in Listed(Content(job.content)) : e.name = n /\ e.parsed}
             IN  \/ job.step = "update" /\ ~(served[n].loader \subseteq loaders)
                 \/ job.step = "models" /\ entries = {}
                 \/ /\ job.step \in {"models", "gated"}
                    /\ \E e \in entries : ~(e.loader \subseteq loaders)
  <2>1. models' # models
    BY <1>1 DEF Available
  <2>2. Next
    BY <1>1, <2>1 DEF vars, managerVars, servableVars
  <2> QED BY <1>1, <2>2, StepKeeps
<1> DEFINE A == \A n \in Names :
       Available(n) /\ models'[n].state = "unloaded"
       => LET entries == {e \in Listed(Content(job.content)) : e.name = n /\ e.parsed}
          IN \/ job.step = "update" /\ ~(served[n].loader \subseteq loaders)
             \/ job.step = "models" /\ entries = {}
             \/ /\ job.step \in {"models", "gated"}
                /\ \E e \in entries : ~(e.loader \subseteq loaders)
<1>2. Inv /\ [Next]_vars => [A]_vars
  BY <1>1
<1> QED BY <1>2, Invariance, PTL DEF Spec, OthersKept

=============================================================================
