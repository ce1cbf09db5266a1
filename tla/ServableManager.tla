--------------------------- MODULE ServableManager ---------------------------
(***************************************************************************)
(* How the configuration file becomes the set of servables: ModelManager's *)
(* loadConfig and updateConfigurationWithoutConfigFile (modelmanager.cpp), *)
(* the pipeline and graph factories, the custom loaders and the custom     *)
(* node libraries.                                                         *)
(*                                                                         *)
(* The thread that starts the server, the watcher and a REST config reload *)
(* run these under configMtx, one servable at a time, while the file and   *)
(* the repositories change.  What happens to the versions of one model is  *)
(* in ModelVersions, to a pipeline and its requests in PipelineDefinition; *)
(* here a model is loaded or not, and a pipeline is valid or not.          *)
(***************************************************************************)
EXTENDS Integers, Sequences, FiniteSets, SequencesExt

CONSTANTS Names,         \* names of servables: models, pipelines and graphs
          Contents,      \* Contents[f]: what the configuration file f says
          FirstFiles,    \* the files a server may be started with
          Fragile,       \* models whose base path comes and goes
          MaxEdits       \* bound on changes of the file and the repositories

(* A section of a configuration file is {} when it is absent and {s} when  *)
(* its value is s.                                                         *)
Files == DOMAIN Contents
NoModel == [name |-> "none"]

\* The entries of the file: models, pipelines and graphs.
Entries == [name : Names, version : Nat, parsed : BOOLEAN, plugin : BOOLEAN, dynamic : BOOLEAN,
            stateful : BOOLEAN, loader : SUBSET STRING]
Definitions == [name : Names, models : SUBSET Names, library : SUBSET STRING]
GraphEntries == [name : Names, parsed : BOOLEAN, valid : BOOLEAN,
                 subconfig : {"none", "ok", "invalid"}, models : Seq(Entries)]

ASSUME ContentsAssumption ==
  /\ FirstFiles \subseteq Files
  /\ \A f \in Files : /\ Contents[f].models \in Seq(Entries)
                     /\ Contents[f].pipelines \in Seq(Definitions)
                     /\ Contents[f].graphs \in Seq(GraphEntries)

Unread == "unread"

Ok(s) == s \in {"OK", "OK_RELOADED"}
Gated == {"REQUESTED_DYNAMIC_PARAMETERS_ON_SUBSCRIBED_MODEL",
          "REQUESTED_STATEFUL_PARAMETERS_ON_SUBSCRIBED_MODEL"}

VARIABLES
  file,         \* the content of the configuration file
  broken,       \* models whose base path is not there
  md5,          \* lastConfigFileMD5: the content it was computed from
  metrics,      \* metricConfigLoadedOnce
  lastStatus,   \* lastLoadConfigStatus
  loaders,      \* customLoaderInterfacePtrs
  libraries,    \* custom node libraries
  served,       \* servedModelConfigs: the entry of each name, or NoModel
  models,       \* each Model: [state, config]; state none: no such object
  pipelines,    \* each definition: [state, dirty, def, bound, subs]
  graphs,       \* each definition: [state, def]
  lock,         \* the owner of configMtx, or "free"
  at,           \* where each thread is
  job,          \* local variables of the load or update in progress
  edits

servableVars == <<models, pipelines, graphs>>
configVars == <<md5, metrics, lastStatus, loaders, libraries, served>>
managerVars == <<configVars, servableVars, lock, at, job>>
environmentVars == <<file, broken, edits>>

Threads == {"main", "watcher", "rest"}

NoJob == [step |-> "none", tries |-> 0, content |-> Unread, todo |-> <<>>, subs |-> <<>>,
          gated |-> <<>>, new |-> [n \in Names |-> NoModel], names |-> {}, invalid |-> {},
          status |-> "OK"]

-----------------------------------------------------------------------------
(* What a configuration file says. *)

Content(f) == Contents[f]

\* The graphs up to the first whose node cannot be parsed.
ParseMediapipeConfig(c) ==
  LET g == c.graphs
      bad == {i \in DOMAIN g : ~g[i].parsed}
  IN  IF bad = {} THEN g
      ELSE SubSeq(g, 1, (CHOOSE i \in bad : \A j \in bad : i <= j) - 1)

\* The first error wins; a status that is no error does not count.
First(a, b) == IF Ok(a) /\ ~Ok(b) THEN b ELSE a

\* CustomLoaders: a listed loader that is there is moved to the new list as it
\* is, a new one is added when it can be opened, and finalize drops the rest.
KeepsLoader(c, old, l) == l \in old \/ l \in c.opens

\* loadCustomLoadersConfig with createCustomLoader.  Without the section
\* nothing changes.
LoadCustomLoaders(c, old) ==
  IF c.loaders = {} THEN old ELSE {l \in UNION c.loaders : KeepsLoader(c, old, l)}

\* loadLibrary: one with the same name and path is kept as it is, a new one
\* has to have every symbol; unloadLibrariesRemovedFromConfig drops the rest.
KeepsLibrary(c, old, l) == l \in old \/ l \in c.opens

\* loadCustomNodeLibrariesConfig.
LoadCustomNodeLibraries(c, old) ==
  IF c.libraries = {} THEN old ELSE {l \in UNION c.libraries : KeepsLibrary(c, old, l)}

-----------------------------------------------------------------------------
(* A model: reloadModelWithVersions, its versions taken together. *)

Exists(n) == models[n].state # "none"
Subscribed(n) == \E p \in Names : n \in pipelines[p].subs

\* checkStatefulFlagChange: the flag the Model object was created with.
TypeChanges(n, c) == Exists(n) /\ models[n].stateful # c.stateful

ReloadStatus(n, c) ==
  CASE c.stateful /\ c.dynamic ->
         "REQUESTED_DYNAMIC_PARAMETERS_ON_STATEFUL_MODEL"
    [] ~(c.stateful /\ c.dynamic) /\ TypeChanges(n, c) ->
         "REQUESTED_MODEL_TYPE_CHANGE"
    [] ~TypeChanges(n, c) /\ Subscribed(n) /\ c.dynamic /\ ~c.stateful ->
         "REQUESTED_DYNAMIC_PARAMETERS_ON_SUBSCRIBED_MODEL"
    [] ~TypeChanges(n, c) /\ Subscribed(n) /\ c.stateful /\ ~c.dynamic ->
         "REQUESTED_STATEFUL_PARAMETERS_ON_SUBSCRIBED_MODEL"
    [] OTHER ->
         IF n \in broken THEN "PATH_INVALID"
         ELSE IF \/ ~(c.loader \subseteq loaders)
                 \/ models[n].state = "available" /\ models[n].config = c
              THEN "OK" ELSE "OK_RELOADED"

\* The model after reloadModelWithVersions.  An unknown custom loader retires
\* every version and is no error.
Reloaded(n, c) ==
  LET status == ReloadStatus(n, c)
      created == IF Exists(n) THEN models[n]
                 ELSE [state |-> "unloaded", config |-> NoModel, stateful |-> c.stateful]
  IN  CASE status \in {"OK", "OK_RELOADED"} ->
             IF c.loader \subseteq loaders
             THEN [created EXCEPT !.state = "available", !.config = c]
             ELSE [created EXCEPT !.state = "unloaded"]
        [] status = "PATH_INVALID" -> created
        [] OTHER -> models[n]

\* The pipelines after the changes of models ms: the subscribers are told.
Notified(ms) ==
  [p \in Names |->
     IF pipelines[p].state \in {"available", "failed"} /\ pipelines[p].subs \cap ms # {}
     THEN [pipelines[p] EXCEPT !.dirty = TRUE] ELSE pipelines[p]]

\* The steps of a reload of n with c.
ReloadModel(n, c) ==
  /\ models' = [models EXCEPT ![n] = Reloaded(n, c)]
  /\ pipelines' = IF models' = models THEN pipelines ELSE Notified({n})

-----------------------------------------------------------------------------
(* Pipelines and graphs. *)

NodeModels(def) == def.models

\* Mutant: a reload keeps no subscriptions.
MakeSubscriptionsNot(def) == {}

\* makeSubscriptions: to the models that exist.
MakeSubscriptions(def) == {m \in NodeModels(def) : Exists(m)}

\* PipelineDefinition::validate, as far as other servables matter.
ValidatePipeline(n, def, bound) ==
  IF Exists(n) \/ graphs[n].state # "none" THEN "PIPELINE_NAME_OCCUPIED"
  ELSE IF /\ bound
          /\ \A m \in NodeModels(def) : models[m].state = "available" /\ ~models[m].config.dynamic
       THEN "OK" ELSE "PIPELINE_INVALID"

Validated(d, status) ==
  [d EXCEPT !.state = IF status = "OK" THEN "available" ELSE "failed", !.dirty = FALSE]

\* createDefinition or reload: a new definition whose name is taken is not
\* kept, and its subscriptions go.
ProcessPipelineConfig(def) ==
  LET bound == def.library \subseteq libraries
      status == ValidatePipeline(def.name, def, bound)
      d == [state |-> "begin", dirty |-> FALSE, def |-> def, bound |-> bound,
            subs |-> MakeSubscriptions(def)]
  IN  IF pipelines[def.name].state = "none" /\ status = "PIPELINE_NAME_OCCUPIED"
      THEN pipelines
      ELSE [pipelines EXCEPT ![def.name] = Validated(d, status)]

\* PipelineFactory::retireOtherThan, PipelineDefinition::retire.
RetireOtherPipelines(names) ==
  [n \in Names |->
     IF n \in names \/ pipelines[n].state \in {"none", "retired"} THEN pipelines[n]
     ELSE [pipelines[n] EXCEPT !.state = "retired", !.dirty = FALSE, !.subs = {}]]

\* revalidatePipelines: those a notification has marked.
RevalidatePipelines ==
  [n \in Names |->
     IF pipelines[n].dirty
     THEN Validated(pipelines[n], ValidatePipeline(n, pipelines[n].def, pipelines[n].bound))
     ELSE pipelines[n]]

\* MediapipeGraphDefinition::validate, as far as other servables matter.
ValidateGraph(g) ==
  IF Exists(g.name) \/ pipelines[g.name].state # "none" THEN "GRAPH_NAME_OCCUPIED"
  ELSE IF g.valid THEN "OK" ELSE "GRAPH_INVALID"

\* processMediapipeConfig: created, or reloaded when it was retired or its
\* configuration or graph file has changed.  A graph that failed is not
\* validated again.
ProcessMediapipeConfig(g) ==
  LET status == ValidateGraph(g)
      d == [state |-> IF status = "OK" THEN "available" ELSE "failed", def |-> g]
      old == graphs[g.name]
  IN  IF \/ old.state = "none" /\ status # "GRAPH_NAME_OCCUPIED"
         \/ old.state = "retired"
         \/ old.state \in {"available", "failed"} /\ old.def # g
      THEN [graphs EXCEPT ![g.name] = d] ELSE graphs

RetireOtherGraphs(names) ==
  [n \in Names |-> IF n \in names \/ graphs[n].state = "none" THEN graphs[n]
                   ELSE [graphs[n] EXCEPT !.state = "retired"]]

-----------------------------------------------------------------------------

InitManager ==
  /\ file \in FirstFiles
  /\ broken = {}
  /\ md5 = Unread /\ metrics = FALSE /\ lastStatus = "OK"
  /\ loaders = {} /\ libraries = {}
  /\ served = [n \in Names |-> NoModel]
  /\ models = [n \in Names |-> [state |-> "none", config |-> NoModel, stateful |-> FALSE]]
  /\ pipelines = [n \in Names |-> [state |-> "none", dirty |-> FALSE, def |-> NoModel,
                                   bound |-> FALSE, subs |-> {}]]
  /\ graphs = [n \in Names |-> [state |-> "none", def |-> NoModel]]
  /\ lock = "free"
  /\ job = NoJob
  /\ edits = 0

\* The configuration file and the repositories change at any time.
Environment ==
  /\ edits < MaxEdits
  /\ edits' = edits + 1
  /\ \/ file' \in Files \ {file} /\ UNCHANGED broken
     \/ \E n \in Fragile : /\ broken' = IF n \in broken THEN broken \ {n} ELSE broken \cup {n}
                           /\ UNCHANGED file
  /\ UNCHANGED managerVars

-----------------------------------------------------------------------------
(* loadConfig.  The caller holds configMtx and is at "load".               *)

Loading(t, step) == lock = t /\ at[t] = "load" /\ job.step = step

\* The end of loadConfig for each of its callers: startFromFile fails on some
\* errors only, the watcher goes on under the same lock, the REST handler
\* gives the lock up and stops at any error.
StartFails(status) == status \in {"CONFIG_FILE_INVALID", "JSON_INVALID", "METRICS_INVALID"}

EndLoad(t, status) ==
  /\ job' = IF t = "watcher" THEN [NoJob EXCEPT !.step = "update",
                                    !.names = {n \in Names : served'[n] # NoModel}]
            ELSE NoJob
  /\ at' = [at EXCEPT ![t] = CASE t = "watcher" -> "update"
                               [] t = "rest"    -> IF Ok(status) THEN "updateWait" ELSE "idle"
                               [] OTHER         -> IF StartFails(status) THEN "failed"
                                                   ELSE "started"]
  /\ lock' = IF t = "watcher" THEN t ELSE "free"

\* parseConfig: the file is read up to three times, with a pause after each
\* failure.  The checksum is that of the last content read, good or bad.
MaxReads == 3

ParseConfigFailed(t) ==
  LET kind == Content(file).kind
      status == IF kind = "missing" THEN "CONFIG_FILE_INVALID" ELSE "JSON_INVALID"
      read == IF kind = "missing" THEN job.content ELSE file
  IN  /\ Loading(t, "parse")
      /\ kind \in {"missing", "unparsable"}
      /\ UNCHANGED <<metrics, loaders, libraries, served, servableVars, environmentVars>>
      /\ IF job.tries + 1 < MaxReads
         THEN /\ job' = [job EXCEPT !.tries = @ + 1, !.content = read]
              /\ UNCHANGED <<md5, lastStatus, at, lock>>
         ELSE /\ md5' = read
              /\ lastStatus' = status
              /\ EndLoad(t, status)

\* The file is read; then the schema, the metrics (once per server) and the
\* custom loaders.  An error in the metrics is not remembered.
ParseConfig(t) ==
  LET c == Content(file) IN
  /\ Loading(t, "parse")
  /\ c.kind \in {"ok", "badSchema"}
  /\ md5' = file
  /\ UNCHANGED <<libraries, served, servableVars, environmentVars>>
  /\ IF c.kind = "badSchema"
     THEN /\ lastStatus' = "JSON_INVALID"
          /\ EndLoad(t, "JSON_INVALID")
          /\ UNCHANGED <<metrics, loaders>>
     ELSE IF ~metrics /\ ~c.metrics
     THEN /\ EndLoad(t, "METRICS_INVALID")
          /\ UNCHANGED <<metrics, loaders, lastStatus>>
     ELSE /\ metrics' = TRUE
          /\ loaders' = LoadCustomLoaders(c, loaders)
          /\ job' = [NoJob EXCEPT !.step = "models", !.content = file, !.todo = c.models,
                       !.subs = ParseMediapipeConfig(c),
                       !.status = IF UNION c.loaders \subseteq loaders' THEN "OK"
                                  ELSE "LOADER_INVALID"]
          /\ UNCHANGED <<lastStatus, at, lock>>

\* The name of a model is taken, also by a retired definition.
Occupied(n) == pipelines[n].state # "none" \/ graphs[n].state # "none"

\* loadModels, one entry: an entry that does not parse is left out, one with
\* a wrong plugin configuration ends the list, a name in use is skipped, and
\* a refused one waits for the pipelines if its model was served before.
LoadModel(t) ==
  LET c == Head(job.todo)
      n == c.name
      status == ReloadStatus(n, c)
      next == [job EXCEPT !.todo = Tail(@)]
      Skip(s) == [next EXCEPT !.status = First(@, s)]
  IN
  /\ Loading(t, "models") /\ job.todo # <<>>
  /\ \/ /\ ~c.parsed
        /\ job' = [Skip("MODEL_CONFIG_INVALID") EXCEPT !.invalid = @ \cup {n}]
        /\ UNCHANGED <<served, models, pipelines>>
     \/ /\ c.parsed /\ ~c.plugin
        /\ job' = [Skip("PLUGIN_CONFIG_INVALID") EXCEPT !.todo = <<>>]
        /\ UNCHANGED <<served, models, pipelines>>
     \/ /\ c.parsed /\ c.plugin
        /\ Occupied(n) \/ n \in job.names
        /\ job' = Skip("MODEL_NAME_OCCUPIED")
        /\ UNCHANGED <<served, models, pipelines>>
     \/ /\ c.parsed /\ c.plugin
        /\ ~Occupied(n) /\ n \notin job.names
        /\ ReloadModel(n, c)
        /\ IF status \in Gated
           THEN /\ served' = [served EXCEPT ![n] = NoModel]
                /\ job' = IF served[n] = NoModel
                          THEN [Skip(status) EXCEPT !.names = @ \cup {n}]
                          ELSE [Skip(status) EXCEPT !.names = @ \cup {n},
                                  !.gated = Append(@, c), !.new[n] = served[n]]
           ELSE /\ job' = [Skip(status) EXCEPT !.names = @ \cup {n}, !.new[n] = c]
                /\ UNCHANGED served
  /\ UNCHANGED <<md5, metrics, lastStatus, loaders, libraries, graphs, lock, at,
                 environmentVars>>

\* The models of the next graph's subconfig.  An invalid subconfig leaves
\* servedModelConfigs as it is and retires nothing.
LoadSubconfig(t) ==
  LET g == Head(job.subs) IN
  /\ Loading(t, "models") /\ job.todo = <<>> /\ job.subs # <<>>
  /\ IF g.subconfig = "invalid"
     THEN /\ libraries' = LoadCustomNodeLibraries(Content(job.content), libraries)
          /\ job' = [job EXCEPT !.step = "pipelines", !.todo = Content(job.content).pipelines,
                       !.names = {}, !.subs = <<>>, !.status = First(@, "JSON_INVALID")]
     ELSE /\ job' = [job EXCEPT !.subs = Tail(@), !.todo = g.models]
          /\ UNCHANGED libraries
  /\ UNCHANGED <<md5, metrics, lastStatus, loaders, served, servableVars, lock, at,
                 environmentVars>>

\* Mutant: the models of the subconfigs are forgotten.
RemovedModelsOfMain(names) ==
  {n \in Names : Exists(n)} \ {e.name : e \in Range(Content(job.content).models)}

\* The models that are loaded and not among those of the file.
RemovedModels(names) == {n \in Names : Exists(n)} \ names

\* servedModelConfigs is replaced and retireModelsRemovedFromConfigFile
\* retires, or cleans up, every version of the others; then the libraries.
RetireModelsRemovedFromConfigFile(t) ==
  LET removed == RemovedModels(job.names) IN
  /\ Loading(t, "models") /\ job.todo = <<>> /\ job.subs = <<>>
  /\ served' = job.new
  /\ models' = [n \in Names |-> IF n \in removed THEN [models[n] EXCEPT !.state = "unloaded"]
                                ELSE models[n]]
  /\ pipelines' = Notified(removed)
  /\ libraries' = LoadCustomNodeLibraries(Content(job.content), libraries)
  /\ job' = [job EXCEPT !.step = "pipelines", !.todo = Content(job.content).pipelines,
               !.names = {}]
  /\ UNCHANGED <<md5, metrics, lastStatus, loaders, graphs, lock, at, environmentVars>>

\* loadPipelinesConfig: one pipeline, or after the last the retirement of
\* those not in the file.
LoadPipeline(t) ==
  /\ Loading(t, "pipelines")
  /\ \/ /\ job.todo # <<>>
        /\ LET def == Head(job.todo)
               status == ValidatePipeline(def.name, def, def.library \subseteq libraries)
           IN  IF def.name \in job.names
               THEN /\ job' = [job EXCEPT !.todo = Tail(@)]
                    /\ UNCHANGED pipelines
               ELSE /\ pipelines' = ProcessPipelineConfig(def)
                    /\ job' = [job EXCEPT !.todo = Tail(@), !.names = @ \cup {def.name},
                                 !.status = First(@, status)]
     \/ /\ job.todo = <<>>
        /\ pipelines' = RetireOtherPipelines(job.names)
        /\ job' = [job EXCEPT !.step = "graphs", !.names = {},
                     !.todo = ParseMediapipeConfig(Content(job.content))]
  /\ UNCHANGED <<configVars, models, graphs, lock, at, environmentVars>>

\* loadMediapipeGraphsConfig.
LoadGraph(t) ==
  /\ Loading(t, "graphs")
  /\ \/ /\ job.todo # <<>>
        /\ LET g == Head(job.todo) IN
           IF g.name \in job.names
           THEN /\ job' = [job EXCEPT !.todo = Tail(@)]
                /\ UNCHANGED graphs
           ELSE /\ graphs' = ProcessMediapipeConfig(g)
                /\ job' = [job EXCEPT !.todo = Tail(@), !.names = @ \cup {g.name},
                             !.status = First(@, IF graphs' = graphs THEN "OK"
                                                 ELSE ValidateGraph(g))]
     \/ /\ job.todo = <<>>
        /\ graphs' = RetireOtherGraphs(job.names)
        /\ job' = [job EXCEPT !.step = "gated", !.todo = job.gated]
  /\ UNCHANGED <<configVars, models, pipelines, lock, at, environmentVars>>

\* tryReloadGatedModelConfigs: one more try, now that pipelines may have let
\* go of the model; and the end of loadConfig.
TryReloadGatedModelConfigs(t) ==
  /\ Loading(t, "gated")
  /\ \/ /\ job.todo # <<>>
        /\ LET c == Head(job.todo)
               status == ReloadStatus(c.name, c)
           IN  /\ ReloadModel(c.name, c)
               /\ served' = IF Ok(status) /\ served[c.name] # NoModel
                            THEN [served EXCEPT ![c.name] = c] ELSE served
               /\ job' = [job EXCEPT !.todo = Tail(@), !.status = First(@, status)]
        /\ UNCHANGED <<lastStatus, at, lock>>
     \/ /\ job.todo = <<>>
        /\ lastStatus' = job.status
        /\ UNCHANGED <<served, models, pipelines>>
        /\ EndLoad(t, job.status)
  /\ UNCHANGED <<md5, metrics, loaders, libraries, graphs, environmentVars>>

Load(t) ==
  \/ ParseConfigFailed(t) \/ ParseConfig(t) \/ LoadModel(t) \/ LoadSubconfig(t)
  \/ RetireModelsRemovedFromConfigFile(t) \/ LoadPipeline(t) \/ LoadGraph(t)
  \/ TryReloadGatedModelConfigs(t)

-----------------------------------------------------------------------------
(* updateConfigurationWithoutConfigFile. *)

\* One served model, in any order (servedModelConfigs is a hash table) ...
UpdateModel(t) ==
  /\ lock = t /\ at[t] = "update"
  /\ \E n \in job.names :
       /\ ReloadModel(n, served[n])
       /\ job' = [job EXCEPT !.names = @ \ {n}]
  /\ UNCHANGED <<configVars, graphs, lock, at, environmentVars>>

\* ... and after the last the pipelines; graphs are not validated again.
EndUpdate(t) ==
  /\ lock = t /\ at[t] = "update" /\ job.names = {}
  /\ pipelines' = RevalidatePipelines
  /\ job' = NoJob
  /\ at' = [at EXCEPT ![t] = "idle"]
  /\ lock' = "free"
  /\ UNCHANGED <<configVars, models, graphs, environmentVars>>

Update(t) == UpdateModel(t) \/ EndUpdate(t)

-----------------------------------------------------------------------------
(* The callers. *)

StartUpdate(t) ==
  /\ lock' = t
  /\ at' = [at EXCEPT ![t] = "update"]
  /\ job' = [NoJob EXCEPT !.step = "update", !.names = {n \in Names : served[n] # NoModel}]

StartLoad(t) ==
  /\ lock' = t
  /\ at' = [at EXCEPT ![t] = "load"]
  /\ job' = [NoJob EXCEPT !.step = "parse"]

\* configFileReloadNeeded.
ReloadNeeded == Content(file).kind # "missing" /\ md5 # file

\* Mutant: after a load that failed the file is not looked at again.
WatcherNotAgain(watched) ==
  /\ lock = "free" /\ at["watcher"] = "idle"
  /\ IF watched /\ ReloadNeeded /\ lastStatus = "OK" THEN StartLoad("watcher")
     ELSE StartUpdate("watcher")
  /\ UNCHANGED <<configVars, servableVars, environmentVars>>

\* watcher: one round.
Watcher(watched) ==
  /\ lock = "free" /\ at["watcher"] = "idle"
  /\ IF watched /\ ReloadNeeded THEN StartLoad("watcher") ELSE StartUpdate("watcher")
  /\ UNCHANGED <<configVars, servableVars, environmentVars>>

\* processConfigReloadRequest: configFileReloadNeeded gives the lock up, and
\* the load that follows asks for it again.  Without a configuration file,
\* or when the last load was good, only the versions are looked at.
ConfigReloadRequest ==
  /\ at["rest"] = "idle"
  /\ \/ /\ md5 # Unread /\ lock = "free" /\ Content(file).kind = "missing"
        /\ UNCHANGED at
     \/ /\ md5 # Unread /\ lock = "free" /\ Content(file).kind # "missing"
        /\ at' = [at EXCEPT !["rest"] = IF ReloadNeeded \/ ~Ok(lastStatus) THEN "loadWait"
                                        ELSE "updateWait"]
     \/ /\ md5 = Unread
        /\ at' = [at EXCEPT !["rest"] = "updateWait"]
  /\ UNCHANGED <<configVars, servableVars, lock, job, environmentVars>>

ConfigReloadProceeds ==
  /\ lock = "free"
  /\ \/ at["rest"] = "loadWait" /\ StartLoad("rest")
     \/ at["rest"] = "updateWait" /\ StartUpdate("rest")
  /\ UNCHANGED <<configVars, servableVars, environmentVars>>

=============================================================================
