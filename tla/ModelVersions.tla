---------------------------- MODULE ModelVersions ----------------------------
(***************************************************************************)
(* The versions of one model: class Model (src/model.cpp) and the part of  *)
(* ModelManager that lists the model repository, applies the version       *)
(* policy and adds, reloads, retires and cleans up versions                *)
(* (src/modelmanager.cpp), on top of the file systems.                     *)
(*                                                                         *)
(* The manager thread applies a configuration, from the configuration file *)
(* or from the watcher's periodic check, one version at a time.  Meanwhile *)
(* the repository changes file by file, custom loaders come and go, and a  *)
(* request reloads a version with another shape in its own thread.         *)
(***************************************************************************)
EXTENDS Integers, Sequences, FiniteSets, SequencesExt, FileSystems

CONSTANTS Versions,      \* version numbers, below 100
          Bases,         \* base paths (the last part of each)
          ModelFiles,    \* files (relative paths) a version needs
          Accepted,      \* names that S3 and GCS downloads accept
          FS,            \* file systems the repository may be on
          Settings,      \* Settings[c]: what the configuration c of the model says
          Repository,    \* content of the repository at the start
          MaxEdits,      \* bound on changes of the repository and the loader
          MaxConfigs,    \* bound on configuration changes
          MaxFaults      \* bound on failed loads, downloads and reloads

\* A version policy as it is written; "absent" if there is none.
Policies == [kind : {"absent", "all", "latest", "specific"}, n : Nat, versions : SUBSET Nat]

Configs == DOMAIN Settings

SettingsType ==
  [base : Bases, policy : Policies, layout : Nat, other : Nat, stateful : BOOLEAN,
   dynamic : BOOLEAN, lowLatency : BOOLEAN, loader : BOOLEAN, idle : BOOLEAN]

NoConfig == "none"

ASSUME ConstantsAssumption ==
  /\ Versions \subseteq 1..99
  /\ FS \subseteq Backends
  /\ \A c \in Configs : Settings[c] \in SettingsType /\ c # NoConfig
  /\ MaxEdits \in Nat /\ MaxConfigs \in Nat /\ MaxFaults \in Nat

VARIABLES
  fs,           \* the file system
  store,        \* the keys of the repository
  loader,       \* the custom loader is registered
  blacklist,    \* versions the custom loader blacklists
  served,       \* configuration in servedModelConfigs, or "none"
  type,         \* the type of the Model object; "none": no such model yet
  inst,         \* modelVersions: each version's [state, error, config,
                \* net, files]: where its network was read, its local copy
  default,      \* defaultVersion
  viewer,       \* versions whose sequences the cleaner thread looks after
  local,        \* local[v]: files of v in the local path of the configuration
  pc,           \* where the manager thread is
  config,       \* the configuration it applies
  avail,        \* availableVersions, which are in the order of their names
  queue,        \* versions of the current batch still to be processed
  toStart, toReload, toRetire, toCleanup,
  failed,       \* versionsFailed, in the order of the failures
  allFailed,    \* allFailedVersions
  reloading,    \* versions that requests are reloading (loadingMutex held)
  edits, changes, faults

managerVars == <<pc, config, avail, queue, toStart, toReload, toRetire, toCleanup,
                 failed, allFailed>>
repositoryVars == <<fs, store, loader, blacklist>>
boundVars == <<edits, changes, faults>>
vars == <<repositoryVars, served, type, inst, default, viewer, local, managerVars,
          reloading, boundVars>>

States == {"none", "LOADING", "AVAILABLE", "UNLOADING", "END"}

-----------------------------------------------------------------------------
(* The repository. *)

Path(b) == <<"models", b>>

\* What may be in the repository at any time.
Keys ==
  Repository \cup {Path(b) \o <<v>> \o f : b \in Bases, v \in Versions, f \in ModelFiles}

IsPath(p) == Len(p) \in Nat /\ p = [i \in 1..Len(p) |-> p[i]]

\* Nothing is below a file.
Tree(S) == \A k \in S : IsPath(k) /\ Len(k) # 0 /\ (IsFile(k) => Under(S, k) = {})

\* A version is a directory, and the files it needs are at most one directory
\* deep and have names that are downloaded.
ASSUME RepositoryAssumption ==
  /\ IsFiniteSet(Repository)
  /\ Tree(Keys)
  /\ \A b \in Bases, v \in Versions : Append(Path(b), v) \notin Keys
  /\ \A g \in ModelFiles :
       IsPath(g) /\ Len(g) \in 1..2 /\ IsFile(g) /\ g[Len(g)] \in Accepted

\* files_list_t is a set of strings: "10" comes before "2".
NameLess(a, b) ==
  LET Padded(n) == IF n < 10 THEN 10 * n ELSE n IN
  Padded(a) < Padded(b) \/ (Padded(a) = Padded(b) /\ a < b)

\* readAvailableVersions: subdirectories whose name is a positive number.
ReadAvailableVersions(b) ==
  {n \in DirectorySubdirs(fs, store, Path(b)) : n \in Nat /\ n > 0}

\* parseModelVersionPolicy.  The schema of the file lets no other policy through.
ParseModelVersionPolicy(policy) ==
  CASE policy.kind = "absent"   -> [policy EXCEPT !.kind = "latest", !.n = 1]
    [] policy.kind = "specific" -> [policy EXCEPT !.versions = policy.versions \ {0}]
    [] OTHER -> policy

Policy(c) == ParseModelVersionPolicy(Settings[c].policy)

\* ModelVersionPolicy::filter.
Filter(policy, versions) ==
  CASE policy.kind = "all"      -> versions
    [] policy.kind = "specific" -> versions \cap policy.versions
    [] policy.kind = "latest"   ->
         {v \in versions : Cardinality({w \in versions : w > v}) < policy.n}

\* The versions in the order of their names.
ByName(versions) ==
  [i \in 1..Cardinality(versions) |->
     CHOOSE v \in versions : Cardinality({w \in versions : NameLess(w, v)}) = i - 1]

\* std::binary_search, also on a sequence that is not sorted.
BinarySearch(s, v) ==
  LET spans == {p \in (1..Len(s) + 1) \X (0..Len(s)) : p[1] + p[2] <= Len(s) + 1}
      lower[p \in spans] ==  \* std::lower_bound, from p[1] on, of p[2] elements
        LET half == p[2] \div 2 IN
        IF p[2] = 0 THEN p[1]
        ELSE IF s[p[1] + half] < v THEN lower[<<p[1] + half + 1, p[2] - half - 1>>]
        ELSE lower[<<p[1], half>>]
      i == lower[<<1, Len(s)>>]
  IN  i <= Len(s) /\ s[i] <= v

\* Mutant: the failed versions stay.
EraseFailedNot(available, vs) == available

\* One failed version after the other is erased from availableVersions, when it
\* is found there.
EraseFailed(available, vs) ==
  LET erase[p \in (SUBSET available) \X (1..Len(vs) + 1)] ==  \* from vs[p[2]] on
        IF p[2] > Len(vs) THEN p[1]
        ELSE erase[<<IF BinarySearch(ByName(p[1]), vs[p[2]]) THEN p[1] \ {vs[p[2]]} ELSE p[1],
                     p[2] + 1>>]
  IN  erase[<<available, 1>>]

-----------------------------------------------------------------------------
(* Which versions to start, reload and retire. *)

WillEndUnloaded(i) == i.state \in {"UNLOADING", "END"}
IsFailedLoading(i) == i.state = "LOADING" /\ i.error

\* Every setting counts but the version policy.
IsReloadRequired(a, b) == [Settings[a] EXCEPT !.policy = Settings[b].policy] # Settings[b]

Registered == {v \in Versions : inst[v].state # "none"}

Requested(c, available) ==
  LET chosen == Filter(Policy(c), available) IN
  IF Settings[c].loader /\ loader THEN chosen \ (blacklist \cap Registered) ELSE chosen

\* Mutant: a version that failed to load is not tried again.
VersionsToChangeOnce(c, available) ==
  LET requested == Requested(c, available) IN
  [start  |-> requested \ Registered,
   reload |-> {v \in requested \cap Registered :
                 WillEndUnloaded(inst[v]) \/ IsReloadRequired(inst[v].config, c)},
   retire |-> {v \in Registered \ requested : ~WillEndUnloaded(inst[v])}]

\* getVersionsToChange.
VersionsToChange(c, available) ==
  LET requested == Requested(c, available) IN
  [start  |-> requested \ Registered,
   reload |-> {v \in requested \cap Registered :
                 \/ WillEndUnloaded(inst[v])
                 \/ IsFailedLoading(inst[v])
                 \/ IsReloadRequired(inst[v].config, c)},
   retire |-> {v \in Registered \ requested : ~WillEndUnloaded(inst[v])}]

\* updateDefaultVersion(ignoredVersion), on the instances i.
DefaultVersion(i, ignored) ==
  LET up == {v \in Versions \ {ignored} : i[v].state = "AVAILABLE"} IN
  IF up = {} THEN 0 ELSE CHOOSE v \in up : \A w \in up : w <= v

TypeOf(c) == IF Settings[c].stateful THEN "stateful" ELSE "stateless"

\* The guards at the top of reloadModelWithVersions.
ConfigStatus(c) ==
  IF Settings[c].stateful /\ Settings[c].dynamic
    THEN "REQUESTED_DYNAMIC_PARAMETERS_ON_STATEFUL_MODEL"
  ELSE IF ~Settings[c].stateful /\ Settings[c].lowLatency
    THEN "INVALID_NON_STATEFUL_MODEL_PARAMETER"
  ELSE IF type # "none" /\ type # TypeOf(c)
    THEN "REQUESTED_MODEL_TYPE_CHANGE"
  ELSE "OK"

-----------------------------------------------------------------------------

Init ==
  /\ fs \in FS
  /\ store = Repository
  /\ loader = TRUE
  /\ blacklist = {}
  /\ served = NoConfig
  /\ type = "none"
  /\ inst = [v \in Versions |->
               [state |-> "none", error |-> FALSE, config |-> NoConfig, net |-> "none",
                files |-> {}]]
  /\ default = 0
  /\ viewer = {}
  /\ local = [v \in Versions |-> {}]
  /\ pc = "idle"
  /\ config = NoConfig
  /\ avail = {}
  /\ queue = {}
  /\ toStart = {} /\ toReload = {} /\ toRetire = {} /\ toCleanup = {}
  /\ failed = <<>> /\ allFailed = {}
  /\ reloading = {}
  /\ edits = 0 /\ changes = 0 /\ faults = 0

\* The next version of the batch, in ascending order; those to retire go before
\* those to clean up.
First(S) == CHOOSE v \in S : \A w \in S : v <= w

Current ==
  IF pc \in {"retire", "unload", "unloading"} /\ queue \cap toRetire # {}
  THEN First(queue \cap toRetire) ELSE First(queue)

-----------------------------------------------------------------------------
(* The repository and the custom loader change at any time. *)

Edit == edits < MaxEdits /\ edits' = edits + 1

RepositoryChange ==
  /\ Edit
  /\ \/ \E b \in Bases, v \in Versions, f \in ModelFiles :
           store' = store \cup {Path(b) \o <<v>> \o f}
     \/ \E b \in Bases, v \in Versions :
           store' = store \ Under(store, Append(Path(b), v))
  /\ store' # store
  /\ UNCHANGED <<viewer, fs, loader, blacklist, served, type, inst, default, local,
                 managerVars, reloading, changes, faults>>

\* getModelBlacklistStatus and loadCustomLoadersConfig, as the manager sees
\* them.  The loader is added and removed by the manager thread only.
LoaderChange ==
  /\ Edit
  /\ \/ \E v \in Versions : blacklist' = {v} /\ UNCHANGED loader
     \/ blacklist' = {} /\ UNCHANGED loader
     \/ pc = "idle" /\ loader' = ~loader /\ UNCHANGED blacklist
  /\ UNCHANGED <<viewer, fs, store, served, type, inst, default, local, managerVars,
                 reloading, changes, faults>>

-----------------------------------------------------------------------------
(* The manager: reloadModelWithVersions. *)

\* Up to the first getVersionsToChange: the early returns, the listing of the
\* base path, the unknown custom loader that retires everything.
ReloadModelWithVersions(c) ==
  /\ pc = "idle"
  /\ config' = c
  /\ IF ConfigStatus(c) # "OK" \/ ~IsDirectory(fs, store, Path(Settings[c].base))
     THEN /\ type' = IF ConfigStatus(c) = "OK" THEN TypeOf(c) ELSE type
          /\ UNCHANGED <<pc, avail, queue, toStart, toReload, toRetire, toCleanup,
                         failed, allFailed>>
     ELSE /\ type' = TypeOf(c)
          /\ avail' = ReadAvailableVersions(Settings[c].base)
          /\ failed' = <<>> /\ allFailed' = {}
          /\ IF Settings[c].loader /\ ~loader
             THEN /\ pc' = "retireAll"
                  /\ queue' = Registered
                  /\ UNCHANGED <<toStart, toReload, toRetire, toCleanup>>
             ELSE LET change == VersionsToChange(c, avail') IN
                  /\ pc' = "start"
                  /\ toStart' = change.start
                  /\ toReload' = change.reload
                  /\ toRetire' = change.retire
                  /\ toCleanup' = {}
                  /\ queue' = {}
  /\ UNCHANGED <<viewer, repositoryVars, inst, default, local, reloading, edits, faults>>

\* A configuration comes from the file ...
ChangeConfig(c) ==
  /\ changes < MaxConfigs
  /\ c # served
  /\ served' = c
  /\ changes' = changes + 1
  /\ ReloadModelWithVersions(c)

\* ... and the watcher applies the served one again and again.
Poll ==
  /\ served # NoConfig
  /\ ReloadModelWithVersions(served)
  /\ UNCHANGED <<served, changes>>

\* The model is no longer in the configuration file.
RemoveFromConfig ==
  /\ pc = "idle" /\ served # NoConfig /\ changes < MaxConfigs
  /\ served' = NoConfig
  /\ changes' = changes + 1
  /\ pc' = "retireAll"
  /\ queue' = Registered
  /\ UNCHANGED <<viewer, repositoryVars, type, inst, default, local, config, avail,
                 toStart, toReload, toRetire, toCleanup, failed, allFailed,
                 reloading, edits, faults>>

\* The file still names the model, but its configuration cannot be parsed.
InvalidConfig ==
  /\ pc = "idle" /\ type # "none" /\ changes < MaxConfigs
  /\ served' = NoConfig
  /\ changes' = changes + 1
  /\ pc' = "cleanupAll"
  /\ queue' = Registered
  /\ UNCHANGED <<viewer, repositoryVars, type, inst, default, local, config, avail,
                 toStart, toReload, toRetire, toCleanup, failed, allFailed,
                 reloading, edits, faults>>

\* downloadModels: into a new temporary directory; a failed download leaves
\* the local path as it was.  (A leftover of an earlier download that it may
\* still name is taken as gone.)
Downloaded(versions, fails) ==
  IF fs = "local" \/ versions = {} \/ fails
       \/ ~DownloadSucceeds(fs, store, Path(Settings[config].base), versions)
  THEN local
  ELSE [v \in Versions |->
          IF v \in versions
          THEN ModelFiles \cap DownloadFileFolder(fs, store,
                                   Append(Path(Settings[config].base), v), Accepted)
          ELSE local[v]]

\* The local copy of the version is deleted.
CleanupModelTmpFiles(i, v) == [i EXCEPT ![v].files = {}]

MayFail == {FALSE} \cup (IF faults < MaxFaults THEN {TRUE} ELSE {})
Count(fails) == faults' = IF fails THEN faults + 1 ELSE faults

\* addVersions downloads what is to be started.
StartBatch ==
  /\ pc = "start" /\ toStart # {}
  /\ \E fails \in MayFail : local' = Downloaded(toStart, fails) /\ Count(fails)
  /\ failed' = <<>>
  /\ queue' = toStart
  /\ pc' = "add"
  /\ UNCHANGED <<viewer, repositoryVars, served, type, inst, default, config, avail,
                 toStart, toReload, toRetire, toCleanup, allFailed, reloading,
                 edits, changes>>

\* The files that loading version v of configuration c finds; a stored model
\* has them in its copy.
LocalFiles(c, v, downloaded) ==
  IF fs = "local"
  THEN ModelFiles \cap RelativePaths(Append(Path(Settings[c].base), v),
                                     Under(store, Append(Path(Settings[c].base), v)))
  ELSE downloaded

\* loadModelImpl finds the files of the model; a custom loader needs none but
\* refuses a blacklisted version.
ModelCanBeRead(c, v, downloaded) ==
  IF Settings[c].loader THEN v \notin blacklist
  ELSE LocalFiles(c, v, downloaded) = ModelFiles

\* The network is read from the files only when there is none in memory or
\* the layout changed.
NetAfterLoad(c, v) ==
  IF inst[v].net = "none" \/ Settings[inst[v].config].layout # Settings[c].layout
  THEN Settings[c].base ELSE inst[v].net

Load(v, succeeds) ==
  [inst EXCEPT ![v] =
     IF succeeds
     THEN [state |-> "AVAILABLE", error |-> FALSE, config |-> config,
           net |-> NetAfterLoad(config, v), files |-> local[v]]
     ELSE [state |-> "LOADING", error |-> TRUE, config |-> config, net |-> @.net,
           files |-> local[v]]]

\* StatefulModelInstance: a version that was loaded is registered with the
\* cleaner; when it is there already the load counts as failed.
NeedsCleaner(c) == Settings[c].stateful /\ Settings[c].idle
CanRegister(v) == NeedsCleaner(config) => v \notin viewer
\* Mutant: nothing is registered when the version is loaded.
RegisterNot(v) == viewer

Register(v) == IF NeedsCleaner(config) THEN viewer \cup {v} ELSE viewer

\* addVersion registers the instance and starts to load it.
AddVersion ==
  /\ pc = "add" /\ queue # {}
  /\ inst' = [inst EXCEPT ![Current].state = "LOADING",
                          ![Current].config = config]
  /\ pc' = "adding"
  /\ UNCHANGED <<viewer, repositoryVars, served, type, default, local, config, avail,
                 queue, toStart, toReload, toRetire, toCleanup, failed, allFailed,
                 reloading, boundVars>>

AddVersionLoaded ==
  /\ pc = "adding"
  /\ LET v == Current IN
     \E fails \in MayFail :
        /\ Count(fails)
        /\ IF ModelCanBeRead(config, v, local[v]) /\ ~fails
           THEN /\ inst' = Load(v, TRUE)
                /\ viewer' = Register(v)
                /\ default' = DefaultVersion(inst', 0)
                /\ UNCHANGED <<local, failed>>
           ELSE /\ UNCHANGED viewer
                /\ inst' = CleanupModelTmpFiles(Load(v, FALSE), v)
                /\ failed' = Append(failed, v)
                /\ local' = [local EXCEPT ![v] = {}]
                /\ UNCHANGED default
  /\ queue' = queue \ {Current}
  /\ pc' = "add"
  /\ UNCHANGED <<repositoryVars, served, type, config, avail, toStart, toReload,
                 toRetire, toCleanup, allFailed, reloading, edits, changes>>

\* After a failure the policy chooses again among the other versions.
AddVersionsEnd ==
  /\ pc = "add" /\ queue = {}
  /\ IF failed = <<>>
     THEN /\ pc' = "reload"
          /\ queue' = toReload
          /\ UNCHANGED <<avail, toStart, toReload, toRetire, allFailed>>
     ELSE LET change == VersionsToChange(config, avail') IN
          /\ avail' = EraseFailed(avail, failed)
          /\ allFailed' = allFailed \cup Range(failed)
          /\ toStart' = change.start
          /\ toReload' = change.reload
          /\ toRetire' = change.retire
          /\ pc' = "start"
          /\ UNCHANGED queue
  /\ UNCHANGED <<viewer, repositoryVars, served, type, inst, default, local, config,
                 toCleanup, failed, reloading, boundVars>>

NothingToStart ==
  /\ pc = "start" /\ toStart = {}
  /\ pc' = "reload"
  /\ queue' = toReload
  /\ UNCHANGED <<viewer, repositoryVars, served, type, inst, default, local, config, avail,
                 toStart, toReload, toRetire, toCleanup, failed, allFailed,
                 reloading, boundVars>>

\* reloadVersions: the download, then reloadModel under the loading mutex.
ReloadVersion ==
  /\ pc = "reload" /\ queue # {}
  /\ LET v == Current IN
     /\ v \notin reloading
     /\ \E fails \in MayFail :
           /\ Count(fails)
           /\ local' = IF \/ inst[v].state \in {"END", "LOADING"}
                         \/ Settings[inst[v].config].base # Settings[config].base
                      THEN Downloaded(toReload, fails)
                      ELSE [local EXCEPT ![v] = inst[v].files]
     /\ viewer' = IF NeedsCleaner(inst[v].config) /\ inst[v].state = "AVAILABLE"
                  THEN viewer \ {v} ELSE viewer
     /\ inst' = [inst EXCEPT ![v].state = "LOADING", ![v].error = FALSE,
                             ![v].net = IF Settings[inst[v].config].loader /\ ~Settings[config].loader
                                        THEN "none" ELSE @]
  /\ pc' = "reloading"
  /\ UNCHANGED <<repositoryVars, served, type, default, config, avail, queue,
                 toStart, toReload, toRetire, toCleanup, failed, allFailed,
                 reloading, edits, changes>>

ReloadVersionLoaded ==
  /\ pc = "reloading"
  /\ LET v == Current IN
     \E fails \in MayFail :
        /\ Count(fails)
        /\ IF ModelCanBeRead(config, v, local[v]) /\ ~fails
           THEN /\ inst' = Load(v, TRUE)
                /\ viewer' = Register(v)
                /\ IF CanRegister(v)
                   THEN default' = DefaultVersion(inst', 0) /\ UNCHANGED failed
                   ELSE failed' = Append(failed, v) /\ UNCHANGED default
           ELSE /\ inst' = Load(v, FALSE)
                /\ failed' = Append(failed, v)
                /\ UNCHANGED <<default, viewer>>
  /\ queue' = queue \ {Current}
  /\ pc' = "reload"
  /\ UNCHANGED <<repositoryVars, served, type, local, config, avail, toStart,
                 toReload, toRetire, toCleanup, allFailed, reloading, edits, changes>>

\* The versions to retire are chosen once more; the failed ones are cleaned
\* up instead.
Refresh ==
  /\ pc = "reload" /\ queue = {}
  /\ avail' = EraseFailed(avail, failed)
  /\ allFailed' = allFailed \cup Range(failed)
  /\ LET change == VersionsToChange(config, avail') IN
     /\ toRetire' = change.retire \ allFailed'
     /\ toCleanup' = change.retire \cap allFailed'
     /\ queue' = toRetire' \cup toCleanup'
  /\ pc' = "retire"
  /\ UNCHANGED <<viewer, repositoryVars, served, type, inst, default, local, config,
                 toStart, toReload, failed, reloading, boundVars>>

\* StatefulModelInstance::retireModel; cleanupFailedLoad leaves the entry.
Unregistered(v) == IF NeedsCleaner(inst[v].config) THEN viewer \ {v} ELSE viewer

\* retireVersions and cleanupFailedLoad: the copy and the default version go
\* first, then the instance, under its loading mutex.
RetireVersion ==
  /\ pc = "retire" /\ queue # {}
  /\ local' = [local EXCEPT ![Current] = {}]
  /\ inst' = CleanupModelTmpFiles(inst, Current)
  /\ default' = DefaultVersion(inst, Current)
  /\ pc' = "unload"
  /\ UNCHANGED <<viewer, repositoryVars, served, type, config, avail, queue, toStart,
                 toReload, toRetire, toCleanup, failed, allFailed, reloading, boundVars>>

Unload ==
  /\ pc = "unload"
  /\ Current \notin reloading
  /\ inst' = [inst EXCEPT ![Current].state =
                            IF Current \in toRetire THEN "UNLOADING" ELSE "LOADING",
                          ![Current].error = Current \in toCleanup]
  /\ viewer' = IF Current \in toRetire THEN Unregistered(Current) ELSE viewer
  /\ pc' = "unloading"
  /\ UNCHANGED <<repositoryVars, served, type, default, local, config, avail, queue,
                 toStart, toReload, toRetire, toCleanup, failed, allFailed, reloading,
                 boundVars>>

Unloaded ==
  /\ pc = "unloading"
  /\ inst' = [inst EXCEPT ![Current].net = "none",
                          ![Current].state = IF @ = "UNLOADING" THEN "END" ELSE @]
  /\ queue' = queue \ {Current}
  /\ pc' = "retire"
  /\ UNCHANGED <<viewer, repositoryVars, served, type, default, local, config, avail, toStart,
                 toReload, toRetire, toCleanup, failed, allFailed, reloading, boundVars>>

\* retireAllVersions: here the default version follows the instance.
RetireAllVersions ==
  /\ pc = "retireAll" /\ queue # {}
  /\ LET v == Current IN
     /\ v \notin reloading
     /\ local' = [local EXCEPT ![v] = {}]
     /\ inst' = [CleanupModelTmpFiles(inst, v) EXCEPT ![v].state = "UNLOADING",
                                                      ![v].error = FALSE]
     /\ viewer' = Unregistered(v)
  /\ pc' = "retiringAll"
  /\ UNCHANGED <<repositoryVars, served, type, default, config, avail, queue,
                 toStart, toReload, toRetire, toCleanup, failed, allFailed, reloading,
                 boundVars>>

RetiredAllVersions ==
  /\ pc = "retiringAll"
  /\ inst' = [inst EXCEPT ![Current].state = "END", ![Current].net = "none"]
  /\ default' = DefaultVersion(inst', 0)
  /\ queue' = queue \ {Current}
  /\ pc' = "retireAll"
  /\ UNCHANGED <<viewer, repositoryVars, served, type, local, config, avail, toStart,
                 toReload, toRetire, toCleanup, failed, allFailed, reloading, boundVars>>

\* cleanupAllVersions: as for failed loads, whatever state the version is in.
CleanupAllVersions ==
  /\ pc = "cleanupAll" /\ queue # {}
  /\ LET v == Current IN
     /\ v \notin reloading
     /\ local' = [local EXCEPT ![v] = {}]
     /\ inst' = [CleanupModelTmpFiles(inst, v) EXCEPT ![v].state = "LOADING",
                                                      ![v].error = TRUE]
  /\ pc' = "cleaningAll"
  /\ UNCHANGED <<viewer, repositoryVars, served, type, default, config, avail, queue,
                 toStart, toReload, toRetire, toCleanup, failed, allFailed, reloading,
                 boundVars>>

CleanedUpAllVersions ==
  /\ pc = "cleaningAll"
  /\ inst' = [inst EXCEPT ![Current].net = "none"]
  /\ default' = DefaultVersion(inst', 0)
  /\ queue' = queue \ {Current}
  /\ pc' = "cleanupAll"
  /\ UNCHANGED <<viewer, repositoryVars, served, type, local, config, avail, toStart,
                 toReload, toRetire, toCleanup, failed, allFailed, reloading, boundVars>>

Done ==
  /\ pc \in {"retire", "retireAll", "cleanupAll"} /\ queue = {}
  /\ pc' = "idle"
  /\ UNCHANGED <<viewer, repositoryVars, served, type, inst, default, local, config, avail,
                 queue, toStart, toReload, toRetire, toCleanup, failed, allFailed,
                 reloading, boundVars>>

ManagerStep ==
  \/ StartBatch \/ AddVersion \/ AddVersionLoaded \/ AddVersionsEnd \/ NothingToStart
  \/ ReloadVersion \/ ReloadVersionLoaded \/ Refresh
  \/ RetireVersion \/ Unload \/ Unloaded
  \/ RetireAllVersions \/ RetiredAllVersions
  \/ CleanupAllVersions \/ CleanedUpAllVersions \/ Done

-----------------------------------------------------------------------------
(* A request whose shape differs reloads the version in its own thread. *)

RequestReload(v) ==
  /\ v \notin reloading
  /\ inst[v].state = "AVAILABLE" /\ Settings[inst[v].config].dynamic
  /\ faults < MaxFaults /\ faults' = faults + 1
  /\ reloading' = reloading \cup {v}
  /\ inst' = [inst EXCEPT ![v].state = "LOADING", ![v].error = FALSE]
  /\ UNCHANGED <<viewer, repositoryVars, served, type, default, local, managerVars,
                 edits, changes>>

\* When the reshape fails the network is read again from the files.
RequestReloaded(v) ==
  /\ v \in reloading
  /\ reloading' = reloading \ {v}
  /\ \/ inst' = [inst EXCEPT ![v].state = "AVAILABLE"]
     \/ inst' = [inst EXCEPT ![v] =
                   IF ModelCanBeRead(inst[v].config, v, inst[v].files)
                   THEN [@ EXCEPT !.state = "AVAILABLE", !.net = Settings[inst[v].config].base]
                   ELSE [@ EXCEPT !.error = TRUE, !.net = "none"]]
  /\ UNCHANGED <<viewer, repositoryVars, served, type, default, local, managerVars, boundVars>>

-----------------------------------------------------------------------------

Next ==
  \/ RepositoryChange \/ LoaderChange
  \/ \E c \in Configs : ChangeConfig(c)
  \/ Poll
  \/ RemoveFromConfig \/ InvalidConfig
  \/ ManagerStep
  \/ \E v \in Versions : RequestReload(v) \/ RequestReloaded(v)

\* The watcher thread polls in an endless loop and the manager's procedures
\* run to their end; a reload that a request began ends too.
Fairness ==
  /\ WF_vars(Poll)
  /\ WF_vars(ManagerStep)
  /\ \A v \in Versions : WF_vars(RequestReloaded(v))

Spec == Init /\ [][Next]_vars /\ Fairness

-----------------------------------------------------------------------------
(* Properties. *)

Available(v) == inst[v].state = "AVAILABLE"

\* A version that serves is unloaded only when the policy does not select it
\* among the versions that are in the repository and can be loaded: a newer
\* version that fails to load does not take the older one away.  (A custom
\* loader may blacklist it, though.)  Excepted are repositories whose versions
\* have names that are not in the order of their numbers, "10" before "2":
\* binary_search may not find the version that failed (modelmanager.cpp:1469).
WorkingVersionKept ==
  [][\A v \in Versions :
       (pc = "unload" /\ Available(v) /\ inst'[v].state # "AVAILABLE"
          /\ v \notin reloading')
         => \/ v \notin Filter(Policy(config), avail \ allFailed)
            \/ Settings[config].loader
            \/ /\ allFailed \cap avail # {}
               /\ \E w, x \in avail \cup allFailed : w < x /\ NameLess(x, w)]_vars

\* It makes no difference for a model which store its repository is in: the
\* file systems list the same versions, find the same files, and downloads bring
\* the same files of the model.
BackendsAgree ==
  \A b \in Bases, f \in Backends :
     LET versionPaths == {Append(Path(b), v) : v \in Versions} IN
     /\ \A p \in {Path(b)} \cup versionPaths :
          /\ IsDirectory(f, store, p) = LocalIsDirectory(store, p)
          /\ LocalIsDirectory(store, p) =>
               /\ DirectorySubdirs(f, store, p) = LocalDirectorySubdirs(store, p)
               /\ DirectoryFiles(f, store, p) = LocalDirectoryFiles(store, p)
     /\ \A k \in Under(store, Path(b)) : IsFile(k) => FileExists(f, store, k)
     /\ f # "local" => \A v \in Versions : LET p == Append(Path(b), v) IN
          /\ DownloadSucceeds(f, store, Path(b), {v}) = LocalIsDirectory(store, p)
          /\ ModelFiles \cap DownloadFileFolder(f, store, p, Accepted)
               = ModelFiles \cap RelativePaths(p, Under(store, p))

\* The policy selects the version, its files are complete and the configuration
\* can be applied.
Wanted(v) ==
  /\ served # NoConfig
  /\ ConfigStatus(served) = "OK"
  /\ Settings[served].loader => loader /\ blacklist = {}
  /\ v \in Requested(served, ReadAvailableVersions(Settings[served].base))
  /\ \A w \in Requested(served, ReadAvailableVersions(Settings[served].base)), f \in ModelFiles :
        Path(Settings[served].base) \o <<w>> \o f \in store

\* cleanupFailedLoad left an entry of the version with the cleaner.
LeftRegistered(v) == v \in viewer /\ IsFailedLoading(inst[v])

\* Every version the policy selects is loaded in the end: failed loads are
\* retried (model.cpp, modelmanager.cpp).  Excepted is a stateful version whose
\* reload failed when it was registered with the cleaner: cleanupFailedLoad
\* leaves the entry, and every later load fails to register again, also after
\* the configuration was mended (statefulmodelinstance.cpp:106).
SelectedVersionServed ==
  \A v \in Versions : <>[](Wanted(v) /\ ~LeftRegistered(v)) => <>[]Available(v)

\* The cleaner thread knows every version that serves sequences and wants idle
\* ones removed, however it was loaded, reloaded, retired and started again.
RegisteredWhileServing ==
  \A v \in Versions : Available(v) /\ NeedsCleaner(inst[v].config) => v \in viewer

=============================================================================
