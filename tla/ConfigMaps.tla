----------------------------- MODULE ConfigMaps -----------------------------
(* How the two config maps, yunikorn-defaults (1) and yunikorn-configs (2), *)
(* reach the scheduler shim, the core and the admission controller:         *)
(* conf/schedulerconf.go, client/bootstrap.go, the config map handlers of   *)
(* cache/context.go, registerShimLayer of shim/scheduler.go,                *)
(* admission/conf/am_conf.go and validateConfigMap of                       *)
(* admission/admission_controller.go.                                       *)
(*                                                                          *)
(* Of the settings the model has a boolean one that can be reloaded, the    *)
(* hot refresh switch, one that the shim only reads when it starts, the     *)
(* policy group, and the queue configurations the group selects.  A map is  *)
(* [plain |-> Data, gzip |-> BinaryData], two functions from keys to        *)
(* values; Bad stands for a value that does not parse or decompress.        *)
(*                                                                          *)
(* The informer is modelled by what the handlers see: an event about a map  *)
(* that differs from the last one they were told of.  A deletion the watch  *)
(* has missed is reported as a DeletedFinalStateUnknown, a tombstone.       *)
EXTENDS Integers, TLC, GoValues

CONSTANTS
  Content,     \* the contents a map may be given
  Unseen,      \* what a handler that has not been called yet knows of a map
  Group,       \* policy groups
  DefaultPolicyGroup,
  YamlKey(_),  \* the key of a group's queue configuration
  MaxMapChanges  \* bound on the changes of the maps

ASSUME MapValues ==
  None \notin Content /\ Unseen \notin Content \cup {None} /\ Bad # ""

Index == {1, 2}
Proc == {"shim", "admission"}
Maps == [Index -> Content \cup {None}]
NoMaps == [i \in Index |-> None]

VARIABLES
  api,      \* Maps: in the API server
  changes,  \* changes so far
  phase,    \* [Proc -> how far the process has started]
  got,      \* [Proc -> Maps]: what its last Gets returned
  held,     \* [Proc -> Maps]: Context.configMaps, AdmissionControllerConf.configMaps
  known,    \* [Proc -> [Index -> Content \cup {None, Unseen}]]: last events
  conf,     \* [Proc -> the settings in force]
  core,     \* the configuration in force in the core
  missed,   \* [Proc -> SUBSET Index]: maps deleted without an event the
            \* process could use
  unreviewed \* a change of the maps was not reviewed with current maps

cvars == <<api, changes, phase, got, held, known, conf, core, missed, unreviewed>>

NoConf == [hot |-> FALSE, group |-> None]
NoCore == [group |-> None, yaml |-> None]

InitMaps ==
  /\ api = NoMaps /\ changes = 0 /\ unreviewed = FALSE
  /\ phase = [p \in Proc |-> "down"] /\ got = [p \in Proc |-> NoMaps]
  /\ held = [p \in Proc |-> NoMaps] /\ known = [p \in Proc |-> NoMaps]
  /\ conf = [p \in Proc |-> NoConf] /\ core = NoCore
  /\ missed = [p \in Proc |-> {}]
-----------------------------------------------------------------------------
(* Decompress: an entry that cannot be read loses its key.                  *)
Decompress(gzip) == [k \in {j \in DOMAIN gzip : gzip[j] # Bad} |-> gzip[k]]

(* for k, v := range f { result[k] = v }, where result holds g.             *)
Over(f, g) == [k \in DOMAIN f \cup DOMAIN g |-> IF k \in DOMAIN f THEN f[k] ELSE g[k]]

(* FlattenConfigMaps: the second map overrides the first, and compressed    *)
(* entries override plain ones.                                             *)
Entries(m) == IF m = None THEN << >> ELSE Over(Decompress(m.gzip), m.plain)
FlattenConfigMaps(maps) == Over(Entries(maps[2]), Entries(maps[1]))

Lookup(config, key, default) == IF key \in DOMAIN config THEN config[key] ELSE default

(* Mutant: parse errors are ignored.                                        *)
ParsesAlways(config) == TRUE

(* parseConfig: one malformed value and nothing is taken over.              *)
Parses(config) == Lookup(config, "hot", TRUE) # Bad
ParseConfig(config) ==
  [hot |-> Lookup(config, "hot", TRUE), group |-> Lookup(config, "group", DefaultPolicyGroup)]

(* AdmissionControllerConf.updateConfigMaps: a malformed value is replaced  *)
(* by the default of its key.                                               *)
ParseAdmission(config) ==
  [hot   |-> IF Lookup(config, "hot", TRUE) = Bad THEN TRUE ELSE Lookup(config, "hot", TRUE),
   group |-> Lookup(config, "group", DefaultPolicyGroup)]

(* Mutant: everything is reloaded.                                          *)
ReloadEverything(old, new) == new

(* handleNonReloadableConfig: what needs a restart keeps its value.         *)
HandleNonReloadable(old, new) == [hot |-> new.hot, group |-> old.group]

(* GetCoreSchedulerConfigFromConfigMap, under the group in force.           *)
CoreConfig(group, config) == [group |-> group, yaml |-> Lookup(config, YamlKey(group), "")]

(* External: the core refuses a configuration that it cannot parse.         *)
Loadable(c) == c.yaml # Bad
-----------------------------------------------------------------------------
(* A fatal error, a panic or a signal; the core lives in the shim process.  *)
Die(p) ==
  /\ phase' = [phase EXCEPT ![p] = "down"] /\ got' = [got EXCEPT ![p] = NoMaps]
  /\ held' = [held EXCEPT ![p] = NoMaps] /\ known' = [known EXCEPT ![p] = NoMaps]
  /\ conf' = [conf EXCEPT ![p] = NoConf] /\ missed' = [missed EXCEPT ![p] = {}]
  /\ core' = IF p = "shim" THEN NoCore ELSE core

(* The first Get of LoadBootstrapConfigMaps and of LoadConfigMaps.          *)
GetDefaults(p) ==
  /\ \/ phase[p] = "down" /\ phase' = [phase EXCEPT ![p] = "boot"]
     \/ phase[p] = "loaded" /\ p = "shim" /\ phase' = [phase EXCEPT ![p] = "register"]
  /\ got' = [got EXCEPT ![p] = [NoMaps EXCEPT ![1] = api[1]]]
  /\ UNCHANGED <<api, changes, unreviewed, held, known, conf, core, missed>>

(* The second Get, and UpdateConfigMaps(configMaps, true) or                *)
(* NewAdmissionControllerConf: the shim does not start on a malformed map.  *)
Bootstrap(p) ==
  LET maps == [got[p] EXCEPT ![2] = api[2]]  config == FlattenConfigMaps(maps) IN
  /\ phase[p] = "boot"
  /\ \/ p = "shim" /\ ~Parses(config) /\ Die(p)
     \/ /\ p = "shim" => Parses(config)
        /\ conf' = [conf EXCEPT ![p] = IF p = "shim" THEN ParseConfig(config) ELSE ParseAdmission(config)]
        /\ held' = [held EXCEPT ![p] = maps] /\ got' = [got EXCEPT ![p] = NoMaps]
        /\ phase' = [phase EXCEPT ![p] = "loaded"]
        /\ UNCHANGED <<known, core, missed>>
  /\ UNCHANGED <<api, changes, unreviewed>>

(* registerShimLayer after the Gets of LoadConfigMaps.                      *)
RegisterShimLayer ==
  LET maps == [got["shim"] EXCEPT ![2] = api[2]]
      c == CoreConfig(conf["shim"].group, FlattenConfigMaps(maps))
  IN
  /\ phase["shim"] = "register"
  /\ \/ ~Loadable(c) /\ Die("shim")
     \/ /\ Loadable(c) /\ core' = c
        /\ got' = [got EXCEPT !["shim"] = maps] /\ phase' = [phase EXCEPT !["shim"] = "registered"]
        /\ UNCHANGED <<held, known, conf, missed>>
  /\ UNCHANGED <<api, changes, unreviewed>>

(* Mutant: the handlers are only told of later changes.                     *)
AddHandlersLate(p) ==
  /\ phase[p] = (IF p = "shim" THEN "registered" ELSE "loaded")
  /\ phase' = [phase EXCEPT ![p] = "run"] /\ got' = [got EXCEPT ![p] = NoMaps]
  /\ known' = [known EXCEPT ![p] = api] /\ missed' = [missed EXCEPT ![p] = {}]
  /\ UNCHANGED <<api, changes, unreviewed, held, conf, core>>

(* AddSchedulingEventHandlers, RegisterHandlers: the informer lists the     *)
(* maps.  No event tells of a map that has gone since the Gets.             *)
AddHandlers(p) ==
  /\ phase[p] = (IF p = "shim" THEN "registered" ELSE "loaded")
  /\ phase' = [phase EXCEPT ![p] = "run"] /\ got' = [got EXCEPT ![p] = NoMaps]
  /\ known' = [known EXCEPT ![p] = [i \in Index |-> IF api[i] = None THEN None ELSE Unseen]]
  /\ missed' = [missed EXCEPT ![p] =
                 {i \in Index : api[i] = None /\ (held[p][i] # None \/ got[p][i] # None)}]
  /\ UNCHANGED <<api, changes, unreviewed, held, conf, core>>

(* setConfigMap and triggerReloadConfig; the map is kept also when its      *)
(* values are refused.                                                      *)
TriggerReloadConfig(i, m) ==
  LET maps == [held["shim"] EXCEPT ![i] = m]  config == FlattenConfigMaps(maps)
      new == HandleNonReloadable(conf["shim"], ParseConfig(config))
      c == CoreConfig(new.group, config)
  IN
  \/ ~conf["shim"].hot /\ UNCHANGED <<held, conf, core>>
  \/ /\ conf["shim"].hot /\ held' = [held EXCEPT !["shim"] = maps]
     /\ \/ ~Parses(config) /\ UNCHANGED <<conf, core>>
        \/ /\ Parses(config) /\ conf' = [conf EXCEPT !["shim"] = new]
           /\ core' = IF Loadable(c) THEN c ELSE core

(* configUpdated and updateConfigMaps of the admission controller.          *)
ConfigUpdated(i, m) ==
  LET maps == [held["admission"] EXCEPT ![i] = m] IN
  /\ \/ ~conf["admission"].hot /\ UNCHANGED <<held, conf>>
     \/ /\ conf["admission"].hot /\ held' = [held EXCEPT !["admission"] = maps]
        /\ conf' = [conf EXCEPT !["admission"] = ParseAdmission(FlattenConfigMaps(maps))]
  /\ UNCHANGED core

Reload(p, i, m) == IF p = "shim" THEN TriggerReloadConfig(i, m) ELSE ConfigUpdated(i, m)

(* addConfigMaps, updateConfigMaps, deleteConfigMaps; OnAdd, OnUpdate,      *)
(* OnDelete.                                                                *)
Notify(p, i) ==
  /\ phase[p] = "run" /\ known[p][i] # api[i]
  /\ known' = [known EXCEPT ![p][i] = api[i]] /\ missed' = [missed EXCEPT ![p] = @ \ {i}]
  /\ Reload(p, i, api[i])
  /\ UNCHANGED <<api, changes, unreviewed, phase, got>>

(* deleteConfigMaps and OnDelete convert the tombstone instead of the       *)
(* object in it and get nil: the shim dereferences it, the admission        *)
(* controller ignores the event.                                            *)
NotifyTombstone(p, i) ==
  /\ phase[p] = "run" /\ known[p][i] \in Content /\ api[i] = None
  /\ \/ p = "shim" /\ Die(p)
     \/ /\ p = "admission" /\ known' = [known EXCEPT ![p][i] = None]
        /\ missed' = [missed EXCEPT ![p] = @ \cup {i}]
        /\ UNCHANGED <<phase, got, held, conf, core>>
  /\ UNCHANGED <<api, changes, unreviewed>>

StopProcess(p) == phase[p] # "down" /\ Die(p) /\ UNCHANGED <<api, changes, unreviewed>>

(* No event is outstanding, none was lost, and reloads are on.              *)
UpToDate(p) ==
  phase[p] = "run" /\ known[p] = api /\ missed[p] = {} /\ conf[p].hot

(* Mutant: the queue configuration of the group in force is validated.      *)
ValidateInForce(i, m) ==
  LET config == FlattenConfigMaps([held["admission"] EXCEPT ![i] = m])
  IN Loadable(CoreConfig(conf["admission"].group, config))

(* validateConfigMap: the scheduler validates the queue configuration of    *)
(* the group the maps will select.                                          *)
ValidateConfigMap(i, m) ==
  LET config == FlattenConfigMaps([held["admission"] EXCEPT ![i] = m])
  IN Loadable(CoreConfig(ParseAdmission(config).group, config))

(* External: a user creates or changes a map, and the webhook reviews it    *)
(* with the maps it holds at the time.                                      *)
ChangeReviewed(i, m) ==
  /\ changes < MaxMapChanges /\ changes' = changes + 1
  /\ m # api[i] /\ api' = [api EXCEPT ![i] = m]
  /\ phase["admission"] = "run" /\ m # None /\ ValidateConfigMap(i, m)
  /\ unreviewed' = (unreviewed \/ ~UpToDate("admission"))
  /\ UNCHANGED <<phase, got, held, known, conf, core, missed>>

(* External: a map is deleted, or changed while the webhook or the          *)
(* scheduler behind it is out of reach; both are assumed to agree.          *)
ChangeUnreviewed(i, m) ==
  /\ changes < MaxMapChanges /\ changes' = changes + 1
  /\ m # api[i] /\ api' = [api EXCEPT ![i] = m] /\ unreviewed' = TRUE
  /\ UNCHANGED <<phase, got, held, known, conf, core, missed>>

NextMaps ==
  \/ \E p \in Proc : GetDefaults(p) \/ Bootstrap(p) \/ AddHandlers(p) \/ StopProcess(p)
  \/ RegisterShimLayer
  \/ \E p \in Proc, i \in Index : Notify(p, i) \/ NotifyTombstone(p, i)
  \/ \E i \in Index, m \in Content \cup {None} : ChangeReviewed(i, m) \/ ChangeUnreviewed(i, m)

MapsSpec == InitMaps /\ [][NextMaps]_cvars
-----------------------------------------------------------------------------
MapsTyped ==
  /\ api \in Maps /\ changes \in 0 .. MaxMapChanges
  /\ phase \in [Proc -> {"down", "boot", "loaded", "register", "registered", "run"}]
  /\ got \in [Proc -> Maps] /\ held \in [Proc -> Maps]
  /\ known \in [Proc -> [Index -> Content \cup {None, Unseen}]]
  /\ conf \in [Proc -> [hot : BOOLEAN, group : Group \cup {None}]]
  /\ core.group \in Group \cup {None} /\ missed \in [Proc -> SUBSET Index] /\ unreviewed \in BOOLEAN

(* Whatever the order of Gets, registration, events and refused values: a   *)
(* process that has handled all events and reloads at all works with the    *)
(* maps in the API server, and the core with the queues of the shim's       *)
(* group, as long as these maps can be used.                                *)
Converges ==
  LET config == FlattenConfigMaps(api)
      c == CoreConfig(conf["shim"].group, config)
  IN
  /\ UpToDate("admission") => conf["admission"] = ParseAdmission(config)
  /\ UpToDate("shim") /\ Parses(config) /\ Loadable(c) =>
       core = c /\ conf["shim"].hot = ParseConfig(config).hot

(* After changes that were all reviewed with current maps, a shim that      *)
(* starts again finds queues it can load, also when it starts with another  *)
(* policy group than the one in force during the reviews.                   *)
RestartLoads ==
  LET config == FlattenConfigMaps(api)
  IN ~unreviewed => Loadable(CoreConfig(ParseConfig(config).group, config))

(* The shim and the core agree on the policy group and keep it for the life *)
(* of the process, and a process whose reloads are off keeps everything,    *)
(* also when a later map turns them on.                                     *)
KeptUntilRestart ==
  [][ /\ (phase["shim"] # "down" /\ core # NoCore /\ core' # NoCore) =>
           core'.group = core.group /\ core'.group = conf'["shim"].group
      /\ \A p \in Proc : phase[p] = "run" /\ phase'[p] = "run" /\ ~conf[p].hot =>
           conf'[p] = conf[p] /\ (p = "shim" => core' = core) ]_cvars

(* "when the configMap for the scheduler is deleted, trigger refresh using  *)
(* default config" (cache/context.go, deleteConfigMaps): a shim that hears  *)
(* of a deletion and reloads at all goes on without the map.                *)
DeletionRefreshes ==
  [][ \A i \in Index : NotifyTombstone("shim", i) /\ conf["shim"].hot =>
        phase'["shim"] = "run" /\ held'["shim"][i] = None ]_cvars
=============================================================================
