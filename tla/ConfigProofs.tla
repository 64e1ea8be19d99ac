----------------------------- MODULE ConfigProofs ----------------------------
(* Proofs about ConfigMaps, for any contents of the maps, any groups and    *)
(* any number of changes.                                                   *)
EXTENDS ConfigMaps, TLAPS

(* The shape of the variables the proofs use. *)
Shape ==
  /\ api \in Maps
  /\ DOMAIN phase = Proc /\ DOMAIN conf = Proc
  /\ got \in [Proc -> Maps] /\ held \in [Proc -> Maps]
  /\ known \in [Proc -> [Index -> Content \cup {None, Unseen}]]
  /\ missed \in [Proc -> SUBSET Index]

(* What the process holds of a map is what its handler was told last. *)
HeldAsTold(p) ==
  \A i \in Index : known[p][i] # Unseen /\ i \notin missed[p] => held[p][i] = known[p][i]
Told(p) == missed[p] = {} /\ \A i \in Index : known[p][i] # Unseen

(* The admission controller always works with the maps it holds. *)
AdmissionInv ==
  /\ phase["admission"] \in {"loaded", "run"} =>
       conf["admission"] = ParseAdmission(FlattenConfigMaps(held["admission"]))
  /\ phase["admission"] = "run" /\ conf["admission"].hot => HeldAsTold("admission")

(* The core runs the queues of the maps the shim holds, if they are usable. *)
CoreFollows ==
  LET config == FlattenConfigMaps(held["shim"])
      c == CoreConfig(conf["shim"].group, config)
  IN Parses(config) /\ Loadable(c) => core = c /\ conf["shim"].hot = ParseConfig(config).hot

(* The shim does so once it was told of every map.  While it starts it has  *)
(* read them twice: held was read first, got when it registered.            *)
ShimInv ==
  /\ phase["shim"] \in {"down", "boot", "loaded", "register"} => core = NoCore
  /\ core # NoCore => core.group = conf["shim"].group
  /\ phase["shim"] \in {"loaded", "register", "registered"} =>
       conf["shim"] = ParseConfig(FlattenConfigMaps(held["shim"]))
  /\ phase["shim"] = "registered" =>
       core = CoreConfig(conf["shim"].group, FlattenConfigMaps(got["shim"]))
  /\ phase["shim"] = "run" /\ conf["shim"].hot =>
       HeldAsTold("shim") /\ (Told("shim") => CoreFollows)

ConfigInv == Shape /\ AdmissionInv /\ ShimInv /\ RestartLoads
-----------------------------------------------------------------------------
(* Flattening looks at the two maps only. *)
LEMMA FlattenSame ==
  ASSUME NEW a, NEW b, \A i \in Index : a[i] = b[i]
  PROVE  FlattenConfigMaps(a) = FlattenConfigMaps(b)
BY DEF FlattenConfigMaps, Index

(* A process that is up to date holds the maps of the API server. *)
LEMMA UpToDateHolds ==
  ASSUME Shape, NEW p \in Proc, UpToDate(p), HeldAsTold(p)
  PROVE  \A i \in Index : held[p][i] = api[i]
<1>1. \A i \in Index : api[i] \in Content \cup {None}
  BY DEF Shape, Maps
<1>2. \A i \in Index : api[i] # Unseen
  BY <1>1, MapValues
<1> QED BY <1>2 DEF UpToDate, HeldAsTold

(* Before any process starts there are no maps, which every shim can load.  *)
LEMMA ConfigInit == InitMaps => ConfigInv
<1> SUFFICES ASSUME InitMaps PROVE ConfigInv
  OBVIOUS
<1>1. NoMaps \in Maps
  BY DEF NoMaps, Maps
<1>2. Shape
  BY <1>1 DEF InitMaps, Shape, NoMaps, Proc, Index
<1>3. AdmissionInv /\ ShimInv
  BY DEF InitMaps, AdmissionInv, ShimInv, Proc
<1>4. DOMAIN FlattenConfigMaps(NoMaps) = {}
  BY DEF FlattenConfigMaps, NoMaps, Entries, Index, Over
<1>5. RestartLoads
  BY <1>4, MapValues DEF InitMaps, RestartLoads, Loadable, CoreConfig, Lookup
<1> QED BY <1>2, <1>3, <1>5 DEF ConfigInv
-----------------------------------------------------------------------------
(* A process that dies leaves nothing behind, and the others alone. *)
LEMMA DieStep ==
  ASSUME ConfigInv, NEW p \in Proc, Die(p), UNCHANGED <<api, unreviewed>>
  PROVE  ConfigInv'
<1>1. NoMaps \in Maps
  BY DEF NoMaps, Maps
<1>2. Shape'
  BY <1>1 DEF ConfigInv, Shape, Die, NoMaps, Index
<1>3. phase'[p] = "down" /\ \A q \in Proc \ {p} : /\ phase'[q] = phase[q] /\ got'[q] = got[q]
      /\ held'[q] = held[q] /\ known'[q] = known[q] /\ conf'[q] = conf[q] /\ missed'[q] = missed[q]
  BY DEF ConfigInv, Shape, Die
<1>4. AdmissionInv'
  <2>1. CASE p = "admission"
    BY <1>3, <2>1 DEF AdmissionInv
  <2>2. CASE p = "shim"
    BY <1>3, <2>2 DEF ConfigInv, AdmissionInv, HeldAsTold, Proc
  <2> QED BY <2>1, <2>2 DEF Proc
<1>5. ShimInv'
  <2>1. CASE p = "admission"
    BY <1>3, <2>1 DEF ConfigInv, ShimInv, HeldAsTold, Told, CoreFollows, Proc, Die
  <2>2. CASE p = "shim"
    BY <1>3, <2>2 DEF ShimInv, Die
  <2> QED BY <2>1, <2>2 DEF Proc
<1>6. RestartLoads'
  BY DEF ConfigInv, RestartLoads
<1> QED BY <1>2, <1>4, <1>5, <1>6 DEF ConfigInv

(* A step of the admission controller does not touch the shim. *)
LEMMA ShimUnmoved ==
  ASSUME ShimInv, UNCHANGED core,
         phase'["shim"] = phase["shim"], got'["shim"] = got["shim"],
         held'["shim"] = held["shim"], known'["shim"] = known["shim"],
         conf'["shim"] = conf["shim"], missed'["shim"] = missed["shim"]
  PROVE  ShimInv'
BY DEF ShimInv, HeldAsTold, Told, CoreFollows

(* A step of the shim does not touch the admission controller. *)
LEMMA AdmissionUnmoved ==
  ASSUME AdmissionInv,
         phase'["admission"] = phase["admission"], held'["admission"] = held["admission"],
         known'["admission"] = known["admission"], conf'["admission"] = conf["admission"],
         missed'["admission"] = missed["admission"]
  PROVE  AdmissionInv'
BY DEF AdmissionInv, HeldAsTold

(* LoadBootstrapConfigMaps reads a map; nothing depends on it yet.          *)
LEMMA GetDefaultsStep ==
  ASSUME ConfigInv, NEW p \in Proc, GetDefaults(p)
  PROVE  ConfigInv'
<1>1. Shape'
  <2>1. [NoMaps EXCEPT ![1] = api[1]] \in Maps
    BY DEF ConfigInv, Shape, NoMaps, Maps, Index
  <2> QED BY <2>1 DEF ConfigInv, Shape, GetDefaults
<1>2. RestartLoads'
  BY DEF ConfigInv, RestartLoads, GetDefaults
<1>3. CASE p = "admission"
  <2>1. ShimInv'
    BY <1>3, ShimUnmoved DEF ConfigInv, Shape, GetDefaults, Proc
  <2>2. AdmissionInv'
    BY <1>3 DEF ConfigInv, Shape, GetDefaults, AdmissionInv, Proc
  <2> QED BY <1>1, <1>2, <2>1, <2>2 DEF ConfigInv
<1>4. CASE p = "shim"
  <2>1. AdmissionInv'
    BY <1>4, AdmissionUnmoved DEF ConfigInv, Shape, GetDefaults, Proc
  <2>2. ShimInv'
    BY <1>4 DEF ConfigInv, Shape, GetDefaults, ShimInv, Proc
  <2> QED BY <1>1, <1>2, <2>1, <2>2 DEF ConfigInv
<1> QED BY <1>3, <1>4 DEF Proc

(* UpdateConfigMaps: from here on a process works with the maps it holds.   *)
LEMMA BootstrapStep ==
  ASSUME ConfigInv, NEW p \in Proc, Bootstrap(p)
  PROVE  ConfigInv'
<1> DEFINE maps == [got[p] EXCEPT ![2] = api[2]]
           config == FlattenConfigMaps(maps)
<1>1. CASE p = "shim" /\ ~Parses(config) /\ Die(p)
  BY <1>1, DieStep DEF Bootstrap
<1>2. CASE ~(p = "shim" /\ ~Parses(config) /\ Die(p))
  <2>1. /\ conf' = [conf EXCEPT ![p] = IF p = "shim" THEN ParseConfig(config) ELSE ParseAdmission(config)]
        /\ held' = [held EXCEPT ![p] = maps] /\ got' = [got EXCEPT ![p] = NoMaps]
        /\ phase[p] = "boot" /\ phase' = [phase EXCEPT ![p] = "loaded"]
        /\ UNCHANGED <<api, unreviewed, known, core, missed>>
    BY <1>2 DEF Bootstrap
  <2>2. Shape'
    <3>1. maps \in Maps /\ NoMaps \in Maps
      BY DEF ConfigInv, Shape, NoMaps, Maps, Index
    <3> HIDE DEF maps
    <3> QED BY <2>1, <3>1 DEF ConfigInv, Shape
  <2>3. RestartLoads'
    BY <2>1 DEF ConfigInv, RestartLoads
  <2>4. held'[p] = maps /\ phase'[p] = "loaded"
    BY <2>1 DEF ConfigInv, Shape
  <2>5. CASE p = "admission"
    <3>1. ShimInv'
      BY <2>1, <2>5, ShimUnmoved DEF ConfigInv, Shape, Proc
    <3>2. conf'[p] = ParseAdmission(FlattenConfigMaps(held'[p]))
      BY <2>1, <2>4, <2>5 DEF ConfigInv, Shape
    <3>3. AdmissionInv'
      BY <2>4, <2>5, <3>2 DEF AdmissionInv
    <3> QED BY <2>2, <2>3, <3>1, <3>3 DEF ConfigInv
  <2>6. CASE p = "shim"
    <3>1. AdmissionInv'
      BY <2>1, <2>6, AdmissionUnmoved DEF ConfigInv, Shape, Proc
    <3>2. conf'[p] = ParseConfig(FlattenConfigMaps(held'[p]))
      BY <2>1, <2>4, <2>6 DEF ConfigInv, Shape
    <3>3. core' = NoCore
      BY <2>1, <2>6 DEF ConfigInv, ShimInv
    <3>4. ShimInv'
      BY <2>4, <2>6, <3>2, <3>3 DEF ShimInv
    <3> QED BY <2>2, <2>3, <3>1, <3>4 DEF ConfigInv
  <2> QED BY <2>5, <2>6 DEF Proc
<1> QED BY <1>1, <1>2

(* registerShimLayer gives the core the queues of the maps that were got.   *)
LEMMA RegisterStep ==
  ASSUME ConfigInv, RegisterShimLayer
  PROVE  ConfigInv'
<1> DEFINE maps == [got["shim"] EXCEPT ![2] = api[2]]
           c == CoreConfig(conf["shim"].group, FlattenConfigMaps(maps))
<1>1. CASE Die("shim")
  BY <1>1, DieStep DEF RegisterShimLayer, Proc
<1>2. CASE ~Die("shim")
  <2>1. /\ core' = c /\ got' = [got EXCEPT !["shim"] = maps]
        /\ phase' = [phase EXCEPT !["shim"] = "registered"] /\ phase["shim"] = "register"
        /\ UNCHANGED <<api, unreviewed, held, known, conf, missed>>
    BY <1>2 DEF RegisterShimLayer
  <2>2. Shape'
    <3>1. maps \in Maps
      BY DEF ConfigInv, Shape, Maps, Index, Proc
    <3> HIDE DEF maps
    <3> QED BY <2>1, <3>1, ZenonT(60) DEF ConfigInv, Shape
  <2>3. AdmissionInv'
    BY <2>1, AdmissionUnmoved DEF ConfigInv, Shape, Proc
  <2>4. got'["shim"] = maps /\ phase'["shim"] = "registered"
    BY <2>1 DEF ConfigInv, Shape, Proc
  <2>5. core' = CoreConfig(conf'["shim"].group, FlattenConfigMaps(got'["shim"]))
    BY <2>1, <2>4
  <2>6. core'.group = conf'["shim"].group
    BY <2>1 DEF CoreConfig
  <2>7. ShimInv'
    BY <2>1, <2>4, <2>5, <2>6 DEF ConfigInv, ShimInv
  <2> QED BY <2>1, <2>2, <2>3, <2>7 DEF ConfigInv, RestartLoads
<1> QED BY <1>1, <1>2

(* Handlers that are told of no map hold none, and neither did the Gets     *)
(* return one: what the shim has read twice is the same.                    *)
LEMMA AddHandlersStep ==
  ASSUME ConfigInv, NEW p \in Proc, AddHandlers(p)
  PROVE  ConfigInv'
<1>1. Shape'
  <2>1. NoMaps \in Maps
    BY DEF NoMaps, Maps
  <2> QED BY <2>1 DEF ConfigInv, Shape, AddHandlers
<1>2. RestartLoads'
  BY DEF ConfigInv, RestartLoads, AddHandlers
<1>3. /\ phase'[p] = "run" /\ UNCHANGED <<held, conf, core>>
      /\ known'[p] = [i \in Index |-> IF api[i] = None THEN None ELSE Unseen]
      /\ missed'[p] = {i \in Index : api[i] = None /\ (held[p][i] # None \/ got[p][i] # None)}
  BY DEF ConfigInv, Shape, AddHandlers
<1>4. HeldAsTold(p)'
  BY <1>3 DEF HeldAsTold
<1>5. CASE p = "admission"
  <2>1. ShimInv'
    BY <1>5, ShimUnmoved DEF ConfigInv, Shape, AddHandlers, Proc
  <2>2. AdmissionInv'
    BY <1>3, <1>4, <1>5 DEF ConfigInv, AdmissionInv, AddHandlers
  <2> QED BY <1>1, <1>2, <2>1, <2>2 DEF ConfigInv
<1>6. CASE p = "shim"
  <2>1. AdmissionInv'
    BY <1>6, AdmissionUnmoved DEF ConfigInv, Shape, AddHandlers, Proc
  <2>2. /\ phase["shim"] = "registered"
        /\ conf["shim"] = ParseConfig(FlattenConfigMaps(held["shim"]))
        /\ core = CoreConfig(conf["shim"].group, FlattenConfigMaps(got["shim"]))
    BY <1>6 DEF ConfigInv, ShimInv, AddHandlers
  <2>3. Told("shim")' => CoreFollows'
    <3> SUFFICES ASSUME Told("shim")' PROVE CoreFollows'
      OBVIOUS
    <3>1. \A i \in Index : api[i] = None
      BY <1>3, <1>6 DEF Told
    <3>2. \A i \in Index : held["shim"][i] = None /\ got["shim"][i] = None
      BY <1>3, <1>6, <3>1 DEF Told
    <3>3. FlattenConfigMaps(got["shim"]) = FlattenConfigMaps(held["shim"])
      BY <3>2, FlattenSame
    <3> QED BY <1>3, <2>2, <3>3 DEF CoreFollows
  <2>4. ShimInv'
    BY <1>3, <1>4, <1>6, <2>2, <2>3 DEF ConfigInv, ShimInv
  <2> QED BY <1>1, <1>2, <2>1, <2>4 DEF ConfigInv
<1> QED BY <1>5, <1>6 DEF Proc

(* A handler stores what it is told and reloads; a shim that was told of    *)
(* every map has then given the core what it holds, if that is usable.      *)
LEMMA NotifyStep ==
  ASSUME ConfigInv, NEW p \in Proc, NEW i \in Index, Notify(p, i)
  PROVE  ConfigInv'
<1>1. /\ phase[p] = "run" /\ Reload(p, i, api[i])
      /\ known' = [known EXCEPT ![p][i] = api[i]] /\ missed' = [missed EXCEPT ![p] = @ \ {i}]
      /\ UNCHANGED <<api, unreviewed, phase, got>>
  BY DEF Notify
<1>2. \A q \in Proc : q # p => known'[q] = known[q] /\ missed'[q] = missed[q]
  BY <1>1 DEF ConfigInv, Shape
<1>3. /\ known'[p][i] = api[i] /\ missed'[p] = missed[p] \ {i}
      /\ \A j \in Index : j # i => known'[p][j] = known[p][j]
  BY <1>1 DEF ConfigInv, Shape
<1>4. RestartLoads'
  BY <1>1 DEF ConfigInv, RestartLoads
<1> DEFINE maps == [held[p] EXCEPT ![i] = api[i]]
           config == FlattenConfigMaps(maps)
<1>5. maps \in Maps
  BY DEF ConfigInv, Shape, Maps
<1>6. known' \in [Proc -> [Index -> Content \cup {None, Unseen}]] /\ missed' \in [Proc -> SUBSET Index]
  <2>1. api[i] \in Content \cup {None, Unseen}
    BY DEF ConfigInv, Shape, Maps
  <2> QED BY <1>1, <2>1 DEF ConfigInv, Shape
<1>7. ASSUME held' = [held EXCEPT ![p] = maps], DOMAIN conf' = Proc PROVE Shape'
  <2> HIDE DEF maps
  <2> QED BY <1>1, <1>5, <1>6, <1>7 DEF ConfigInv, Shape
<1>8. ASSUME UNCHANGED <<held, conf>> PROVE Shape'
  BY <1>1, <1>6, <1>8 DEF ConfigInv, Shape
<1>9. ASSUME HeldAsTold(p), held' = [held EXCEPT ![p] = maps] PROVE HeldAsTold(p)'
  <2>1. held'[p][i] = api[i] /\ \A j \in Index : j # i => held'[p][j] = held[p][j]
    BY <1>9 DEF ConfigInv, Shape, Maps
  <2> QED BY <1>3, <1>9, <2>1 DEF HeldAsTold
<1>10. CASE p = "admission"
  <2>1. ConfigUpdated(i, api[i])
    BY <1>1, <1>10 DEF Reload
  <2>2. CASE ~conf["admission"].hot
    <3>1. UNCHANGED <<held, conf, core>>
      BY <2>1, <2>2 DEF ConfigUpdated
    <3>2. ShimInv'
      BY <1>1, <1>2, <1>10, <3>1, ShimUnmoved DEF ConfigInv, Proc
    <3>3. AdmissionInv'
      BY <1>1, <2>2, <3>1 DEF ConfigInv, AdmissionInv
    <3> QED BY <1>4, <1>8, <3>1, <3>2, <3>3 DEF ConfigInv
  <2>3. CASE conf["admission"].hot
    <3>1. /\ held' = [held EXCEPT ![p] = maps] /\ UNCHANGED core
          /\ conf' = [conf EXCEPT ![p] = ParseAdmission(config)]
      BY <1>10, <2>1, <2>3 DEF ConfigUpdated
    <3>2. /\ held'[p] = maps /\ conf'[p] = ParseAdmission(config) /\ DOMAIN conf' = Proc
          /\ held'["shim"] = held["shim"] /\ conf'["shim"] = conf["shim"]
      BY <1>10, <3>1 DEF ConfigInv, Shape, Proc
    <3>3. ShimInv'
      BY <1>1, <1>2, <1>10, <3>1, <3>2, ShimUnmoved DEF ConfigInv, Proc
    <3>4. conf'[p] = ParseAdmission(FlattenConfigMaps(held'[p]))
      BY <3>2
    <3>5. HeldAsTold(p)'
      BY <1>1, <1>9, <1>10, <2>3, <3>1 DEF ConfigInv, AdmissionInv
    <3>6. AdmissionInv'
      BY <1>10, <3>4, <3>5 DEF AdmissionInv
    <3> QED BY <1>4, <1>7, <3>1, <3>2, <3>3, <3>6 DEF ConfigInv
  <2> QED BY <2>2, <2>3
<1>11. CASE p = "shim"
  <2>1. TriggerReloadConfig(i, api[i])
    BY <1>1, <1>11 DEF Reload
  <2>2. phase'["shim"] = "run" /\ phase["shim"] = "run"
    BY <1>1, <1>11
  <2>3. CASE ~conf["shim"].hot
    <3>1. UNCHANGED <<held, conf, core>>
      BY <2>1, <2>3 DEF TriggerReloadConfig
    <3>2. AdmissionInv'
      BY <1>1, <1>2, <1>11, <3>1, AdmissionUnmoved DEF ConfigInv, Proc
    <3>3. ShimInv'
      BY <2>2, <2>3, <3>1 DEF ConfigInv, ShimInv
    <3> QED BY <1>4, <1>8, <3>1, <3>2, <3>3 DEF ConfigInv
  <2>4. CASE conf["shim"].hot
    <3> DEFINE new == HandleNonReloadable(conf["shim"], ParseConfig(config))
               c == CoreConfig(new.group, config)
    <3>1. /\ held' = [held EXCEPT ![p] = maps]
          /\ \/ ~Parses(config) /\ UNCHANGED <<conf, core>>
             \/ /\ Parses(config) /\ conf' = [conf EXCEPT ![p] = new]
                /\ core' = IF Loadable(c) THEN c ELSE core
      BY <1>11, <2>1, <2>4 DEF TriggerReloadConfig
    <3>2. /\ held'[p] = maps /\ held'["admission"] = held["admission"]
          /\ DOMAIN conf' = Proc /\ conf'["admission"] = conf["admission"]
          /\ Parses(config) => conf'[p] = new
      <4> HIDE DEF maps, config, new
      <4> QED BY <1>11, <3>1 DEF ConfigInv, Shape, Proc
    <3>3. new.group = conf["shim"].group /\ new.hot = ParseConfig(config).hot
      BY DEF HandleNonReloadable
    <3>4. AdmissionInv'
      BY <1>1, <1>2, <1>11, <3>1, <3>2, AdmissionUnmoved DEF ConfigInv, Proc
    <3>5. HeldAsTold(p)'
      BY <1>9, <1>11, <2>2, <2>4, <3>1 DEF ConfigInv, ShimInv
    <3>6. conf'["shim"].group = conf["shim"].group
      <4> HIDE DEF config, new
      <4> QED BY <1>11, <3>1, <3>2, <3>3
    <3>7. CoreFollows'
      <4>1. FlattenConfigMaps(held'["shim"]) = config
        BY <1>11, <3>2
      <4> HIDE DEF config
      <4> QED BY <1>11, <3>1, <3>2, <3>3, <3>6, <4>1 DEF CoreFollows
    <3>8. core' # NoCore => core'.group = conf'["shim"].group
      <4>1. c.group = new.group
        BY DEF CoreConfig
      <4> HIDE DEF config, new, c
      <4> QED BY <3>1, <3>3, <3>6, <4>1 DEF ConfigInv, ShimInv
    <3>9. ShimInv'
      BY <1>11, <2>2, <3>5, <3>7, <3>8 DEF ShimInv
    <3> QED BY <1>4, <1>7, <3>1, <3>2, <3>4, <3>9 DEF ConfigInv
  <2> QED BY <2>3, <2>4
<1> QED BY <1>10, <1>11 DEF Proc

(* A deletion found out about afterwards is missed, or ends the shim.       *)
LEMMA NotifyTombstoneStep ==
  ASSUME ConfigInv, NEW p \in Proc, NEW i \in Index, NotifyTombstone(p, i)
  PROVE  ConfigInv'
<1>1. CASE Die(p)
  BY <1>1, DieStep DEF NotifyTombstone
<1>2. CASE ~Die(p)
  <2>1. /\ p = "admission" /\ known' = [known EXCEPT ![p][i] = None]
        /\ missed' = [missed EXCEPT ![p] = @ \cup {i}]
        /\ UNCHANGED <<api, unreviewed, phase, got, held, conf, core>>
    BY <1>2 DEF NotifyTombstone
  <2>2. Shape'
    BY <2>1 DEF ConfigInv, Shape
  <2>3. /\ missed'[p] = missed[p] \cup {i} /\ known'["shim"] = known["shim"]
        /\ missed'["shim"] = missed["shim"]
        /\ \A j \in Index : j # i => known'[p][j] = known[p][j]
    BY <2>1 DEF ConfigInv, Shape, Proc
  <2>4. ShimInv'
    BY <2>1, <2>3, ShimUnmoved DEF ConfigInv
  <2>5. HeldAsTold(p) => HeldAsTold(p)'
    BY <2>1, <2>3 DEF HeldAsTold
  <2>6. AdmissionInv'
    BY <2>1, <2>5 DEF ConfigInv, AdmissionInv
  <2> QED BY <2>1, <2>2, <2>4, <2>6 DEF ConfigInv, RestartLoads
<1> QED BY <1>1, <1>2

(* A change that was reviewed with current maps is checked for the group    *)
(* that a shim will start with, which is the one the maps select.           *)
LEMMA ChangeStep ==
  ASSUME ConfigInv, NEW i \in Index, NEW m \in Content \cup {None},
         ChangeReviewed(i, m) \/ ChangeUnreviewed(i, m)
  PROVE  ConfigInv'
<1>1. api' = [api EXCEPT ![i] = m] /\ UNCHANGED <<phase, got, held, known, conf, core, missed>>
  BY DEF ChangeReviewed, ChangeUnreviewed
<1>2. Shape'
  BY <1>1 DEF ConfigInv, Shape, Maps
<1>3. AdmissionInv' /\ ShimInv'
  BY <1>1, AdmissionUnmoved, ShimUnmoved DEF ConfigInv
<1>4. RestartLoads'
  <2> SUFFICES ASSUME ~unreviewed' PROVE RestartLoads'
    BY DEF RestartLoads
  <2>1. UpToDate("admission") /\ ValidateConfigMap(i, m)
    BY ZenonT(60) DEF ChangeReviewed, ChangeUnreviewed
  <2>2. \A j \in Index : held["admission"][j] = api[j]
    BY <2>1, UpToDateHolds DEF ConfigInv, AdmissionInv, UpToDate, Proc
  <2>3. \A j \in Index : [held["admission"] EXCEPT ![i] = m][j] = api'[j]
    BY <1>1, <2>2 DEF ConfigInv, Shape, Maps, Proc
  <2>4. FlattenConfigMaps([held["admission"] EXCEPT ![i] = m]) = FlattenConfigMaps(api')
    BY <2>3, FlattenSame, ZenonT(60)
  <2>5. \A config : ParseAdmission(config).group = ParseConfig(config).group
    BY DEF ParseAdmission, ParseConfig
  <2> QED BY <2>1, <2>4, <2>5 DEF ValidateConfigMap, RestartLoads
<1> QED BY <1>2, <1>3, <1>4 DEF ConfigInv

(* Every step preserves the invariant: one lemma per action.                *)
LEMMA ConfigStep ==
  ASSUME ConfigInv, [NextMaps]_cvars
  PROVE  ConfigInv'
<1>1. CASE UNCHANGED cvars
  <2>1. Shape' /\ RestartLoads'
    BY <1>1 DEF ConfigInv, Shape, RestartLoads, cvars
  <2>2. AdmissionInv' /\ ShimInv'
    BY <1>1, AdmissionUnmoved, ShimUnmoved DEF ConfigInv, cvars
  <2> QED BY <2>1, <2>2 DEF ConfigInv
<1>2. ASSUME NEW p \in Proc, StopProcess(p) PROVE ConfigInv'
  BY <1>2, DieStep DEF StopProcess
<1> QED BY <1>1, <1>2, GetDefaultsStep, BootstrapStep, AddHandlersStep, RegisterStep,
           NotifyStep, NotifyTombstoneStep, ChangeStep DEF NextMaps
-----------------------------------------------------------------------------
(* ConfigInv holds in every reachable state.                                *)
THEOREM ConfigInvariant == MapsSpec => []ConfigInv
BY ConfigInit, ConfigStep, PTL DEF MapsSpec

(* Whatever is in the maps, however often they change, and wherever the     *)
(* changes fall in the start of a process: one that has handled all events  *)
(* and reloads at all works with the maps in the API server                 *)
(* (triggerReloadConfig, configUpdated).                                    *)
THEOREM ProcessesConverge == MapsSpec => []Converges
<1>1. ConfigInv => Converges
  <2> SUFFICES ASSUME ConfigInv PROVE Converges
    OBVIOUS
  <2> DEFINE config == FlattenConfigMaps(api)
  <2>1. ASSUME UpToDate("admission") PROVE conf["admission"] = ParseAdmission(config)
    <3>1. \A i \in Index : held["admission"][i] = api[i]
      BY <2>1, UpToDateHolds DEF ConfigInv, AdmissionInv, UpToDate, Proc
    <3>2. FlattenConfigMaps(held["admission"]) = config
      BY <3>1, FlattenSame
    <3> QED BY <2>1, <3>2 DEF ConfigInv, AdmissionInv, UpToDate
  <2>2. ASSUME UpToDate("shim"), Parses(config), Loadable(CoreConfig(conf["shim"].group, config))
        PROVE  core = CoreConfig(conf["shim"].group, config) /\ conf["shim"].hot = ParseConfig(config).hot
    <3>1. \A i \in Index : held["shim"][i] = api[i]
      BY <2>2, UpToDateHolds DEF ConfigInv, ShimInv, UpToDate, Proc
    <3>2. FlattenConfigMaps(held["shim"]) = config
      BY <3>1, FlattenSame
    <3>3. Told("shim")
      <4>1. \A i \in Index : api[i] \in Content \cup {None}
        BY DEF ConfigInv, Shape, Maps
      <4> QED BY <2>2, <4>1, MapValues DEF Told, UpToDate
    <3>4. CoreFollows
      BY <2>2, <3>3 DEF ConfigInv, ShimInv, UpToDate
    <3> HIDE DEF config
    <3> QED BY <2>2, <3>2, <3>4 DEF CoreFollows
  <2> HIDE DEF config
  <2> QED BY <2>1, <2>2 DEF Converges, config
<1> QED BY <1>1, ConfigInvariant, PTL

(* After changes that were all reviewed with current maps, a shim that      *)
(* starts again finds queues it can load (validateConfigMap), also when it  *)
(* starts with another policy group than the one in force at the review.    *)
THEOREM ReviewedMapsLoad == MapsSpec => []RestartLoads
BY ConfigInvariant, PTL DEF ConfigInv

(* The shim and the core keep the policy group for the life of the process  *)
(* (handleNonReloadableConfig), and a process whose reloads are off keeps   *)
(* everything, whatever the maps say.                                       *)
THEOREM SettingsKept == MapsSpec => KeptUntilRestart
<1> DEFINE Kept ==
      /\ (phase["shim"] # "down" /\ core # NoCore /\ core' # NoCore) =>
           core'.group = core.group /\ core'.group = conf'["shim"].group
      /\ \A p \in Proc : phase[p] = "run" /\ phase'[p] = "run" /\ ~conf[p].hot =>
           conf'[p] = conf[p] /\ (p = "shim" => core' = core)
<1>1. ConfigInv /\ ConfigInv' /\ [NextMaps]_cvars => [Kept]_cvars
  <2> SUFFICES ASSUME ConfigInv, ConfigInv', NextMaps PROVE Kept
    OBVIOUS
  <2>1. ASSUME UNCHANGED <<conf, core>> PROVE Kept
    BY <2>1 DEF ConfigInv, ShimInv
  <2>2. ASSUME NEW p \in Proc, Die(p) PROVE Kept
    <3>1. phase'[p] = "down" /\ \A q \in Proc \ {p} : conf'[q] = conf[q]
      BY <2>2 DEF ConfigInv, Shape, Die
    <3>2. core' = IF p = "shim" THEN NoCore ELSE core
      BY <2>2 DEF Die
    <3> QED BY <3>1, <3>2 DEF ConfigInv, ShimInv, Proc
  <2>3. ASSUME NEW p \in Proc, Bootstrap(p), ~Die(p) PROVE Kept
    <3>1. phase[p] = "boot" /\ UNCHANGED core /\ \A q \in Proc \ {p} : conf'[q] = conf[q]
      BY <2>3 DEF ConfigInv, Shape, Bootstrap
    <3> QED BY <3>1 DEF ConfigInv, ShimInv, Proc
  <2>4. ASSUME RegisterShimLayer, ~Die("shim") PROVE Kept
    <3>1. phase["shim"] = "register" /\ UNCHANGED conf
      BY <2>4 DEF RegisterShimLayer
    <3> QED BY <3>1 DEF ConfigInv, ShimInv
  <2>5. ASSUME NEW p \in Proc, NEW i \in Index, Notify(p, i) PROVE Kept
    <3>1. CASE p = "admission"
      <4>1. UNCHANGED core /\ conf'["shim"] = conf["shim"]
            /\ (~conf[p].hot => UNCHANGED conf)
        BY <2>5, <3>1 DEF ConfigInv, Shape, Notify, Reload, ConfigUpdated, Proc
      <4> QED BY <3>1, <4>1 DEF ConfigInv, ShimInv, Proc
    <3>2. CASE p = "shim"
      <4>1. TriggerReloadConfig(i, api[i]) /\ phase' = phase
        BY <2>5, <3>2 DEF Notify, Reload
      <4>2. CASE ~conf["shim"].hot
        BY <2>1, <4>1, <4>2 DEF TriggerReloadConfig
      <4>3. CASE conf["shim"].hot
        <5>1. conf'["admission"] = conf["admission"]
          BY <4>1, <4>3 DEF ConfigInv, Shape, TriggerReloadConfig, Proc
        <5>2. conf'["shim"].group = conf["shim"].group
          BY <4>1, <4>3 DEF ConfigInv, Shape, TriggerReloadConfig, HandleNonReloadable, Proc
        <5> QED BY <4>3, <5>1, <5>2 DEF ConfigInv, ShimInv, Proc
      <4> QED BY <4>2, <4>3
    <3> QED BY <3>1, <3>2 DEF Proc
  <2>6. ASSUME NEW p \in Proc, NEW i \in Index, NotifyTombstone(p, i) PROVE Kept
    BY <2>1, <2>2, <2>6 DEF NotifyTombstone
  <2>7. ASSUME NEW p \in Proc, GetDefaults(p) \/ AddHandlers(p) \/ StopProcess(p) PROVE Kept
    BY <2>1, <2>2, <2>7 DEF GetDefaults, AddHandlers, StopProcess
  <2>8. ASSUME NEW i \in Index, NEW m, ChangeReviewed(i, m) \/ ChangeUnreviewed(i, m) PROVE Kept
    BY <2>1, <2>8 DEF ChangeReviewed, ChangeUnreviewed
  <2> HIDE DEF Kept
  <2> QED BY <2>2, <2>3, <2>4, <2>5, <2>6, <2>7, <2>8 DEF NextMaps, Proc
<1> QED BY <1>1, ConfigInvariant, PTL DEF MapsSpec, KeptUntilRestart
=============================================================================
