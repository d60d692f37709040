--------------------------- MODULE Settings_proofs ---------------------------
(***************************************************************************)
(* Proofs about Settings, for any tools, any ways to name a host, any      *)
(* kinds of source and any number of environment files.                    *)
(***************************************************************************)
EXTENDS Settings, FiniteSetTheorems, SequenceTheorems, TLAPS

(* The files read that pin t, and those that give it a source.  *)
PinsOf(t) ==
    {j \in 1 .. Len(layers) : Present(j) /\ layers[j].pins[t] = "given"}
SourcesOf(t) ==
    {j \in 1 .. Len(layers) : Present(j) /\ layers[j].sources[t].is = "given"}

(* The least of a set of numbers, 0 for that of none.  *)
IsLeast(i, set) ==
    IF set = {} THEN i = 0 ELSE i \in set /\ \A j \in set : i <= j

Entries == [version : FileNumbers, versionFile : FileNumbers,
            source : FileNumbers, sourceFile : FileNumbers]

-----------------------------------------------------------------------------
(* The files, and what is read of them.  *)

LEMMA FilesArePresent ==
  /\ \A file \in ConfigFiles \cup EnvironmentFiles : "missing" \notin DOMAIN file
  /\ "missing" \in DOMAIN Missing
  BY DEF ConfigFiles, EnvironmentFiles, Missing

LEMMA ReadFacts ==
  ASSUME TypeOK, NEW file \in Files, Read(file)
  PROVE  /\ layers' \in Seq(Files) /\ Len(layers) \in Nat
         /\ Len(layers') = Len(layers) + 1
         /\ \A j \in 1 .. Len(layers) : layers'[j] = layers[j]
         /\ layers'[Len(layers) + 1] = file
  BY AppendProperties, LenProperties DEF Read, TypeOK

LEMMA PinsFirst ==
  ASSUME NEW t \in Tools, NEW i \in Nat, Len(layers) \in Nat
  PROVE  IsFirst(i, LAMBDA j : layers[j].pins[t] = "given")
            <=> IsLeast(i, PinsOf(t))
  BY DEF IsFirst, IsLeast, PinsOf, Present

LEMMA SourcesFirst ==
  ASSUME NEW t \in Tools, NEW i \in Nat, Len(layers) \in Nat
  PROVE  IsFirst(i, LAMBDA j : layers[j].sources[t].is = "given")
            <=> IsLeast(i, SourcesOf(t))
  BY DEF IsFirst, IsLeast, SourcesOf, Present

(* One more number, after all others.  *)
LEMMA LeastOfMore ==
  ASSUME NEW n \in Nat, NEW set \in SUBSET (1 .. n), NEW i, IsLeast(i, set)
  PROVE  IsLeast(IF i = 0 THEN n + 1 ELSE i, set \cup {n + 1})
<1>1. CASE set = {}
  <2>1. i = 0 /\ set \cup {n + 1} = {n + 1}
    BY <1>1 DEF IsLeast
  <2>2. IsLeast(n + 1, {n + 1})
    BY DEF IsLeast
  <2> QED BY <1>1, <2>1, <2>2
<1>2. CASE set # {}
  <2>1. i \in set /\ i \in 1 .. n /\ \A j \in set : i <= j
    BY <1>2 DEF IsLeast
  <2>2. i # 0 /\ i <= n + 1
    BY <2>1
  <2> QED BY <2>1, <2>2 DEF IsLeast
<1> QED BY <1>1, <1>2

-----------------------------------------------------------------------------
(***************************************************************************)
(* The switches and the cache.  After the user's file the switches are     *)
(* what it says; no cache names two hosts.                                 *)
(***************************************************************************)
Says(i, s) == IF Present(i) THEN layers[i].switch[s] ELSE "unset"

SwitchesRight ==
    phase = "config" => \A s \in Switches :
        /\ Len(layers) = 0 => conf.switch[s] = FALSE
        /\ Len(layers) = 1 => conf.switch[s] = (Says(1, s) = "true")
        /\ Len(layers) = 2 => conf.switch[s] =
              IF Says(2, s) # "unset" THEN Says(2, s) = "true"
              ELSE Says(1, s) = "true"

ConfInv == SwitchesRight /\ OneRemoteCache

(***************************************************************************)
(* The table.  It is empty until the configuration is read, then has the   *)
(* innermost of what the files read so far give, and each source is one    *)
(* that was accepted.                                                      *)
(***************************************************************************)
TableFrom(t) ==
    /\ IsLeast(env[t].version, PinsOf(t))
    /\ IF conf.switch["disable_sources"] THEN env[t].source = 0
       ELSE IsLeast(env[t].source, SourcesOf(t))

EnvInv ==
    /\ phase = "config" => registered = {} /\ \A t \in Tools : env[t] = NoEntry
    /\ phase \in {"config", "environment", "ready"} => run = {}
    /\ phase \in {"environment", "ready", "invoked"} =>
          /\ \A t \in Tools : TableFrom(t)
          /\ \A t \in Tools, i \in 1 .. Depth :
                <<t, i>> \in run => i = env[t].version
    /\ \A t \in Tools : env[t].source <= Len(layers)

SettingsInv == ConfInv /\ EnvInv /\ ProvenanceRight /\ OneSourceKind

LEMMA NoHost ==
  Cardinality({} \cap Hosts) <= 1
<1>1. {} \cap Hosts = {}
  OBVIOUS
<1>2. Cardinality({}) = 0
  BY FS_EmptySet
<1> QED BY <1>1, <1>2

LEMMA SettingsInvInit == Init => TypeOK /\ SettingsInv
<1> SUFFICES ASSUME Init PROVE TypeOK /\ SettingsInv
  OBVIOUS
<1>1. /\ layers = << >> /\ Len(layers) = 0 /\ layers \in Seq(Files)
      /\ phase = "config" /\ registered = {} /\ run = {}
  BY DEF Init
<1>2. conf = [switch |-> [s \in Switches |-> FALSE], cache |-> {}]
  BY DEF Init
<1>3. NoEntry \in Entries
  BY DepthAssumption DEF NoEntry, Entries, FileNumbers
<1>4. env = [t \in Tools |-> NoEntry]
  BY DEF Init
<1>5. TypeOK
  <2>1. conf \in [switch : [Switches -> BOOLEAN], cache : Caches]
    BY <1>2 DEF Caches
  <2>2. env \in [Tools -> Entries]
    BY <1>3, <1>4
  <2> QED BY <1>1, <2>1, <2>2 DEF TypeOK, AllDirs, Entries
<1>6. ConfInv
  <2>1. SwitchesRight
    BY <1>1, <1>2 DEF SwitchesRight
  <2>2. OneRemoteCache
    BY <1>2, NoHost DEF OneRemoteCache
  <2> QED BY <2>1, <2>2 DEF ConfInv
<1>7. \A t \in Tools : env[t] = NoEntry
  BY <1>4
<1>8. NoEntry.version = 0 /\ NoEntry.source = 0
  BY DEF NoEntry
<1>9. EnvInv
  BY <1>1, <1>7, <1>8 DEF EnvInv
<1>10. ProvenanceRight /\ OneSourceKind
  BY <1>1, <1>7, <1>8 DEF ProvenanceRight, OneSourceKind
<1> QED BY <1>5, <1>6, <1>9, <1>10 DEF SettingsInv

-----------------------------------------------------------------------------
(* One file more: what the earlier ones say stays.  *)
LEMMA GrowsBy ==
  ASSUME TypeOK, NEW file \in Files, Read(file),
         NEW n \in Nat, n = Len(layers)
  PROVE  /\ \A j \in 1 .. n : (Present(j)' <=> Present(j))
         /\ Present(n + 1)' <=> file # Missing
         /\ \A s : \A j \in 1 .. n : Says(j, s)' = Says(j, s)
         /\ \A s : Says(n + 1, s)' =
                    IF file # Missing THEN file.switch[s] ELSE "unset"
         /\ \A t : PinsOf(t)' =
               IF file # Missing /\ file.pins[t] = "given"
               THEN PinsOf(t) \cup {n + 1} ELSE PinsOf(t)
         /\ \A t : SourcesOf(t)' =
               IF file # Missing /\ file.sources[t].is = "given"
               THEN SourcesOf(t) \cup {n + 1} ELSE SourcesOf(t)
         /\ \A t : PinsOf(t) \subseteq 1 .. n /\ SourcesOf(t) \subseteq 1 .. n
<1>1. /\ layers' \in Seq(Files) /\ Len(layers') = n + 1
      /\ \A j \in 1 .. n : layers'[j] = layers[j]
      /\ layers'[n + 1] = file
  BY ReadFacts
<1>2. "missing" \notin DOMAIN file <=> file # Missing
  BY FilesArePresent DEF Files
<1>3. /\ \A j \in 1 .. n : (Present(j)' <=> Present(j))
      /\ Present(n + 1)' <=> file # Missing
  BY <1>1, <1>2 DEF Present
<1>4. /\ \A s : \A j \in 1 .. n : Says(j, s)' = Says(j, s)
      /\ \A s : Says(n + 1, s)' =
                 IF file # Missing THEN file.switch[s] ELSE "unset"
  BY <1>1, <1>3 DEF Says
<1>5. 1 .. n + 1 = 1 .. n \cup {n + 1}
  OBVIOUS
<1>6. ASSUME NEW t
      PROVE  PinsOf(t)' = IF file # Missing /\ file.pins[t] = "given"
                          THEN PinsOf(t) \cup {n + 1} ELSE PinsOf(t)
  BY <1>1, <1>3, <1>5 DEF PinsOf
<1>7. ASSUME NEW t
      PROVE  SourcesOf(t)' =
                IF file # Missing /\ file.sources[t].is = "given"
                THEN SourcesOf(t) \cup {n + 1} ELSE SourcesOf(t)
  BY <1>1, <1>3, <1>5 DEF SourcesOf
<1>8. \A t : PinsOf(t) \subseteq 1 .. n /\ SourcesOf(t) \subseteq 1 .. n
  BY DEF PinsOf, SourcesOf
<1> QED BY <1>3, <1>4, <1>6, <1>7, <1>8

(* How the switches change with a configuration file.  *)
LEMMA SwitchesFollow ==
  ASSUME TypeOK, SwitchesRight, MoreConfigFiles, phase' = phase,
         NEW file \in Files, Read(file), NEW n \in Nat, n = Len(layers),
         \A s \in Switches : conf'.switch[s] =
            IF Says(n + 1, s)' = "unset" THEN conf.switch[s]
            ELSE Says(n + 1, s)' = "true"
  PROVE  SwitchesRight'
<1> SUFFICES ASSUME NEW s \in Switches
             PROVE  /\ Len(layers') = 0 => conf'.switch[s] = FALSE
                    /\ Len(layers') = 1 =>
                          conf'.switch[s] = (Says(1, s)' = "true")
                    /\ Len(layers') = 2 => conf'.switch[s] =
                          IF Says(2, s)' # "unset" THEN Says(2, s)' = "true"
                          ELSE Says(1, s)' = "true"
  BY DEF SwitchesRight
<1>1. Len(layers') = n + 1 /\ phase = "config"
  BY ReadFacts DEF MoreConfigFiles
<1>2. CASE n = 0
  <2>1. conf.switch[s] = FALSE
    BY <1>1, <1>2 DEF SwitchesRight
  <2>2. conf'.switch[s] = (Says(1, s)' = "true")
    <3>1. n + 1 = 1
      BY <1>2
    <3>2. conf'.switch[s] = IF Says(1, s)' = "unset" THEN FALSE
                            ELSE Says(1, s)' = "true"
      BY <2>1, <3>1
    <3> QED BY <3>2
  <2> QED BY <1>1, <1>2, <2>2
<1>3. CASE n = 1
  <2>1. conf.switch[s] = (Says(1, s) = "true")
    BY <1>1, <1>3 DEF SwitchesRight
  <2>2. Says(1, s)' = Says(1, s)
    BY <1>3, GrowsBy
  <2> QED BY <1>1, <1>3, <2>1, <2>2
<1>4. CASE n \notin {0, 1}
  BY <1>1, <1>4
<1> QED BY <1>2, <1>3, <1>4

(* The configuration files do not touch the table.  *)
LEMMA ConfigKeepsTable ==
  ASSUME SettingsInv, phase = "config", phase' = "config",
         Len(layers') \in Nat, UNCHANGED <<env, registered, run>>
  PROVE  EnvInv' /\ ProvenanceRight' /\ OneSourceKind'
<1>1. \A t \in Tools : env[t].source = 0
  BY DEF SettingsInv, EnvInv, NoEntry
<1>2. EnvInv'
  BY <1>1 DEF SettingsInv, EnvInv
<1>3. ProvenanceRight' /\ OneSourceKind'
  BY <1>1 DEF SettingsInv, ProvenanceRight, OneSourceKind
<1> QED BY <1>2, <1>3

LEMMA CachesJoin ==
  ASSUME NEW a \in Caches, NEW b \in Caches
  PROVE  a \cup b \in Caches
<1>1. CASE a = {} \/ b = {}
  <2>1. a \cup b = a \/ a \cup b = b
    BY <1>1
  <2> QED BY <2>1
<1>2. CASE a # {} /\ b # {}
  <2>1. PICK g \in SUBSET Hosts : a = {"remote_cache"} \cup g
    BY <1>2 DEF Caches
  <2>2. PICK h \in SUBSET Hosts : b = {"remote_cache"} \cup h
    BY <1>2 DEF Caches
  <2>3. a \cup b = {"remote_cache"} \cup (g \cup h)
    BY <2>1, <2>2
  <2> QED BY <2>3 DEF Caches
<1> QED BY <1>1, <1>2

LEMMA DecodedAreCaches ==
  ASSUME TypeOK, NEW said \in FileCaches, NEW cache \in DecodedCaches(said)
  PROVE  cache \in Caches
<1>1. conf.cache \in Caches
  BY DEF TypeOK
<1>2. CASE said.is = "unset"
  BY <1>1, <1>2 DEF DecodedCaches
<1>3. CASE said.is = "null"
  <2>1. cache \in {{}, {"remote_cache"}, conf.cache}
    BY <1>3 DEF DecodedCaches
  <2>2. {"remote_cache"} = {"remote_cache"} \cup {}
    OBVIOUS
  <2> QED BY <1>1, <2>1, <2>2 DEF Caches
<1>4. CASE said.is = "given"
  <2>1. said.keys \in Caches
    BY <1>4 DEF FileCaches
  <2>2. cache = said.keys \/ cache = said.keys \cup conf.cache
    BY <1>4 DEF DecodedCaches
  <2> QED BY <1>1, <2>1, <2>2, CachesJoin
<1> QED BY <1>2, <1>3, <1>4 DEF FileCaches

LEMMA KeepsDecode ==
  ASSUME TypeOK, SettingsInv, NEW file \in ConfigFiles, DecodeConfig(file)
  PROVE  TypeOK' /\ SettingsInv'
<1>1. PICK cache \in DecodedCaches(file.cache) :
        /\ ~Ambiguous(cache)
        /\ conf' = [switch |-> [s \in Switches |-> Decoded(s, file.switch[s])],
                    cache |-> cache]
  BY DEF DecodeConfig
<1>2. /\ phase = "config" /\ phase' = "config" /\ Read(file) /\ MoreConfigFiles
      /\ UNCHANGED <<env, registered, run>>
  BY DEF DecodeConfig, MoreConfigFiles
<1>3. PICK n \in Nat : n = Len(layers)
  BY <1>2, ReadFacts DEF Files
<1>4. /\ file \in Files /\ file # Missing /\ file.cache \in FileCaches
      /\ file.switch \in [Switches -> {"unset", "true", "false"}]
  BY FilesArePresent DEF Files, ConfigFiles
<1>5. layers' \in Seq(Files) /\ Len(layers') = n + 1
  BY <1>2, <1>3, <1>4, ReadFacts
<1>6. cache \in Caches
  BY <1>1, <1>4, DecodedAreCaches
<1>7. /\ conf'.cache = cache
      /\ \A s \in Switches : conf'.switch[s] = Decoded(s, file.switch[s])
  BY <1>1
<1>8. conf' \in [switch : [Switches -> BOOLEAN], cache : Caches]
  <2>1. \A s \in Switches : Decoded(s, file.switch[s]) \in BOOLEAN
    BY DEF Decoded, TypeOK
  <2> QED BY <1>1, <1>6, <2>1
<1>9. TypeOK'
  <2>1. Len(layers') <= Len(AllDirs)
    BY <1>2, <1>3, <1>5 DEF MoreConfigFiles, Current, AllDirs
  <2> QED BY <1>2, <1>5, <1>8, <2>1 DEF TypeOK
<1>10. SwitchesRight'
  <2>1. \A s \in Switches : conf'.switch[s] =
           IF Says(n + 1, s)' = "unset" THEN conf.switch[s]
           ELSE Says(n + 1, s)' = "true"
    BY <1>2, <1>3, <1>4, <1>7, GrowsBy DEF Decoded
  <2> QED BY <1>2, <1>3, <1>4, <2>1, SwitchesFollow DEF SettingsInv, ConfInv
<1>11. OneRemoteCache'
  <2>1. IsFiniteSet(cache \cap Hosts)
    BY HostsAssumption, FS_Subset
  <2>2. Cardinality(cache \cap Hosts) \in Nat
    BY <2>1, FS_CardinalityType
  <2>3. ~(Cardinality(cache \cap Hosts) > 1)
    BY <1>1 DEF Ambiguous
  <2> QED BY <1>7, <2>2, <2>3 DEF OneRemoteCache
<1>12. EnvInv' /\ ProvenanceRight' /\ OneSourceKind'
  BY <1>2, <1>5, ConfigKeepsTable
<1> QED BY <1>9, <1>10, <1>11, <1>12 DEF SettingsInv, ConfInv

(***************************************************************************)
(* What a step of the environment phase changes of the table, if anything. *)
(* A pin or a source of the file is taken by a tool that has none.         *)
(***************************************************************************)
LEMMA TableGrows ==
  ASSUME TypeOK, NEW file \in Files, Read(file), NEW n \in Nat, n = Len(layers),
         NEW t \in Tools, TableFrom(t), conf' = conf,
         env'[t].version = IF /\ file # Missing /\ file.pins[t] = "given"
                              /\ env[t].version = 0
                           THEN n + 1 ELSE env[t].version,
         env'[t].source = IF /\ file # Missing
                             /\ file.sources[t].is = "given"
                             /\ ~conf.switch["disable_sources"]
                             /\ env[t].source = 0
                          THEN n + 1 ELSE env[t].source
  PROVE  TableFrom(t)'
<1>1. /\ PinsOf(t) \subseteq 1 .. n /\ SourcesOf(t) \subseteq 1 .. n
      /\ PinsOf(t)' = IF file # Missing /\ file.pins[t] = "given"
                      THEN PinsOf(t) \cup {n + 1} ELSE PinsOf(t)
      /\ SourcesOf(t)' = IF file # Missing /\ file.sources[t].is = "given"
                         THEN SourcesOf(t) \cup {n + 1} ELSE SourcesOf(t)
  BY GrowsBy
<1>2. \A i, set : IsLeast(i, set)' <=> IsLeast(i, set)
  BY DEF IsLeast
<1>3. IsLeast(env'[t].version, PinsOf(t)')
  <2>1. PICK i : i = env[t].version
    OBVIOUS
  <2>2. PICK set \in SUBSET (1 .. n) : set = PinsOf(t)
    BY <1>1
  <2>3. IsLeast(i, set)
    BY <2>1, <2>2 DEF TableFrom
  <2>4. CASE file # Missing /\ file.pins[t] = "given"
    <3>1. /\ PinsOf(t)' = set \cup {n + 1}
          /\ env'[t].version = IF i = 0 THEN n + 1 ELSE i
      BY <1>1, <2>1, <2>2, <2>4
    <3> QED BY <2>3, <3>1, LeastOfMore
  <2>5. CASE ~(file # Missing /\ file.pins[t] = "given")
    <3>1. PinsOf(t)' = set /\ env'[t].version = i
      BY <1>1, <2>1, <2>2, <2>5
    <3> QED BY <2>3, <3>1
  <2> QED BY <2>4, <2>5
<1>4. CASE conf.switch["disable_sources"]
  <2>1. env[t].source = 0
    BY <1>4 DEF TableFrom
  <2>2. env'[t].source = 0
    BY <1>4, <2>1
  <2> QED BY <1>3, <1>4, <2>2 DEF TableFrom, IsLeast
<1>5. CASE ~conf.switch["disable_sources"]
  <2>1. PICK i : i = env[t].source
    OBVIOUS
  <2>2. PICK set \in SUBSET (1 .. n) : set = SourcesOf(t)
    BY <1>1
  <2>3. IsLeast(i, set)
    BY <1>5, <2>1, <2>2 DEF TableFrom
  <2>4. IsLeast(env'[t].source, SourcesOf(t)')
    <3>1. CASE file # Missing /\ file.sources[t].is = "given"
      <4>1. /\ SourcesOf(t)' = set \cup {n + 1}
            /\ env'[t].source = IF i = 0 THEN n + 1 ELSE i
        BY <1>1, <1>5, <2>1, <2>2, <3>1
      <4> QED BY <2>3, <4>1, LeastOfMore
    <3>2. CASE ~(file # Missing /\ file.sources[t].is = "given")
      <4>1. SourcesOf(t)' = set /\ env'[t].source = i
        BY <1>1, <2>1, <2>2, <3>2
      <4> QED BY <2>3, <4>1
    <3> QED BY <3>1, <3>2
  <2> QED BY <1>3, <1>5, <2>4 DEF TableFrom, IsLeast
<1> QED BY <1>4, <1>5

(* A file that is not there changes nothing.  *)
LEMMA KeepsMissing ==
  ASSUME TypeOK, SettingsInv, FileMissing
  PROVE  TypeOK' /\ SettingsInv'
<1>1. /\ Missing \in Files /\ Read(Missing)
      /\ UNCHANGED <<phase, conf, env, registered, run>>
  BY DEF FileMissing, Files
<1>2. PICK n \in Nat : n = Len(layers)
  BY <1>1, ReadFacts
<1>3. /\ layers' \in Seq(Files) /\ Len(layers') = n + 1
      /\ \A j \in 1 .. n : layers'[j] = layers[j]
  BY <1>1, <1>2, ReadFacts
<1>4. TypeOK'
  <2>1. /\ phase = "config" => Len(layers') <= Len(AllDirs)
        /\ phase \in {"environment", "ready", "invoked"} =>
              Len(layers') <= Depth
    BY <1>2, <1>3 DEF FileMissing, MoreConfigFiles, MoreEnvironmentFiles, Current
  <2> QED BY <1>1, <1>3, <2>1 DEF TypeOK
<1>5. OneRemoteCache'
  BY <1>1 DEF SettingsInv, ConfInv, OneRemoteCache
<1>6. CASE MoreConfigFiles
  <2>1. \A s \in Switches : conf'.switch[s] =
           IF Says(n + 1, s)' = "unset" THEN conf.switch[s]
           ELSE Says(n + 1, s)' = "true"
    BY <1>1, <1>2, GrowsBy
  <2>2. SwitchesRight'
    BY <1>1, <1>2, <1>6, <2>1, SwitchesFollow DEF SettingsInv, ConfInv
  <2>3. EnvInv' /\ ProvenanceRight' /\ OneSourceKind'
    BY <1>1, <1>3, <1>6, ConfigKeepsTable DEF MoreConfigFiles
  <2> QED BY <1>4, <1>5, <2>2, <2>3 DEF SettingsInv, ConfInv
<1>7. CASE MoreEnvironmentFiles
  <2>1. phase = "environment" /\ phase' = "environment"
    BY <1>1, <1>7 DEF MoreEnvironmentFiles
  <2>2. SwitchesRight'
    BY <2>1 DEF SwitchesRight
  <2>3. ASSUME NEW t \in Tools PROVE TableFrom(t)'
    <3>1. TableFrom(t)
      BY <2>1 DEF SettingsInv, EnvInv
    <3> QED BY <1>1, <1>2, <3>1, TableGrows
  <2>4. \A t \in Tools : env[t].source \in Nat /\ env[t].source <= n
    BY <1>2, DepthAssumption DEF SettingsInv, EnvInv, TypeOK, FileNumbers
  <2>5. EnvInv'
    BY <1>1, <1>3, <2>1, <2>3, <2>4 DEF SettingsInv, EnvInv
  <2>6. ProvenanceRight'
    BY <1>1 DEF SettingsInv, ProvenanceRight
  <2>7. OneSourceKind'
    BY <1>1, <1>3, <2>4 DEF SettingsInv, OneSourceKind
  <2> QED BY <1>4, <1>5, <2>2, <2>5, <2>6, <2>7 DEF SettingsInv, ConfInv
<1> QED BY <1>6, <1>7 DEF FileMissing

-----------------------------------------------------------------------------
(* An environment file: what becomes of an entry.  *)
LEMMA MergedFacts ==
  ASSUME TypeOK, MoreEnvironmentFiles, NEW file \in EnvironmentFiles,
         NEW t \in Tools
  PROVE  /\ Merged(t, file) \in Entries
         /\ Merged(t, file).version =
               IF file.pins[t] = "given" /\ env[t].version = 0
               THEN Len(layers) + 1 ELSE env[t].version
         /\ Merged(t, file).source =
               IF /\ file.sources[t].is = "given"
                  /\ ~conf.switch["disable_sources"]
                  /\ env[t].source = 0
               THEN Len(layers) + 1 ELSE env[t].source
         /\ Merged(t, file).versionFile =
               IF TakesPin(t, file) THEN Len(layers) + 1 ELSE env[t].versionFile
         /\ Merged(t, file).sourceFile =
               IF TakesSource(t, file) THEN Len(layers) + 1
               ELSE env[t].sourceFile
<1>1. Current = Len(layers) + 1 /\ Current \in FileNumbers /\ 0 \in FileNumbers
  BY LenProperties, DepthAssumption
     DEF TypeOK, Current, MoreEnvironmentFiles, FileNumbers
<1>2. /\ env[t] \in Entries
      /\ env[t].version \in FileNumbers /\ env[t].versionFile \in FileNumbers
      /\ env[t].source \in FileNumbers /\ env[t].sourceFile \in FileNumbers
  BY DEF TypeOK, Entries
<1>3. /\ file.pins[t] \in {"unset", "empty", "given"}
      /\ file.sources[t].is \in {"unset", "null", "given"}
  BY DEF EnvironmentFiles, Sources
<1>4. Merged(t, file) =
        [version |-> IF TakesPin(t, file) THEN Number(file.pins[t])
                     ELSE env[t].version,
         versionFile |-> IF TakesPin(t, file) THEN Current
                         ELSE env[t].versionFile,
         source |-> IF TakesSource(t, file) THEN Number(file.sources[t].is)
                    ELSE env[t].source,
         sourceFile |-> IF TakesSource(t, file) THEN Current
                        ELSE env[t].sourceFile]
  BY DEF Merged, Entry
<1>5. \A value : Number(value) \in FileNumbers
  BY <1>1 DEF Number
<1>6. Merged(t, file) \in Entries
  BY <1>1, <1>2, <1>4, <1>5 DEF Entries
<1>7. Merged(t, file).version =
        IF file.pins[t] = "given" /\ env[t].version = 0
        THEN Len(layers) + 1 ELSE env[t].version
  BY <1>1, <1>3, <1>4 DEF TakesPin, Number
<1>8. Merged(t, file).source =
        IF /\ file.sources[t].is = "given"
           /\ ~conf.switch["disable_sources"]
           /\ env[t].source = 0
        THEN Len(layers) + 1 ELSE env[t].source
  BY <1>1, <1>3, <1>4 DEF TakesSource, Number
<1> QED BY <1>1, <1>4, <1>6, <1>7, <1>8

LEMMA MergeRecords ==
  ASSUME TypeOK, SettingsInv, NEW file \in EnvironmentFiles,
         MergeEnvironment(file), NEW t \in Tools
  PROVE  /\ env'[t].version # 0 => env'[t].versionFile = env'[t].version
         /\ env'[t].source # 0 => env'[t].sourceFile = env'[t].source
         /\ env'[t] # NoEntry <=> t \in registered'
<1>1. /\ MoreEnvironmentFiles /\ env'[t] = Merged(t, file)
      /\ t \in registered' <=>
            t \in registered \/ TakesPin(t, file) \/ TakesSource(t, file)
  BY DEF MergeEnvironment
<1>2. PICK n \in Nat : n = Len(layers)
  BY LenProperties DEF TypeOK
<1>3. /\ env[t].version # 0 => env[t].versionFile = env[t].version
      /\ env[t].source # 0 => env[t].sourceFile = env[t].source
      /\ env[t] # NoEntry <=> t \in registered
  BY DEF SettingsInv, ProvenanceRight
<1>4. /\ env'[t].versionFile =
            IF TakesPin(t, file) THEN n + 1 ELSE env[t].versionFile
      /\ env'[t].sourceFile =
            IF TakesSource(t, file) THEN n + 1 ELSE env[t].sourceFile
  BY <1>1, <1>2, MergedFacts
<1>5. env'[t].version # 0 => env'[t].versionFile = env'[t].version
  <2>1. env'[t].version = IF file.pins[t] = "given" /\ env[t].version = 0
                          THEN n + 1 ELSE env[t].version
    BY <1>1, <1>2, MergedFacts
  <2> QED BY <1>3, <1>4, <2>1 DEF TakesPin
<1>6. env'[t].source # 0 => env'[t].sourceFile = env'[t].source
  <2>1. env'[t].source = IF /\ file.sources[t].is = "given"
                            /\ ~conf.switch["disable_sources"]
                            /\ env[t].source = 0
                         THEN n + 1 ELSE env[t].source
    BY <1>1, <1>2, MergedFacts
  <2> QED BY <1>3, <1>4, <2>1 DEF TakesSource
<1>7. CASE TakesPin(t, file) \/ TakesSource(t, file)
  <2>1. env'[t].versionFile # 0 \/ env'[t].sourceFile # 0
    BY <1>4, <1>7
  <2>2. env'[t] # NoEntry
    BY <2>1 DEF NoEntry
  <2> QED BY <1>1, <1>5, <1>6, <1>7, <2>2
<1>8. CASE ~(TakesPin(t, file) \/ TakesSource(t, file))
  <2>1. Merged(t, file) =
          [version |-> env[t].version, versionFile |-> env[t].versionFile,
           source |-> env[t].source, sourceFile |-> env[t].sourceFile]
    BY <1>8 DEF Merged, Entry
  <2>2. env[t] \in Entries
    BY DEF TypeOK, Entries
  <2>3. env'[t] = env[t]
    BY <1>1, <2>1, <2>2 DEF Entries
  <2> QED BY <1>1, <1>3, <1>5, <1>6, <1>8, <2>3
<1> QED BY <1>7, <1>8

LEMMA KeepsMerge ==
  ASSUME TypeOK, SettingsInv, NEW file \in EnvironmentFiles,
         MergeEnvironment(file)
  PROVE  TypeOK' /\ SettingsInv'
<1>1. /\ MoreEnvironmentFiles /\ Read(file) /\ UNCHANGED <<phase, conf, run>>
      /\ env' = [t \in Tools |-> Merged(t, file)]
      /\ \A t \in Tools : Valid(file.sources[t])
      /\ registered' \in SUBSET Tools
  BY DEF MergeEnvironment, TypeOK
<1>2. PICK n \in Nat : n = Len(layers)
  BY LenProperties DEF TypeOK
<1>3. file \in Files /\ file # Missing
  BY FilesArePresent DEF Files
<1>4. /\ layers' \in Seq(Files) /\ Len(layers') = n + 1
      /\ \A j \in 1 .. n : layers'[j] = layers[j]
      /\ layers'[n + 1] = file
  BY <1>1, <1>2, <1>3, ReadFacts
<1>5. phase = "environment" /\ phase' = "environment" /\ n + 1 <= Depth
  BY <1>1, <1>2 DEF MoreEnvironmentFiles, Current
<1>6. \A t \in Tools : env'[t] = Merged(t, file)
  BY <1>1
<1>7. ASSUME NEW t \in Tools
      PROVE  /\ env'[t].version =
                   IF file.pins[t] = "given" /\ env[t].version = 0
                   THEN n + 1 ELSE env[t].version
             /\ env'[t].source =
                   IF /\ file.sources[t].is = "given"
                      /\ ~conf.switch["disable_sources"]
                      /\ env[t].source = 0
                   THEN n + 1 ELSE env[t].source
  BY <1>1, <1>2, <1>6, MergedFacts
<1>8. TypeOK'
  <2>1. env' \in [Tools -> Entries]
    BY <1>1, MergedFacts
  <2> QED BY <1>1, <1>4, <1>5, <2>1 DEF TypeOK, Entries
<1>9. SwitchesRight' /\ OneRemoteCache'
  BY <1>1, <1>5 DEF SettingsInv, ConfInv, SwitchesRight, OneRemoteCache
<1>10. ASSUME NEW t \in Tools PROVE TableFrom(t)'
  <2>1. TableFrom(t)
    BY <1>5 DEF SettingsInv, EnvInv
  <2>2. env'[t].version = IF /\ file # Missing /\ file.pins[t] = "given"
                             /\ env[t].version = 0
                          THEN n + 1 ELSE env[t].version
    BY <1>3, <1>7
  <2>3. env'[t].source = IF /\ file # Missing
                            /\ file.sources[t].is = "given"
                            /\ ~conf.switch["disable_sources"]
                            /\ env[t].source = 0
                         THEN n + 1 ELSE env[t].source
    BY <1>3, <1>7
  <2> QED BY <1>1, <1>2, <1>3, <2>1, <2>2, <2>3, TableGrows
<1>11. \A t \in Tools : env[t].source \in Nat /\ env[t].source <= n
  BY <1>2, DepthAssumption DEF SettingsInv, EnvInv, TypeOK, FileNumbers
<1>12. EnvInv'
  <2>1. \A t \in Tools : env'[t].source <= n + 1
    BY <1>7, <1>11
  <2>2. run' = {}
    BY <1>1, <1>5 DEF SettingsInv, EnvInv
  <2> QED BY <1>4, <1>5, <1>10, <2>1, <2>2 DEF EnvInv
<1>13. ProvenanceRight'
  BY MergeRecords DEF ProvenanceRight
<1>14. OneSourceKind'
  <2> SUFFICES ASSUME NEW t \in Tools, env'[t].source # 0
               PROVE  \E k \in Kinds :
                         layers'[env'[t].source].sources[t].fields = Required(k)
    BY DEF OneSourceKind
  <2>1. CASE env[t].source # 0
    <3>1. env'[t].source = env[t].source /\ env[t].source \in 1 .. n
      BY <1>7, <1>11, <2>1
    <3>2. layers'[env'[t].source] = layers[env[t].source]
      BY <1>4, <3>1
    <3> QED BY <2>1, <3>2 DEF SettingsInv, OneSourceKind
  <2>2. CASE env[t].source = 0
    <3>1. env'[t].source = n + 1 /\ file.sources[t].is = "given"
      BY <1>7, <2>2
    <3>2. \E k \in Kinds : file.sources[t].fields = Required(k)
      BY <1>1, <3>1 DEF Valid
    <3> QED BY <1>4, <3>1, <3>2
  <2> QED BY <2>1, <2>2
<1> QED BY <1>8, <1>9, <1>12, <1>13, <1>14 DEF SettingsInv, ConfInv

-----------------------------------------------------------------------------
(* The steps that read no file.  *)
LEMMA KeepsFailing ==
  ASSUME TypeOK, SettingsInv, phase' = "failed",
         UNCHANGED <<layers, conf, env, registered, run>>
  PROVE  TypeOK' /\ SettingsInv'
<1>1. TypeOK'
  BY DEF TypeOK
<1>2. SwitchesRight' /\ OneRemoteCache'
  BY DEF SettingsInv, ConfInv, SwitchesRight, OneRemoteCache
<1>3. EnvInv'
  BY DEF SettingsInv, EnvInv
<1>4. ProvenanceRight' /\ OneSourceKind'
  BY DEF SettingsInv, ProvenanceRight, OneSourceKind
<1> QED BY <1>1, <1>2, <1>3, <1>4 DEF SettingsInv, ConfInv

LEMMA KeepsConfigParsed ==
  ASSUME TypeOK, SettingsInv, ConfigParsed
  PROVE  TypeOK' /\ SettingsInv'
<1>1. /\ phase = "config" /\ phase' = "environment" /\ layers' = << >>
      /\ layers' \in Seq(Files) /\ Len(layers') = 0
      /\ UNCHANGED <<conf, env, registered, run>>
  BY DEF ConfigParsed
<1>2. TypeOK'
  BY <1>1, DepthAssumption DEF TypeOK
<1>3. SwitchesRight' /\ OneRemoteCache'
  BY <1>1 DEF SettingsInv, ConfInv, SwitchesRight, OneRemoteCache
<1>4. \A t \in Tools : env[t].version = 0 /\ env[t].source = 0
  BY <1>1 DEF SettingsInv, EnvInv, NoEntry
<1>5. ASSUME NEW t \in Tools PROVE TableFrom(t)'
  <2>1. 1 .. Len(layers') = {}
    BY <1>1
  <2>2. PinsOf(t)' = {} /\ SourcesOf(t)' = {}
    BY <2>1 DEF PinsOf, SourcesOf
  <2> QED BY <1>1, <1>4, <2>2 DEF TableFrom, IsLeast
<1>6. EnvInv'
  BY <1>1, <1>4, <1>5 DEF SettingsInv, EnvInv
<1>7. ProvenanceRight' /\ OneSourceKind'
  BY <1>1, <1>4 DEF SettingsInv, ProvenanceRight, OneSourceKind
<1> QED BY <1>2, <1>3, <1>6, <1>7 DEF SettingsInv, ConfInv

(* What depends on the files read, the configuration and the table only.  *)
LEMMA KeepsRead ==
  ASSUME UNCHANGED <<layers, conf, env, registered>>,
         OneRemoteCache, ProvenanceRight, OneSourceKind
  PROVE  /\ OneRemoteCache' /\ ProvenanceRight' /\ OneSourceKind'
         /\ \A t : TableFrom(t) => TableFrom(t)'
<1>1. OneRemoteCache' /\ ProvenanceRight' /\ OneSourceKind'
  BY DEF OneRemoteCache, ProvenanceRight, OneSourceKind
<1>2. ASSUME NEW t PROVE TableFrom(t) => TableFrom(t)'
  BY DEF TableFrom, IsLeast, PinsOf, SourcesOf, Present
<1> QED BY <1>1, <1>2

LEMMA KeepsMerged ==
  ASSUME TypeOK, SettingsInv, EnvironmentMerged
  PROVE  TypeOK' /\ SettingsInv'
<1>1. /\ phase = "environment" /\ phase' = "ready"
      /\ UNCHANGED <<layers, conf, env, registered, run>>
  BY DEF EnvironmentMerged
<1>2. TypeOK'
  BY <1>1 DEF TypeOK
<1>3. /\ OneRemoteCache' /\ ProvenanceRight' /\ OneSourceKind'
      /\ \A t : TableFrom(t) => TableFrom(t)'
  BY <1>1, KeepsRead DEF SettingsInv, ConfInv
<1>4. EnvInv'
  BY <1>1, <1>3 DEF SettingsInv, EnvInv
<1> QED BY <1>1, <1>2, <1>3, <1>4 DEF SettingsInv, ConfInv, SwitchesRight

(* A version given with --version is none that a file pins.  *)
LEMMA KeepsInvoke ==
  ASSUME TypeOK, SettingsInv, NEW t \in Tools, NEW flag \in {0, Override},
         Invoke(t, flag)
  PROVE  TypeOK' /\ SettingsInv'
<1>1. /\ phase = "ready" /\ phase' = "invoked"
      /\ Wanted(t, flag) # 0 /\ run' = {<<t, Wanted(t, flag)>>}
      /\ UNCHANGED <<layers, conf, env, registered>>
  BY DEF Invoke
<1>2. env[t].version \in 0 .. Depth
  BY DEF TypeOK, FileNumbers
<1>3. /\ Wanted(t, flag) \in 1 .. Override
      /\ Wanted(t, flag) \in 1 .. Depth => Wanted(t, flag) = env[t].version
  BY <1>1, <1>2, DepthAssumption DEF Wanted, Override
<1>4. TypeOK'
  BY <1>1, <1>3 DEF TypeOK
<1>5. /\ OneRemoteCache' /\ ProvenanceRight' /\ OneSourceKind'
      /\ \A u : TableFrom(u) => TableFrom(u)'
  BY <1>1, KeepsRead DEF SettingsInv, ConfInv
<1>6. EnvInv'
  <2>1. \A u \in Tools, i \in 1 .. Depth :
          <<u, i>> \in run' => i = env'[u].version
    BY <1>1, <1>3
  <2> QED BY <1>1, <1>5, <2>1 DEF SettingsInv, EnvInv
<1> QED BY <1>1, <1>4, <1>5, <1>6 DEF SettingsInv, ConfInv, SwitchesRight

LEMMA SettingsInvStutter ==
  ASSUME TypeOK, SettingsInv, UNCHANGED vars
  PROVE  TypeOK' /\ SettingsInv'
<1>1. UNCHANGED <<phase, layers, conf, env, registered, run>>
  BY DEF vars
<1>2. TypeOK'
  BY <1>1 DEF TypeOK
<1>3. /\ OneRemoteCache' /\ ProvenanceRight' /\ OneSourceKind'
      /\ \A t : TableFrom(t) => TableFrom(t)'
  BY <1>1, KeepsRead DEF SettingsInv, ConfInv
<1>4. SwitchesRight'
  BY <1>1 DEF SettingsInv, ConfInv, SwitchesRight, Says, Present
<1>5. EnvInv'
  BY <1>1, <1>3 DEF SettingsInv, EnvInv
<1> QED BY <1>2, <1>3, <1>4, <1>5 DEF SettingsInv, ConfInv

LEMMA SettingsInvNext ==
  ASSUME TypeOK, SettingsInv, [Next]_vars
  PROVE  TypeOK' /\ SettingsInv'
<1>1. CASE FileMissing
  BY <1>1, KeepsMissing
<1>2. CASE FileBroken
  BY <1>2, KeepsFailing DEF FileBroken
<1>3. ASSUME NEW file \in ConfigFiles, DecodeConfig(file)
      PROVE  TypeOK' /\ SettingsInv'
  BY <1>3, KeepsDecode
<1>4. ASSUME NEW file \in ConfigFiles, CacheAmbiguous(file)
      PROVE  TypeOK' /\ SettingsInv'
  BY <1>4, KeepsFailing DEF CacheAmbiguous
<1>5. CASE ConfigParsed
  BY <1>5, KeepsConfigParsed
<1>6. ASSUME NEW file \in EnvironmentFiles, MergeEnvironment(file)
      PROVE  TypeOK' /\ SettingsInv'
  BY <1>6, KeepsMerge
<1>7. ASSUME NEW file \in EnvironmentFiles, SourceRejected(file)
      PROVE  TypeOK' /\ SettingsInv'
  BY <1>7, KeepsFailing DEF SourceRejected
<1>8. CASE EnvironmentMerged
  BY <1>8, KeepsMerged
<1>9. ASSUME NEW t \in Tools, NEW flag \in {0, Override}, Invoke(t, flag)
      PROVE  TypeOK' /\ SettingsInv'
  BY <1>9, KeepsInvoke
<1>10. ASSUME NEW t \in Tools, NEW flag \in {0, Override},
              InvokeUnresolved(t, flag)
       PROVE  TypeOK' /\ SettingsInv'
  BY <1>10, KeepsFailing DEF InvokeUnresolved
<1>11. CASE Ended \/ UNCHANGED vars
  BY <1>11, SettingsInvStutter DEF Ended
<1> QED BY <1>1, <1>2, <1>3, <1>4, <1>5, <1>6, <1>7, <1>8, <1>9, <1>10, <1>11
        DEF Next

LEMMA SettingsInvariant == Spec => [](TypeOK /\ SettingsInv)
<1>1. TypeOK /\ SettingsInv /\ [Next]_vars => (TypeOK /\ SettingsInv)'
  BY SettingsInvNext
<1> QED BY SettingsInvInit, <1>1, PTL DEF Spec

-----------------------------------------------------------------------------
(* The theorems.  *)

(* The files read, the configuration and the table are well-formed.  *)
THEOREM TypeCorrect == Spec => []TypeOK
BY SettingsInvariant, PTL

(***************************************************************************)
(* However many environments are nested, of the pins of a tool the         *)
(* innermost is in the table and run, and of the sources the innermost is  *)
(* (setup.md:18 of mergeEnvironment).                                      *)
(***************************************************************************)
THEOREM TheInnermostWins == Spec => []InnermostWins
<1>1. TypeOK /\ SettingsInv => InnermostWins
  <2> SUFFICES ASSUME TypeOK, SettingsInv,
                      phase \in {"environment", "ready", "invoked"},
                      NEW t \in Tools
               PROVE  /\ IsFirst(env[t].version,
                                 LAMBDA j : layers[j].pins[t] = "given")
                      /\ \A i \in 1 .. Depth : <<t, i>> \in run =>
                            IsFirst(i, LAMBDA j : layers[j].pins[t] = "given")
                      /\ IF conf.switch["disable_sources"]
                         THEN env[t].source = 0
                         ELSE IsFirst(env[t].source,
                                 LAMBDA j : layers[j].sources[t].is = "given")
    BY DEF InnermostWins
  <2>1. /\ Len(layers) \in Nat /\ env[t].version \in Nat
        /\ env[t].source \in Nat
    BY LenProperties, DepthAssumption DEF TypeOK, FileNumbers
  <2>2. /\ IsLeast(env[t].version, PinsOf(t))
        /\ \A i \in 1 .. Depth : <<t, i>> \in run => i = env[t].version
        /\ IF conf.switch["disable_sources"] THEN env[t].source = 0
           ELSE IsLeast(env[t].source, SourcesOf(t))
    BY DEF SettingsInv, EnvInv, TableFrom
  <2>3. IsFirst(env[t].version, LAMBDA j : layers[j].pins[t] = "given")
    BY <2>1, <2>2, PinsFirst
  <2>4. ASSUME NEW i \in 1 .. Depth, <<t, i>> \in run
        PROVE  IsFirst(i, LAMBDA j : layers[j].pins[t] = "given")
    <3>1. i \in Nat /\ IsLeast(i, PinsOf(t))
      BY <2>2, <2>4
    <3> QED BY <2>1, <3>1, PinsFirst
  <2>5. CASE ~conf.switch["disable_sources"]
    <3>1. IsFirst(env[t].source, LAMBDA j : layers[j].sources[t].is = "given")
      BY <2>1, <2>2, <2>5, SourcesFirst
    <3> QED BY <2>3, <2>4, <2>5, <3>1
  <2> QED BY <2>2, <2>3, <2>4, <2>5
<1> QED BY SettingsInvariant, <1>1, PTL

(* What `env --full` prints is where pins and sources are from.  *)
THEOREM TheRecordIsRight == Spec => []ProvenanceRight
<1>1. TypeOK /\ SettingsInv => ProvenanceRight
  BY DEF SettingsInv
<1> QED BY SettingsInvariant, <1>1, PTL

(* The system's configuration overrules the user's, switch by switch.  *)
THEOREM TheSystemOverrules == Spec => []SystemHasLastWord
<1>1. TypeOK /\ SettingsInv => SystemHasLastWord
  BY DEF SettingsInv, ConfInv, SwitchesRight, SystemHasLastWord, Says
<1> QED BY SettingsInvariant, <1>1, PTL

(* No combination of files that is accepted names two remote caches.  *)
THEOREM NoTwoRemoteCaches == Spec => []OneRemoteCache
<1>1. TypeOK /\ SettingsInv => OneRemoteCache
  BY DEF SettingsInv, ConfInv
<1> QED BY SettingsInvariant, <1>1, PTL

(* A tool's source is complete and of one kind.  *)
THEOREM SourcesAreOfOneKind == Spec => []OneSourceKind
<1>1. TypeOK /\ SettingsInv => OneSourceKind
  BY DEF SettingsInv
<1> QED BY SettingsInvariant, <1>1, PTL
=============================================================================
