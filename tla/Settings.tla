------------------------------ MODULE Settings ------------------------------
(***************************************************************************)
(* CommonOpts.Parse: what every toolshare command does before its own      *)
(* work.  config.Parse decodes the configuration files one over the other; *)
(* environment.GetEnvironment then merges the environment files, in the    *)
(* light of that configuration, into the table of tools.  At the end, how  *)
(* `toolshare invoke` settles on the version to run.                       *)
(*                                                                         *)
(* Files are read one per step and may have any content.  The version that *)
(* environment file i pins a tool to, and the source it gives, are called  *)
(* i; 0 stands for the empty version and for a nil source.                 *)
(***************************************************************************)
EXTENDS Naturals, Sequences, FiniteSets

CONSTANTS
    Tools,      \* the names of tools
    Hosts,      \* the ways to name the host of a remote cache
    Kinds,      \* the kinds of source, of "file", "gcs", "github", ...
    Depth       \* the number of environment files that may be read

ASSUME DepthAssumption == Depth \in Nat
ASSUME HostsAssumption == IsFiniteSet(Hosts)

(* config.AllDirs: in this order, as the last file that is decoded wins.  *)
AllDirs == <<"user", "system">>

VARIABLES
    phase,      \* "config", "environment", "ready", "invoked" or "failed"
    layers,     \* history: the contents of the files read in this phase
    conf,       \* config.Global
    env,        \* environment.Environment, zero values where it has no entry
    registered, \* the keys of that map
    run         \* the tool that invoke runs, with the version, or nothing

vars == <<phase, layers, conf, env, registered, run>>

Switches == {"force_pinned", "disable_sources"}

(* A remote cache is the set of its keys, and {} when there is none.  *)
Caches == {{}} \cup {{"remote_cache"} \cup h : h \in SUBSET Hosts}

(* What a configuration file says of the cache: nothing, null or its keys.  *)
FileCaches ==
    [is : {"unset", "null"}, keys : {{}}] \cup
    [is : {"given"}, keys : Caches \ {{}}]

(* What a readable configuration or environment file says.  *)
ConfigFiles == [switch : [Switches -> {"unset", "true", "false"}],
                cache : FileCaches]

(***************************************************************************)
(* A source is given as a set of fields, whose names begin with a kind:    *)
(* a template, and but for two kinds a place, a bucket or a repository.    *)
(***************************************************************************)
Required(kind) ==
    {<<kind, "template">>}
        \cup IF kind \in {"file", "https"} THEN {} ELSE {<<kind, "place">>}

Sources ==
    [is : {"unset", "null"}, fields : {{}}] \cup
    [is : {"given"}, fields : SUBSET UNION {Required(k) : k \in Kinds}]

EnvironmentFiles == [pins : [Tools -> {"unset", "empty", "given"}],
                     sources : [Tools -> Sources]]

Missing == [missing |-> TRUE]
Files == ConfigFiles \cup EnvironmentFiles \cup {Missing}

NoEntry == [version |-> 0, versionFile |-> 0, source |-> 0, sourceFile |-> 0]
FileNumbers == 0..Depth

(* The version given with --version, when it is.  *)
Override == Depth + 1

TypeOK ==
    /\ phase \in {"config", "environment", "ready", "invoked", "failed"}
    /\ layers \in Seq(Files)
    /\ phase = "config" => Len(layers) <= Len(AllDirs)
    /\ phase \in {"environment", "ready", "invoked"} => Len(layers) <= Depth
    /\ conf \in [switch : [Switches -> BOOLEAN], cache : Caches]
    /\ env \in [Tools -> [version : FileNumbers, versionFile : FileNumbers,
                          source : FileNumbers, sourceFile : FileNumbers]]
    /\ registered \in SUBSET Tools
    /\ run \in SUBSET (Tools \X (1..Override))

Init ==
    /\ phase = "config"
    /\ layers = << >>
    /\ conf = [switch |-> [s \in Switches |-> FALSE], cache |-> {}]
    /\ env = [t \in Tools |-> NoEntry]
    /\ registered = {}
    /\ run = {}

(* The number of the file that is read now.  *)
Current == Len(layers) + 1

MoreConfigFiles == phase = "config" /\ Current <= Len(AllDirs)
MoreEnvironmentFiles == phase = "environment" /\ Current <= Depth

Read(content) == layers' = Append(layers, content)

(* A file that is not there is passed over; any other error ends it all.  *)
FileMissing ==
    /\ MoreConfigFiles \/ MoreEnvironmentFiles
    /\ Read(Missing)
    /\ UNCHANGED <<phase, conf, env, registered, run>>

FileBroken ==
    /\ MoreConfigFiles \/ MoreEnvironmentFiles
    /\ phase' = "failed"
    /\ UNCHANGED <<layers, conf, env, registered, run>>

Present(i) == i \in 1..Len(layers) /\ "missing" \notin DOMAIN layers[i]

-----------------------------------------------------------------------------
(* config.Parse.  *)

(* Mutant: a switch that is on stays on.  *)
DecodedSticky(s, value) == conf.switch[s] \/ value = "true"

Decoded(s, value) ==
    IF value = "unset" THEN conf.switch[s] ELSE value = "true"

(***************************************************************************)
(* Cache.UnmarshalYAML.  A file that says nothing of the cache leaves what *)
(* is there.  Whether the YAML decoder hands the method the cache that an  *)
(* earlier file has filled or a new one, and what it makes of a null over  *)
(* such a cache, is not for this program to say.  (A host that the second  *)
(* file empties is the only one of the first: as if the cache were new.)   *)
(***************************************************************************)
DecodedCaches(cache) ==
    CASE cache.is = "unset" -> {conf.cache}
      [] cache.is = "null" -> {{}, {"remote_cache"}, conf.cache}
      [] cache.is = "given" -> {cache.keys, cache.keys \cup conf.cache}

(* Mutant: the hosts of a cache are not counted.  *)
AmbiguousNever(cache) == FALSE

Ambiguous(cache) == Cardinality(cache \cap Hosts) > 1

DecodeConfig(file) ==
    /\ MoreConfigFiles
    /\ \E cache \in DecodedCaches(file.cache) :
         /\ ~Ambiguous(cache)
         /\ conf' = [switch |-> [s \in Switches |-> Decoded(s, file.switch[s])],
                     cache |-> cache]
    /\ Read(file)
    /\ UNCHANGED <<phase, env, registered, run>>

(* ErrAmbiguousBackend, for the one file or for both together.  *)
CacheAmbiguous(file) ==
    /\ MoreConfigFiles
    /\ \E cache \in DecodedCaches(file.cache) : Ambiguous(cache)
    /\ phase' = "failed"
    /\ UNCHANGED <<layers, conf, env, registered, run>>

ConfigParsed ==
    /\ phase = "config" /\ Current > Len(AllDirs)
    /\ phase' = "environment"
    /\ layers' = << >>
    /\ UNCHANGED <<conf, env, registered, run>>

-----------------------------------------------------------------------------
(* Source.UnmarshalYAML: a field is enough for a configuration of its kind, *)
KindsOf(source) == {field[1] : field \in source.fields}

(* Mutant: that there is only one configuration is not checked.  *)
ValidFirst(source) ==
    source.is = "given" =>
        \E k \in KindsOf(source) : Required(k) \subseteq source.fields

(* ... and Source.validate: there is one, and it is complete.  *)
Valid(source) ==
    source.is = "given" =>
        \E k \in Kinds : KindsOf(source) = {k} /\ source.fields = Required(k)

(* A file with a source that is not, even when sources are disabled.  *)
SourceRejected(file) ==
    /\ MoreEnvironmentFiles
    /\ \E t \in Tools : ~Valid(file.sources[t])
    /\ phase' = "failed"
    /\ UNCHANGED <<layers, conf, env, registered, run>>

(* Mutant: files are counted from the one after.  *)
NumberNext(value) == IF value = "given" THEN Current + 1 ELSE 0

(***************************************************************************)
(* environment.mergeEnvironment.  The files come innermost first; a pin or *)
(* a source is taken only by a tool that has none.  An entry is written,   *)
(* and the file recorded, even when what it takes is an empty version or a *)
(* nil source.                                                             *)
(***************************************************************************)
Number(value) == IF value = "given" THEN Current ELSE 0

(* Mutant: the outer file wins.  *)
TakesPinAlways(t, file) == file.pins[t] # "unset"

TakesPin(t, file) == file.pins[t] # "unset" /\ env[t].version = 0

TakesSource(t, file) ==
    /\ ~conf.switch["disable_sources"]
    /\ file.sources[t].is # "unset"
    /\ env[t].source = 0

(* The entry of t with what it takes from the file, and where pins are from. *)
Entry(t, file, pinsFrom) ==
    [version |-> IF TakesPin(t, file) THEN Number(file.pins[t])
                 ELSE env[t].version,
     versionFile |-> pinsFrom,
     source |-> IF TakesSource(t, file) THEN Number(file.sources[t].is)
                ELSE env[t].source,
     sourceFile |-> IF TakesSource(t, file) THEN Current
                    ELSE env[t].sourceFile]

(* Mutant: the file that mentions the tool first is kept on record.  *)
MergedFirstFile(t, file) ==
    Entry(t, file, IF TakesPin(t, file) /\ env[t].versionFile = 0
                   THEN Current ELSE env[t].versionFile)

Merged(t, file) ==
    Entry(t, file, IF TakesPin(t, file) THEN Current ELSE env[t].versionFile)

MergeEnvironment(file) ==
    /\ MoreEnvironmentFiles
    /\ \A t \in Tools : Valid(file.sources[t])
    /\ env' = [t \in Tools |-> Merged(t, file)]
    /\ registered' = registered \cup
           {t \in Tools : TakesPin(t, file) \/ TakesSource(t, file)}
    /\ Read(file)
    /\ UNCHANGED <<phase, conf, run>>

(* With force_pinned or a state there is nothing more to do: TODO.  *)
EnvironmentMerged ==
    /\ phase = "environment" /\ Current > Depth
    /\ phase' = "ready"
    /\ UNCHANGED <<layers, conf, env, registered, run>>

(***************************************************************************)
(* The head of invoke: the version is that of --version, or else the one   *)
(* in the table; with neither the driver exits.                            *)
(***************************************************************************)
Wanted(t, flag) == IF flag # 0 THEN flag ELSE env[t].version

Invoke(t, flag) ==
    /\ phase = "ready"
    /\ Wanted(t, flag) # 0
    /\ run' = {<<t, Wanted(t, flag)>>}
    /\ phase' = "invoked"
    /\ UNCHANGED <<layers, conf, env, registered>>

InvokeUnresolved(t, flag) ==
    /\ phase = "ready"
    /\ Wanted(t, flag) = 0
    /\ phase' = "failed"
    /\ UNCHANGED <<layers, conf, env, registered, run>>

-----------------------------------------------------------------------------
(* Nothing follows.  *)
Ended == phase \in {"invoked", "failed"} /\ UNCHANGED vars

Next ==
    \/ FileMissing \/ FileBroken
    \/ \E file \in ConfigFiles : DecodeConfig(file) \/ CacheAmbiguous(file)
    \/ ConfigParsed
    \/ \E file \in EnvironmentFiles :
          MergeEnvironment(file) \/ SourceRejected(file)
    \/ EnvironmentMerged
    \/ \E t \in Tools, flag \in {0, Override} :
          Invoke(t, flag) \/ InvokeUnresolved(t, flag)
    \/ Ended

Spec == Init /\ [][Next]_vars

-----------------------------------------------------------------------------
(* Properties.  *)

(* i is the first of the files read that satisfies Says, 0 if none does.  *)
IsFirst(i, Says(_)) ==
    \/ i = 0 /\ \A j \in 1..Len(layers) : ~(Present(j) /\ Says(j))
    \/ /\ Present(i) /\ Says(i)
       /\ \A j \in 1..(i - 1) : ~(Present(j) /\ Says(j))

(***************************************************************************)
(* setup.md:18: of nested environments the innermost takes priority, for   *)
(* pins and for sources separately: a file that pins a tool to nothing, or *)
(* gives it no source, hides neither.  With sources disabled there are     *)
(* none, whoever gives them.  What invoke runs is the innermost pin, unless *)
(* it was given a version (GetEnvironment, mergeEnvironment, invoke).      *)
(***************************************************************************)
InnermostWins ==
    phase \in {"environment", "ready", "invoked"} => \A t \in Tools :
        /\ IsFirst(env[t].version, LAMBDA j : layers[j].pins[t] = "given")
        /\ \A i \in 1..Depth : <<t, i>> \in run =>
              IsFirst(i, LAMBDA j : layers[j].pins[t] = "given")
        /\ IF conf.switch["disable_sources"] THEN env[t].source = 0
           ELSE IsFirst(env[t].source,
                        LAMBDA j : layers[j].sources[t].is = "given")

(***************************************************************************)
(* The file on record for a pin or a source is the one it came from, and   *)
(* a tool that has either is in the table (the output of `env --full`).    *)
(***************************************************************************)
ProvenanceRight ==
    \A t \in Tools :
        /\ env[t].version # 0 => env[t].versionFile = env[t].version
        /\ env[t].source # 0 => env[t].sourceFile = env[t].source
        /\ env[t] # NoEntry <=> t \in registered

(***************************************************************************)
(* The system configuration has the last word on a switch, the user's      *)
(* counts where the system says nothing (config.Parse over AllDirs).       *)
(***************************************************************************)
SystemHasLastWord ==
    phase = "config" /\ Len(layers) = 2 => \A s \in Switches :
        LET Says(i) == IF Present(i) THEN layers[i].switch[s] ELSE "unset"
        IN  conf.switch[s] = IF Says(2) # "unset" THEN Says(2) = "true"
                             ELSE Says(1) = "true"

(***************************************************************************)
(* However the files combine, the configuration that a command sees names  *)
(* at most one host for the remote cache, so that the order in which       *)
(* setupBackends looks at them does not matter (Cache.UnmarshalYAML).      *)
(***************************************************************************)
OneRemoteCache == Cardinality(conf.cache \cap Hosts) <= 1

(***************************************************************************)
(* The source that a tool ends up with, from whichever file, has all that  *)
(* its kind needs and nothing of another kind, so that the order in which  *)
(* Environment.Source looks at the kinds does not matter (Source.validate).*)
(***************************************************************************)
OneSourceKind ==
    \A t \in Tools : env[t].source # 0 =>
        \E k \in Kinds : layers[env[t].source].sources[t].fields = Required(k)
=============================================================================
