------------------------------ MODULE Download ------------------------------
(***************************************************************************)
(* Which binary goes where: `toolshare download` for a list of platforms   *)
(* and architectures, `toolshare invoke` for the host, and the names under *)
(* which the local cache and a source know a binary (download.go,          *)
(* config/binary.go and the path templates of internal/backend).           *)
(*                                                                         *)
(* One tool at one version, and one command at a time; getToolBinary is a  *)
(* step here, module ToolFetch has what goes on inside.  A path is the     *)
(* tuple of the strings that its {items} are replaced with.                *)
(***************************************************************************)
EXTENDS Naturals, Functions

CONSTANTS
    Platforms,  \* the platforms there are, named alike by Go and toolshare
    GoArchs,    \* the architectures there are, as Go names them
    Mappings    \* the template_mappings a source may have, of architectures
                \* and platforms to its own names, several to one perhaps

VARIABLES
    host,       \* the platform and the Go architecture of this machine
    mapping,    \* the template_mappings of the source
    source,     \* the assets of the source: platform, architecture, by name
    cache,      \* cache[path]: the asset whose content the cache has there
    todo,       \* the binaries that the download has yet to fetch
    request,    \* history: all that it was asked for
    errs,       \* the binaries it could not get
    status,     \* "idle", "downloading", or how the last command ended
    ran         \* the asset that the last invoke has run, or nothing

hostVars == <<host, mapping, source>>
vars == <<hostVars, cache, todo, request, errs, status, ran>>

-----------------------------------------------------------------------------
(* config.CurrentArch.  *)
CurrentArch(goarch) ==
    CASE goarch = "386" -> "x86"
      [] goarch = "amd64" -> "x86_64"
      [] goarch = "arm" -> "arm32"
      [] goarch = "arm64" -> "arm64"

Archs == {CurrentArch(a) : a \in GoArchs}

(***************************************************************************)
(* CommonConfig.platform and arch: mapped, or as it is; so also when the   *)
(* name is none of toolshare's own.                                        *)
(***************************************************************************)
Mapped(m, name) == IF name \in DOMAIN m THEN m[name] ELSE name

Exe(platform) == IF platform = "windows" THEN ".exe" ELSE ""

(* instantiateTemplate for a source, ...  *)
SourceName(b) ==
    <<Mapped(mapping, b[1]), Mapped(mapping, b[2]), Exe(b[1])>>

(* Mutant: the architecture is not part of the path.  *)
CachePathNoArch(b) == <<b[1], Exe(b[1])>>

(* ... and for the local cache, which has no mappings.  *)
CachePath(b) == <<b[1], b[2], Exe(b[1])>>

(* What a source that keeps to its own names has for b.  *)
AssetOf(m, b) == <<Mapped(m, b[1]), Mapped(m, b[2]), Exe(b[1])>>

(* The names of architectures a user may give: toolshare's and Go's.  *)
ArchNames == Archs \cup GoArchs
Binaries == Platforms \X ArchNames

(* The binary invoke wants, and the one download wants without flags.  *)
HostBinary == <<host[1], CurrentArch(host[2])>>
DefaultPlatforms == {host[1]}
DefaultArchs == {host[2]}

(* The lists that the flags may have; one not given stands for the host.  *)
PlatformFlags == (SUBSET Platforms) \cup {DefaultPlatforms}
ArchFlags == (SUBSET ArchNames) \cup {DefaultArchs}

-----------------------------------------------------------------------------
TypeOK ==
    /\ host \in Platforms \X GoArchs
    /\ mapping \in Mappings
    /\ source \subseteq {AssetOf(mapping, b) : b \in Platforms \X Archs}
    /\ DOMAIN cache \subseteq {CachePath(b) : b \in Binaries}
    /\ Range(cache) \subseteq source
    /\ todo \in SUBSET request /\ request \in SUBSET Binaries
    /\ errs \in SUBSET request
    /\ status \in {"idle", "downloading", "ok", "error"}
    /\ ran = << >> \/ ran \in source

Init ==
    /\ host \in Platforms \X GoArchs
    /\ mapping \in Mappings
    /\ source \in SUBSET {AssetOf(mapping, b) : b \in Platforms \X Archs}
    /\ cache = << >>
    /\ todo = {} /\ request = {} /\ errs = {}
    /\ status = "idle"
    /\ ran = << >>

Cached(b) == CachePath(b) \in DOMAIN cache

InSource(b) == SourceName(b) \in source

(* The cache once getToolBinary has been successful for b.  *)
WithBinary(b) ==
    IF Cached(b) THEN cache
    ELSE [path \in DOMAIN cache \cup {CachePath(b)} |->
             IF path \in DOMAIN cache THEN cache[path] ELSE SourceName(b)]

(* Every platform is combined with every architecture; an empty list asks  *)
(* for nothing.                                                            *)
StartDownload(platforms, archs) ==
    /\ status # "downloading"
    /\ request' = platforms \X archs
    /\ todo' = request' /\ errs' = {}
    /\ status' = "downloading"
    /\ UNCHANGED <<hostVars, cache, ran>>

(* Mutant: the error of a fetch is not looked at.  *)
DownloadOneUnchecked(b) ==
    /\ status = "downloading" /\ b \in todo
    /\ cache' = WithBinary(b)
    /\ todo' = todo \ {b}
    /\ UNCHANGED <<hostVars, request, errs, status, ran>>

DownloadOne(b) ==
    /\ status = "downloading" /\ b \in todo
    /\ Cached(b) \/ InSource(b)
    /\ cache' = WithBinary(b)
    /\ todo' = todo \ {b}
    /\ UNCHANGED <<hostVars, request, errs, status, ran>>

(* Mutant: the first binary that fails ends the download.  *)
DownloadStops(b) ==
    /\ status = "downloading" /\ b \in todo
    /\ todo' = {} /\ errs' = errs \cup {b}
    /\ UNCHANGED <<hostVars, cache, request, status, ran>>

(* The source lacks it, it cannot be fetched or stored, or the path in the *)
(* cache cannot even be looked at: go on with the others.                  *)
DownloadOneFails(b) ==
    /\ status = "downloading" /\ b \in todo
    /\ todo' = todo \ {b} /\ errs' = errs \cup {b}
    /\ UNCHANGED <<hostVars, cache, request, status, ran>>

EndDownload ==
    /\ status = "downloading" /\ todo = {}
    /\ status' = IF errs = {} THEN "ok" ELSE "error"
    /\ UNCHANGED <<hostVars, cache, todo, request, errs, ran>>

(* ensureTool, and the tool is run from the path in the cache.  *)
Invoke ==
    /\ status # "downloading"
    /\ Cached(HostBinary) \/ InSource(HostBinary)
    /\ cache' = WithBinary(HostBinary)
    /\ ran' = cache'[CachePath(HostBinary)]
    /\ UNCHANGED <<hostVars, todo, request, errs, status>>

Next ==
    \/ \E ps \in PlatformFlags, as \in ArchFlags : StartDownload(ps, as)
    \/ \E b \in todo : DownloadOne(b) \/ DownloadOneFails(b)
    \/ EndDownload
    \/ Invoke

Spec == Init /\ [][Next]_vars

-----------------------------------------------------------------------------
(* Properties.  *)

(***************************************************************************)
(* What invoke runs is the tool for the host, whatever was downloaded for  *)
(* other platforms before, and however the source names it.                *)
(***************************************************************************)
RightBinary ==
    ran # << >> => ran = AssetOf(mapping, HostBinary)

(***************************************************************************)
(* download reports success only if all that was asked for is cached, and  *)
(* one binary that cannot be had takes none of the others with it: each is *)
(* cached or among the errors (download.go:86-107).                        *)
(***************************************************************************)
DownloadComplete ==
    status \in {"ok", "error"} =>
        /\ \A b \in request : Cached(b) \/ b \in errs
        /\ status = "ok" => \A b \in request : Cached(b)
=============================================================================
