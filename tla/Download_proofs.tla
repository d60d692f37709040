--------------------------- MODULE Download_proofs ---------------------------
(***************************************************************************)
(* Proofs about Download, for any platforms, architectures and mappings,   *)
(* any source and any commands.                                            *)
(***************************************************************************)
EXTENDS Download, TLAPS

(* What the cache has for a binary is what the source calls it.  *)
CacheRight ==
    \A b \in Binaries : Cached(b) => cache[CachePath(b)] = SourceName(b)

(* What a download was asked for is still to do, or cached, or an error.  *)
Accounted ==
    status = "downloading" =>
        \A b \in request : b \in todo \/ Cached(b) \/ b \in errs

DownloadInv == CacheRight /\ Accounted /\ RightBinary /\ DownloadComplete

-----------------------------------------------------------------------------
(* Two binaries with one path in the cache are the same for a source, as   *)
(* the path has the platform and the architecture in it.                   *)
LEMMA PathsDiffer ==
  ASSUME NEW a \in Binaries, NEW b \in Binaries, CachePath(a) = CachePath(b)
  PROVE  a[1] = b[1] /\ a[2] = b[2] /\ SourceName(a) = SourceName(b)
<1>1. a[1] = b[1] /\ a[2] = b[2]
  BY DEF CachePath
<1> QED BY <1>1 DEF SourceName

LEMMA HostIsBinary == TypeOK => HostBinary \in Binaries
  BY DEF TypeOK, HostBinary, Binaries, ArchNames, Archs

(* A binary of the source is an asset; a name that is none of toolshare's  *)
(* own has to be mapped to be one.                                         *)
LEMMA SourceNameIsAsset ==
  ASSUME NEW b
  PROVE  SourceName(b) = AssetOf(mapping, b)
  BY DEF SourceName, AssetOf

(* The cache with one more binary.  *)
LEMMA WithBinaryFacts ==
  ASSUME TypeOK, CacheRight, NEW b \in Binaries, Cached(b) \/ InSource(b),
         cache' = WithBinary(b), UNCHANGED hostVars
  PROVE  /\ CacheRight' /\ Cached(b)'
         /\ \A a : Cached(a) => Cached(a)'
         /\ DOMAIN cache' \subseteq {CachePath(a) : a \in Binaries}
         /\ Range(cache') \subseteq source
<1>1. CASE Cached(b)
  <2>1. cache' = cache
    BY <1>1 DEF WithBinary
  <2> QED BY <1>1, <2>1
      DEF CacheRight, Cached, SourceName, hostVars, TypeOK
<1>2. CASE ~Cached(b)
  <2>1. /\ cache' = [path \in DOMAIN cache \cup {CachePath(b)} |->
                       IF path \in DOMAIN cache THEN cache[path]
                                                ELSE SourceName(b)]
        /\ CachePath(b) \notin DOMAIN cache /\ SourceName(b) \in source
    BY <1>2 DEF WithBinary, Cached, InSource
  <2>2. /\ DOMAIN cache' = DOMAIN cache \cup {CachePath(b)}
        /\ \A path \in DOMAIN cache : cache'[path] = cache[path]
        /\ cache'[CachePath(b)] = SourceName(b)
    BY <2>1
  <2>3. Cached(b)' /\ \A a : Cached(a) => Cached(a)'
    BY <2>2 DEF Cached, CachePath
  <2>4. CacheRight'
    <3> SUFFICES ASSUME NEW a \in Binaries, CachePath(a) \in DOMAIN cache'
                 PROVE  cache'[CachePath(a)] = SourceName(a)
      BY DEF CacheRight, Cached, SourceName, hostVars
    <3>1. CASE CachePath(a) \in DOMAIN cache
      BY <2>2, <3>1 DEF CacheRight, Cached
    <3>2. CASE CachePath(a) = CachePath(b)
      BY <2>2, <3>2, PathsDiffer
    <3> QED BY <2>2, <3>1, <3>2
  <2>5. DOMAIN cache' \subseteq {CachePath(a) : a \in Binaries}
    BY <2>2 DEF TypeOK
  <2>6. Range(cache') \subseteq source
    <3> SUFFICES ASSUME NEW path \in DOMAIN cache' PROVE cache'[path] \in source
      BY DEF Range
    <3>1. \A x \in DOMAIN cache : cache[x] \in source
      BY DEF TypeOK, Range
    <3> QED BY <2>1, <2>2, <3>1
  <2> QED BY <2>3, <2>4, <2>5, <2>6
<1> QED BY <1>1, <1>2

-----------------------------------------------------------------------------
LEMMA DownloadInvInit == Init => TypeOK /\ DownloadInv
<1> SUFFICES ASSUME Init PROVE TypeOK /\ DownloadInv
  OBVIOUS
<1>1. DOMAIN cache = {} /\ Range(cache) = {}
  BY DEF Init, Range
<1>2. TypeOK
  BY <1>1 DEF Init, TypeOK
<1>3. DownloadInv
  BY <1>1
  DEF Init, DownloadInv, CacheRight, Cached, Accounted, RightBinary,
      DownloadComplete
<1> QED BY <1>2, <1>3

LEMMA KeepsStart ==
  ASSUME TypeOK, DownloadInv, NEW ps \in PlatformFlags, NEW as \in ArchFlags,
         StartDownload(ps, as)
  PROVE  TypeOK' /\ DownloadInv'
<1>1. ps \subseteq Platforms /\ as \subseteq ArchNames
  BY DEF PlatformFlags, ArchFlags, DefaultPlatforms, DefaultArchs, ArchNames,
         TypeOK
<1>2. /\ request' \in SUBSET Binaries /\ todo' = request' /\ errs' = {}
      /\ status' = "downloading"
      /\ UNCHANGED <<host, mapping, source, cache, ran>>
  BY <1>1 DEF StartDownload, Binaries, hostVars
<1>3. TypeOK'
  BY <1>2 DEF TypeOK
<1>4. DownloadInv'
  BY <1>2
  DEF DownloadInv, CacheRight, Cached, SourceName, Accounted, RightBinary,
      AssetOf, HostBinary, DownloadComplete
<1> QED BY <1>3, <1>4

LEMMA KeepsOne ==
  ASSUME TypeOK, DownloadInv, NEW b \in todo, DownloadOne(b)
  PROVE  TypeOK' /\ DownloadInv'
<1>1. b \in Binaries /\ todo \subseteq request
  BY DEF TypeOK
<1>2. /\ cache' = WithBinary(b)
      /\ status = "downloading" /\ todo' = todo \ {b}
      /\ UNCHANGED <<host, mapping, source, request, errs, status, ran>>
  BY DEF DownloadOne, hostVars
<1>3. /\ CacheRight' /\ Cached(b)' /\ \A a : Cached(a) => Cached(a)'
      /\ DOMAIN cache' \subseteq {CachePath(a) : a \in Binaries}
      /\ Range(cache') \subseteq source
  BY <1>1, WithBinaryFacts DEF DownloadOne, DownloadInv
<1>4. TypeOK'
  BY <1>2, <1>3 DEF TypeOK
<1>5. Accounted'
  BY <1>2, <1>3 DEF DownloadInv, Accounted
<1>6. RightBinary' /\ DownloadComplete'
  BY <1>2
  DEF DownloadInv, RightBinary, AssetOf, HostBinary, DownloadComplete
<1> QED BY <1>3, <1>4, <1>5, <1>6 DEF DownloadInv

(* A binary that cannot be had, and the end of the download.  *)
LEMMA KeepsRest ==
  ASSUME TypeOK, DownloadInv,
         (\E b \in todo : DownloadOneFails(b)) \/ EndDownload
  PROVE  TypeOK' /\ DownloadInv'
<1>1. /\ UNCHANGED <<host, mapping, source, cache, request, ran>>
      /\ \A a : Cached(a)' <=> Cached(a)
  BY DEF DownloadOneFails, EndDownload, hostVars, Cached, CachePath
<1>2. CacheRight' /\ RightBinary'
  BY <1>1
  DEF DownloadInv, CacheRight, RightBinary, SourceName, AssetOf, HostBinary
<1>3. CASE \E b \in todo : DownloadOneFails(b)
  BY <1>1, <1>2, <1>3
  DEF DownloadOneFails, TypeOK, DownloadInv, Accounted, DownloadComplete
<1>4. CASE EndDownload
  <2>1. /\ UNCHANGED <<todo, errs>> /\ todo = {} /\ status = "downloading"
        /\ status' \in {"ok", "error"} /\ (status' = "ok" => errs = {})
    BY <1>4 DEF EndDownload
  <2> QED BY <1>1, <1>2, <2>1
      DEF TypeOK, DownloadInv, Accounted, DownloadComplete
<1> QED BY <1>3, <1>4

LEMMA KeepsInvoke ==
  ASSUME TypeOK, DownloadInv, Invoke PROVE TypeOK' /\ DownloadInv'
<1>1. HostBinary \in Binaries
  BY HostIsBinary
<1>2. /\ cache' = WithBinary(HostBinary) /\ ran' = cache'[CachePath(HostBinary)]
      /\ UNCHANGED <<host, mapping, source, todo, request, errs, status>>
  BY DEF Invoke, hostVars
<1>3. /\ CacheRight' /\ Cached(HostBinary)'
      /\ \A a : Cached(a) => Cached(a)'
      /\ DOMAIN cache' \subseteq {CachePath(a) : a \in Binaries}
      /\ Range(cache') \subseteq source
  <2>1. PICK b \in Binaries : b = HostBinary
    BY <1>1
  <2>2. HostBinary' = b
    BY <1>2, <2>1 DEF HostBinary
  <2>3. /\ Cached(b) \/ InSource(b)
        /\ cache' = WithBinary(b) /\ UNCHANGED hostVars
    BY <2>1 DEF Invoke
  <2>4. /\ CacheRight' /\ Cached(b)' /\ \A a : Cached(a) => Cached(a)'
        /\ DOMAIN cache' \subseteq {CachePath(a) : a \in Binaries}
        /\ Range(cache') \subseteq source
    BY <2>3, WithBinaryFacts DEF DownloadInv
  <2>5. Cached(HostBinary)'
    BY <2>2, <2>4 DEF Cached, CachePath
  <2> QED BY <2>4, <2>5
<1>4. /\ HostBinary' = HostBinary /\ CachePath(HostBinary) \in DOMAIN cache'
      /\ ran' = SourceName(HostBinary) /\ ran' \in source
  <2>1. HostBinary' = HostBinary /\ SourceName(HostBinary)' = SourceName(HostBinary)
    BY <1>2 DEF HostBinary, SourceName
  <2>2. CachePath(HostBinary) \in DOMAIN cache'
    BY <1>3, <2>1 DEF Cached, CachePath
  <2>3. ran' = SourceName(HostBinary)
    BY <1>1, <1>2, <1>3, <2>1, <2>2 DEF CacheRight, Cached, CachePath, SourceName
  <2>4. ran' \in Range(cache')
    BY <1>2, <2>2 DEF Range
  <2> QED BY <1>3, <2>1, <2>2, <2>3, <2>4
<1>5. TypeOK'
  BY <1>2, <1>3, <1>4 DEF TypeOK
<1>6. RightBinary'
  BY <1>2, <1>4 DEF RightBinary, AssetOf, SourceName
<1>7. Accounted' /\ DownloadComplete'
  BY <1>2, <1>3 DEF DownloadInv, Accounted, DownloadComplete
<1> QED BY <1>3, <1>5, <1>6, <1>7 DEF DownloadInv

-----------------------------------------------------------------------------
LEMMA DownloadInvNext ==
  TypeOK /\ DownloadInv /\ [Next]_vars => TypeOK' /\ DownloadInv'
<1> SUFFICES ASSUME TypeOK, DownloadInv, [Next]_vars
             PROVE  TypeOK' /\ DownloadInv'
  OBVIOUS
<1>1. CASE UNCHANGED vars
  BY <1>1
  DEF vars, hostVars, TypeOK, DownloadInv, CacheRight, Cached, CachePath,
      SourceName, Accounted, RightBinary, AssetOf, HostBinary,
      DownloadComplete
<1> QED BY <1>1, KeepsStart, KeepsOne, KeepsRest, KeepsInvoke DEF Next

LEMMA DownloadInvariant == Spec => [](TypeOK /\ DownloadInv)
<1> QED BY DownloadInvInit, DownloadInvNext, PTL DEF Spec

(* Every variable keeps its type, whatever is downloaded and invoked.  *)
THEOREM TypeCorrect == Spec => []TypeOK
<1> QED BY DownloadInvariant, PTL

(***************************************************************************)
(* invoke runs the asset for the host, for any mapping of the source's     *)
(* names and whatever was downloaded before: no two binaries share a path  *)
(* of the cache (config.Binary, instantiateTemplate).                      *)
(***************************************************************************)
THEOREM InvokeRunsTheHosts == Spec => []RightBinary
<1> QED BY DownloadInvariant, PTL DEF DownloadInv

(***************************************************************************)
(* download reports success only with all it was asked for in the cache,   *)
(* and a failure takes none of the other binaries with it (Download).      *)
(***************************************************************************)
THEOREM DownloadsAreComplete == Spec => []DownloadComplete
<1> QED BY DownloadInvariant, PTL DEF DownloadInv
=============================================================================
