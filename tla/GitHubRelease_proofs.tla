------------------------ MODULE GitHubRelease_proofs ------------------------
(***************************************************************************)
(* Proofs about GitHubRelease, for any versions and names, any page size,  *)
(* and any number of releases and changes.                                 *)
(***************************************************************************)
EXTENDS GitHubRelease, SequenceTheorems, TLAPS

(* A release as GitHub has it: its assets are of its tag.  *)
Own == {r \in Releases : \A a \in r.assets : a.tag = r.tag}

(* What Fetch has in hand, up to its end.  *)
FetchInv ==
    /\ releases \in Seq(Own)
    /\ pc = "select" => release \in Own /\ Matches(release)
    /\ pc \in {"download", "extract"} \/ outcome = "fetched" =>
          asset \in Assets /\ asset.name = AssetName /\ asset.tag.version = Wanted
    /\ outcome # "none" <=> pc = "done"

(* The number of releases on the pages before page n.  *)
Before(n) == (n - 1) * PageSize

(***************************************************************************)
(* As long as no release has been deleted, none that was there all the     *)
(* time and has the version is on a page that has been seen: what is       *)
(* published moves it further to the end of the list only.                 *)
(***************************************************************************)
Ahead(tag) == \E i \in DOMAIN releases : releases[i].tag = tag /\ i > Before(page)

SearchInv ==
    ~shrunk => \A tag \in steady : tag.version = Wanted =>
        /\ pc = "list" => Ahead(tag)
        /\ outcome # "unknownRelease"

ReleaseInv == FetchInv /\ SearchInv

-----------------------------------------------------------------------------
(* Releases and lists of them.  *)

LEMMA PageFacts ==
  ASSUME NEW n \in Nat \ {0}
  PROVE  /\ Before(n) \in Nat /\ n * PageSize \in Nat
         /\ n * PageSize = Before(n) + PageSize
         /\ Before(n + 1) = n * PageSize
         /\ PageSize \in Nat /\ PageSize > 0
<1>1. PageSize \in Nat /\ PageSize > 0
  BY PageSizeAssumption
<1>2. PICK k \in Nat : n = k + 1
  <2>1. n - 1 \in Nat /\ n = (n - 1) + 1
    OBVIOUS
  <2> QED BY <2>1
<1>3. Before(n) = k * PageSize /\ Before(n + 1) = (k + 1) * PageSize
  BY <1>1, <1>2 DEF Before
<1>4. (k + 1) * PageSize = k * PageSize + PageSize /\ k * PageSize \in Nat
  BY <1>1
<1> QED BY <1>1, <1>2, <1>3, <1>4

LEMMA OwnAreReleases == \A list \in Seq(Own) : list \in Seq(Releases)
  BY SeqMonotonic DEF Own

LEMMA NewReleaseIsOwn ==
  ASSUME NEW tag \in Tags, NEW names \in SUBSET Names,
         NEW time \in 0 .. MaxChanges
  PROVE  NewRelease(tag, names, time) \in Own
  BY DEF NewRelease, Own, Releases, Assets

LEMMA NameSetsAreNames == \A names \in NameSets : names \subseteq Names
  BY DEF NameSets

(* The releases that a page lists are those at its places in the list.  *)
LEMMA ListedFacts ==
  ASSUME NEW S, releases \in Seq(S), NEW n \in Nat \ {0}
  PROVE  /\ \A j \in DOMAIN Listed(n) :
               /\ j \in Nat \ {0} /\ j <= PageSize
               /\ Before(n) + j \in DOMAIN releases
               /\ Listed(n)[j] = releases[Before(n) + j]
         /\ \A i \in DOMAIN releases :
               i > Before(n) /\ i <= n * PageSize =>
                  /\ i - Before(n) \in DOMAIN Listed(n)
                  /\ Listed(n)[i - Before(n)] = releases[i]
<1> DEFINE last == IF Len(releases) < n * PageSize THEN Len(releases)
                                                   ELSE n * PageSize
           first == Before(n) + 1
<1>1. Len(releases) \in Nat /\ DOMAIN releases = 1 .. Len(releases)
  BY LenProperties
<1>2. /\ Before(n) \in Nat /\ n * PageSize \in Nat
      /\ n * PageSize = Before(n) + PageSize /\ PageSize \in Nat
  BY PageFacts
<1>3. Listed(n) = SubSeq(releases, first, last)
  BY DEF Listed, Before
<1>4. /\ last \in Nat /\ last <= Len(releases) /\ last <= n * PageSize
      /\ \A i \in Nat : i <= Len(releases) /\ i <= n * PageSize => i <= last
  BY <1>1, <1>2
<1>5. first \in Nat /\ first > 0 /\ first = Before(n) + 1 /\ Before(n) \in Nat
  BY <1>2
<1> HIDE DEF last, first
<1>6. \A i \in first .. last : releases[i] \in S
  BY <1>1, <1>4, <1>5, ElementOfSeq
<1>7. /\ Listed(n) \in Seq(S)
      /\ Len(Listed(n)) = IF first <= last THEN last - first + 1 ELSE 0
      /\ \A j \in 1 .. last - first + 1 :
            Listed(n)[j] = releases[first + j - 1]
  BY <1>3, <1>4, <1>5, <1>6, SubSeqProperties
<1>8. DOMAIN Listed(n) = 1 .. Len(Listed(n))
  BY <1>7, LenProperties
<1>9. ASSUME NEW j \in DOMAIN Listed(n)
      PROVE  /\ j \in Nat \ {0} /\ j <= PageSize
             /\ Before(n) + j \in DOMAIN releases
             /\ Listed(n)[j] = releases[Before(n) + j]
  <2>1. j \in 1 .. last - first + 1
    BY <1>4, <1>5, <1>7, <1>8
  <2>2. first + j - 1 = Before(n) + j
    BY <1>2, <1>5, <2>1
  <2>3. j \in Nat /\ 1 <= j /\ first + j - 1 <= last
    BY <1>4, <1>5, <2>1
  <2>4. Before(n) + j <= last
    BY <2>2, <2>3
  <2>5. j <= PageSize
    BY <1>2, <1>4, <2>3, <2>4
  <2>6. Before(n) + j \in 1 .. Len(releases)
    BY <1>1, <1>2, <1>4, <2>3, <2>4
  <2> QED BY <1>1, <1>7, <2>1, <2>2, <2>3, <2>5, <2>6
<1>10. ASSUME NEW i \in DOMAIN releases, i > Before(n), i <= n * PageSize
       PROVE  /\ i - Before(n) \in DOMAIN Listed(n)
              /\ Listed(n)[i - Before(n)] = releases[i]
  <2>1. i \in Nat /\ i <= Len(releases) /\ i <= last /\ i >= first
    BY <1>1, <1>2, <1>4, <1>5, <1>10
  <2>2. PICK j \in 1 .. last - first + 1 : j = i - Before(n)
    <3>1. i - Before(n) \in Int /\ i - Before(n) >= 1
      BY <1>2, <1>5, <2>1
    <3>2. i - Before(n) <= last - first + 1
      BY <1>2, <1>4, <1>5, <2>1
    <3>3. last - first + 1 \in Int
      BY <1>4, <1>5
    <3> QED BY <3>1, <3>2, <3>3
  <2>3. first + j - 1 = i /\ first <= last
    <3>1. first + j - 1 = i
      BY <1>5, <2>1, <2>2
    <3>2. first <= last
      BY <1>4, <1>5, <2>1
    <3> QED BY <3>1, <3>2
  <2>4. j \in DOMAIN Listed(n) /\ Listed(n)[j] = releases[i]
    BY <1>7, <1>8, <2>2, <2>3
  <2> QED BY <2>2, <2>4
<1> QED BY <1>9, <1>10

-----------------------------------------------------------------------------
LEMMA ReleaseInvInit == Init => TypeOK /\ ReleaseInv
<1> SUFFICES ASSUME Init PROVE TypeOK /\ ReleaseInv
  OBVIOUS
<1>1. PICK k \in 0 .. MaxReleases : \E tag \in [1 .. k -> Tags] :
        \E names \in [1 .. k -> NameSets] :
           releases = [i \in 1 .. k |-> NewRelease(tag[i], names[i], 0)]
  BY DEF Init
<1>2. releases \in [1 .. k -> Own]
  <2>1. PICK tag \in [1 .. k -> Tags], names \in [1 .. k -> NameSets] :
           releases = [i \in 1 .. k |-> NewRelease(tag[i], names[i], 0)]
    BY <1>1
  <2>2. ASSUME NEW i \in 1 .. k PROVE NewRelease(tag[i], names[i], 0) \in Own
    <3>1. tag[i] \in Tags /\ names[i] \in SUBSET Names /\ 0 \in 0 .. MaxChanges
      BY NameSetsAreNames, BoundsAssumption
    <3> QED BY <3>1, NewReleaseIsOwn
  <2> QED BY <2>1, <2>2
<1>3. k \in Nat /\ k <= MaxReleases
  BY BoundsAssumption
<1>4. releases \in Seq(Own)
  BY <1>2, <1>3, SeqDef
<1>5. Len(releases) = k
  BY <1>2, <1>3, <1>4, LenProperties
<1>6. releases \in Seq(Releases)
  BY <1>4, OwnAreReleases
<1>7. /\ steady = TagsOf(releases) /\ steady \subseteq Tags
      /\ DOMAIN releases = 1 .. k /\ \A i \in 1 .. k : releases[i].tag \in Tags
  BY <1>2 DEF Init, TagsOf, Own, Releases
<1>8. TypeOK
  <2>1. /\ changes = 0 /\ shrunk = FALSE /\ pc = "list" /\ page = 1
        /\ release = Nothing /\ asset = Nothing /\ outcome = "none"
    BY DEF Init
  <2>2. 0 \in 0 .. MaxChanges /\ Len(releases) <= MaxReleases
    BY <1>3, <1>5, BoundsAssumption
  <2>3. shrunk \in BOOLEAN
    BY <2>1
  <2> QED BY <1>6, <1>7, <2>1, <2>2, <2>3 DEF TypeOK
<1>9. FetchInv
  BY <1>4 DEF Init, FetchInv
<1>10. SearchInv
  <2>1. Before(page) = 0
    BY PageSizeAssumption DEF Init, Before
  <2> QED BY <1>3, <1>7, <2>1 DEF Init, SearchInv, Ahead, TagsOf
<1> QED BY <1>8, <1>9, <1>10 DEF ReleaseInv

(* A change that only leaves good releases spoils nothing that Fetch has.  *)
LEMMA ChangeKeeps ==
  ASSUME TypeOK, ReleaseInv, Change, releases' \in Seq(Own),
         Len(releases') <= MaxReleases, steady' \subseteq steady,
         shrunk' \in BOOLEAN
  PROVE  TypeOK' /\ FetchInv'
<1>1. changes' \in 0 .. MaxChanges
  <2>1. changes \in 0 .. MaxChanges /\ changes < MaxChanges
        /\ changes' = changes + 1 /\ MaxChanges \in Nat
    BY BoundsAssumption DEF Change, TypeOK
  <2> QED BY <2>1
<1>2. releases' \in Seq(Releases)
  BY OwnAreReleases
<1> QED BY <1>1, <1>2
    DEF Change, fetchVars, TypeOK, ReleaseInv, FetchInv, Matches

LEMMA KeepsPublish ==
  ASSUME TypeOK, ReleaseInv, NEW tag \in Tags, NEW names \in NameSets,
         Publish(tag, names)
  PROVE  TypeOK' /\ ReleaseInv'
<1>1. PICK time \in 0 .. MaxChanges : time = changes'
  <2>1. changes \in 0 .. MaxChanges /\ changes < MaxChanges
        /\ changes' = changes + 1 /\ MaxChanges \in Nat
    BY BoundsAssumption DEF Publish, Change, TypeOK
  <2> QED BY <2>1
<1>2. PICK r \in Own : r = NewRelease(tag, names, time)
  BY NewReleaseIsOwn, NameSetsAreNames
<1>3. releases \in Seq(Own) /\ <<r>> \in Seq(Own) /\ Len(<<r>>) = 1
  BY DEF ReleaseInv, FetchInv
<1>4. releases' = <<r>> \o releases /\ UNCHANGED <<steady, shrunk, fetchVars>>
  BY <1>1, <1>2 DEF Publish, Change
<1>5. /\ releases' \in Seq(Own) /\ Len(releases') = Len(releases) + 1
      /\ \A i \in 1 .. 1 + Len(releases) :
            releases'[i] = IF i <= 1 THEN <<r>>[i] ELSE releases[i - 1]
  BY <1>3, <1>4, ConcatProperties
<1>6. /\ Len(releases) \in Nat /\ DOMAIN releases = 1 .. Len(releases)
      /\ DOMAIN releases' = 1 .. Len(releases) + 1
  BY <1>3, <1>5, LenProperties
<1>7. TypeOK' /\ FetchInv'
  <2>1. Len(releases') <= MaxReleases
    BY <1>5, <1>6, BoundsAssumption DEF Publish
  <2> QED BY <1>4, <1>5, <2>1, ChangeKeeps DEF Publish, TypeOK
<1>8. ASSUME NEW t, Ahead(t) PROVE Ahead(t)'
  <2>1. PICK i \in DOMAIN releases : releases[i].tag = t /\ i > Before(page)
    BY <1>8 DEF Ahead
  <2>2. Before(page)' = Before(page) /\ Before(page) \in Nat
    BY <1>4, PageFacts DEF TypeOK, fetchVars, Before
  <2>3. PICK j \in DOMAIN releases' : j = i + 1
    BY <1>6, <2>1
  <2>4. releases'[j] = releases[i] /\ j > Before(page)
    BY <1>5, <1>6, <2>1, <2>2, <2>3
  <2> QED BY <2>1, <2>2, <2>4 DEF Ahead
<1>9. SearchInv'
  BY <1>4, <1>8 DEF ReleaseInv, SearchInv, fetchVars
<1> QED BY <1>7, <1>9 DEF ReleaseInv

(* Afterwards nothing is claimed of the search.  *)
LEMMA KeepsDelete ==
  ASSUME TypeOK, ReleaseInv, NEW i \in DOMAIN releases, Delete(i)
  PROVE  TypeOK' /\ ReleaseInv'
<1>1. releases \in Seq(Own)
  BY DEF ReleaseInv, FetchInv
<1>2. /\ Len(releases) \in Nat /\ DOMAIN releases = 1 .. Len(releases)
      /\ \A j \in 1 .. Len(releases) : releases[j] \in Own
  BY <1>1, LenProperties, ElementOfSeq
<1>3. /\ i \in Nat /\ 1 <= i /\ i <= Len(releases)
      /\ i - 1 \in Int /\ i + 1 \in Int
  BY <1>2
<1>4. /\ SubSeq(releases, 1, i - 1) \in Seq(Own)
      /\ Len(SubSeq(releases, 1, i - 1)) = i - 1
  <2>1. \A j \in 1 .. i - 1 : releases[j] \in Own
    BY <1>2, <1>3
  <2> QED BY <1>3, <2>1, SubSeqProperties
<1>5. /\ SubSeq(releases, i + 1, Len(releases)) \in Seq(Own)
      /\ Len(SubSeq(releases, i + 1, Len(releases))) = Len(releases) - i
  <2>1. \A j \in i + 1 .. Len(releases) : releases[j] \in Own
    BY <1>2, <1>3
  <2> QED BY <1>2, <1>3, <2>1, SubSeqProperties
<1>6. /\ releases' \in Seq(Own)
      /\ Len(releases') = (i - 1) + (Len(releases) - i)
  BY <1>4, <1>5, ConcatProperties DEF Delete, RemoveAt
<1>7. Len(releases') <= MaxReleases
  BY <1>2, <1>3, <1>6, BoundsAssumption DEF TypeOK
<1>8. TypeOK' /\ FetchInv'
  BY <1>6, <1>7, ChangeKeeps DEF Delete
<1>9. SearchInv'
  BY DEF Delete, SearchInv
<1> QED BY <1>8, <1>9 DEF ReleaseInv

LEMMA KeepsUpload ==
  ASSUME TypeOK, ReleaseInv, NEW i \in DOMAIN releases, Upload(i)
  PROVE  TypeOK' /\ ReleaseInv'
<1>1. releases \in Seq(Own) /\ i \in 1 .. Len(releases)
      /\ DOMAIN releases = 1 .. Len(releases)
  BY LenProperties DEF ReleaseInv, FetchInv
<1>2. releases[i] \in Own
  BY <1>1, ElementOfSeq
<1>3. PICK time \in 0 .. MaxChanges : time = changes'
  <2>1. changes \in 0 .. MaxChanges /\ changes < MaxChanges
        /\ changes' = changes + 1 /\ MaxChanges \in Nat
    BY BoundsAssumption DEF Upload, Change, TypeOK
  <2> QED BY <2>1
<1>4. PICK new \in Own : new = NewRelease(releases[i].tag, {AssetName}, time)
  BY <1>2, NewReleaseIsOwn, WantedAssumption DEF Own, Releases
<1>5. PICK r : r = [releases[i] EXCEPT !.assets =
                      {a \in releases[i].assets : a.name # AssetName}
                         \cup new.assets]
  OBVIOUS
<1>6. /\ r \in Own /\ r.tag = releases[i].tag
  BY <1>2, <1>4, <1>5 DEF Own, Releases, NewRelease
<1>7. releases' = [releases EXCEPT ![i] = r]
  BY <1>1, <1>3, <1>4, <1>5 DEF Upload
<1>8. /\ releases' \in Seq(Own) /\ Len(releases') = Len(releases)
      /\ \A j \in 1 .. Len(releases) :
            releases'[j] = IF j = i THEN r ELSE releases[j]
  BY <1>1, <1>6, <1>7, ExceptSeq
<1>9. TypeOK' /\ FetchInv'
  BY <1>8, ChangeKeeps DEF Upload, TypeOK
<1>10. /\ DOMAIN releases' = DOMAIN releases
       /\ \A j \in DOMAIN releases : releases'[j].tag = releases[j].tag
  BY <1>1, <1>6, <1>7, <1>8
<1>11. UNCHANGED <<steady, shrunk, pc, page, outcome>>
  BY DEF Upload, Change, fetchVars
<1>12. SearchInv'
  BY <1>10, <1>11 DEF ReleaseInv, SearchInv, Ahead, Before
<1> QED BY <1>9, <1>12 DEF ReleaseInv

-----------------------------------------------------------------------------
(* The steps of Fetch, which leave the repository as it is.  *)

LEMMA KeepsFindRelease ==
  ASSUME TypeOK, ReleaseInv, FindRelease
  PROVE  TypeOK' /\ ReleaseInv'
<1>1. PICK i \in DOMAIN Listed(page) :
        Matches(Listed(page)[i]) /\ release' = Listed(page)[i]
  BY DEF FindRelease
<1>2. releases \in Seq(Own) /\ page \in Nat \ {0}
  BY DEF TypeOK, ReleaseInv, FetchInv
<1>3. release' \in Own /\ Matches(release)'
  <2>1. PICK j \in DOMAIN releases : Listed(page)[i] = releases[j]
    BY <1>2, ListedFacts
  <2>2. releases[j] \in Own
    BY <1>2, <2>1, LenProperties, ElementOfSeq
  <2> QED BY <1>1, <2>1, <2>2 DEF Matches
<1>4. /\ pc = "list" /\ pc' = "select"
      /\ UNCHANGED <<releases, changes, steady, shrunk, page, asset, outcome>>
  BY DEF FindRelease, Fetching, repoVars
<1>5. TypeOK'
  BY <1>3, <1>4 DEF TypeOK, Own
<1>6. FetchInv' /\ SearchInv'
  BY <1>3, <1>4 DEF ReleaseInv, FetchInv, SearchInv
<1> QED BY <1>5, <1>6 DEF ReleaseInv

(* No release of a page matches: what is searched for is on a later one.  *)
LEMMA NoMatchOnPage ==
  ASSUME TypeOK, ReleaseInv, ~HasMatch, NEW tag, tag.version = Wanted,
         Ahead(tag)
  PROVE  \E i \in DOMAIN releases :
            releases[i].tag = tag /\ i > page * PageSize
<1>1. PICK i \in DOMAIN releases : releases[i].tag = tag /\ i > Before(page)
  BY DEF Ahead
<1>2. releases \in Seq(Own) /\ page \in Nat \ {0}
  BY DEF TypeOK, ReleaseInv, FetchInv
<1>3. i \in Nat /\ page * PageSize \in Nat
  <2>1. DOMAIN releases = 1 .. Len(releases) /\ Len(releases) \in Nat
    BY <1>2, LenProperties
  <2>2. page * PageSize \in Nat
    BY <1>2, PageFacts
  <2> QED BY <2>1, <2>2
<1>4. ~(i <= page * PageSize)
  <2>1. SUFFICES ASSUME i <= page * PageSize PROVE FALSE
    OBVIOUS
  <2>2. /\ i - Before(page) \in DOMAIN Listed(page)
        /\ Listed(page)[i - Before(page)] = releases[i]
    BY <1>1, <1>2, <2>1, ListedFacts
  <2> QED BY <1>1, <2>2 DEF HasMatch, Matches
<1> QED BY <1>1, <1>3, <1>4

LEMMA KeepsTurnPage ==
  ASSUME TypeOK, ReleaseInv, TurnPage
  PROVE  TypeOK' /\ ReleaseInv'
<1>1. /\ ~HasMatch /\ pc = "list" /\ pc' = "list" /\ page' = page + 1
      /\ UNCHANGED <<releases, changes, steady, shrunk, release, asset, outcome>>
  BY DEF TurnPage, Fetching, repoVars, NextPage
<1>2. Before(page)' = page * PageSize
  BY <1>1, PageFacts DEF TypeOK, Before
<1>3. ASSUME NEW tag, tag.version = Wanted, Ahead(tag) PROVE Ahead(tag)'
  BY <1>1, <1>2, <1>3, NoMatchOnPage DEF Ahead
<1>4. TypeOK'
  BY <1>1 DEF TypeOK
<1>5. FetchInv' /\ SearchInv'
  BY <1>1, <1>3 DEF ReleaseInv, FetchInv, SearchInv, Matches
<1> QED BY <1>4, <1>5 DEF ReleaseInv

(* A search that ends with nothing has seen all of the list.  *)
LEMMA KeepsUnknownRelease ==
  ASSUME TypeOK, ReleaseInv, UnknownRelease
  PROVE  TypeOK' /\ ReleaseInv'
<1>1. /\ ~HasMatch /\ NextPage(page) = 0 /\ pc = "list" /\ pc' = "done"
      /\ outcome' = "unknownRelease"
      /\ UNCHANGED <<releases, changes, steady, shrunk, page, release, asset>>
  BY DEF UnknownRelease, End, Fetching, repoVars
<1>2. /\ DOMAIN releases = 1 .. Len(releases) /\ Len(releases) \in Nat
      /\ page * PageSize \in Nat /\ page + 1 # 0
  <2>1. page \in Nat \ {0} /\ releases \in Seq(Releases)
    BY DEF TypeOK
  <2>2. DOMAIN releases = 1 .. Len(releases) /\ Len(releases) \in Nat
    BY <2>1, LenProperties
  <2>3. page * PageSize \in Nat
    BY <2>1, PageFacts
  <2> QED BY <2>1, <2>2, <2>3
<1>3. Len(releases) <= page * PageSize
  BY <1>1, <1>2 DEF NextPage
<1>4. ASSUME NEW tag, tag.version = Wanted PROVE ~Ahead(tag)
  <2>1. SUFFICES ASSUME Ahead(tag) PROVE FALSE
    OBVIOUS
  <2>2. PICK i \in DOMAIN releases : i > page * PageSize
    BY <1>1, <1>4, <2>1, NoMatchOnPage
  <2> QED BY <1>2, <1>3, <2>2
<1>5. TypeOK'
  BY <1>1 DEF TypeOK, Errors
<1>6. FetchInv' /\ SearchInv'
  BY <1>1, <1>4 DEF ReleaseInv, FetchInv, SearchInv
<1> QED BY <1>5, <1>6 DEF ReleaseInv

LEMMA KeepsAsset ==
  ASSUME TypeOK, ReleaseInv, SelectAsset \/ Download
  PROVE  TypeOK' /\ ReleaseInv'
<1>1. CASE SelectAsset
  <2>1. /\ pc = "select" /\ pc' = "download"
        /\ asset' \in release.assets /\ asset'.name = AssetName
        /\ UNCHANGED <<releases, changes, steady, shrunk, page, release, outcome>>
    BY <1>1 DEF SelectAsset, Fetching, repoVars
  <2>2. release \in Own /\ Matches(release)
    BY <2>1 DEF ReleaseInv, FetchInv
  <2>3. asset' \in Assets /\ asset'.tag.version = Wanted
    BY <2>1, <2>2 DEF Own, Releases, Matches
  <2>4. TypeOK'
    BY <2>1, <2>3 DEF TypeOK
  <2>5. FetchInv' /\ SearchInv'
    BY <2>1, <2>3 DEF ReleaseInv, FetchInv, SearchInv
  <2> QED BY <2>4, <2>5 DEF ReleaseInv
<1>2. CASE Download
  BY <1>2
  DEF Download, Fetching, repoVars, TypeOK, ReleaseInv, FetchInv, SearchInv
<1> QED BY <1>1, <1>2

LEMMA KeepsEnd ==
  ASSUME TypeOK, ReleaseInv,
         \/ UnknownAsset \/ AssetGone \/ Extract \/ Fails
  PROVE  TypeOK' /\ ReleaseInv'
<1>1. PICK result \in {"fetched", "failed", "unknownAsset"} :
        /\ pc # "done" /\ pc' = "done" /\ outcome' = result
        /\ result = "fetched" => pc = "extract"
        /\ UNCHANGED <<releases, changes, steady, shrunk, page, release, asset>>
  BY DEF UnknownAsset, AssetGone, Extract, Fails, End, Fetching, repoVars
<1>2. TypeOK'
  BY <1>1 DEF TypeOK, Errors
<1>3. FetchInv' /\ SearchInv'
  BY <1>1 DEF ReleaseInv, FetchInv, SearchInv
<1> QED BY <1>2, <1>3 DEF ReleaseInv

-----------------------------------------------------------------------------
LEMMA ReleaseInvNext ==
  TypeOK /\ ReleaseInv /\ [Next]_vars => TypeOK' /\ ReleaseInv'
<1> SUFFICES ASSUME TypeOK, ReleaseInv, [Next]_vars
             PROVE  TypeOK' /\ ReleaseInv'
  OBVIOUS
<1>1. CASE Ended \/ UNCHANGED vars
  BY <1>1
  DEF Ended, vars, repoVars, fetchVars, TypeOK, ReleaseInv, FetchInv,
      SearchInv, Ahead, Before, Matches
<1>2. CASE Fetch \/ Fails
  BY <1>2, KeepsFindRelease, KeepsTurnPage, KeepsUnknownRelease, KeepsAsset,
     KeepsEnd
  DEF Fetch
<1>3. CASE Repository
  BY <1>3, KeepsPublish, KeepsDelete, KeepsUpload DEF Repository
<1> QED BY <1>1, <1>2, <1>3 DEF Next

LEMMA ReleaseInvariant == Spec => [](TypeOK /\ ReleaseInv)
<1> QED BY ReleaseInvInit, ReleaseInvNext, PTL DEF Spec

(* Every variable keeps its type, however the repository changes.  *)
THEOREM TypeCorrect == Spec => []TypeOK
<1> QED BY ReleaseInvariant, PTL

(***************************************************************************)
(* What is fetched has the name and the version that were asked for,       *)
(* whatever is published, deleted and uploaded meanwhile (GitHub.Fetch).   *)
(***************************************************************************)
THEOREM FetchesWhatWasAsked == Spec => []FetchedAsAsked
<1>1. ReleaseInv => FetchedAsAsked
  BY DEF ReleaseInv, FetchInv, FetchedAsAsked
<1> QED BY <1>1, ReleaseInvariant, PTL

(***************************************************************************)
(* For any page size and any number of publications meanwhile, a release   *)
(* that was there all the time is not reported as unknown, as long as      *)
(* none is deleted (getRelease).                                           *)
(***************************************************************************)
THEOREM UnknownIsNotThere == Spec => []UnknownReleaseJustified
<1>1. ReleaseInv => UnknownReleaseJustified
  BY DEF ReleaseInv, SearchInv, UnknownReleaseJustified
<1> QED BY <1>1, ReleaseInvariant, PTL
=============================================================================
