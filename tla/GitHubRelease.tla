---------------------------- MODULE GitHubRelease ----------------------------
(***************************************************************************)
(* GitHub.Fetch of internal/backend: find the release of a version in the  *)
(* pages of a repository's list of releases, an asset of it by name,       *)
(* download the asset, and take the tool from it when it is an archive.    *)
(* The repository changes meanwhile: every page is the answer to a request *)
(* of its own, and what it holds shifts when a release comes or goes.      *)
(*                                                                         *)
(* GitHub is modelled from its use: releases are listed newest first, two  *)
(* have never the same tag, and an asset that is uploaded again under its  *)
(* name is another asset.                                                  *)
(***************************************************************************)
EXTENDS Naturals, Sequences, SequencesExt

CONSTANTS
    Versions,   \* the versions that releases may have
    Wanted,     \* the version that is asked for
    Names,      \* the names of assets
    AssetName,  \* the one that the template gives for the binary
    PageSize,   \* releases per page, 50 in the code
    MaxReleases, \* how many releases there may be (a bound)
    MaxChanges  \* how often the repository changes (a bound)

ASSUME WantedAssumption == Wanted \in Versions /\ AssetName \in Names
ASSUME PageSizeAssumption == PageSize \in Nat \ {0}
ASSUME BoundsAssumption == MaxReleases \in Nat /\ MaxChanges \in Nat

VARIABLES
    releases,   \* the list of releases of the repository
    changes,    \* how often it has changed
    pc,         \* what Fetch does next
    page,       \* the page it asks for
    release,    \* the release it has found, as the page showed it
    asset,      \* the asset it downloads
    outcome,    \* how it has ended
    steady,     \* history: the tags that were there all the time
    shrunk      \* history: has a release been deleted since the start?

repoVars == <<releases, changes, steady, shrunk>>
fetchVars == <<pc, page, release, asset, outcome>>
vars == <<repoVars, fetchVars>>

(* A version with or without a "v" before it.  *)
Tags == [version : Versions, v : BOOLEAN]

(* An asset is told from later ones of its name by when it was uploaded, ...  *)
Assets == [tag : Tags, name : Names, uploaded : 0..MaxChanges]
Releases == [tag : Tags, assets : SUBSET Assets]

(* ... and a release or an asset that is not there by its lack of fields. *)
Nothing == << >>

Errors == {"failed", "unknownRelease", "unknownAsset"}

TypeOK ==
    /\ releases \in Seq(Releases) /\ Len(releases) <= MaxReleases
    /\ changes \in 0..MaxChanges
    /\ pc \in {"list", "select", "download", "extract", "done"}
    /\ page \in Nat \ {0}
    /\ release = Nothing \/ release \in Releases
    /\ asset = Nothing \/ asset \in Assets
    /\ outcome \in {"none", "fetched"} \cup Errors
    /\ steady \in SUBSET Tags
    /\ shrunk \in BOOLEAN

TagsOf(list) == {list[i].tag : i \in DOMAIN list}

NewRelease(tag, names, time) ==
    [tag |-> tag,
     assets |-> {[tag |-> tag, name |-> n, uploaded |-> time] : n \in names}]

(* A release has an asset for every platform, or none for this one.  *)
NameSets == {Names, Names \ {AssetName}}

Init ==
    /\ \E k \in 0..MaxReleases : \E tag \in [1..k -> Tags] :
         /\ IsInjective(tag)
         /\ \E names \in [1..k -> NameSets] :
              releases = [i \in 1..k |-> NewRelease(tag[i], names[i], 0)]
    /\ changes = 0
    /\ steady = TagsOf(releases) /\ shrunk = FALSE
    /\ pc = "list" /\ page = 1
    /\ release = Nothing /\ asset = Nothing
    /\ outcome = "none"

-----------------------------------------------------------------------------
(* The repository, as long as Fetch runs.  *)

Change ==
    /\ changes < MaxChanges /\ pc # "done"
    /\ changes' = changes + 1
    /\ UNCHANGED fetchVars

Publish(tag, names) ==
    /\ Change
    /\ Len(releases) < MaxReleases /\ tag \notin TagsOf(releases)
    /\ releases' = <<NewRelease(tag, names, changes')>> \o releases
    /\ UNCHANGED <<steady, shrunk>>

Delete(i) ==
    /\ Change
    /\ releases' = RemoveAt(releases, i)
    /\ steady' = steady \ {releases[i].tag}
    /\ shrunk' = TRUE

(* The asset is uploaded, in place of the one with its name if there is any. *)
Upload(i) ==
    /\ Change
    /\ releases' = [releases EXCEPT ![i].assets =
           {a \in @ : a.name # AssetName}
               \cup NewRelease(releases[i].tag, {AssetName}, changes').assets]
    /\ UNCHANGED <<steady, shrunk>>

-----------------------------------------------------------------------------
(* GitHub.Fetch.  *)

Fetching(from, to) ==
    pc = from /\ pc' = to /\ UNCHANGED repoVars

End(from, result) ==
    /\ Fetching(from, "done")
    /\ outcome' = result
    /\ UNCHANGED <<page, release, asset>>

(* What the server answers: the releases of a page, and the next page or 0. *)
Listed(n) ==
    LET last == IF Len(releases) < n * PageSize THEN Len(releases)
                                                ELSE n * PageSize
    IN  SubSeq(releases, (n - 1) * PageSize + 1, last)

(* Mutant: the last, incomplete page is not asked for.  *)
NextPageShort(n) == IF Len(releases) >= (n + 1) * PageSize THEN n + 1 ELSE 0

NextPage(n) == IF Len(releases) > n * PageSize THEN n + 1 ELSE 0

(* Leading "v"s are cut from the tag and from the version.  *)
Matches(r) == r.tag.version = Wanted

HasMatch == \E i \in DOMAIN Listed(page) : Matches(Listed(page)[i])

(* getRelease: the first release of the page that matches ends the search. *)
FindRelease ==
    /\ Fetching("list", "select")
    /\ \E i \in DOMAIN Listed(page) :
          /\ Matches(Listed(page)[i])
          /\ \A j \in 1 .. i - 1 : ~Matches(Listed(page)[j])
          /\ release' = Listed(page)[i]
    /\ UNCHANGED <<page, asset, outcome>>

(* Mutant: after the last page comes the first one again.  *)
TurnPageRound ==
    /\ ~HasMatch
    /\ Fetching("list", "list")
    /\ page' = IF NextPage(page) = 0 THEN 1 ELSE NextPage(page)
    /\ UNCHANGED <<release, asset, outcome>>

(* Mutant: the end of the list does not end the search.  *)
TurnPageAlways ==
    /\ ~HasMatch
    /\ Fetching("list", "list")
    /\ page' = NextPage(page)
    /\ UNCHANGED <<release, asset, outcome>>

TurnPage ==
    /\ ~HasMatch /\ NextPage(page) # 0
    /\ Fetching("list", "list")
    /\ page' = NextPage(page)
    /\ UNCHANGED <<release, asset, outcome>>

UnknownRelease ==
    ~HasMatch /\ NextPage(page) = 0 /\ End("list", "unknownRelease")

(* Mutant: any asset of the release will do.  *)
SelectAnyAsset ==
    /\ Fetching("select", "download")
    /\ asset' \in release.assets
    /\ UNCHANGED <<page, release, outcome>>

(* The asset is looked up in the answer that showed the release.  *)
SelectAsset ==
    /\ Fetching("select", "download")
    /\ asset' \in {a \in release.assets : a.name = AssetName}
    /\ UNCHANGED <<page, release, outcome>>

UnknownAsset ==
    /\ pc = "select"
    /\ \A a \in release.assets : a.name # AssetName
    /\ End("select", "unknownAsset")

(* It is downloaded by its identity, if it still is there.  *)
Exists(a) == \E i \in DOMAIN releases : a \in releases[i].assets

Download ==
    /\ pc = "download" /\ Exists(asset)
    /\ Fetching("download", "extract")
    /\ UNCHANGED <<page, release, asset, outcome>>

AssetGone == pc = "download" /\ ~Exists(asset) /\ End("download", "failed")

(* extractFromArchive: the content itself, or what the archive has in it.  *)
Extract == End("extract", "fetched")

(* A request fails or times out, or the content is not the right archive.  *)
Fails == \E from \in {"list", "download", "extract"} : End(from, "failed")

-----------------------------------------------------------------------------
Fetch ==
    \/ FindRelease \/ TurnPage \/ UnknownRelease
    \/ SelectAsset \/ UnknownAsset
    \/ Download \/ AssetGone \/ Extract

Repository ==
    \/ \E tag \in Tags, names \in NameSets : Publish(tag, names)
    \/ \E i \in DOMAIN releases : Delete(i) \/ Upload(i)

Ended == pc = "done" /\ UNCHANGED vars

Next == Fetch \/ Fails \/ Repository \/ Ended

Spec == Init /\ [][Next]_vars

(* The server answers within the minute that Fetch waits, or Fetch fails.  *)
FairSpec == Spec /\ WF_vars(Fetch \/ Fails)

-----------------------------------------------------------------------------
(* Properties.  *)

(***************************************************************************)
(* What is fetched is what was asked for: the asset has the name that the  *)
(* template gives, and its release the version, with or without its "v".   *)
(***************************************************************************)
FetchedAsAsked ==
    outcome = "fetched" =>
        asset.name = AssetName /\ asset.tag.version = Wanted

(***************************************************************************)
(* A release is reported as unknown only if it is: one that was in the     *)
(* repository all the time is found, on whatever page, though others are   *)
(* published meanwhile and shift it from page to page.  Only a release     *)
(* that is deleted between two requests can hide it (getRelease).          *)
(***************************************************************************)
UnknownReleaseJustified ==
    outcome = "unknownRelease" /\ ~shrunk =>
        \A tag \in steady : tag.version # Wanted

(* The search comes to an end: a page is never asked for twice.  *)
FetchEnds == <>(pc = "done")
=============================================================================
