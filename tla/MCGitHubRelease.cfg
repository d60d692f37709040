\* Four releases, of which the version asked for may have none, and a page size
\* of two: a search crosses a page boundary, and one or two changes shift
\* releases across it.
CONSTANTS
    Versions = {1, 2, 3}
    Wanted = 1
    Names = {"linux", "darwin"}
    AssetName = "linux"
    PageSize = 2
    MaxReleases = 4
    MaxChanges = 2
SPECIFICATION FairSpec
INVARIANTS
    TypeOK
    FetchedAsAsked
    UnknownReleaseJustified
PROPERTY FetchEnds
