\* Two platforms, of which one has a file extension, and two architectures, of
\* which one is named alike by Go and toolshare.
CONSTANTS
    Platforms = {"darwin", "windows"}
    GoArchs = {"amd64", "arm64"}
    Mappings <- MCMappings
SPECIFICATION Spec
INVARIANTS
    TypeOK
    RightBinary
    DownloadComplete
