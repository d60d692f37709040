\* Three environment files: an innermost one, one between, an outermost one.
CONSTANTS
    Tools = {"kubectl"}
    Hosts <- MCHosts
    Kinds <- MCKinds
    Depth = 3
SPECIFICATION Spec
INVARIANTS
    TypeOK
    InnermostWins
    ProvenanceRight
    SystemHasLastWord
    OneRemoteCache
    OneSourceKind
