SPECIFICATION Spec
CONSTANTS
    Offers <- MCOffers
    Paths <- MCPaths
    Texts = {"t", "u", "key"}
    Parent <- MCParent
    Excluded = {"venv"}
    Secret = "key"
    Chunk = 2
    MaxBytes = 5
    MaxManifest = 2
    MaxFiles = 3
    MaxFaults = 2
INVARIANTS TypeOK DownloadWhole VerdictFits PublishedWhole
PROPERTIES CheckedFirst SourceIsArchive DirectoryGoes
CHECK_DEADLOCK FALSE
