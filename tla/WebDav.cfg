SPECIFICATION FairSpec
CONSTANTS
    Clients = {c1, c2}
    Symbols <- Letters
    Jobs <- AllJobs
    LocalDirs <- Folder
    LocalFiles <- FolderFiles
    Existing <- Moved
    AtLocation <- NotAllowed
    MaxFaults = 1
CHECK_DEADLOCK FALSE
INVARIANTS
    SuccessMeansStored
    NothingElsewhere
    EnsuredDirectoriesAreUsed
PROPERTIES
    RepeatedSyncUploadSucceeds
    ImplementsFileStore
