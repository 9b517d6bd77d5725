SPECIFICATION Spec
CONSTANTS
    Photos = {i1}
    Paths = {f1}
    None = None
    MaxAttempts = 4
    BrokenFolders = 49
    SyncLimit = 50
INVARIANTS TypeOK ReadyHasFile GivesUpAfterLimit DownloadingIsInHand
PROPERTIES PhotosLive WaitEnds VanishedGoes PackFilesArrive
\* The model has too few keys for every folder.
CHECK_DEADLOCK FALSE
