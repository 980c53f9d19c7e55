\* Two runs into one repository, one failing call, one of them killed and restarted.
SPECIFICATION FairSpec
CONSTANTS
    fromRepo = fromRepo
    fromTar = fromTar
    None = None
    Proc = {fromRepo, fromTar}
    FromTar = {fromTar}
    Item <- MCItem
    Items <- MCItems
    Image <- MCImage
    Digest <- MCDigest
    Bundle <- MCBundle
    Contents <- MCContents
    Closure <- MCClosure
    Order <- MCOrder
    Tag <- MCTag
    UserTag <- MCUserTag
    UploadTag <- MCDigest
    WantTag <- MCWantTag
    Concurrency = 1
    MaxFaults = 1
    MaxRestarts = 1
INVARIANTS
    TypeOK
    LocationsTrusted
    TagsComplete
    NeverPanics
    SuccessIsComplete
PROPERTIES
    ImplementsTrustedRepo
    EveryRunEnds
