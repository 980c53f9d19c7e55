\* One walk of the diamond with two tokens and at most one failing call.
SPECIFICATION FairSpec
CONSTANTS
    root = root
    b1 = b1
    b2 = b2
    s1 = s1
    s2 = s2
    x1 = x1
    x2 = x2
    y = y
    z = z
    dst = dst
    src = src
    ext = ext
    None = None
    Task <- MCTask
    Root = root
    Parent <- MCParent
    Kids <- MCKids
    Below <- MCBelow
    Image <- MCImage
    Digest <- MCDigest
    BundleImage <- MCBundleImage
    Repo <- MCRepo
    Origin <- MCOrigin
    RootRepo = dst
    Stored <- MCStored
    KnownContent <- MCKnownContent
    Concurrency = 2
    MaxFaults = 1
INVARIANTS
    TypeOK
    UntypedIsPending
    TypesAreRight
    WalkIsComplete
    NoteCopyReady
    FailureHasACause
PROPERTIES
    EntriesNeverReplaced
    EveryTaskEnds
    ImplementsWalk
