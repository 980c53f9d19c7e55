\* The same walk without failures, against the comment on AllImagesLockRefs.
SPECIFICATION Spec
CONSTANTS
    root = root
    b1 = b1
    b2 = b2
    s1 = s1
    s2 = s2
    x1 = x1
    x2 = x2
    y = y
    z = z
    dst = dst
    src = src
    ext = ext
    None = None
    Task <- MCTask
    Root = root
    Parent <- MCParent
    Kids <- MCKids
    Below <- MCBelow
    Image <- MCImage
    Digest <- MCDigest
    BundleImage <- MCBundleImage
    Repo <- MCRepo
    Origin <- MCOrigin
    RootRepo = dst
    Stored <- MCStored
    KnownContent <- MCKnownContent
    Concurrency = 1
    MaxFaults = 0
INVARIANT
    EveryReferenceReturned
