\* Two pulls into one directory while copies go on.
SPECIFICATION FairSpec
CONSTANTS
    dst = dst
    src = src
    ext = ext
    t = t
    None = None
    Image <- MCImage
    Bundle <- MCBundle
    List <- MCList
    Closure <- MCClosure
    Root = "R"
    Repo = {dst, src, ext}
    RootRepo = dst
    Elsewhere <- MCElsewhere
    LocatedElsewhere <- MCLocatedElsewhere
    Marked <- MCMarked
    UserTag = {t}
    MaxPulls = 2
    MaxFaults = 1
    MaxRefusals = 1
INVARIANTS
    TypeOK
    LocksTrusted
    PullIsComplete
    EveryDirectoryReported
    PullStaysLocal
    CopiedBundlesPull
PROPERTIES
    RewrittenLast
    PullEnds
