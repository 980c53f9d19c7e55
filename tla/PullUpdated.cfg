\* One pull without failures, against the comment on BundleInfo.
SPECIFICATION Spec
CONSTANTS
    dst = dst
    src = src
    ext = ext
    t = t
    None = None
    Image <- MCImage
    Bundle <- MCBundle
    List <- MCList
    Closure <- MCClosure
    Root = "R"
    Repo = {dst, src, ext}
    RootRepo = dst
    Elsewhere <- MCElsewhere
    LocatedElsewhere <- MCLocatedElsewhere
    Marked <- MCMarked
    UserTag = {t}
    MaxPulls = 1
    MaxFaults = 0
    MaxRefusals = 0
INVARIANT
    UpdatedIsRight
