\* Two commands and an editor, one edit and one failure.
SPECIFICATION Spec
CONSTANTS
    p1 = p1
    p2 = p2
    d1 = d1
    dot = dot
    yml = yml
    a = a
    s = s
    sx = sx
    d2 = d2
    dot2 = dot2
    a2 = a2
    Pusher = {p1, p2}
    Paths <- MCPaths
    Excluded <- MCExcluded
    UploadTag <- MCTag
    Flags <- MCFlags
    Entry <- MCEntry
    Parent <- MCParent
    Kind <- MCKind
    Named <- MCNamed
    Rel <- MCRel
    Sizes = {1, 2}
    MaxEdits = 1
    MaxFaults = 1
INVARIANTS
    TypeOK
    PushedIsWhatWasChecked
    LockedIsKept
    TempRemoved
