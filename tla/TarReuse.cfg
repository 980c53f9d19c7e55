\* The same without failures, against what the flag --resume promises.
SPECIFICATION Spec
CONSTANTS
    img = img
    idx = idx
    sub = sub
    arm = arm
    l1 = l1
    l2 = l2
    l3 = l3
    n1 = n1
    Ref = {img, idx}
    Node <- MCNode
    Index = {idx, sub}
    Members <- MCMembers
    Layer = {l1, l2, l3, n1}
    LayersOf <- MCLayersOf
    Distributable = {l1, l2, l3}
    IncludeNonDistributable = FALSE
    Order <- MCOrder
    Jobs = {1, 2}
    BuildThrottle = 1
    Attempts = 2
    MaxCalls = 2
    MaxFaults = 0
    MaxKills = 0
INVARIANTS
    ResumeDownloadsMissing
