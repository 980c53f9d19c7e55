\* The same description, against what imageRefCache.All demands.
SPECIFICATION Spec
CONSTANTS
    r = r
    a = a
    b = b
    s = s
    None = None
    Object = {r, a, b, s}
    Image <- MCImage
    Self <- MCSelf
    List <- MCList
    Contents <- MCContents
    SigOf <- MCSigOf
    Hideable = {"R", "X", "Y"}
    LocationsOf <- MCLocationsOf
    Concurrency = 2
    MaxFaults = 2
INVARIANT
    NeverPanics
