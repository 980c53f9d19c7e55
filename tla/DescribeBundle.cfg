\* The diamond; the registry may hide signatures, and two calls may fail.
SPECIFICATION FairSpec
CONSTANTS
    r = r
    a = a
    b = b
    s = s
    None = None
    Object = {r, a, b, s}
    Image <- MCImage
    Self <- MCSelf
    List <- MCList
    Contents <- MCContents
    SigOf <- MCSigOf
    Hideable = {"R", "X", "Y"}
    LocationsOf <- MCLocationsOf
    Concurrency = 2
    MaxFaults = 2
INVARIANTS
    TypeOK
    DescriptionComplete
    FailureHasACause
PROPERTY
    DescribeEnds
