\* The goroutines of a copy, in the order Import starts them, with two failures.
SPECIFICATION FairSpec
CONSTANTS
    m1 = m1
    m2 = m2
    w = w
    v = v
    v2 = v2
    n = n
    open = open
    secret = secret
    away = away
    dst = dst
    bad = bad
    reader1 = reader1
    writer1 = writer1
    anon = anon
    whole = whole
    part = part
    star = star
    Task = {m1, m2, w, v, v2, n}
    Script <- MCScript
    After <- MCAfter
    Repo = {open, secret, away, dst, bad}
    Malformed = {bad}
    RegistryOf <- MCRegistryOf
    Auth = {reader1, writer1, anon}
    Anonymous = anon
    PathOf <- MCPathOf
    EnvEntry = {whole, part, star}
    EnvHost <- MCEnvHost
    EnvPath <- MCEnvPath
    EnvAuth <- MCEnvAuth
    HostMatches <- MCHostMatches
    Iaas <- MCIaas
    FlagAuth = "none"
    DockerAuth <- MCDockerAuth
    Tries = 3
    Reads <- MCReads
    MaxUpdates = 2
    MaxFaults = 2
INVARIANTS
    TypeOK
    RequestsAuthorised
    NegotiatedOnce
PROPERTY
    EveryTaskEnds
