SPECIFICATION HostSpec
CONSTANTS
    task = task  h1 = h1  h2 = h2  p1 = p1  p2 = p2
    k1 = k1  k2 = k2  s1 = s1  s2 = s2
    d1 = d1  d2 = d2  d3 = d3  x1 = x1  x2 = x2
    r1 = r1  r2 = r2  u1 = u1  u2 = u2  u3 = u3
    a1 = a1  a2 = a2
    Machines = {"leases", "pidfile", "graph", "anchors", "budget"}
    Resources = {task}
    Holders = {h1, h2}
    NoLease = NoLease
    MaxTtl = 2
    MaxToken = 3
    Procs = {p1, p2}
    NoProc = NoProc
    NoAppend = NoAppend
    MaxNow = 4
    MaxLog = 5
    TtlOf <- TtlOfDef
    Pids = {k1, k2}
    Stoppers = {s1, s2}
    PidfileConfigs <- OsConfigs
    GraphDaemons = {d1, d2, d3}
    GraphPulses = {x1, x2}
    NoDaemon = NoDaemon
    HostConfigs <- GraphConfigs
    AnchorRuns = {a1, a2}
    AnchorConfigs <- SiteConfigs
    GuestRequests = {r1, r2}
    Guests = {u1, u2, u3}
    BudgetConfigs <- CallerConfigs
SYMMETRY Interchangeable
INVARIANTS TokensIncrease
    GrantsAreDurable
    ReplayNeverRefuses
    PidfileHolds
    BudgetHolds
PROPERTIES ImplementsContract
    GraphHolds
    AnchorsHold
CHECK_DEADLOCK FALSE
