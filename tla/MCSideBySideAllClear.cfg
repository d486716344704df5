SPECIFICATION SideSpec
CONSTANTS
    t1 = t1  t2 = t2  t3 = t3
    a1 = a1  c1 = c1  c2 = c2
    w1 = w1  g1 = g1  g2 = g2
    Watchdog = Watchdog
    Global = Global
    p = p  q1 = q1  q2 = q2
    n1 = n1  n2 = n2
    f1 = f1  f2 = f2  b1 = b1  b2 = b2  b3 = b3  d1 = d1  d2 = d2
    Machines = {"health"}
    Turns = {t1, t2, t3}
    Patient = {t1}
    Slots = 2
    Tasks = {a1}
    Configs <- HealthConfigs
    PulseCycles = {c1, c2}
    Gated = {c1}
    Predictions = {p}
    Questions = {q1, q2}
    MaxThreads = 3
    Half = 1
    TensionConfigs <- PulseConfigs
    NoticeTurns = {n1, n2}
    MaxRefusals = 3
    MaxSent = 3
    MaxDamage = 1
    OutreachConfigs <- PolicyConfigs
    MaxDialogues = 2
    CommsWatchers = {w1}
    CommsHandlers = {g1, g2}
    Ring = 1
    CommsConfigs <- TalkConfigs
    StreamCapacity = 2
    StreamConfigs <- ReplyConfigs
    FeedClients = {f1, f2}
    FeedConfigs <- RowConfigs
    ChatMessages <- DiscordMessages
    LaneDepth = 1
    LaneConfigs <- OneChat
    Farms = {b2}
    Resources = {b1, b3}
    TenureOf <- FarmTenureOf
    Holders <- FarmHolders
    NoLease = NoLease
    TtlOf <- FarmTtlOf
    MaxTtl = 2
    MaxToken = 20
    MaxAttempts = 2
    MaxConcurrency = 2
    SubtaskTtl = 1
    WallBudget = 3
    MaxNow = 3
INVARIANT EscalationAnswered
CHECK_DEADLOCK FALSE
