SPECIFICATION ChainsSpec
CONSTANTS
    s1 = s1  s2 = s2  q1 = q1  q2 = q2
    Chains = {"receipts", "probes"}
    Streams = {s1, s2}
    Capacity = 1
    MaxFaults = 2
    MaxBoots = 2
    Probers = {q1, q2}
    StudyConfigs <- ProbeConfigs
SYMMETRY Interchangeable
INVARIANTS StoreMatchesFile
    RowsAreAccounted
    ProbesHold
PROPERTIES AcknowledgedStays
CHECK_DEADLOCK FALSE
