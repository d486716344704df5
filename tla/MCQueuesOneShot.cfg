CONSTANTS
  a = a
  b = b
  c = c
  listener = listener
  Resources = {a, b, c}
  Holders <- TenuresDef
  NoLease = NoLease
  TtlOf <- TtlOfDef
  MaxTtl = 2
  MaxToken = 20
  Writers = {listener}
  Reconcile = Reconcile
  Unsaved = Unsaved
  NoIntent = NoIntent
  DescOf <- DescOfDef
  PriorityOf <- PriorityOfDef
  MaxQueue = 2
  MaxPerHour = 2
  Hour = 2
  MaxTenure = 1
  MaxNow = 2
  Machines = {"intents"}
  CliConfigs <- ReplyClis
  MaxFailures = 2
  ExtractConfigs <- ExtractorConfigs
SPECIFICATION QueuesSpec
PROPERTY OneShot
CHECK_DEADLOCK FALSE
