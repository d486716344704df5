CONSTANTS
  cp = cp
  mining = mining
  chatTask = chatTask
  ControlPlaneRes = cp
  Tasks = {mining}
  Builtin = {mining}
  Resources = {cp, mining}
  Holders <- HoldersDef
  NoLease = NoLease
  TtlOf <- TtlOfDef
  MaxTtl = 3
  MaxToken = 20
  RenewEvery = 1
  Failures = {"wal", "reconcile", "start", "panic"}
  PidReuse = FALSE
  MaxNow = 3
  MaxBoots = 2
  MaxIsolations = 1
  MaxFires = 2
SPECIFICATION Spec
INVARIANTS NoOrphanScheduler
    WorkIsClaimed
CHECK_DEADLOCK FALSE
