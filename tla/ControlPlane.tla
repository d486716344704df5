---------------------------- MODULE ControlPlane ----------------------------
(***************************************************************************)
(* Leadership of the control plane: the loop of src/coordinator/control.rs *)
(* that holds the control-plane lease and owns the scheduler, and the task *)
(* loops of src/scheduler/runner.rs it starts and aborts.                  *)
(*                                                                         *)
(* The lease table is the value of LeaseTable; mem is the table in memory  *)
(* and disk the one its log replays to, which knows grants and releases    *)
(* but no renewals.  That an append happens wholly or not at all is what   *)
(* DurableLeases shows.                                                    *)
(*                                                                         *)
(* A step of the loop or of a task loop is what runs between two awaits    *)
(* at which another task may run.  JoinHandle::abort only asks: a task     *)
(* being polled on another worker thread goes on until it next suspends,   *)
(* so an aborted job may still take the steps that do not wait.            *)
(***************************************************************************)
EXTENDS LeaseTable, FiniteSets

CONSTANTS
  ControlPlaneRes,   \* CONTROL_PLANE_RESOURCE
  Tasks,         \* resources "task-<id>", one per enabled task
  Builtin,       \* tasks run by a built-in handler, which never suspends
  RenewEvery,    \* RENEW_INTERVAL
  Failures,      \* which of {"wal", "reconcile", "start", "panic"} may happen
  PidReuse,      \* whether a restart may be given the pid of the process before
  MaxNow, MaxBoots, MaxIsolations, MaxFires   \* bounds

MaxTenure == MaxNow + MaxIsolations + 2   \* no process can start more

ASSUME ControlPlaneConstants ==
  /\ Builtin \subseteq Tasks /\ ControlPlaneRes \notin Tasks
  /\ Resources = Tasks \cup {ControlPlaneRes}
  /\ Holders = (1..MaxBoots) \X (1..MaxTenure)
  /\ Failures \subseteq {"wal", "reconcile", "start", "panic"}
  /\ PidReuse \in BOOLEAN
  /\ RenewEvery \in Nat \ {0} /\ MaxFires \in Nat
  /\ MaxNow \in Nat /\ MaxBoots \in Nat \ {0} /\ MaxIsolations \in Nat

VARIABLES
  now, disk, mem, poisoned,             \* the clock and the lease table
  boots, pid, shutdown,                 \* the process
  isolated, isolations,                 \* the ISOLATION marker
  pc, after, tenure, since, leadership, \* the leadership loop
  handles, job, aborted                 \* the scheduler's tasks

tableVars == <<disk, mem, poisoned>>
envVars == <<now, boots, pid, shutdown, isolated, isolations>>
loopVars == <<pc, after, tenure, since, leadership>>
jobVars == <<handles, job, aborted>>
vars == <<now, disk, mem, poisoned, boots, pid, shutdown, isolated, isolations,
          pc, after, tenure, since, leadership, handles, job, aborted>>

LoopSteps == {"opening", "top", "acquiring", "sweeping", "reconciling",
              "checking", "starting", "storing", "leading", "releasing",
              "backoff", "gone", "panicked", "down"}
JobSteps == {"none", "sleeping", "waking", "verifying", "claiming",
             "running", "reporting"}

Tenures == 1..MaxTenure
Jobs == Tenures \X Tasks
JobsOf(n) == {j \in Jobs : j[1] = n}
Live(j) == job[j] # "none"
Acting(j) == Live(j) /\ j \notin aborted

(* holder_id plus the tenure suffix: "<pulse>-<pid>-t<tenure>".            *)
Holder_NoTenure(n) == <<pid, 1>>      \* mutant: the suffix is left off

Holder(n) == <<pid, n>>

Init ==
  /\ now = 0 /\ disk = EmptyTable /\ mem = EmptyTable /\ poisoned = FALSE
  /\ boots = 1 /\ pid = 1 /\ shutdown = FALSE
  /\ isolated = FALSE /\ isolations = 0
  /\ pc = "opening" /\ after = "top" /\ tenure = 0 /\ since = 0
  /\ leadership = FALSE
  /\ handles = 0 /\ job = [j \in Jobs |-> "none"] /\ aborted = {}

----------------------------------------------------------------------------
(* Appends to the lease log, all or nothing.                               *)

Recorded(r, h) ==
  /\ ~poisoned
  /\ mem' = Acquire(mem, r, h, now)
  /\ disk' = WithLease(disk, r, GrantedLease(mem, r, h, now))
  /\ UNCHANGED poisoned

Freed(rs) ==
  /\ ~poisoned
  /\ mem' = [mem EXCEPT !.leases = [r \in Resources |-> IF r \in rs THEN NoLease ELSE @[r]]]
  /\ disk' = [disk EXCEPT !.leases = [r \in Resources |-> IF r \in rs THEN NoLease ELSE @[r]]]
  /\ UNCHANGED poisoned

AppendFails ==
  /\ poisoned \/ "wal" \in Failures
  /\ poisoned' \in {poisoned, TRUE}
  /\ UNCHANGED <<mem, disk>>

(* release, whose error the callers here only log.                         *)
ReleaseOwn(r, h) ==
  IF CanRelease(mem, r, h)
  THEN Freed({r}) \/ AppendFails
  ELSE UNCHANGED tableVars

----------------------------------------------------------------------------
(* The leadership loop.                                                    *)

Open ==
  /\ pc = "opening"
  /\ mem' = disk
  /\ pc' = IF shutdown THEN "gone" ELSE "top"
  /\ UNCHANGED <<envVars, disk, poisoned, after, tenure, since, leadership, jobVars>>

(* The head of the loop: shutdown ends it, isolation parks it here.        *)
Enter ==
  /\ pc = "top"
  /\ \/ /\ shutdown /\ pc' = "gone"
        /\ UNCHANGED tenure
     \/ /\ ~shutdown /\ ~isolated /\ tenure < MaxTenure
        /\ pc' = "acquiring" /\ tenure' = tenure + 1
  /\ UNCHANGED <<envVars, tableVars, after, since, leadership, jobVars>>

AcquireTenure ==
  /\ pc = "acquiring"
  /\ \/ /\ CanAcquire(mem, ControlPlaneRes, now)
        /\ Recorded(ControlPlaneRes, Holder(tenure))
        /\ pc' = "sweeping" /\ leadership' = TRUE
        /\ UNCHANGED since
     \/ /\ \/ ~CanAcquire(mem, ControlPlaneRes, now) /\ UNCHANGED tableVars
           \/ CanAcquire(mem, ControlPlaneRes, now) /\ AppendFails
        /\ pc' = "backoff" /\ since' = now
        /\ UNCHANGED leadership
  /\ UNCHANGED <<envVars, after, tenure, jobVars>>

(* wait_or_shutdown(RETRY_BACKOFF).                                        *)
Retry ==
  /\ pc = "backoff"
  /\ \/ shutdown /\ pc' = "gone"
     \/ ~shutdown /\ now > since /\ pc' = "top"
  /\ UNCHANGED <<envVars, tableVars, after, tenure, since, leadership, jobVars>>

(* sweep_stale_claims, under the table's lock throughout: every claim on a *)
(* task that another holder than this tenure has.  Each release may fail.  *)
StaleClaims_Expired(h) ==    \* mutant: only claims past their ttl are swept
  {r \in Tasks : Held(mem, r) /\ ~HeldBy(mem, r, h) /\ IsExpired(mem.leases[r], now)}

StaleClaims(h) == {r \in Tasks : Held(mem, r) /\ ~HeldBy(mem, r, h)}

Sweep ==
  /\ pc = "sweeping"
  /\ LET stale == StaleClaims(Holder(tenure)) IN
       \/ Freed(stale)
       \/ AppendFails
       \/ \E some \in SUBSET stale :      \* the log failed part of the way
            "wal" \in Failures /\ Freed(some)
       \/ stale = {} /\ UNCHANGED tableVars
  /\ pc' = "reconciling"
  /\ UNCHANGED <<envVars, after, tenure, since, leadership, jobVars>>

(* reconcile_control_plane; its failure gives the lease back and waits,    *)
(* leaving the leadership flag as it is.                                   *)
Reconcile ==
  /\ pc = "reconciling"
  /\ \/ pc' = "checking" /\ UNCHANGED after
     \/ "reconcile" \in Failures /\ pc' = "releasing" /\ after' = "backoff"
  /\ UNCHANGED <<envVars, tableVars, tenure, since, leadership, jobVars>>

(* The marker may have appeared since the loop's head.                     *)
CheckMarker ==
  /\ pc = "checking"
  /\ IF isolated
     THEN pc' = "releasing" /\ after' = "top" /\ leadership' = FALSE
     ELSE pc' = "starting" /\ UNCHANGED <<after, leadership>>
  /\ UNCHANGED <<envVars, tableVars, tenure, since, jobVars>>

(* scheduler::start spawns the task loops; on an error the loop gives up   *)
(* the lease and ends, the leadership flag as it is.                       *)
StartScheduler ==
  /\ pc = "starting"
  /\ \/ /\ job' = [j \in Jobs |-> IF j[1] = tenure THEN "sleeping" ELSE job[j]]
        /\ pc' = "storing" /\ UNCHANGED after
     \/ /\ "start" \in Failures
        /\ pc' = "releasing" /\ after' = "gone" /\ UNCHANGED job
  /\ UNCHANGED <<envVars, tableVars, tenure, since, leadership, handles, aborted>>

StoreHandles ==
  /\ pc = "storing"
  /\ handles' = tenure
  /\ pc' = "leading" /\ since' = now
  /\ UNCHANGED <<envVars, tableVars, after, tenure, leadership, job, aborted>>

(* abort_all takes the handles out and asks each task to stop.             *)
AbortAll_Forgets ==          \* mutant: the handles are dropped, not aborted
  handles' = 0 /\ UNCHANGED aborted

AbortAll ==
  /\ aborted' = aborted \cup {j \in JobsOf(handles) : Live(j)}
  /\ handles' = 0

EndTenure(next) ==
  /\ leadership' = FALSE
  /\ AbortAll
  /\ pc' = "releasing" /\ after' = next
  /\ UNCHANGED <<envVars, tableVars, tenure, since, job>>

EndOnShutdown == pc = "leading" /\ shutdown /\ EndTenure("gone")

EndOnIsolation == pc = "leading" /\ ~shutdown /\ isolated /\ EndTenure("top")

RenewalDue == pc = "leading" /\ ~shutdown /\ ~isolated /\ now - since >= RenewEvery

(* A renewal is in memory only; one that fails ends the tenure.            *)
RenewTenure ==
  /\ RenewalDue
  /\ CanRenew(mem, ControlPlaneRes, Holder(tenure), now)
  /\ mem' = Renew(mem, ControlPlaneRes, now)
  /\ since' = now
  /\ UNCHANGED <<envVars, disk, poisoned, pc, after, tenure, leadership, jobVars>>

LoseTenure_GivesUp ==          \* mutant: a lost tenure ends the loop
  /\ RenewalDue
  /\ ~CanRenew(mem, ControlPlaneRes, Holder(tenure), now)
  /\ EndTenure("gone")

LoseTenure ==
  /\ RenewalDue
  /\ ~CanRenew(mem, ControlPlaneRes, Holder(tenure), now)
  /\ EndTenure("top")

ReleaseTenure ==
  /\ pc = "releasing"
  /\ ReleaseOwn(ControlPlaneRes, Holder(tenure))
  /\ pc' = after
  /\ since' = IF after = "backoff" THEN now ELSE since
  /\ UNCHANGED <<envVars, after, tenure, leadership, jobVars>>

Loop ==
  \/ Open \/ Enter \/ AcquireTenure \/ Retry \/ Sweep \/ Reconcile
  \/ CheckMarker \/ StartScheduler \/ StoreHandles
  \/ EndOnShutdown \/ EndOnIsolation \/ RenewTenure \/ LoseTenure
  \/ ReleaseTenure

----------------------------------------------------------------------------
(* One task loop: sleep to the next fire, the gate, the run.               *)

MoveTo(j, step) ==
  /\ job' = [job EXCEPT ![j] = step]
  /\ aborted' = IF step = "none" THEN aborted \ {j} ELSE aborted

(* The sleep ends, then the enabled check and the evaluator, which read    *)
(* files and so suspend: the task may be gone, or sit this fire out.       *)
Wake(j) ==
  /\ job[j] = "sleeping" /\ j \notin aborted
  /\ \E step \in {"waking", "sleeping", "none"} : MoveTo(j, step)
  /\ UNCHANGED <<envVars, tableVars, loopVars, handles>>

(* The isolation backstop, which asks nobody but the marker.               *)
CheckIsolation(j) ==
  /\ job[j] = "waking"
  /\ MoveTo(j, IF isolated THEN "none" ELSE "verifying")
  /\ UNCHANGED <<envVars, tableVars, loopVars, handles>>

TenureStillLeads_Any(n) ==    \* mutant: anybody's unexpired lease will do
  /\ n \in Tenures
  /\ Held(mem, ControlPlaneRes)

TenureStillLeads(n) ==
  /\ HeldBy(mem, ControlPlaneRes, Holder(n))
  /\ ~IsExpired(mem.leases[ControlPlaneRes], now)

VerifyTenure(j) ==
  /\ job[j] = "verifying"
  /\ MoveTo(j, IF TenureStillLeads(j[1]) THEN "claiming" ELSE "none")
  /\ UNCHANGED <<envVars, tableVars, loopVars, handles>>

(* claim_lease: a refusal or a failed append skips this fire.              *)
ClaimTask(j) ==
  /\ job[j] = "claiming"
  /\ IF CanAcquire(mem, j[2], now) /\ mem.marks[j[2]] < MaxFires
     THEN \/ Recorded(j[2], Holder(j[1])) /\ MoveTo(j, "running")
          \/ AppendFails /\ MoveTo(j, "sleeping")
     ELSE UNCHANGED tableVars /\ MoveTo(j, "sleeping")
  /\ UNCHANGED <<envVars, loopVars, handles>>

(* The run ends.  Waiting for the provider suspends, so an aborted run     *)
(* gets no further than this, unless its handler never suspends.           *)
EndRun(j) ==
  /\ job[j] = "running"
  /\ j \notin aborted \/ j[2] \in Builtin
  /\ MoveTo(j, "reporting")
  /\ UNCHANGED <<envVars, tableVars, loopVars, handles>>

ReleaseTask(j) ==
  /\ job[j] = "reporting"
  /\ ReleaseOwn(j[2], Holder(j[1]))
  /\ MoveTo(j, "sleeping")
  /\ UNCHANGED <<envVars, loopVars, handles>>

(* An aborted task is dropped where it next suspends; its claim stays.     *)
AbortLands(j) ==
  /\ j \in aborted
  /\ MoveTo(j, "none")
  /\ UNCHANGED <<envVars, tableVars, loopVars, handles>>

JobStep(j) ==
  \/ Wake(j) \/ CheckIsolation(j) \/ VerifyTenure(j) \/ ClaimTask(j)
  \/ EndRun(j) \/ ReleaseTask(j) \/ AbortLands(j)

----------------------------------------------------------------------------
(* The rest of the process, the owner, and the machine.                    *)

SignalShutdown ==
  /\ pc # "down" /\ ~shutdown
  /\ shutdown' = TRUE
  /\ UNCHANGED <<now, boots, pid, isolated, isolations, tableVars, loopVars, jobVars>>

(* Coordinator::shutdown, which waits at most ten seconds for the loop and *)
(* then aborts whatever handles it stored.                                 *)
ShutdownBackstop ==
  /\ shutdown /\ handles # 0
  /\ AbortAll
  /\ UNCHANGED <<envVars, tableVars, loopVars, job>>

(* /isolate and /resume on the interactive channel.                        *)
EnterIsolation ==
  /\ ~isolated /\ isolations < MaxIsolations
  /\ isolated' = TRUE /\ isolations' = isolations + 1
  /\ UNCHANGED <<now, boots, pid, shutdown, tableVars, loopVars, jobVars>>

ExitIsolation ==
  /\ isolated
  /\ isolated' = FALSE
  /\ UNCHANGED <<now, boots, pid, shutdown, isolations, tableVars, loopVars, jobVars>>

(* Behaviours are bounded in time: a lease cut short by a failure below    *)
(* must have room to run out.                                              *)
TimeToRecover == now + TtlOf[ControlPlaneRes] <= MaxNow

(* The loop's task dies without its cleanup.                               *)
LoopPanics ==
  /\ "panic" \in Failures /\ TimeToRecover
  /\ pc \notin {"gone", "panicked", "down"}
  /\ pc' = "panicked"
  /\ UNCHANGED <<envVars, tableVars, after, tenure, since, leadership, jobVars>>

(* The process ends, by a crash or at the end of its shutdown: what is in  *)
(* memory is lost, renewals included.                                      *)
ProcessEnds ==
  /\ pc # "down" /\ boots < MaxBoots /\ TimeToRecover
  /\ pc' = "down" /\ after' = "top" /\ tenure' = 0 /\ since' = 0
  /\ leadership' = FALSE /\ shutdown' = FALSE
  /\ mem' = disk /\ poisoned' = FALSE
  /\ handles' = 0 /\ job' = [j \in Jobs |-> "none"] /\ aborted' = {}
  /\ UNCHANGED <<now, disk, boots, pid, isolated, isolations>>

Restart ==
  /\ pc = "down"
  /\ pc' = "opening" /\ boots' = boots + 1
  /\ pid' \in {pid + 1} \cup (IF PidReuse THEN {pid} ELSE {})
  /\ UNCHANGED <<now, shutdown, isolated, isolations, tableVars, after, tenure,
                 since, leadership, jobVars>>

(* One poll of a task is short: an abort lands within a tick.              *)
Tick ==
  /\ now < MaxNow /\ aborted = {}
  /\ now' = now + 1
  /\ UNCHANGED <<boots, pid, shutdown, isolated, isolations, tableVars, loopVars, jobVars>>

Next ==
  \/ Loop
  \/ \E j \in Jobs : JobStep(j)
  \/ SignalShutdown \/ ShutdownBackstop \/ EnterIsolation \/ ExitIsolation
  \/ LoopPanics \/ ProcessEnds \/ Restart \/ Tick

Spec == Init /\ [][Next]_vars

(* The runtime polls every task that can go on, the loop wakes on timers,  *)
(* a provider call ends (it has a timeout), an evaluator does not suppress *)
(* its task for ever, time passes, and the service manager restarts the    *)
(* process.  Nobody need isolate, resume, shut down or crash it.           *)
Fairness ==
  /\ WF_vars(Loop)
  /\ \A j \in Jobs : WF_vars(JobStep(j)) /\ WF_vars(AbortLands(j))
  /\ WF_vars(Restart) /\ WF_vars(Tick)

FairSpec == Spec /\ Fairness

----------------------------------------------------------------------------
(* Properties.                                                             *)

(* Every variable keeps its type; the handles the loop stores are its      *)
(* current tenure's or none, and only a live task loop is marked aborted   *)
(* (control.rs: SchedulerHandles, abort_all).                              *)
TypeOK ==
  /\ now \in 0..MaxNow /\ disk \in LeaseTables /\ mem \in LeaseTables
  /\ poisoned \in BOOLEAN
  /\ boots \in 1..MaxBoots /\ pid \in 1..boots /\ shutdown \in BOOLEAN
  /\ isolated \in BOOLEAN /\ isolations \in 0..MaxIsolations
  /\ pc \in LoopSteps /\ after \in {"top", "backoff", "gone"}
  /\ tenure \in 0..MaxTenure /\ since \in 0..MaxNow /\ leadership \in BOOLEAN
  /\ handles \in {0, tenure}
  /\ job \in [Jobs -> JobSteps] /\ aborted \subseteq {j \in Jobs : Live(j)}

(* A tenure that is over never keeps acting: every task loop that was not  *)
(* asked to stop belongs to the tenure that leads, or was left behind by a *)
(* loop that died (control.rs: "the stale tenure never keeps acting").     *)
NoOrphanScheduler ==
  \A j \in Jobs : Acting(j) =>
    /\ j[1] = tenure
    /\ pc \in {"storing", "leading", "panicked"}

(* A run's claim is its own from the fire to the report: neither a sweep,  *)
(* nor a late release by an aborted run of an earlier tenure, nor another  *)
(* fire takes it (runner.rs: claim_lease, "rather than double-run").       *)
RunsUnderClaim ==
  \A j \in Jobs : Acting(j) /\ job[j] \in {"running", "reporting"} =>
    HeldBy(mem, j[2], Holder(j[1]))

(* Whatever ends a tenure, what runs does so under the claim of its own,   *)
(* with no more than one handle to a task (control.rs: abort_all,          *)
(* sweep_stale_claims; runner.rs: claim_lease).                            *)
WorkIsClaimed == TypeOK /\ RunsUnderClaim

(* After the sweep, no task is held by a tenure that is over, so its next  *)
(* fire is not refused (control.rs: sweep_stale_claims).                   *)
SweepFreesDeadClaims ==
  [][pc = "sweeping" /\ pc' = "reconciling" => \A r \in Tasks : ~Held(mem, r)']_vars

(* Whatever crashed, panicked, stalled or was isolated before, a process   *)
(* whose loop is alive comes to lead again (control.rs: "a successor waits *)
(* out the previous lease's remaining ttl").                               *)
Recovers ==
  pc # "down" /\ ~shutdown ~>
    \/ pc \in {"leading", "panicked", "down"}
    \/ isolated \/ shutdown

(* Isolation that lasts stops every task loop for good and leaves the      *)
(* control-plane lease free, the leadership loop alive or dead             *)
(* (isolation.rs; control.rs: AC19).                                       *)
Shed ==
  /\ \A j \in Jobs : ~Live(j)
  /\ Held(mem, ControlPlaneRes) => IsExpired(mem.leases[ControlPlaneRes], now)

IsolationSheds == <>[]isolated => <>[]Shed

(* When the loop dies without cleaning up, the task loops it leaves behind *)
(* stop by themselves once its lease has run out (runner.rs:               *)
(* tenure_still_leads, "a wedged coordinator's orphans stop themselves").  *)
OrphansStop == pc = "panicked" ~> pc = "down" \/ \A j \in Jobs : ~Live(j)

(* Both: work of a tenure that is over ends by itself.                     *)
OldWorkStops == IsolationSheds /\ OrphansStop

----------------------------------------------------------------------------
(* What comments of the source say and the code does not do.               *)

(* server/mod.rs on the leadership flag: true while this process's         *)
(* coordinator holds the control-plane lease.                              *)
LeadershipMeansLease == leadership => HeldBy(mem, ControlPlaneRes, Holder(tenure))

(* control.rs before the sweep: "no scheduler is running right now", so    *)
(* any claim in the table is an orphan and no run is under way with it.    *)
SweptClaimsAreOrphans ==
  pc = "sweeping" =>
    \A j \in Jobs : job[j] \in {"running", "reporting"} =>
      ~HeldBy(mem, j[2], Holder(j[1]))
=============================================================================
