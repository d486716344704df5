------------------------- MODULE ControlPlane_proofs -------------------------
(***************************************************************************)
(* Proofs about the control plane's leadership, for any tasks, leases,     *)
(* failures and bounds.                                                    *)
(*                                                                         *)
(* The argument: the handles the loop stores are those of its own tenure,  *)
(* so that whatever ends a tenure asks every task loop of it to stop; and  *)
(* while an asked-for abort has not landed no time passes, so a run of the *)
(* next tenure holds a lease granted at this very moment, which the late   *)
(* steps of an aborted task loop cannot take.                              *)
(***************************************************************************)
EXTENDS ControlPlane, TLAPS

(* Handles are stored by a loop that leads, and taken out again before it  *)
(* goes on; once they are out, nothing acts under them.                    *)
HandlesKnown ==
  /\ handles # 0 => pc \in {"leading", "panicked"}
  /\ pc = "leading" /\ handles = 0 => \A j \in Jobs : ~Acting(j)

(* While an abort is on its way, the claims of acting runs are new.        *)
ClaimsAreFresh ==
  aborted # {} =>
    \A j \in Jobs : Acting(j) /\ job[j] \in {"running", "reporting"} =>
      Held(mem, j[2]) /\ mem.leases[j[2]].grantedAt = now

LoopInOrder ==
  /\ pc = "acquiring" => tenure # 0
  /\ pc = "down" => boots < MaxBoots

IInv ==
  /\ TypeOK /\ NoOrphanScheduler /\ RunsUnderClaim
  /\ HandlesKnown /\ ClaimsAreFresh /\ LoopInOrder

-----------------------------------------------------------------------------
(* Constants, holders and tables.                                          *)

(* Tasks and the control plane are different resources, and a task loop is *)
(* named by its tenure and its task (runner.rs, control.rs).               *)
LEMMA ConstantFacts ==
  /\ ControlPlaneRes \in Resources /\ ControlPlaneRes \notin Tasks /\ Tasks \subseteq Resources
  /\ MaxTenure \in Nat /\ MaxNow \in Nat /\ MaxBoots \in Nat /\ MaxIsolations \in Nat
  /\ Tenures \subseteq Nat \ {0}
  /\ \A j \in Jobs : j[1] \in Tenures /\ j[2] \in Tasks /\ j[2] \in Resources
  /\ \A j, k \in Jobs : j[1] = k[1] /\ j[2] = k[2] => j = k
  /\ MaxToken \in Nat \ {0} /\ MaxTtl \in Nat \ {0} /\ NoLease \notin Lease
  /\ \A r \in Resources : TtlOf[r] \in 1..MaxTtl
<1>1. /\ MaxNow \in Nat /\ MaxBoots \in Nat /\ MaxIsolations \in Nat
      /\ ControlPlaneRes \notin Tasks /\ Resources = Tasks \cup {ControlPlaneRes}
  BY ControlPlaneConstants
<1>2. MaxTenure \in Nat
  BY <1>1 DEF MaxTenure
<1>3. /\ MaxToken \in Nat \ {0} /\ MaxTtl \in Nat \ {0} /\ NoLease \notin Lease
      /\ \A r \in Resources : TtlOf[r] \in 1..MaxTtl
  BY LeaseConstants DEF Lease
<1>4. Tenures \subseteq Nat \ {0}
  BY <1>2 DEF Tenures
<1> QED BY <1>1, <1>2, <1>3, <1>4 DEF Jobs

(* Two tenures of one process have different holders (control.rs: the      *)
(* tenure suffix).                                                         *)
LEMMA HolderFacts ==
  ASSUME TypeOK, NEW n \in Tenures
  PROVE  /\ Holder(n) \in Holders
         /\ \A m \in Tenures : Holder(m) = Holder(n) => m = n
<1>1. pid \in 1..MaxBoots /\ n \in 1..MaxTenure
  BY ConstantFacts DEF TypeOK, Tenures
<1> QED BY <1>1, ControlPlaneConstants DEF Holder

(* A grant changes one lease, to one of the holder and of now (lease.rs:   *)
(* acquire), in memory and in what the log replays to alike.               *)
LEMMA AcquireGrants ==
  ASSUME NEW tab \in LeaseTables, NEW other \in LeaseTables, NEW r \in Resources,
         NEW h \in Holders, NEW t \in Nat, CanAcquire(tab, r, t)
  PROVE  LET g == GrantedLease(tab, r, h, t)
             new == WithLease(other, r, g)
         IN /\ new \in LeaseTables
            /\ new.leases[r] = g /\ g.holder = h /\ g.grantedAt = t /\ g # NoLease
            /\ \A q \in Resources \ {r} : new.leases[q] = other.leases[q]
<1> DEFINE g == GrantedLease(tab, r, h, t)
<1>1. g \in Lease /\ g.holder = h /\ g.grantedAt = t
  BY ConstantFacts DEF GrantedLease, Lease, NextToken, CanAcquire, TokenAvailable, LeaseTables
<1> HIDE DEF g
<1> QED BY <1>1, ConstantFacts DEF WithLease, LeaseTables, Lease, g

(* Freeing some resources leaves the others (lease.rs: release).           *)
LEMMA FreedFrees ==
  ASSUME mem \in LeaseTables, disk \in LeaseTables, NEW rs \in SUBSET Resources, Freed(rs)
  PROVE  /\ mem' \in LeaseTables /\ disk' \in LeaseTables
         /\ \A q \in Resources : /\ mem'.leases[q] = IF q \in rs THEN NoLease ELSE mem.leases[q]
                                 /\ disk'.leases[q] = IF q \in rs THEN NoLease ELSE disk.leases[q]
<1>1. /\ mem' = [mem EXCEPT !.leases = [r \in Resources |-> IF r \in rs THEN NoLease ELSE mem.leases[r]]]
      /\ disk' = [disk EXCEPT !.leases = [r \in Resources |-> IF r \in rs THEN NoLease ELSE disk.leases[r]]]
  BY DEF Freed
<1> QED BY <1>1 DEF LeaseTables

(* What a release may leave whose error its caller only logs (control.rs,  *)
(* runner.rs).                                                             *)
LEMMA ReleaseLeaves ==
  ASSUME TypeOK, NEW r \in Resources, NEW h, ReleaseOwn(r, h)
  PROVE  /\ mem' \in LeaseTables /\ disk' \in LeaseTables /\ poisoned' \in BOOLEAN
         /\ \A q \in Resources : \/ mem'.leases[q] = mem.leases[q]
                                 \/ q = r /\ HeldBy(mem, r, h)
<1>1. CASE CanRelease(mem, r, h) /\ Freed({r})
  <2>1. mem \in LeaseTables /\ disk \in LeaseTables /\ {r} \in SUBSET Resources
    BY DEF TypeOK
  <2>2. /\ mem' \in LeaseTables /\ disk' \in LeaseTables
        /\ \A q \in Resources : mem'.leases[q] = IF q \in {r} THEN NoLease ELSE mem.leases[q]
    BY <2>1, <1>1, FreedFrees
  <2> QED BY <2>2, <1>1 DEF CanRelease, Freed, TypeOK
<1>2. CASE AppendFails \/ UNCHANGED tableVars
  BY <1>2 DEF TypeOK, AppendFails, tableVars
<1> QED BY <1>1, <1>2 DEF ReleaseOwn

-----------------------------------------------------------------------------
(* The steps of the leadership loop.                                       *)

(* Between tenures nothing acts.                                           *)
LEMMA NothingActs ==
  ASSUME IInv, pc \notin {"storing", "leading", "panicked"}
  PROVE  /\ \A j \in Jobs : ~Acting(j)
         /\ handles = 0
BY DEF IInv, NoOrphanScheduler, HandlesKnown

(* The first process (control.rs: run).                                    *)
LEMMA InitIInv == Init => IInv
<1> SUFFICES ASSUME Init PROVE IInv
  OBVIOUS
<1> USE DEF Init
<1>1. \A j \in Jobs : ~Acting(j)
  BY DEF Acting, Live
<1>2. EmptyTable \in LeaseTables
  BY ConstantFacts DEF EmptyTable, LeaseTables
<1>3. TypeOK
  <2>1. now \in 0..MaxNow /\ isolations \in 0..MaxIsolations /\ since \in 0..MaxNow
    BY ConstantFacts
  <2>2. boots \in 1..MaxBoots /\ pid \in 1..boots /\ tenure \in 0..MaxTenure
    BY ConstantFacts, ControlPlaneConstants
  <2>3. job \in [Jobs -> JobSteps]
    BY DEF JobSteps
  <2> QED BY <1>2, <2>1, <2>2, <2>3 DEF TypeOK, LoopSteps
<1>4. LoopInOrder
  BY DEF LoopInOrder
<1> QED
  BY <1>1, <1>3, <1>4
     DEF IInv, NoOrphanScheduler, RunsUnderClaim, HandlesKnown, ClaimsAreFresh

(* The loop between tenures (control.rs: run_leadership_loop): opening the *)
(* table, waiting, acquiring, sweeping, reconciling, giving the lease up.  *)
LEMMA QuietLoopKeeps ==
  ASSUME IInv,
         \/ Open \/ Enter \/ AcquireTenure \/ Retry \/ Sweep \/ Reconcile
         \/ CheckMarker \/ ReleaseTenure
  PROVE  IInv'
<1> USE DEF envVars, tableVars, jobVars
<1>1. /\ TypeOK /\ mem \in LeaseTables /\ disk \in LeaseTables /\ now \in Nat /\ now \in 0..MaxNow
      /\ poisoned \in BOOLEAN
  BY ConstantFacts DEF IInv, TypeOK
<1>2. /\ pc \notin {"storing", "leading", "panicked", "down"}
      /\ UNCHANGED <<now, boots, pid, shutdown, isolated, isolations, handles, job, aborted>>
  BY DEF Open, Enter, AcquireTenure, Retry, Sweep, Reconcile, CheckMarker, ReleaseTenure
<1>3. (\A j \in Jobs : ~Acting(j)) /\ handles = 0
  BY <1>2, NothingActs
<1>4. (\A j \in Jobs : ~Acting(j)') /\ handles' = 0
  BY <1>2, <1>3 DEF Acting, Live
<1>5. /\ pc' \in LoopSteps /\ pc' # "down" /\ after' \in {"top", "backoff", "gone"}
      /\ since' \in 0..MaxNow /\ leadership' \in BOOLEAN
      /\ tenure' \in 0..MaxTenure /\ (pc' = "acquiring" => tenure' # 0)
  <2>1. CASE Enter
    BY <2>1, <1>1, ConstantFacts DEF Enter, TypeOK, LoopSteps
  <2>2. CASE Open \/ AcquireTenure \/ Retry \/ Sweep \/ Reconcile \/ CheckMarker
    BY <2>2, <1>1 DEF Open, AcquireTenure, Retry, Sweep, Reconcile, CheckMarker, TypeOK, LoopSteps
  <2>3. CASE ReleaseTenure
    BY <2>3, <1>1 DEF ReleaseTenure, TypeOK, LoopSteps
  <2> QED BY <2>1, <2>2, <2>3
<1>6. mem' \in LeaseTables /\ disk' \in LeaseTables /\ poisoned' \in BOOLEAN
  <2>1. CASE Open \/ Enter \/ Retry \/ Reconcile \/ CheckMarker
    BY <2>1, <1>1 DEF Open, Enter, Retry, Reconcile, CheckMarker
  <2>2. CASE AcquireTenure
    <3>1. CASE AppendFails \/ UNCHANGED tableVars
      BY <3>1, <1>1 DEF AppendFails
    <3>2. CASE CanAcquire(mem, ControlPlaneRes, now) /\ Recorded(ControlPlaneRes, Holder(tenure))
      BY <2>2, ConstantFacts, <1>1, HolderFacts, <3>2, AcquireGrants DEF IInv, LoopInOrder,
         TypeOK, AcquireTenure, Tenures, Recorded, Acquire
    <3> QED BY <2>2, <3>1, <3>2 DEF AcquireTenure
  <2>3. CASE Sweep
    <3>1. CASE AppendFails \/ UNCHANGED tableVars
      BY <3>1, <1>1 DEF AppendFails
    <3>2. ASSUME NEW rs \in SUBSET Resources, Freed(rs)
          PROVE  mem' \in LeaseTables /\ disk' \in LeaseTables /\ poisoned' \in BOOLEAN
      BY <3>2, <1>1, FreedFrees DEF Freed
    <3>3. StaleClaims(Holder(tenure)) \in SUBSET Resources
      BY ConstantFacts DEF StaleClaims
    <3> QED BY <2>3, <3>1, <3>2, <3>3 DEF Sweep
  <2>4. CASE ReleaseTenure
    BY <2>4, <1>1, ConstantFacts, ReleaseLeaves DEF ReleaseTenure
  <2> QED BY <2>1, <2>2, <2>3, <2>4
<1>7. TypeOK'
  BY <1>1, <1>2, <1>4, <1>5, <1>6 DEF TypeOK, Live
<1>8. LoopInOrder'
  BY <1>5 DEF LoopInOrder
<1> QED
  BY <1>4, <1>7, <1>8
     DEF IInv, NoOrphanScheduler, RunsUnderClaim, HandlesKnown, ClaimsAreFresh

(* scheduler::start spawns the loops of this tenure and no other.          *)
LEMMA StartKeeps ==
  ASSUME IInv, StartScheduler
  PROVE  IInv'
<1> USE DEF StartScheduler, envVars, tableVars
<1>1. /\ TypeOK /\ handles = 0 /\ \A j \in Jobs : ~Acting(j)
  BY NothingActs DEF IInv
<1>2. /\ UNCHANGED <<now, disk, mem, poisoned, boots, pid, shutdown, isolated, isolations,
                     tenure, since, leadership, handles, aborted>>
      /\ pc' \in {"storing", "releasing"} /\ after' \in {after, "gone"}
      /\ job' \in [Jobs -> JobSteps]
      /\ \A j \in Jobs : job'[j] = IF pc' = "storing" /\ j[1] = tenure THEN "sleeping" ELSE job[j]
  BY <1>1 DEF TypeOK, JobSteps
<1>3. TypeOK'
  BY <1>1, <1>2 DEF TypeOK, Live, LoopSteps
<1>4. \A j \in Jobs : Acting(j)' => /\ pc' = "storing" /\ j[1] = tenure /\ job'[j] = "sleeping"
  BY <1>1, <1>2 DEF Acting, Live
<1> QED
  BY <1>1, <1>2, <1>3, <1>4
     DEF IInv, NoOrphanScheduler, RunsUnderClaim, HandlesKnown, ClaimsAreFresh, LoopInOrder

(* The handles are stored after the spawn (control.rs: *h = Some(...)).    *)
LEMMA StoreKeeps ==
  ASSUME IInv, StoreHandles
  PROVE  IInv'
<1> USE DEF StoreHandles, envVars, tableVars
<1>1. /\ UNCHANGED <<now, disk, mem, poisoned, boots, pid, shutdown, isolated, isolations,
                     tenure, leadership, job, aborted, after>>
      /\ pc = "storing" /\ pc' = "leading" /\ handles' = tenure /\ since' = now
  OBVIOUS
<1>2. \A j \in Jobs : (Acting(j)' <=> Acting(j)) /\ (Acting(j) => j[1] = tenure)
  BY <1>1 DEF Acting, Live, IInv, NoOrphanScheduler
<1>3. TypeOK'
  BY <1>1 DEF IInv, TypeOK, LoopSteps, Live
<1>4. handles' = 0 => \A j \in Jobs : ~Acting(j)'
  BY <1>1, <1>2, ConstantFacts
<1>5. RunsUnderClaim' /\ ClaimsAreFresh'
  BY <1>1, <1>2 DEF IInv, RunsUnderClaim, ClaimsAreFresh, Holder
<1> QED BY <1>1, <1>2, <1>3, <1>4, <1>5 DEF IInv, NoOrphanScheduler, HandlesKnown, LoopInOrder

(* abort_all asks everything that acts to stop, whatever the handles are.  *)
LEMMA AbortStopsAll ==
  ASSUME IInv, AbortAll, job' = job, pc = "leading" \/ handles # 0
  PROVE  /\ \A j \in Jobs : ~Acting(j)'
         /\ handles' = 0 /\ aborted' \subseteq {j \in Jobs : Live(j)'}
<1>1. handles' = 0 /\ aborted' \subseteq {j \in Jobs : Live(j)'}
  BY DEF AbortAll, IInv, TypeOK, Live, JobsOf
<1>2. CASE handles = 0
  BY <1>2, <1>1 DEF IInv, HandlesKnown, AbortAll, Acting, Live
<1>3. CASE handles # 0
  BY <1>3, <1>1 DEF IInv, TypeOK, AbortAll, JobsOf, NoOrphanScheduler, Acting, Live
<1> QED BY <1>1, <1>2, <1>3

(* However a tenure ends (control.rs: shutdown, isolation, a failed        *)
(* renewal), its task loops are asked to stop first.                       *)
LEMMA EndTenureKeeps ==
  ASSUME IInv, EndOnShutdown \/ EndOnIsolation \/ LoseTenure
  PROVE  IInv'
<1>1. PICK next \in {"top", "gone"} : EndTenure(next) /\ pc = "leading"
  BY DEF EndOnShutdown, EndOnIsolation, LoseTenure, RenewalDue
<1>2. /\ UNCHANGED <<now, disk, mem, poisoned, boots, pid, shutdown, isolated, isolations,
                     tenure, since, job>>
      /\ leadership' = FALSE /\ pc' = "releasing" /\ after' = next /\ AbortAll
  BY <1>1 DEF EndTenure, envVars, tableVars
<1>3. /\ \A j \in Jobs : ~Acting(j)'
      /\ handles' = 0 /\ aborted' \subseteq {j \in Jobs : Live(j)'}
  BY <1>1, <1>2, AbortStopsAll
<1>4. TypeOK'
  BY <1>2, <1>3 DEF IInv, TypeOK, LoopSteps
<1> QED
  BY <1>2, <1>3, <1>4
     DEF IInv, NoOrphanScheduler, RunsUnderClaim, HandlesKnown, ClaimsAreFresh, LoopInOrder

(* Coordinator::shutdown aborts what handles there are.                    *)
LEMMA BackstopKeeps ==
  ASSUME IInv, ShutdownBackstop
  PROVE  IInv'
<1>1. /\ UNCHANGED <<now, disk, mem, poisoned, boots, pid, shutdown, isolated, isolations,
                     tenure, since, job, pc, after, leadership>>
      /\ AbortAll /\ handles # 0
  BY DEF ShutdownBackstop, envVars, tableVars, loopVars
<1>2. pc \in {"leading", "panicked"}
  BY <1>1 DEF IInv, HandlesKnown
<1>3. /\ \A j \in Jobs : ~Acting(j)'
      /\ handles' = 0 /\ aborted' \subseteq {j \in Jobs : Live(j)'}
  BY <1>1, <1>2, AbortStopsAll
<1>4. TypeOK'
  BY <1>1, <1>3 DEF IInv, TypeOK
<1> QED
  BY <1>1, <1>2, <1>3, <1>4
     DEF IInv, NoOrphanScheduler, RunsUnderClaim, HandlesKnown, ClaimsAreFresh, LoopInOrder

(* A renewal touches the control plane's lease and no task's.              *)
LEMMA RenewKeeps ==
  ASSUME IInv, RenewTenure
  PROVE  IInv'
<1>1. /\ UNCHANGED <<now, disk, poisoned, boots, pid, shutdown, isolated, isolations,
                     pc, after, tenure, leadership, handles, job, aborted>>
      /\ mem' = Renew(mem, ControlPlaneRes, now) /\ since' = now
      /\ CanRenew(mem, ControlPlaneRes, Holder(tenure), now)
  BY DEF RenewTenure, envVars, jobVars
<1>2. mem \in LeaseTables /\ now \in 0..MaxNow /\ now \in Nat
  BY ConstantFacts DEF IInv, TypeOK
<1>3. mem.leases[ControlPlaneRes] \in Lease
  BY <1>1, <1>2, ConstantFacts DEF CanRenew, HeldBy, Held, LeaseTables
<1>4. /\ mem' \in LeaseTables
      /\ \A r \in Tasks : mem'.leases[r] = mem.leases[r]
  BY <1>1, <1>2, <1>3, ConstantFacts DEF Renew, RenewedLease, LeaseTables, Lease
<1>5. TypeOK'
  BY <1>1, <1>2, <1>4 DEF IInv, TypeOK, Live
<1>6. \A j \in Jobs : Acting(j)' <=> Acting(j)
  BY <1>1 DEF Acting, Live
<1>7. RunsUnderClaim' /\ ClaimsAreFresh'
  BY <1>1, <1>4, <1>6, ConstantFacts DEF IInv, RunsUnderClaim, ClaimsAreFresh, Holder, HeldBy, Held
<1> QED BY <1>1, <1>5, <1>6, <1>7 DEF IInv, NoOrphanScheduler, HandlesKnown, LoopInOrder

(* The owner, a panic and the clock.  Time stands still until every abort  *)
(* has landed.                                                             *)
LEMMA WorldKeeps ==
  ASSUME IInv,
         SignalShutdown \/ EnterIsolation \/ ExitIsolation \/ LoopPanics \/ Tick \/ UNCHANGED vars
  PROVE  IInv'
<1>0. shutdown \in BOOLEAN /\ isolated \in BOOLEAN
  BY DEF IInv, TypeOK
<1>1. /\ UNCHANGED <<disk, mem, poisoned, boots, pid, after, tenure, since, leadership,
                     handles, job, aborted>>
      /\ pc' \in {pc, "panicked"} /\ (pc' # pc => pc # "down")
      /\ now' = now \/ aborted = {}
      /\ shutdown' \in BOOLEAN /\ isolated' \in BOOLEAN
  BY <1>0 DEF SignalShutdown, EnterIsolation, ExitIsolation, LoopPanics, Tick, vars, tableVars,
         envVars, loopVars, jobVars
<1>2. now' \in 0..MaxNow /\ isolations' \in 0..MaxIsolations
  BY ConstantFacts
     DEF SignalShutdown, EnterIsolation, ExitIsolation, LoopPanics, Tick, vars, envVars, IInv, TypeOK
<1>3. TypeOK'
  BY <1>1, <1>2 DEF IInv, TypeOK, LoopSteps, Live
<1>4. \A j \in Jobs : Acting(j)' <=> Acting(j)
  BY <1>1 DEF Acting, Live
<1>5. RunsUnderClaim' /\ ClaimsAreFresh'
  BY <1>1, <1>4 DEF IInv, RunsUnderClaim, ClaimsAreFresh, Holder, HeldBy, Held
<1>6. NoOrphanScheduler' /\ HandlesKnown'
  BY <1>1, <1>4 DEF IInv, NoOrphanScheduler, HandlesKnown
<1> QED BY <1>1, <1>3, <1>5, <1>6 DEF IInv, LoopInOrder

(* The process ends and another begins: no task loop survives it.          *)
LEMMA ProcessKeeps ==
  ASSUME IInv, ProcessEnds \/ Restart
  PROVE  IInv'
<1>1. CASE ProcessEnds
  <2> USE <1>1 DEF ProcessEnds
  <2>1. \A j \in Jobs : ~Acting(j)'
    BY DEF Acting, Live
  <2>2. job' \in [Jobs -> JobSteps] /\ tenure' \in 0..MaxTenure /\ since' \in 0..MaxNow
    BY ConstantFacts DEF JobSteps
  <2>3. TypeOK'
    BY <2>2 DEF IInv, TypeOK, LoopSteps
  <2>4. LoopInOrder'
    BY DEF LoopInOrder
  <2> QED
    BY <2>1, <2>3, <2>4
       DEF IInv, NoOrphanScheduler, RunsUnderClaim, HandlesKnown, ClaimsAreFresh
<1>2. CASE Restart
  <2> USE <1>2 DEF Restart, tableVars, jobVars
  <2>1. (\A j \in Jobs : ~Acting(j)) /\ handles = 0
    BY NothingActs
  <2>2. \A j \in Jobs : ~Acting(j)'
    BY <2>1 DEF Acting, Live
  <2>3. boots' \in 1..MaxBoots /\ pid' \in 1..boots'
    BY ConstantFacts DEF IInv, TypeOK, LoopInOrder
  <2>4. TypeOK'
    BY <2>3 DEF IInv, TypeOK, LoopSteps, Live
  <2>5. LoopInOrder'
    BY DEF LoopInOrder
  <2> QED
    BY <2>1, <2>2, <2>4, <2>5
       DEF IInv, NoOrphanScheduler, RunsUnderClaim, HandlesKnown, ClaimsAreFresh
<1> QED BY <1>1, <1>2

-----------------------------------------------------------------------------
(* The steps of one task loop (runner.rs).                                 *)

(* A step of task loop j keeps the invariant as long as it takes nobody    *)
(* else's claim, and a run it begins or goes on with is under a claim of   *)
(* its own.                                                                *)
LEMMA JobStepKeeps ==
  ASSUME IInv, NEW j \in Jobs, NEW step \in JobSteps, Live(j), MoveTo(j, step),
         UNCHANGED <<now, boots, pid, shutdown, isolated, isolations,
                     pc, after, tenure, since, leadership, handles>>,
         mem' \in LeaseTables, disk' \in LeaseTables, poisoned' \in BOOLEAN,
         \A k \in Jobs : k # j /\ Acting(k) /\ job[k] \in {"running", "reporting"}
           => mem'.leases[k[2]] = mem.leases[k[2]],
         Acting(j) /\ step \in {"running", "reporting"} =>
           /\ HeldBy(mem', j[2], Holder(j[1]))
           /\ aborted # {} => mem'.leases[j[2]].grantedAt = now
  PROVE  IInv'
<1>1. /\ job' = [job EXCEPT ![j] = step] /\ job \in [Jobs -> JobSteps]
      /\ aborted' = IF step = "none" THEN aborted \ {j} ELSE aborted
      /\ aborted \subseteq {k \in Jobs : Live(k)}
  BY DEF MoveTo, IInv, TypeOK
<1>2. /\ job'[j] = step /\ \A k \in Jobs : k # j => job'[k] = job[k]
      /\ job' \in [Jobs -> JobSteps]
  BY <1>1
<1>3. aborted' \subseteq {k \in Jobs : Live(k)'}
  BY <1>1, <1>2 DEF Live
<1>4. \A k \in Jobs : Acting(k)' => Acting(k)
  BY <1>1, <1>2 DEF Acting, Live
<1>5. TypeOK'
  BY <1>2, <1>3 DEF IInv, TypeOK
<1>6. NoOrphanScheduler' /\ HandlesKnown'
  BY <1>4 DEF IInv, NoOrphanScheduler, HandlesKnown
<1>7. ASSUME NEW k \in Jobs, Acting(k)', job'[k] \in {"running", "reporting"}
      PROVE  /\ HeldBy(mem', k[2], Holder(k[1]))
             /\ aborted # {} => mem'.leases[k[2]].grantedAt = now
  BY <1>2, <1>4, <1>7 DEF IInv, RunsUnderClaim, ClaimsAreFresh, HeldBy, Held
<1>8. aborted' # {} => aborted # {}
  BY <1>1
<1>9. RunsUnderClaim' /\ ClaimsAreFresh'
  BY <1>7, <1>8 DEF RunsUnderClaim, ClaimsAreFresh, HeldBy, Holder, Held
<1> QED BY <1>5, <1>6, <1>9 DEF IInv, LoopInOrder

(* The steps that leave the lease table alone, and do not begin a run.     *)
LEMMA WaitingKeeps ==
  ASSUME IInv, NEW j \in Jobs,
         Wake(j) \/ CheckIsolation(j) \/ VerifyTenure(j) \/ EndRun(j) \/ AbortLands(j)
  PROVE  IInv'
<1> USE DEF envVars, tableVars, loopVars
<1>1. mem \in LeaseTables /\ disk \in LeaseTables /\ poisoned \in BOOLEAN
  BY DEF IInv, TypeOK
<1>2. /\ UNCHANGED <<now, boots, pid, shutdown, isolated, isolations,
                     pc, after, tenure, since, leadership, handles, mem, disk, poisoned>>
      /\ Live(j)
  BY DEF Wake, CheckIsolation, VerifyTenure, EndRun, AbortLands, Live, IInv, TypeOK
<1>3. PICK step \in JobSteps : /\ MoveTo(j, step)
                               /\ step \in {"running", "reporting"} => job[j] = "running"
  BY DEF Wake, CheckIsolation, VerifyTenure, EndRun, AbortLands, JobSteps
<1>4. Acting(j) /\ step \in {"running", "reporting"} =>
        /\ HeldBy(mem', j[2], Holder(j[1]))
        /\ aborted # {} => mem'.leases[j[2]].grantedAt = now
  BY <1>2, <1>3 DEF IInv, RunsUnderClaim, ClaimsAreFresh
<1> QED BY <1>1, <1>2, <1>3, <1>4, JobStepKeeps

(* The fire's claim (runner.rs: claim_lease).  The table refuses it while  *)
(* an acting run of the same task, which is of another tenure, holds the   *)
(* lease it was granted at this moment.                                    *)
LEMMA ClaimKeeps ==
  ASSUME IInv, NEW j \in Jobs, ClaimTask(j)
  PROVE  IInv'
<1> USE DEF envVars, tableVars, loopVars
<1>1. /\ mem \in LeaseTables /\ disk \in LeaseTables /\ poisoned \in BOOLEAN /\ now \in Nat
      /\ TypeOK
  BY ConstantFacts DEF IInv, TypeOK
<1>2. /\ UNCHANGED <<now, boots, pid, shutdown, isolated, isolations,
                     pc, after, tenure, since, leadership, handles>>
      /\ Live(j) /\ job[j] = "claiming"
  BY DEF ClaimTask, Live
<1>3. /\ j[1] \in Tenures /\ j[2] \in Resources /\ Holder(j[1]) \in Holders
  BY <1>1, ConstantFacts, HolderFacts
<1>4. CASE UNCHANGED <<mem, disk>> /\ poisoned' \in BOOLEAN /\ MoveTo(j, "sleeping")
  BY <1>1, <1>2, <1>4, JobStepKeeps DEF JobSteps
<1>5. CASE /\ CanAcquire(mem, j[2], now)
           /\ Recorded(j[2], Holder(j[1])) /\ MoveTo(j, "running")
  <2> DEFINE g == GrantedLease(mem, j[2], Holder(j[1]), now)
  <2>1. /\ mem' = WithLease(mem, j[2], g) /\ disk' = WithLease(disk, j[2], g)
        /\ poisoned' = poisoned
    BY <1>5 DEF Recorded, Acquire
  <2>2. /\ mem' \in LeaseTables /\ disk' \in LeaseTables
        /\ mem'.leases[j[2]] = g /\ g.holder = Holder(j[1]) /\ g.grantedAt = now /\ g # NoLease
        /\ \A q \in Resources \ {j[2]} : mem'.leases[q] = mem.leases[q]
    BY <2>1, <1>1, <1>3, <1>5, AcquireGrants
  <2> HIDE DEF g
  <2>3. ASSUME NEW k \in Jobs, k # j, Acting(k), job[k] \in {"running", "reporting"}
        PROVE  mem'.leases[k[2]] = mem.leases[k[2]]
    <3>1. CASE k[2] # j[2]
      BY <3>1, <2>2, ConstantFacts
    <3>2. CASE k[2] = j[2]
      <4>1. j \in aborted
        BY <2>3, <1>2, <3>2, ConstantFacts DEF IInv, NoOrphanScheduler, Acting
      <4>2. /\ Held(mem, k[2]) /\ mem.leases[k[2]].grantedAt = now
            /\ k[2] \in Resources
        BY <4>1, <2>3, ConstantFacts DEF IInv, ClaimsAreFresh
      <4>3. mem.leases[k[2]].ttl \in 1..MaxTtl
        BY <4>2, <1>1 DEF LeaseTables, Held, Lease
      <4>4. ~IsExpired(mem.leases[k[2]], now)
        BY <4>2, <4>3, <1>1, ConstantFacts DEF IsExpired, ExpiresAt
      <4> QED BY <4>2, <4>4, <3>2, <1>5 DEF CanAcquire
    <3> QED BY <3>1, <3>2
  <2>4. /\ HeldBy(mem', j[2], Holder(j[1])) /\ mem'.leases[j[2]].grantedAt = now
    BY <2>2 DEF HeldBy, Held
  <2> QED BY <1>1, <1>2, <1>5, <2>1, <2>2, <2>3, <2>4, JobStepKeeps DEF JobSteps
<1> QED BY <1>1, <1>4, <1>5 DEF ClaimTask, AppendFails

(* The report releases the run's own claim (runner.rs: release_lease),     *)
(* which is not the one an acting run of a later tenure has.               *)
LEMMA ReportKeeps ==
  ASSUME IInv, NEW j \in Jobs, ReleaseTask(j)
  PROVE  IInv'
<1> USE DEF envVars, tableVars, loopVars
<1>1. TypeOK /\ Live(j) /\ j[2] \in Resources /\ j[1] \in Tenures /\ MoveTo(j, "sleeping")
  BY ConstantFacts DEF ReleaseTask, Live, IInv
<1>2. /\ UNCHANGED <<now, boots, pid, shutdown, isolated, isolations,
                     pc, after, tenure, since, leadership, handles>>
      /\ ReleaseOwn(j[2], Holder(j[1]))
  BY DEF ReleaseTask
<1>3. /\ mem' \in LeaseTables /\ disk' \in LeaseTables /\ poisoned' \in BOOLEAN
      /\ \A q \in Resources : \/ mem'.leases[q] = mem.leases[q]
                              \/ q = j[2] /\ HeldBy(mem, j[2], Holder(j[1]))
  BY <1>1, <1>2, ReleaseLeaves
<1>4. ASSUME NEW k \in Jobs, k # j, Acting(k), job[k] \in {"running", "reporting"}
      PROVE  mem'.leases[k[2]] = mem.leases[k[2]]
  <2>1. k[2] \in Resources /\ k[1] \in Tenures /\ HeldBy(mem, k[2], Holder(k[1]))
    BY <1>4, ConstantFacts DEF IInv, RunsUnderClaim
  <2>2. ASSUME k[2] = j[2], HeldBy(mem, j[2], Holder(j[1])) PROVE FALSE
    BY <2>1, <2>2, <1>1, HolderFacts, <1>4, ConstantFacts DEF HeldBy
  <2> QED BY <2>1, <2>2, <1>3
<1> QED BY <1>1, <1>2, <1>3, <1>4, JobStepKeeps DEF JobSteps

(* Each action keeps the invariant, so every step does.                    *)
LEMMA NextIInv == IInv /\ [Next]_vars => IInv'
<1> SUFFICES ASSUME IInv, [Next]_vars PROVE IInv'
  OBVIOUS
<1>1. CASE Loop
  BY <1>1, QuietLoopKeeps, StartKeeps, StoreKeeps, EndTenureKeeps, RenewKeeps DEF Loop
<1>2. ASSUME NEW j \in Jobs, JobStep(j) PROVE IInv'
  BY <1>2, WaitingKeeps, ClaimKeeps, ReportKeeps DEF JobStep
<1>3. CASE ShutdownBackstop \/ ProcessEnds \/ Restart
  BY <1>3, BackstopKeeps, ProcessKeeps
<1>4. CASE SignalShutdown \/ EnterIsolation \/ ExitIsolation \/ LoopPanics \/ Tick \/ UNCHANGED vars
  BY <1>4, WorldKeeps
<1> QED BY <1>1, <1>2, <1>3, <1>4 DEF Next

(* The inductive invariant of the control plane (control.rs, runner.rs)    *)
(* holds in every reachable state.                                         *)
THEOREM Invariance == Spec => []IInv
BY InitIInv, NextIInv, PTL DEF Spec

-----------------------------------------------------------------------------
(* The theorems a reader should know of.                                   *)

(* A tenure that is over never keeps acting, however it ended (control.rs: *)
(* "the stale tenure never keeps acting").                                 *)
THEOREM NoTenureOutlivesItsLease == Spec => []NoOrphanScheduler
<1>1. IInv => NoOrphanScheduler
  BY DEF IInv
<1> QED BY <1>1, Invariance, PTL

(* From its fire to its report a run holds its own claim: no sweep, no     *)
(* late step of an aborted task loop and no other fire takes it            *)
(* (runner.rs: claim_lease).                                               *)
THEOREM RunsKeepTheirClaim == Spec => []WorkIsClaimed
<1>1. IInv => WorkIsClaimed
  BY DEF IInv, WorkIsClaimed
<1> QED BY <1>1, Invariance, PTL

-----------------------------------------------------------------------------
(* The sweep.  When no append fails and no process is given a pid again,   *)
(* a tenure that begins finds no claim in its own name: claims are of      *)
(* earlier processes, or of tenures up to the current one.                 *)

Beginning == {"acquiring", "sweeping", "reconciling", "checking", "starting"}

OfTenure(n) == n <= tenure /\ (pc \in Beginning => n < tenure)

KnownOwner(h) == h[1] < pid \/ (h[1] = pid /\ (pc = "down" \/ OfTenure(h[2])))

ClaimsAreOld ==
  \A r \in Tasks : /\ Held(mem, r) => KnownOwner(mem.leases[r].holder)
                   /\ Held(disk, r) => KnownOwner(disk.leases[r].holder)

SInv ==
  /\ IInv /\ ~poisoned /\ ClaimsAreOld
  /\ \A j \in Jobs : Live(j) => OfTenure(j[1])

(* Where the leases of tasks come from in a step: a fire's own claim       *)
(* (runner.rs), or what memory and log had before.                         *)
LEMMA ClaimsComeFromFires ==
  ASSUME SInv, "wal" \notin Failures, [Next]_vars
  PROVE  /\ ~poisoned'
         /\ \A r \in Tasks :
              \/ /\ mem'.leases[r] \in {NoLease, mem.leases[r], disk.leases[r]}
                 /\ disk'.leases[r] \in {NoLease, disk.leases[r]}
              \/ \E j \in Jobs : /\ ClaimTask(j) /\ Live(j)
                                 /\ mem'.leases[r].holder = Holder(j[1])
                                 /\ disk'.leases[r].holder = Holder(j[1])
<1>0. ~poisoned /\ TypeOK
  BY DEF SInv, IInv
<1>1. /\ mem \in LeaseTables /\ disk \in LeaseTables /\ now \in Nat /\ ~poisoned /\ TypeOK
      /\ ~AppendFails
  <2>1. mem \in LeaseTables /\ disk \in LeaseTables /\ now \in Nat
    BY <1>0, ConstantFacts DEF TypeOK
  <2>2. ~AppendFails
    BY <1>0 DEF AppendFails
  <2> QED BY <1>0, <2>1, <2>2
<1> DEFINE Same == /\ ~poisoned'
                   /\ \A r \in Tasks :
                        /\ mem'.leases[r] \in {NoLease, mem.leases[r], disk.leases[r]}
                        /\ disk'.leases[r] \in {NoLease, disk.leases[r]}
<1>2. UNCHANGED tableVars => Same
  BY <1>1 DEF tableVars
<1>3. ASSUME NEW rs \in SUBSET Resources, Freed(rs) PROVE Same
  BY <1>1, <1>3, FreedFrees, ConstantFacts DEF Freed
<1>4. ASSUME NEW r \in Resources, NEW h, ReleaseOwn(r, h) PROVE Same
  BY <1>1, <1>2, <1>3, <1>4 DEF ReleaseOwn
<1>5. CASE Open \/ ProcessEnds
  BY <1>1, <1>5 DEF Open, ProcessEnds
<1>6. CASE AcquireTenure
  <2>1. CASE CanAcquire(mem, ControlPlaneRes, now) /\ Recorded(ControlPlaneRes, Holder(tenure))
    BY <1>6, ConstantFacts, <1>1, HolderFacts, <2>1, AcquireGrants DEF SInv, IInv, LoopInOrder,
       TypeOK, AcquireTenure, Tenures, Recorded, Acquire
  <2> QED BY <2>1, <1>1, <1>2, <1>6 DEF AcquireTenure
<1>7. CASE Sweep
  BY ConstantFacts, <1>1, <1>2, <1>3, <1>7 DEF StaleClaims, Sweep
<1>8. CASE ReleaseTenure
  BY <1>4, <1>8, ConstantFacts DEF ReleaseTenure
<1>9. CASE RenewTenure
  BY <1>9, <1>1, ConstantFacts DEF RenewTenure, Renew, LeaseTables
<1>10. CASE \/ Enter \/ Retry \/ Reconcile \/ CheckMarker \/ StartScheduler \/ StoreHandles
            \/ EndOnShutdown \/ EndOnIsolation \/ LoseTenure
  BY <1>2, <1>10 DEF Enter, Retry, Reconcile, CheckMarker, StartScheduler, StoreHandles,
     EndOnShutdown, EndOnIsolation, LoseTenure, EndTenure
<1>11. ASSUME NEW j \in Jobs, ClaimTask(j)
       PROVE  /\ ~poisoned'
              /\ \A r \in Tasks :
                   \/ /\ mem'.leases[r] \in {NoLease, mem.leases[r], disk.leases[r]}
                      /\ disk'.leases[r] \in {NoLease, disk.leases[r]}
                   \/ /\ mem'.leases[r].holder = Holder(j[1])
                      /\ disk'.leases[r].holder = Holder(j[1])
  <2>1. CASE CanAcquire(mem, j[2], now) /\ Recorded(j[2], Holder(j[1]))
    <3>1. j[1] \in Tenures /\ j[2] \in Resources /\ Holder(j[1]) \in Holders
      BY <1>1, ConstantFacts, HolderFacts
    <3>2. /\ mem'.leases[j[2]].holder = Holder(j[1])
          /\ \A q \in Resources \ {j[2]} : mem'.leases[q] = mem.leases[q]
      BY <2>1, <3>1, <1>1, AcquireGrants DEF Recorded, Acquire
    <3>3. /\ disk'.leases[j[2]].holder = Holder(j[1])
          /\ \A q \in Resources \ {j[2]} : disk'.leases[q] = disk.leases[q]
      BY <2>1, <3>1, <1>1, AcquireGrants DEF Recorded
    <3> QED BY <2>1, <3>2, <3>3, <1>1, ConstantFacts DEF Recorded
  <2>2. CASE UNCHANGED tableVars
    BY <2>2, <1>2
  <2> QED BY <2>1, <2>2, <1>1, <1>11 DEF ClaimTask
<1>12. ASSUME NEW j \in Jobs, ReleaseTask(j) PROVE Same
  BY <1>4, <1>12, ConstantFacts DEF ReleaseTask
<1>13. ASSUME NEW j \in Jobs,
              Wake(j) \/ CheckIsolation(j) \/ VerifyTenure(j) \/ EndRun(j) \/ AbortLands(j)
       PROVE  Same
  BY <1>2, <1>13 DEF Wake, CheckIsolation, VerifyTenure, EndRun, AbortLands
<1>14. CASE \/ SignalShutdown \/ ShutdownBackstop \/ EnterIsolation \/ ExitIsolation
            \/ LoopPanics \/ Restart \/ Tick \/ UNCHANGED vars
  BY <1>2, <1>14 DEF SignalShutdown, ShutdownBackstop, EnterIsolation, ExitIsolation,
     LoopPanics, Restart, Tick, vars, tableVars
<1>15. ASSUME NEW j \in Jobs, ClaimTask(j) PROVE Live(j)
  BY <1>15 DEF ClaimTask, Live
<1> QED
  BY <1>5, <1>6, <1>7, <1>8, <1>9, <1>10, <1>11, <1>12, <1>13, <1>14, <1>15
     DEF Next, Loop, JobStep

(* How a step moves the loop: it begins a tenure, ends a process, starts   *)
(* one, or leaves tenure and process as they are.                          *)
LEMMA LoopMoves ==
  ASSUME SInv, [Next]_vars, PidReuse = FALSE
  PROVE  \/ /\ pid' = pid /\ tenure' = tenure /\ (pc = "down" => pc' = "down")
            /\ pc' \in Beginning => pc \in Beginning
         \/ pid' = pid /\ tenure' = tenure + 1 /\ pc # "down"
         \/ pid' = pid /\ pc # "down" /\ pc' = "down"
         \/ pid' = pid + 1 /\ tenure' = tenure /\ pc = "down" /\ pc' = "opening"
<1> USE DEF envVars, loopVars, Beginning
<1>1. CASE Enter
  BY <1>1 DEF Enter
<1>2. CASE ProcessEnds
  BY <1>2 DEF ProcessEnds
<1>3. CASE Restart
  BY <1>3 DEF Restart
<1>4. CASE \/ Open \/ AcquireTenure \/ Retry \/ Sweep \/ Reconcile \/ CheckMarker
           \/ StartScheduler \/ StoreHandles \/ RenewTenure
  BY <1>4 DEF Open, AcquireTenure, Retry, Sweep, Reconcile, CheckMarker, StartScheduler,
     StoreHandles, RenewTenure, RenewalDue
<1>5. CASE EndOnShutdown \/ EndOnIsolation \/ LoseTenure
  BY <1>5 DEF EndOnShutdown, EndOnIsolation, LoseTenure, RenewalDue, EndTenure
<1>6. CASE ReleaseTenure
  BY <1>6 DEF ReleaseTenure, SInv, IInv, TypeOK
<1>7. ASSUME NEW j \in Jobs, JobStep(j) PROVE UNCHANGED <<pid, tenure, pc>>
  BY <1>7 DEF JobStep, Wake, CheckIsolation, VerifyTenure, ClaimTask, EndRun, ReleaseTask, AbortLands
<1>8. CASE \/ SignalShutdown \/ ShutdownBackstop \/ EnterIsolation \/ ExitIsolation
           \/ LoopPanics \/ Tick \/ UNCHANGED vars
  BY <1>8 DEF SignalShutdown, ShutdownBackstop, EnterIsolation, ExitIsolation,
     LoopPanics, Tick, vars
<1> QED BY <1>1, <1>2, <1>3, <1>4, <1>5, <1>6, <1>7, <1>8 DEF Next, Loop


(* How a step moves the task loops: the end of a process takes them all,   *)
(* and only the start of a scheduler makes new ones, of its own tenure.    *)
LEMMA LoopsComeFromStarts ==
  ASSUME TypeOK, [Next]_vars, NEW j \in Jobs, Live(j)'
  PROVE  \/ Live(j) /\ (pc' = "down" => pc = "down")
         \/ /\ UNCHANGED <<pid, tenure>> /\ pc' = "storing" /\ j[1] = tenure
<1> USE DEF Live
<1>1. job \in [Jobs -> JobSteps]
  BY DEF TypeOK
<1>2. CASE StartScheduler
  BY <1>2 DEF StartScheduler, envVars
<1>3. CASE ProcessEnds
  BY <1>3 DEF ProcessEnds
<1>4. ASSUME NEW k \in Jobs, JobStep(k)
      PROVE  Live(j) /\ (pc' = "down" => pc = "down")
  <2>1. pc' = pc /\ Live(k)
    BY <1>4 DEF JobStep, Wake, CheckIsolation, VerifyTenure, ClaimTask, EndRun, ReleaseTask,
       AbortLands, loopVars, TypeOK
  <2>2. PICK step : job' = [job EXCEPT ![k] = step]
    BY <1>4 DEF JobStep, Wake, CheckIsolation, VerifyTenure, ClaimTask, EndRun, ReleaseTask,
       AbortLands, MoveTo
  <2> QED BY <2>1, <2>2, <1>1
<1>5. CASE \/ Open \/ Enter \/ AcquireTenure \/ Retry \/ Sweep \/ Reconcile
           \/ CheckMarker \/ StoreHandles \/ RenewTenure
  BY <1>5 DEF Open, Enter, AcquireTenure, Retry, Sweep, Reconcile, CheckMarker, StoreHandles,
     RenewTenure, RenewalDue, jobVars
<1>6. CASE EndOnShutdown \/ EndOnIsolation \/ LoseTenure
  BY <1>6 DEF EndOnShutdown, EndOnIsolation, LoseTenure, RenewalDue, EndTenure
<1>7. CASE ReleaseTenure
  BY <1>7 DEF ReleaseTenure, TypeOK, jobVars
<1>8. CASE \/ SignalShutdown \/ ShutdownBackstop \/ EnterIsolation \/ ExitIsolation
           \/ LoopPanics \/ Restart \/ Tick \/ UNCHANGED vars
  BY <1>8 DEF SignalShutdown, ShutdownBackstop, EnterIsolation, ExitIsolation,
     LoopPanics, Restart, Tick, vars, loopVars, jobVars
<1> QED BY <1>2, <1>3, <1>4, <1>5, <1>6, <1>7, <1>8 DEF Next, Loop

(* A holder that has a claim is of the past or of a tenure already begun,  *)
(* and stays so whatever the loop does next.                               *)
LEMMA KnownOwnersStay ==
  ASSUME SInv, [Next]_vars, PidReuse = FALSE, NEW h \in Holders, KnownOwner(h)
  PROVE  KnownOwner(h)'
<1>1. /\ pid \in Nat /\ tenure \in Nat
      /\ h[1] \in Nat /\ h[2] \in Nat
  BY ConstantFacts, ControlPlaneConstants DEF SInv, IInv, TypeOK
<1>2. pid' = pid /\ tenure' = tenure /\ (pc = "down" => pc' = "down")
        /\ (pc' \in Beginning => pc \in Beginning)
      => KnownOwner(h)'
  BY <1>1 DEF KnownOwner, OfTenure
<1>3. pid' = pid /\ tenure' = tenure + 1 /\ pc # "down" => KnownOwner(h)'
  BY <1>1 DEF KnownOwner, OfTenure
<1>4. pid' = pid /\ pc' = "down" => KnownOwner(h)'
  BY <1>1 DEF KnownOwner
<1>5. pid' = pid + 1 => KnownOwner(h)'
  BY <1>1 DEF KnownOwner
<1> QED BY <1>2, <1>3, <1>4, <1>5, LoopMoves

(* A task loop is of a tenure whose scheduler was started, so not of one   *)
(* that is only beginning.                                                 *)
LEMMA LoopsAreOfTenures ==
  ASSUME SInv, [Next]_vars, PidReuse = FALSE, NEW j \in Jobs, Live(j)'
  PROVE  OfTenure(j[1])'
<1>1. tenure \in Nat /\ j[1] \in Nat
  <2>1. tenure \in 0..MaxTenure
    BY DEF SInv, IInv, TypeOK
  <2>2. j[1] \in Tenures /\ Tenures \subseteq Nat /\ MaxTenure \in Nat
    BY ConstantFacts
  <2>3. tenure \in Nat
    BY <2>1, <2>2
  <2>4. j[1] \in Nat
    BY <2>2
  <2> QED BY <2>3, <2>4
<1>2. CASE /\ UNCHANGED <<pid, tenure>> /\ pc' = "storing" /\ j[1] = tenure
  BY <1>1, <1>2 DEF OfTenure, Beginning
<1>3. CASE Live(j) /\ (pc' = "down" => pc = "down")
  <2>1. OfTenure(j[1])
    BY <1>3 DEF SInv
  <2> QED
    <3>1. tenure' = tenure /\ (pc' \in Beginning => pc \in Beginning) => OfTenure(j[1])'
      BY <2>1 DEF OfTenure
    <3>2. tenure' = tenure + 1 => OfTenure(j[1])'
      BY <1>1, <2>1 DEF OfTenure
    <3>3. tenure' = tenure /\ pc' = "opening" => OfTenure(j[1])'
      BY <2>1 DEF OfTenure, Beginning
    <3> QED BY <1>3, <3>1, <3>2, <3>3, LoopMoves
<1>4. TypeOK
  BY DEF SInv, IInv
<1> QED BY <1>2, <1>3, <1>4, LoopsComeFromStarts

(* At boot there is no claim.                                              *)
LEMMA InitSInv == Init => SInv
<1> SUFFICES ASSUME Init PROVE SInv
  OBVIOUS
<1>1. IInv /\ ~poisoned
  BY InitIInv DEF Init
<1>2. ClaimsAreOld
  BY ConstantFacts DEF Init, EmptyTable, ClaimsAreOld, Held
<1>3. \A j \in Jobs : ~Live(j)
  BY DEF Init, Live
<1> QED BY <1>1, <1>2, <1>3 DEF SInv

(* Each step keeps the sweep's invariant.                                  *)
LEMMA NextSInv ==
  ASSUME SInv, [Next]_vars, PidReuse = FALSE, "wal" \notin Failures
  PROVE  SInv'
<1>1. IInv'
  BY NextIInv DEF SInv
<1>2. /\ mem \in LeaseTables /\ disk \in LeaseTables
      /\ mem' \in LeaseTables /\ disk' \in LeaseTables
  BY <1>1 DEF SInv, IInv, TypeOK
<1>3. ASSUME NEW h \in Holders, NEW j \in Jobs, ClaimTask(j), Live(j), h = Holder(j[1])
      PROVE  KnownOwner(h)'
  BY <1>3, KnownOwnersStay DEF SInv, KnownOwner, Holder
<1>4. ASSUME NEW r \in Tasks
      PROVE  /\ Held(mem, r)' => KnownOwner(mem.leases[r].holder)'
             /\ Held(disk, r)' => KnownOwner(disk.leases[r].holder)'
  <2>1. r \in Resources /\ NoLease \notin Lease
    BY ConstantFacts
  <2>2. /\ mem.leases[r] # NoLease => KnownOwner(mem.leases[r].holder) /\ mem.leases[r].holder \in Holders
        /\ disk.leases[r] # NoLease => KnownOwner(disk.leases[r].holder) /\ disk.leases[r].holder \in Holders
    BY <2>1, <1>2 DEF LeaseTables, Lease, SInv, ClaimsAreOld, Held
  <2>3. /\ mem'.leases[r] # NoLease => mem'.leases[r].holder \in Holders
        /\ disk'.leases[r] # NoLease => disk'.leases[r].holder \in Holders
    BY <2>1, <1>2 DEF LeaseTables, Lease
  <2>4. ASSUME NEW l, l \in {mem'.leases[r], disk'.leases[r]}, l # NoLease,
               NEW h, h = l.holder
        PROVE  KnownOwner(h)'
    <3>1. h \in Holders
      BY <2>3, <2>4
    <3>2. CASE l \in {mem.leases[r], disk.leases[r]}
      BY <2>2, <2>4, <3>2, <3>1, KnownOwnersStay
    <3>3. CASE \E j \in Jobs : ClaimTask(j) /\ Live(j) /\ h = Holder(j[1])
      BY <3>1, <3>3, <1>3
    <3> QED BY <2>4, <3>2, <3>3, ClaimsComeFromFires
  <2>5. PICK hm, hd : hm = mem'.leases[r].holder /\ hd = disk'.leases[r].holder
    OBVIOUS
  <2>6. mem'.leases[r] # NoLease => KnownOwner(hm)'
    BY <2>4, <2>5
  <2>7. disk'.leases[r] # NoLease => KnownOwner(hd)'
    BY <2>4, <2>5
  <2> QED BY <2>5, <2>6, <2>7 DEF Held, KnownOwner, OfTenure
<1>5. ~poisoned'
  BY ClaimsComeFromFires
<1>6. ClaimsAreOld'
  BY <1>4 DEF ClaimsAreOld
<1>7. \A j \in Jobs : Live(j)' => OfTenure(j[1])'
  BY LoopsAreOfTenures
<1> QED BY <1>1, <1>5, <1>6, <1>7 DEF SInv

(* After the sweep no task is held, so no fire of the new tenure is        *)
(* refused on account of one that is over (control.rs:                     *)
(* sweep_stale_claims), when the log takes every append and no process is  *)
(* given the pid of one before.                                            *)
THEOREM SweepLeavesNoClaim ==
  ASSUME "wal" \notin Failures, PidReuse = FALSE
  PROVE  Spec => SweepFreesDeadClaims
<1>1. SInv /\ [Next]_vars => SInv'
  BY NextSInv
<1>2. SInv /\ [Next]_vars =>
        [pc = "sweeping" /\ pc' = "reconciling" => \A r \in Tasks : ~Held(mem, r)']_vars
  <2> SUFFICES ASSUME SInv, [Next]_vars, pc = "sweeping", pc' = "reconciling", NEW r \in Tasks
               PROVE  ~Held(mem, r)'
    OBVIOUS
  <2>1. Sweep
    <3>1. ASSUME NEW j \in Jobs, JobStep(j) PROVE FALSE
      BY <3>1 DEF JobStep, Wake, CheckIsolation, VerifyTenure, ClaimTask, EndRun, ReleaseTask,
         AbortLands, loopVars
    <3>2. CASE Loop
      BY <3>2 DEF Loop, Open, Enter, AcquireTenure, Retry, Reconcile, CheckMarker, StartScheduler,
         StoreHandles, EndOnShutdown, EndOnIsolation, RenewTenure, LoseTenure, RenewalDue, ReleaseTenure
    <3>3. CASE \/ SignalShutdown \/ ShutdownBackstop \/ EnterIsolation \/ ExitIsolation
               \/ LoopPanics \/ ProcessEnds \/ Restart \/ Tick \/ UNCHANGED vars
      BY <3>3 DEF SignalShutdown, ShutdownBackstop, EnterIsolation, ExitIsolation, LoopPanics,
         ProcessEnds, Restart, Tick, vars, loopVars
    <3> QED BY <3>1, <3>2, <3>3 DEF Next
  <2>2. mem \in LeaseTables /\ disk \in LeaseTables /\ ~poisoned
    BY DEF SInv, IInv, TypeOK
  <2>3. r \in Resources /\ StaleClaims(Holder(tenure)) \in SUBSET Resources
    BY ConstantFacts DEF StaleClaims
  <2>4. Held(mem, r) => r \in StaleClaims(Holder(tenure))
    <3>1. SUFFICES ASSUME Held(mem, r), HeldBy(mem, r, Holder(tenure)) PROVE FALSE
      BY DEF StaleClaims
    <3>2. KnownOwner(mem.leases[r].holder) /\ mem.leases[r].holder = <<pid, tenure>>
      BY <3>1 DEF SInv, ClaimsAreOld, HeldBy, Holder
    <3>3. pid \in Nat /\ tenure \in Nat
      BY ConstantFacts DEF SInv, IInv, TypeOK
    <3> QED BY <3>2, <3>3 DEF KnownOwner, OfTenure, Beginning
  <2>5. Freed(StaleClaims(Holder(tenure))) => ~Held(mem, r)'
    BY <2>2, <2>3, <2>4, FreedFrees DEF Held
  <2> QED BY <2>1, <2>2, <2>4, <2>5 DEF Sweep, AppendFails, tableVars, Held
<1> QED BY <1>1, <1>2, InitSInv, PTL DEF Spec, SweepFreesDeadClaims
=============================================================================
