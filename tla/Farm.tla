-------------------------------- MODULE Farm --------------------------------
(***************************************************************************)
(* Farming out subtasks: src/coordinator/farm.rs, with the fence of        *)
(* src/coordinator/fenced.rs, over the lease table.                        *)
(*                                                                         *)
(* A farm runs one controller per subtask.  A controller makes up to       *)
(* MaxAttempts attempts: it leases the subtask, raises the subtask's fence *)
(* to the lease's token, waits for one of the farm's permits, spawns the   *)
(* child that asks the model, and waits for the child or for the ttl.      *)
(* All the farms here have the same id and so share the subtasks' leases;  *)
(* farms of different ids share nothing.                                   *)
(*                                                                         *)
(* Controllers and children are tasks behind abort-on-drop guards.  As in  *)
(* ControlPlane, an abort only asks: a task that is being polled may take  *)
(* further steps that do not wait, for less than a tick.                   *)
(***************************************************************************)
EXTENDS LeaseTable, FiniteSets

CONSTANTS
  Farms,            \* runs of run_farm
  TenureOf,         \* the tenure each runs under
  MaxAttempts,      \* FarmCaps::max_attempts
  MaxConcurrency,   \* FarmCaps::max_concurrency
  SubtaskTtl,       \* FarmCaps::subtask_ttl
  WallBudget,       \* FarmCaps::wall_budget
  MaxNow            \* bound on the clock

Subtasks == Resources      \* farm-<id>-s<index>
Attempts == 1..MaxAttempts

ASSUME FarmConstants ==
  /\ TenureOf \in [Farms -> Nat]
  /\ MaxAttempts \in Nat \ {0} /\ MaxConcurrency \in Nat \ {0}
  /\ SubtaskTtl \in 1..MaxTtl /\ \A s \in Subtasks : TtlOf[s] = SubtaskTtl
  /\ WallBudget \in Nat /\ MaxNow \in Nat
  /\ Holders = {TenureOf[f] : f \in Farms} \X Attempts

VARIABLES
  now, table,
  farm, startedAt,                        \* per farm
  step, attempt, token, spawned,        \* per controller
  child, bears,                         \* per attempt's child: its step and its token
  fence, stored,                        \* FarmResults, per farm and subtask
  result,                               \* per subtask, what the farm got of it
  aborted,                              \* tasks asked to stop that still exist
  reclaims, stalls, lateFenced                \* counters per farm; stalls is history

farmVars == <<farm, startedAt>>
ctlVars == <<step, attempt, token, spawned>>
storeVars == <<fence, stored>>
counters == <<reclaims, stalls, lateFenced>>
farmingVars == <<now, table, farm, startedAt, step, attempt, token, spawned, child,
          bears, fence, stored, result, aborted, reclaims, stalls, lateFenced>>

Controllers == Farms \X Subtasks
Children == Farms \X Subtasks \X Attempts

CtlSteps == {"none", "checking", "acquiring", "fencing", "queueing", "watching",
             "releasing", "taking", "done"}
ChildSteps == {"none", "running", "committing", "committed", "failed", "dropped"}

ChildOf(c) == <<c[1], c[2], attempt[c]>>
ChildrenOf(c) == {k \in Children : k[1] = c[1] /\ k[2] = c[2]}
LiveCtl(c) == step[c] \notin {"none", "done"}
LiveChild(k) == child[k] \in {"running", "committing"}
Stalled(k) == LiveChild(k) /\ attempt[<<k[1], k[2]>>] > k[3]

(* "<tenure>-a<attempt>".                                                  *)
AttemptHolder(c) == <<TenureOf[c[1]], attempt[c]>>

(* The permits in use: each travels with a child.                          *)
Running(f) == {k \in Children : k[1] = f /\ LiveChild(k)}

FarmInit ==
  /\ now = 0 /\ table = EmptyTable
  /\ farm = [f \in Farms |-> "none"] /\ startedAt = [f \in Farms |-> 0]
  /\ step = [c \in Controllers |-> "none"] /\ attempt = [c \in Controllers |-> 1]
  /\ token = [c \in Controllers |-> 0] /\ spawned = [c \in Controllers |-> 0]
  /\ child = [k \in Children |-> "none"] /\ bears = [k \in Children |-> 0]
  /\ fence = [c \in Controllers |-> 0] /\ stored = [c \in Controllers |-> 0]
  /\ result = [c \in Controllers |-> "pending"]
  /\ aborted = {}
  /\ reclaims = [f \in Farms |-> 0] /\ stalls = [f \in Farms |-> 0]
  /\ lateFenced = [f \in Farms |-> 0]

----------------------------------------------------------------------------
(* run_farm.                                                               *)

StartFarm(f) ==
  /\ farm[f] = "none" /\ now + WallBudget <= MaxNow
  /\ farm' = [farm EXCEPT ![f] = "running"]
  /\ startedAt' = [startedAt EXCEPT ![f] = now]
  /\ step' = [c \in Controllers |-> IF c[1] = f THEN "checking" ELSE step[c]]
  /\ UNCHANGED <<now, table, attempt, token, spawned, child, bears, storeVars,
                 result, aborted, counters>>

(* Every controller was joined.                                            *)
FinishFarm(f) ==
  /\ farm[f] = "running"
  /\ \A s \in Subtasks : step[<<f, s>>] = "done"
  /\ farm' = [farm EXCEPT ![f] = "over"]
  /\ UNCHANGED <<now, table, startedAt, ctlVars, child, bears, storeVars, result,
                 aborted, counters>>

(* The farm ends before its controllers: their guards abort them.          *)
DropControllers(f) ==
  /\ farm' = [farm EXCEPT ![f] = "over"]
  /\ aborted' = aborted \cup {c \in Controllers : c[1] = f /\ LiveCtl(c)}
  /\ result' = [c \in Controllers |->
                  IF c[1] = f /\ LiveCtl(c) THEN "failed" ELSE result[c]]
  /\ UNCHANGED <<now, table, startedAt, ctlVars, child, bears, storeVars, counters>>

EndAtBudget(f) ==
  /\ farm[f] = "running" /\ now >= startedAt[f] + WallBudget
  /\ DropControllers(f)

(* The parent's task loop or drain is aborted, and drops the future.       *)
ParentDropped(f) ==
  /\ farm[f] = "running"
  /\ DropControllers(f)

----------------------------------------------------------------------------
(* subtask_controller.                                                     *)

ToStep(c, s) == step' = [step EXCEPT ![c] = s]

(* The controller returns; its guards abort the children it still has.     *)

Return(c, r) ==
  /\ ToStep(c, "done")
  /\ result' = [result EXCEPT ![c] = IF c \in aborted THEN @ ELSE r]
  /\ aborted' = (aborted \ {c}) \cup {k \in ChildrenOf(c) : LiveChild(k)}

NextAttempt(c) ==
  IF attempt[c] < MaxAttempts
  THEN /\ ToStep(c, "checking")
       /\ attempt' = [attempt EXCEPT ![c] = @ + 1]
       /\ UNCHANGED <<result, aborted>>
  ELSE Return(c, "failed") /\ UNCHANGED attempt

(* The ISOLATION marker is up (ControlPlane), or not.                      *)
CheckIsolation(c) ==
  /\ step[c] = "checking"
  /\ \/ Return(c, "failed")
     \/ ToStep(c, "acquiring") /\ UNCHANGED <<result, aborted>>
  /\ UNCHANGED <<now, table, farmVars, attempt, token, spawned, child, bears,
                 storeVars, counters>>

(* The first attempt's claim, or the reclaim of an expired one.  Refused   *)
(* or not recorded, it ends the subtask.                                   *)
AcquireLease(c) ==
  /\ step[c] = "acquiring"
  /\ \/ /\ CanAcquire(table, c[2], now)
        /\ table' = Acquire(table, c[2], AttemptHolder(c), now)
        /\ token' = [token EXCEPT ![c] = NextToken(table, c[2])]
        /\ ToStep(c, "fencing")
        /\ UNCHANGED <<result, aborted>>
     \/ /\ ~CanAcquire(table, c[2], now)
        /\ Return(c, "failed")
        /\ UNCHANGED <<table, token>>
  /\ UNCHANGED <<now, farmVars, attempt, spawned, child, bears, storeVars, counters>>

(* raise_fence never lowers the fence; a retry counts a reclaim and drops  *)
(* the stalled child.                                                      *)
Fenced_Skipped(c, t) == UNCHANGED fence    \* mutant: the fence is not raised

Fenced(c, t) == fence' = [fence EXCEPT ![c] = IF t > @ THEN t ELSE @]

DropStalled_Keeps(c) == UNCHANGED aborted  \* mutant: reclaim_abort is off

DropStalled(c) == aborted' = aborted \cup {k \in ChildrenOf(c) : LiveChild(k)}

RaiseFence(c) ==
  /\ step[c] = "fencing"
  /\ Fenced(c, token[c])
  /\ reclaims' = [reclaims EXCEPT ![c[1]] = @ + (IF attempt[c] > 1 THEN 1 ELSE 0)]
  /\ DropStalled(c)
  /\ ToStep(c, "queueing")
  /\ UNCHANGED <<now, table, farmVars, attempt, token, spawned, child, bears,
                 stored, result, stalls, lateFenced>>

(* With a permit, the child starts, and the wait for its ttl.              *)

PermitFree(f) == Cardinality(Running(f)) < MaxConcurrency

SpawnChild(c) ==
  /\ step[c] = "queueing" /\ PermitFree(c[1])
  /\ child' = [child EXCEPT ![ChildOf(c)] = "running"]
  /\ bears' = [bears EXCEPT ![ChildOf(c)] = token[c]]
  /\ spawned' = [spawned EXCEPT ![c] = now]
  /\ ToStep(c, "watching")
  /\ UNCHANGED <<now, table, farmVars, attempt, token, storeVars, result,
                 aborted, counters>>

ChildFinished(c) ==
  /\ step[c] = "watching"
  /\ child[ChildOf(c)] \in {"committed", "failed"}
  /\ ToStep(c, "releasing")
  /\ UNCHANGED <<now, table, farmVars, attempt, token, spawned, child, bears,
                 storeVars, result, aborted, counters>>

(* The timer's branch of the select, also taken at times when both are     *)
(* ready.  The lease is left to expire.                                    *)
ChildStalls(c) ==
  /\ step[c] = "watching" /\ now >= spawned[c] + SubtaskTtl
  /\ stalls' = [stalls EXCEPT ![c[1]] = @ + 1]
  /\ NextAttempt(c)
  /\ UNCHANGED <<now, table, farmVars, token, spawned, child, bears, storeVars,
                 reclaims, lateFenced>>

ReleaseLease(c) ==
  /\ step[c] = "releasing"
  /\ table' = IF CanRelease(table, c[2], AttemptHolder(c)) THEN Release(table, c[2]) ELSE table
  /\ IF child[ChildOf(c)] = "committed"
     THEN ToStep(c, "taking") /\ UNCHANGED <<attempt, result, aborted>>
     ELSE NextAttempt(c)
  /\ UNCHANGED <<now, farmVars, token, spawned, child, bears, storeVars, counters>>

(* take_if_token: only a result stored under this attempt's own token.     *)
TakeResult(c) ==
  /\ step[c] = "taking"
  /\ IF stored[c] = token[c]
     THEN /\ Return(c, "text")
          /\ stored' = [stored EXCEPT ![c] = 0]
          /\ UNCHANGED attempt
     ELSE NextAttempt(c) /\ UNCHANGED stored
  /\ UNCHANGED <<now, table, farmVars, token, spawned, child, bears, fence, counters>>

Controller(c) ==
  \/ CheckIsolation(c) \/ AcquireLease(c) \/ RaiseFence(c) \/ SpawnChild(c)
  \/ ChildFinished(c) \/ ChildStalls(c) \/ ReleaseLease(c) \/ TakeResult(c)

----------------------------------------------------------------------------
(* A child: the model's answer, then the fenced commit.                    *)

ExecutorReturns(k) ==
  /\ child[k] = "running"
  /\ \E s \in {"committing", "failed"} : child' = [child EXCEPT ![k] = s]
  /\ aborted' = IF child'[k] = "failed" THEN aborted \ {k} ELSE aborted
  /\ UNCHANGED <<now, table, farmVars, ctlVars, bears, storeVars, result, counters>>

(* FencedResource::accept: a token below the fence is refused.             *)

Accepts(c, t) == t >= fence[c]

Commit(k) ==
  /\ child[k] = "committing"
  /\ LET c == <<k[1], k[2]>> IN
       IF Accepts(c, bears[k])
       THEN /\ child' = [child EXCEPT ![k] = "committed"]
            /\ fence' = [fence EXCEPT ![c] = bears[k]]
            /\ stored' = [stored EXCEPT ![c] = bears[k]]
            /\ UNCHANGED lateFenced
       ELSE /\ child' = [child EXCEPT ![k] = "failed"]
            /\ lateFenced' = [lateFenced EXCEPT ![k[1]] = @ + 1]
            /\ UNCHANGED storeVars
  /\ aborted' = aborted \ {k}
  /\ UNCHANGED <<now, table, farmVars, ctlVars, bears, result, reclaims, stalls>>

(* An aborted task is dropped where it next suspends, and what it guards   *)
(* is aborted with it; a child's permit is free again.                     *)
AbortLands(x) ==
  /\ x \in aborted
  /\ IF x \in Children
     THEN /\ child' = [child EXCEPT ![x] = "dropped"]
          /\ aborted' = aborted \ {x}
          /\ UNCHANGED step
     ELSE /\ ToStep(x, "done")
          /\ aborted' = (aborted \ {x}) \cup {k \in ChildrenOf(x) : LiveChild(k)}
          /\ UNCHANGED child
  /\ UNCHANGED <<now, table, farmVars, attempt, token, spawned, bears,
                 storeVars, result, counters>>

----------------------------------------------------------------------------
(* The environment.                                                        *)

(* A new tenure's sweep_stale_claims takes the claims of a tenure whose    *)
(* farms were all dropped before.                                          *)
SweepClaims(n) ==
  /\ \A f \in Farms : TenureOf[f] = n => farm[f] = "over"
  /\ \E s \in Subtasks : Held(table, s) /\ table.leases[s].holder[1] = n
  /\ table' = [table EXCEPT !.leases = [s \in Subtasks |->
        IF Held(table, s) /\ table.leases[s].holder[1] = n THEN NoLease ELSE @[s]]]
  /\ UNCHANGED <<now, farmVars, ctlVars, child, bears, storeVars, result,
                 aborted, counters>>

(* A tick is long: every step that waits for neither a permit, a child nor *)
(* a timer is taken within it, and an abort lands.                         *)
CtlWaits(c) ==
  \/ ~LiveCtl(c)
  \/ step[c] = "queueing" /\ ~PermitFree(c[1])
  \/ step[c] = "watching" /\ LiveChild(ChildOf(c)) /\ now < spawned[c] + SubtaskTtl

FarmTick ==
  /\ now < MaxNow /\ aborted = {}
  /\ \A c \in Controllers : CtlWaits(c)
  /\ \A k \in Children : child[k] # "committing"
  /\ now' = now + 1
  /\ UNCHANGED <<table, farmVars, ctlVars, child, bears, storeVars, result,
                 aborted, counters>>

FarmNext ==
  \/ \E f \in Farms : StartFarm(f) \/ FinishFarm(f) \/ EndAtBudget(f) \/ ParentDropped(f)
  \/ \E c \in Controllers : Controller(c)
  \/ \E k \in Children : ExecutorReturns(k) \/ Commit(k)
  \/ \E x \in Controllers \cup Children : AbortLands(x)
  \/ \E n \in {TenureOf[f] : f \in Farms} : SweepClaims(n)
  \/ FarmTick

FarmSpec == FarmInit /\ [][FarmNext]_farmingVars

(* The runtime polls what can go on, and time passes.  A child need never  *)
(* return, and nothing here rests on the wall budget.                      *)
FarmFairness ==
  /\ \A f \in Farms : WF_farmingVars(FinishFarm(f))
  /\ \A c \in Controllers : WF_farmingVars(Controller(c)) /\ WF_farmingVars(AbortLands(c))
  /\ \A k \in Children : WF_farmingVars(Commit(k)) /\ WF_farmingVars(AbortLands(k))
  /\ WF_farmingVars(FarmTick)

FairFarmSpec == FarmSpec /\ FarmFairness

----------------------------------------------------------------------------
(* Properties.                                                             *)

(* Every variable keeps its type; the children that hold a permit, those   *)
(* not yet dropped included, are never more than the farm allows, and no   *)
(* result is stored above its fence (farm.rs: FarmCaps, FarmResults).      *)
FarmTypeOK ==
  /\ now \in 0..MaxNow /\ table \in LeaseTables
  /\ farm \in [Farms -> {"none", "running", "over"}] /\ startedAt \in [Farms -> 0..MaxNow]
  /\ step \in [Controllers -> CtlSteps] /\ attempt \in [Controllers -> Attempts]
  /\ token \in [Controllers -> 0..MaxToken] /\ spawned \in [Controllers -> 0..MaxNow]
  /\ child \in [Children -> ChildSteps] /\ bears \in [Children -> 0..MaxToken]
  /\ \A f \in Farms : Cardinality(Running(f)) <= MaxConcurrency
  /\ fence \in [Controllers -> 0..MaxToken]
  /\ \A c \in Controllers : stored[c] \in 0..fence[c]
  /\ result \in [Controllers -> {"pending", "failed", "text"}]
  /\ aborted \subseteq {c \in Controllers : LiveCtl(c)} \cup {k \in Children : LiveChild(k)}
  /\ reclaims \in [Farms -> Nat] /\ stalls \in [Farms -> Nat] /\ lateFenced \in [Farms -> Nat]

(* While a controller is in an attempt, the result its own child committed *)
(* stays in the store until it takes it: no stalled child of an earlier    *)
(* attempt overwrites it (farm.rs: raise_fence, take_if_token).            *)
CommittedIsReturned ==
  \A c \in Controllers :
    /\ step[c] \in {"watching", "releasing", "taking"}
    /\ child[ChildOf(c)] = "committed"
    => stored[c] = token[c]

(* Once a retry is past its fence, an answer of the child it supersedes is *)
(* refused, though that child may still run (farm.rs: raise_fence, "from   *)
(* this instant any commit bearing an older token is rejected").           *)
RetryFencesStalled ==
  [][\A k \in Children :
       /\ child[k] = "committing" /\ child'[k] = "committed" /\ Stalled(k)
       => step[<<k[1], k[2]>>] \notin {"queueing", "watching", "releasing", "taking"}]_farmingVars

(* Nothing outlives the farm: a child has a live controller or was asked   *)
(* to stop, a controller a running farm or was asked to stop (farm.rs:     *)
(* AbortOnDrop, "nothing in a farm outlives the farm's future").           *)
NothingOutlivesFarm ==
  /\ \A k \in Children : LiveChild(k) => k \in aborted \/ LiveCtl(<<k[1], k[2]>>)
  /\ \A c \in Controllers : LiveCtl(c) => c \in aborted \/ farm[c[1]] = "running"

(* What a farm promises who calls it, with children that stall and are     *)
(* given up: the result of the attempt that is returned is its own, no     *)
(* answer passes a fence, and nothing outlives it (farm.rs: run_farm,      *)
(* raise_fence, AbortOnDrop).                                              *)
FarmHolds == [](FarmTypeOK /\ CommittedIsReturned /\ NothingOutlivesFarm) /\ RetryFencesStalled

(* However long its children stall, a farm ends by its ttls and attempts   *)
(* alone: no controller waits for ever for a permit that a stalled child   *)
(* keeps (farm.rs: subtask_controller, reclaim_abort).                     *)
FarmsEnd == \A f \in Farms : farm[f] = "running" ~> farm[f] = "over"

----------------------------------------------------------------------------
(* What comments of the source say and the code does not do.               *)

(* farm.rs: "a stalled predecessor's commit is rejected in every           *)
(* interleaving".                                                          *)
StalledNeverCommits ==
  [][\A k \in Children :
       child[k] = "committing" /\ child'[k] = "committed" => ~Stalled(k)]_farmingVars

(* farm.rs: "leases bound each child's tenure": a child that was not given *)
(* up runs under its attempt's unexpired lease.                            *)
ChildrenRunUnderLease ==
  \A c \in Controllers :
    step[c] = "watching" /\ c \notin aborted /\ child[ChildOf(c)] = "running"
      /\ now < spawned[c] + SubtaskTtl
    => HeldBy(table, c[2], AttemptHolder(c)) /\ ~IsExpired(table.leases[c[2]], now)

(* farm.rs on FarmOutcome::reclaims: "Reclaims performed (stalled children *)
(* superseded)".                                                           *)
ReclaimsAreStalls == \A f \in Farms : reclaims[f] <= stalls[f]

(* farm.rs: an "attempt-scoped holder": what a controller releases is the  *)
(* lease its own attempt acquired.                                         *)
ReleasesOwnLease ==
  \A c \in Controllers :
    step[c] = "releasing" /\ HeldBy(table, c[2], AttemptHolder(c)) =>
      table.leases[c[2]].token = token[c]
=============================================================================
