----------------------------- MODULE IntentQueue -----------------------------
(***************************************************************************)
(* The queue of one-shot intents and its drain: src/scheduler/intent.rs,   *)
(* with the daemon's other writers (events/listener.rs, the task runs of   *)
(* scheduler/runner.rs) and the command line (cli/intent.rs).              *)
(*                                                                         *)
(* The queue is a file and a shared copy in memory.  Every writer loads,   *)
(* changes and saves the file under one lock (save_delta); a writer of the *)
(* daemon then, in a step of its own, puts what it saved in the place of   *)
(* the shared copy, which is what the drain reads.  The command line       *)
(* changes the file only.                                                  *)
(*                                                                         *)
(* The drain claims an intent through the lease table and leaves it        *)
(* queued; only a completion that proves its claim removes it.  One drain  *)
(* runs per tenure of the control plane (ControlPlane), and is aborted at  *)
(* its end: as there, an aborted drain may still take steps that do not    *)
(* wait, for less than a tick.                                             *)
(***************************************************************************)
EXTENDS LeaseTable, Sequences, FiniteSets

CONSTANTS
  Writers,       \* the listener and the task runs that push intents
  Reconcile,     \* the leadership loop's reload of the queue
  Unsaved,       \* no copy waiting to reach memory
  NoIntent,      \* no intent claimed
  DescOf,        \* description of each intent
  PriorityOf,    \* priority of each intent
  MaxQueue,      \* autonomy.max_queue_size
  MaxPerHour,    \* autonomy.max_intents_per_hour
  Hour,          \* the rate tracker's window, in ticks of the poll interval
  MaxTenure, MaxNow   \* bounds

Intents == Resources
Tenures == 1..MaxTenure

ASSUME IntentConstants ==
  /\ Holders = Tenures
  /\ PriorityOf \in [Intents -> 0..3] /\ DOMAIN DescOf = Intents
  /\ MaxQueue \in Nat /\ MaxPerHour \in Nat /\ Hour \in Nat \ {0}
  /\ MaxTenure \in Nat \ {0} /\ MaxNow \in Nat
  /\ Reconcile \notin Writers \cup Tenures /\ Writers \cap Tenures = {}
  /\ Unsaved \notin Seq(Intents) /\ NoIntent \notin Intents

VARIABLES
  now,
  disk, mem,       \* intents.json and the shared copy
  copy,            \* per writer: the merged queue it has yet to store in mem
  table,           \* the intents' claims
  tenure, lead,    \* the tenure number and where the leadership loop is
  step, current, seen, slept, aborted,   \* the drain of each tenure
  accepted, withdrawn, done, runs,       \* history, for the properties:
  unreleased     \* the intents whose last claim could not be given back

leadVars == <<tenure, lead>>
drainVars == <<step, current, seen, slept, aborted>>
history == <<accepted, withdrawn, done, runs, unreleased>>
vars == <<now, disk, mem, copy, table, tenure, lead, step, current, seen, slept,
          aborted, accepted, withdrawn, done, runs, unreleased>>

DrainSteps == {"none", "sleeping", "gating", "reading", "claiming", "deferring",
               "executing", "adding", "proving", "removing", "refreshing", "releasing"}

Queued(queue, i) == \E k \in DOMAIN queue : queue[k] = i

(* An id is in a queue once, so that is where remove_by_id takes it out.   *)
Without(queue, i) ==
  IF Queued(queue, i)
  THEN LET k == CHOOSE k \in DOMAIN queue : queue[k] = i
       IN  SubSeq(queue, 1, k - 1) \o SubSeq(queue, k + 1, Len(queue))
  ELSE queue

(* push refuses a full queue and a third copy of one description.          *)

CanPush(queue, i) ==
  /\ Len(queue) < MaxQueue
  /\ Cardinality({k \in DOMAIN queue : DescOf[queue[k]] = DescOf[i]}) < 2

Pushed(queue, i) == IF CanPush(queue, i) THEN Append(queue, i) ELSE queue

Fresh(i) == i \notin accepted

Init ==
  /\ now = 0 /\ disk = <<>> /\ mem = <<>>
  /\ copy = [w \in Writers \cup Tenures \cup {Reconcile} |-> Unsaved]
  /\ table = EmptyTable
  /\ tenure = 0 /\ lead = "down"
  /\ step = [n \in Tenures |-> "none"] /\ current = [n \in Tenures |-> NoIntent]
  /\ seen = [n \in Tenures |-> <<>>] /\ slept = [n \in Tenures |-> 0]
  /\ aborted = {}
  /\ accepted = {} /\ withdrawn = {} /\ done = {} /\ runs = <<>> /\ unreleased = {}

----------------------------------------------------------------------------
(* Writers.                                                                *)

(* save_delta: the change is applied to the file as it is now, and the     *)
(* writer is left with the merged queue.                                   *)
SaveDelta(w, merged) ==
  /\ disk' = merged
  /\ copy' = [copy EXCEPT ![w] = merged]

Accepts(i) == accepted' = IF CanPush(disk, i) THEN accepted \cup {i} ELSE accepted

PushIntent(w, i) ==
  /\ lead # "down" /\ copy[w] = Unsaved /\ Fresh(i)
  /\ SaveDelta(w, Pushed(disk, i))
  /\ Accepts(i)
  /\ UNCHANGED <<now, mem, table, leadVars, drainVars, withdrawn, done, runs, unreleased>>

StoreCopy(w) ==
  /\ copy[w] # Unsaved
  /\ mem' = copy[w]
  /\ copy' = [copy EXCEPT ![w] = Unsaved]

WriterStores(w) ==
  /\ StoreCopy(w)
  /\ UNCHANGED <<now, disk, table, leadVars, drainVars, history>>

(* pulse-null intent add, remove, clear: the file and nothing else.        *)
CliAdd(i) ==
  /\ Fresh(i)
  /\ disk' = Pushed(disk, i) /\ Accepts(i)
  /\ UNCHANGED <<now, mem, copy, table, leadVars, drainVars, withdrawn, done, runs, unreleased>>

CliRemove(i) ==
  /\ Queued(disk, i)
  /\ disk' = Without(disk, i) /\ withdrawn' = withdrawn \cup {i}
  /\ UNCHANGED <<now, mem, copy, table, leadVars, drainVars, accepted, done, runs, unreleased>>

CliClear ==
  /\ disk # <<>>
  /\ disk' = <<>> /\ withdrawn' = withdrawn \cup {i \in Intents : Queued(disk, i)}
  /\ UNCHANGED <<now, mem, copy, table, leadVars, drainVars, accepted, done, runs, unreleased>>

----------------------------------------------------------------------------
(* The control plane as the drain sees it (ControlPlane has all of it).    *)

(* The daemon starts: the shared copy is loaded.                           *)
Boot ==
  /\ lead = "down"
  /\ lead' = "follower" /\ mem' = disk
  /\ UNCHANGED <<now, disk, copy, table, tenure, drainVars, history>>

(* A new tenure sweeps the claims of earlier ones, but for those whose     *)
(* release fails to be logged, and reads the file...                       *)
BeginTenure ==
  /\ lead = "follower" /\ tenure < MaxTenure
  /\ tenure' = tenure + 1 /\ lead' = "reconciling"
  /\ \E kept \in SUBSET {i \in Intents : Held(table, i)} :
       table' = [table EXCEPT !.leases = [i \in Intents |->
                   IF i \in kept THEN table.leases[i] ELSE NoLease]]
  /\ copy' = [copy EXCEPT ![Reconcile] = disk]
  /\ UNCHANGED <<now, disk, mem, drainVars, history>>

(* ... stores what it read, and starts the drain, which sleeps first.      *)
StartDrain ==
  /\ lead = "reconciling"
  /\ StoreCopy(Reconcile)
  /\ lead' = "leading"
  /\ step' = [step EXCEPT ![tenure] = "sleeping"]
  /\ slept' = [slept EXCEPT ![tenure] = now]
  /\ UNCHANGED <<now, disk, table, tenure, current, seen, aborted, history>>

EndTenure ==
  /\ lead = "leading"
  /\ lead' = "follower"
  /\ aborted' = IF step[tenure] = "none" THEN aborted ELSE aborted \cup {tenure}
  /\ UNCHANGED <<now, disk, mem, copy, table, tenure, step, current, seen, slept, history>>

(* What is in memory is gone; the claims, which are in the log, stay.      *)
Crash ==
  /\ lead # "down"
  /\ lead' = "down" /\ mem' = <<>>
  /\ copy' = [w \in DOMAIN copy |-> Unsaved]
  /\ step' = [n \in Tenures |-> "none"] /\ current' = [n \in Tenures |-> NoIntent]
  /\ seen' = [n \in Tenures |-> <<>>]
  /\ aborted' = {}
  /\ UNCHANGED <<now, disk, table, tenure, slept, history>>

----------------------------------------------------------------------------
(* The drain of tenure n.                                                  *)

Goto(n, s) == step' = [step EXCEPT ![n] = s]

Sleep(n) ==
  /\ Goto(n, "sleeping")
  /\ slept' = [slept EXCEPT ![n] = now]
  /\ current' = [current EXCEPT ![n] = NoIntent]

(* The poll interval is over.                                              *)
Poll(n) ==
  /\ step[n] = "sleeping" /\ n \notin aborted /\ now > slept[n]
  /\ Goto(n, "gating")
  /\ UNCHANGED <<now, disk, mem, copy, table, leadVars, current, seen, slept, aborted, history>>

(* drain_may_continue: the leading tenure's drain goes on, others end.     *)
Gate(n) ==
  /\ step[n] = "gating"
  /\ IF lead = "leading" /\ n = tenure
     THEN Goto(n, "reading") /\ UNCHANGED aborted
     ELSE Goto(n, "none") /\ aborted' = aborted \ {n}
  /\ UNCHANGED <<now, disk, mem, copy, table, leadVars, current, seen, slept, history>>

ReadQueue(n) ==
  /\ step[n] = "reading"
  /\ seen' = [seen EXCEPT ![n] = mem]
  /\ IF mem = <<>> THEN Sleep(n) ELSE Goto(n, "claiming") /\ UNCHANGED <<slept, current>>
  /\ UNCHANGED <<now, disk, mem, copy, table, leadVars, aborted, history>>

(* The candidate claim_next_intent takes: of those whose claim is free,    *)
(* the first of the highest priority.                                      *)
NextCandidate(n) ==
  {k \in DOMAIN seen[n] :
     LET Free(j) == CanAcquire(table, seen[n][j], now)
         p(j) == PriorityOf[seen[n][j]]
     IN  /\ Free(k)
         /\ \A j \in DOMAIN seen[n] \ {k} :
              Free(j) => p(k) > p(j) \/ (p(k) = p(j) /\ k < j)}

(* RateTracker, of which every drain makes its own.                        *)
RecentRuns(n) ==
  {k \in DOMAIN runs : runs[k].tenure = n /\ runs[k].at + Hour > now}

WithinRate(n) == Cardinality(RecentRuns(n)) < MaxPerHour

ClaimNext(n) ==
  /\ step[n] = "claiming"
  /\ \/ /\ Sleep(n)       \* none is free, or the claim failed to be logged
        /\ UNCHANGED <<table, runs, unreleased>>
     \/ \E k \in NextCandidate(n) : LET i == seen[n][k] IN
          /\ table' = Acquire(table, i, n, now) /\ unreleased' = unreleased \ {i}
          /\ current' = [current EXCEPT ![n] = i]
          /\ UNCHANGED slept
          /\ IF WithinRate(n)
             THEN /\ runs' = Append(runs, [intent |-> i, at |-> now, tenure |-> n])
                  /\ Goto(n, "executing")
             ELSE Goto(n, "deferring") /\ UNCHANGED runs
  /\ seen' = [seen EXCEPT ![n] = <<>>]
  /\ UNCHANGED <<now, disk, mem, copy, leadVars, aborted, accepted, withdrawn, done>>

(* The result of release is ignored: where its event is not logged, the    *)
(* table still has the claim, and the drain goes on as if it had not.      *)
ReleaseClaim(n) ==
  \/ /\ table' = IF CanRelease(table, current[n], n)
                 THEN Release(table, current[n]) ELSE table
     /\ UNCHANGED unreleased
  \/ /\ CanRelease(table, current[n], n)
     /\ unreleased' = unreleased \cup {current[n]}
     /\ UNCHANGED table

(* defer_intent gives the claim back; the intent never left the queue.     *)
Defer(n) ==
  /\ step[n] = "deferring"
  /\ ReleaseClaim(n)
  /\ Sleep(n)
  /\ UNCHANGED <<now, disk, mem, copy, leadVars, seen, aborted,
                 accepted, withdrawn, done, runs>>

(* The execution ends, in a result or an error: either way its intent is   *)
(* done.  It waits for the provider, so an aborted drain ends there.       *)
EndExecution(n) ==
  /\ step[n] = "executing" /\ n \notin aborted
  /\ done' = done \cup {current[n]}
  /\ Goto(n, "proving")
  /\ UNCHANGED <<now, disk, mem, copy, table, leadVars, current, seen, slept,
                 aborted, accepted, withdrawn, runs, unreleased>>

(* An [INTENT:] or [CHAIN:] marker of the answer queues a child.           *)
AddChild(n, i) ==
  /\ step[n] = "executing" /\ n \notin aborted /\ Fresh(i)
  /\ SaveDelta(n, Pushed(disk, i))
  /\ Accepts(i)
  /\ Goto(n, "adding")
  /\ UNCHANGED <<now, mem, table, leadVars, current, seen, slept, aborted,
                 withdrawn, done, runs, unreleased>>

ChildStored(n) ==
  /\ step[n] = "adding"
  /\ StoreCopy(n)
  /\ Goto(n, "executing")
  /\ UNCHANGED <<now, disk, table, leadVars, current, seen, slept, aborted, history>>

(* commit_intent_completion: renew proves the claim, or the completion is  *)
(* fenced and the intent stays.                                            *)
ProveClaim(n) ==
  /\ step[n] = "proving"
  /\ IF CanRenew(table, current[n], n, now)
     THEN /\ table' = Renew(table, current[n], now)
          /\ Goto(n, "removing") /\ UNCHANGED <<slept, current>>
     ELSE Sleep(n) /\ UNCHANGED table
  /\ UNCHANGED <<now, disk, mem, copy, leadVars, seen, aborted, history>>

(* Remove it and save; when that fails, the intent stays and the claim is  *)
(* released all the same.                                                  *)
RemoveIntent_FromMemory(n) == \* mutant: saves the shared copy, not the file
  /\ step[n] = "removing"
  /\ \/ /\ SaveDelta(n, Without(mem, current[n]))
        /\ Goto(n, "refreshing")
     \/ Goto(n, "releasing") /\ UNCHANGED <<disk, copy>>
  /\ UNCHANGED <<now, mem, table, leadVars, current, seen, slept, aborted, history>>

RemoveIntent(n) ==
  /\ step[n] = "removing"
  /\ \/ /\ SaveDelta(n, Without(disk, current[n]))
        /\ Goto(n, "refreshing")
     \/ Goto(n, "releasing") /\ UNCHANGED <<disk, copy>>
  /\ UNCHANGED <<now, mem, table, leadVars, current, seen, slept, aborted, history>>

RemovalStored(n) ==
  /\ step[n] = "refreshing"
  /\ StoreCopy(n)
  /\ Goto(n, "releasing")
  /\ UNCHANGED <<now, disk, table, leadVars, current, seen, slept, aborted, history>>

FinishIntent(n) ==
  /\ step[n] = "releasing"
  /\ ReleaseClaim(n)
  /\ Sleep(n)
  /\ UNCHANGED <<now, disk, mem, copy, leadVars, seen, aborted,
                 accepted, withdrawn, done, runs>>

(* The aborted drain is dropped at an await, its unstored copy with it.    *)
AbortLands(n) ==
  /\ n \in aborted
  /\ aborted' = aborted \ {n}
  /\ Goto(n, "none")
  /\ current' = [current EXCEPT ![n] = NoIntent]
  /\ seen' = [seen EXCEPT ![n] = <<>>]
  /\ copy' = [copy EXCEPT ![n] = Unsaved]
  /\ UNCHANGED <<now, disk, mem, table, leadVars, slept, history>>

Drain(n) ==
  \/ Poll(n) \/ Gate(n) \/ ReadQueue(n) \/ ClaimNext(n) \/ Defer(n)
  \/ EndExecution(n) \/ ChildStored(n) \/ ProveClaim(n) \/ RemoveIntent(n)
  \/ RemovalStored(n) \/ FinishIntent(n) \/ AbortLands(n)
  \/ \E i \in Intents : AddChild(n, i)

(* One tick is one poll interval, longer than any step that does not wait. *)
Tick ==
  /\ now < MaxNow /\ aborted = {}
  /\ now' = now + 1
  /\ UNCHANGED <<disk, mem, copy, table, leadVars, drainVars, history>>

Next ==
  \/ \E w \in Writers, i \in Intents : PushIntent(w, i)
  \/ \E w \in Writers : WriterStores(w)
  \/ \E i \in Intents : CliAdd(i) \/ CliRemove(i)
  \/ CliClear
  \/ Boot \/ BeginTenure \/ StartDrain \/ EndTenure \/ Crash
  \/ \E n \in Tenures : Drain(n)
  \/ Tick

Spec == Init /\ [][Next]_vars

----------------------------------------------------------------------------
(* Properties.                                                             *)

(* Every variable keeps its type; the queue never exceeds its capacity,    *)
(* wherever it is kept; a drain has an intent in hand exactly from its     *)
(* claim to its release (intent.rs: push, claim_next_intent).              *)
TypeOK ==
  /\ now \in 0..MaxNow
  /\ disk \in Seq(Intents) /\ Len(disk) <= MaxQueue
  /\ mem \in Seq(Intents) /\ Len(mem) <= MaxQueue
  /\ \A w \in DOMAIN copy : copy[w] # Unsaved => copy[w] \in Seq(Intents)
  /\ table \in LeaseTables
  /\ tenure \in 0..MaxTenure
  /\ lead \in {"down", "follower", "reconciling", "leading"}
  /\ step \in [Tenures -> DrainSteps]
  /\ current \in [Tenures -> Intents \cup {NoIntent}]
  /\ \A n \in Tenures : step[n] \in {"deferring", "executing", "adding", "proving",
       "removing", "refreshing", "releasing"} <=> current[n] # NoIntent
  /\ \A n \in Tenures : seen[n] \in Seq(Intents)
  /\ slept \in [Tenures -> 0..MaxNow] /\ aborted \subseteq Tenures
  /\ accepted \subseteq Intents /\ withdrawn \cup done \cup unreleased \subseteq accepted
  /\ \A k \in DOMAIN runs : runs[k] \in [intent: Intents, at: 0..MaxNow, tenure: Tenures]

(* An intent some writer accepted stays in the file until an execution of  *)
(* it has ended or the command line takes it out: no other writer's save,  *)
(* abort, crash or fenced completion loses it (intent.rs: save_delta, "a   *)
(* crash between claim and completion loses nothing").                     *)
NothingLost ==
  \A i \in accepted \ withdrawn : Queued(disk, i) \/ i \in done

(* The rate cap holds in every window within a tenure (intent.rs:          *)
(* RateTracker).                                                           *)
CapWithinTenure == \A n \in Tenures : Cardinality(RecentRuns(n)) <= MaxPerHour

(* A drain that sleeps keeps an intent from the next poll only where the   *)
(* release of its claim failed to be logged, which nothing tries again:    *)
(* the intent then waits for the claim's ttl or the next tenure.  A fenced *)
(* claim, or one that failed to be logged, leaves none behind (intent.rs:  *)
(* defer_intent, commit_intent_completion, claim_next_intent).             *)
OnlyUnreleasedStay ==
  \A n \in Tenures, i \in Intents :
    step[n] = "sleeping" /\ HeldBy(table, i, n) =>
      i \in unreleased \/ IsExpired(table.leases[i], now)

(* What the queue promises who adds and removes intents, with a second     *)
(* writer of its file, tenures that are fenced and a log of claims that    *)
(* may fail: none is lost, a tenure keeps to its cap, and none is kept     *)
(* from a later poll but by a release that failed (intent.rs: save_delta,  *)
(* RateTracker, defer_intent).                                             *)
QueueHolds == TypeOK /\ NothingLost /\ CapWithinTenure /\ OnlyUnreleasedStay

----------------------------------------------------------------------------
(* What the documentation says and the code does not do.                   *)

(* docs/concepts.md: intents are "capped per hour".                        *)
CapPerHour ==
  Cardinality({k \in DOMAIN runs : runs[k].at + Hour > now}) <= MaxPerHour

(* main.rs: "Remove an intent from the queue": a removed intent does not   *)
(* start after that.                                                       *)
RemovedNeverStarts ==
  [][Len(runs') > Len(runs) => runs'[Len(runs')].intent \notin withdrawn]_vars

(* intent.rs: a "one-shot task": once its run is done and its completion   *)
(* took it out of the file, it does not run again.                         *)
OneShot ==
  [][Len(runs') > Len(runs) =>
       LET i == runs'[Len(runs')].intent IN
         i \in done \ withdrawn => Queued(disk, i)]_vars
=============================================================================
