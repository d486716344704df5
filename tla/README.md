# pulse-null in TLA+

`pulse-null` is a daemon (Rust, tokio) that keeps one language-model "pulse" running: it answers
conversations over HTTP and chat plugins, runs scheduled tasks and one-shot intents of its own,
remembers what was said, and keeps receipts of what it did. The language model is outside; what the
program itself must get right is *coordination and memory*: who may act, what survives a crash, what a
turn that failed must not leave behind.

This directory specifies that part. Paths below are relative to the repository's `src/` crate directory
unless they start with `docs/`. `PROJECT.json` maps every definition to the lines it stands for.

1. [Inventory](#1-inventory)
2. [Modules, and how they relate to the code](#2-modules-and-how-they-relate-to-the-code)
3. [Runs, bounds, and what they show](#3-runs-bounds-and-what-they-show)
4. [Fairness](#4-fairness)
5. [Proofs](#5-proofs)
6. [Where the code and its documentation part](#6-where-the-code-and-its-documentation-part)
7. [What is not modelled](#7-what-is-not-modelled)
8. [Plan](#8-plan)

## 1. Inventory

### The parts that coordinate

| Part | Code | State it keeps | Operations | Hard because |
|---|---|---|---|---|
| Lease table | `coordinator/lease.rs` | per resource a lease (holder, fencing token, granted at, ttl) and a high-water token | `acquire`, `renew`, `release`, `apply` (replay) | tokens outlive leases; expiry is by an injected clock |
| Lease log | `coordinator/durable.rs`, `wal.rs` | a JSON-lines file, its advisory lock, the table in memory, the poison flag | `open` (lock, repair tail, replay), append = write + fsync, rewind, renew (memory only) | every append can fail in three places, then the rewind can fail; the process or the machine can end between any two steps; replay fails closed |
| Control plane | `coordinator/control.rs`, `server/isolation.rs` | the leadership loop's place, tenure number, leadership flag, handles of the spawned scheduler | open log, acquire, sweep dead claims, reconcile intents, start scheduler, renew, release, abort; isolation marker; shutdown | `abort` only asks; leases expire while somebody sleeps; pids come back |
| Scheduler | `scheduler/runner.rs`, `scheduler/mod.rs` | one loop per task: sleeping, checking the tenure, claiming, running, reporting | fire, suppress, claim, run, release | runs of an aborted tenure may be in the middle of a poll |
| Intent queue | `scheduler/intent.rs`, `cli/intent.rs`, `events/listener.rs` | `intents.json`, a shared copy in memory, a claim per intent, the drain's rate tracker | push, drain (claim, gate, execute, prove, remove), CLI add/remove/clear, reload | many writers, one file, a copy that is replaced after the lock is released; drains of two tenures |
| Farming | `coordinator/farm.rs`, `coordinator/fenced.rs` | per subtask a controller, its attempt, its child, a fence, a result slot; permits | lease, fence, wait for a permit, spawn, watch, give up, retry, commit, take | children that stall may answer at any time; an abort is not instant; permits travel with children |
| Conversations | `session_store.rs`, `server/handlers/chat.rs`, `chat/steps.rs`, `wal.rs` (conversation log), `persist.rs`, `daemon.rs`, `context/` | sessions in memory (trunk, quarantine lane, watermarks) behind per-session locks, session files, a log and checkpoint per identity, archives, the queue of writes | open, run a turn, compact, fall back after a refusal, roll back, commit, persist, evict, sweep, reset, archive, recover | the session is taken from the map and locked in two steps; writes are spawned and unordered; a crash falls between the log and the file |
| Plugin turns | `server/turns.rs` | a pool of slots, a count of turns in flight, `closed`, two notifiers | run, bind, refuse_new, drain | lost wake-ups; a turn entering while the daemon closes; a future dropped at any await |
| Streamed reply | `tool_loop.rs`, `speech_gate.rs` | rounds, segments, the bounded channel to the reader, what a guard holds back | send, withdraw, keep, settle, reset | the channel may be full, the reader slow or gone; what was sent may have to be withdrawn |
| Reply of an agent CLI | `cli_provider/mod.rs`, `cli_provider/adapter.rs` | deltas, records and results of a child's output, the segment open | one line of output at a time | the child may die, fail or fall silent between any two lines |
| Discord lanes | `plugins/discord_forwarder.rs` | the ids seen, a lane and a worker per channel, the slots, the stop flag | admit, take, wait for a slot, run, post, record, stop, start again | panics between a turn and its post; a stop while messages wait |
| Peer dialogue | `comms.rs`, `server/handlers/comms.rs` | the task of a dialogue, its state, a ring of events, watchers | start, turn, pause, resume, stop, end, watch | the ending races every request; a watcher falls behind the ring |
| Receipts | `oneself/` | a hash-chained file, the writer's place in it, a bounded channel, counts of what was lost | open (verify, repair), append, resync, gap rows, submit, shutdown | an append that failed may have landed; a torn line must be explained and never cut; the sender may never wait |
| Anchors | `oneself/anchor/` | a local line file, a file per month on a remote, both holding the chain's head | preview, lock, read, compare, write | the remote call may be lost or land late; runs side by side; the chain may have been rewritten |
| Probe runs | `vigil/probe/` | chained rows of a week's budget, two locks, scratch copies, pairs of facts | sweep, gate, lock, run turns, record each, finish; draw and plant by hand | an append that failed or was cut off; runs side by side; midnight and Sunday |
| Event feed | `ledger.rs`, `server/handlers/events.rs`, `events/mod.rs` | a ring of numbered rows, a channel per client, the bus | project, append, replay, stream, reconnect | three buffers may overrun, each with a notice of its own |
| Task health | `scheduler/health.rs`, `scheduler/liveness.rs` | a streak per task, the global silence, what is owed and was delivered | record, decide, deliver, mark, back off | deliver and commit are two steps; a success between them; restarts |
| Tension | `tension/`, `scheduler/tension_cycle.rs` | threads with their pressure, evidence, verdicts, the tick | open and close a cycle, triage, credit, tick, gate | overlapping cycles load and save one file |
| Outreach | `outreach/`, `events/listener.rs` | the day's log, the cap, who was told that it halved | admit, answer, prune, tell | telling and marking that it was told are two steps; the command line writes the same file |
| Refused markers | `prediction/refusals.rs` | the notice file | record, show, acknowledge | turns that overlap and fail between showing and acknowledging |
| Guest budgets | `server/guest_budget.rs` | counts per day, per call and per sender; who is tracked | take, refund, forget | requests side by side; midnight; an entry forgotten too early |
| Graph server | `surrealdb_manager.rs` | a server shared by the daemons of a host, password files, a pid file | start or adopt, provision, sign in, stop | boots side by side; a crash between the database and the file |
| Pid file | `pidfile.rs`, `cli/down.rs`, `cli/status.rs` | the record of the daemon | write, read, signal, delete | pids are reused; a reboot; commands side by side |
| Background extraction | `graph_extract.rs` | a queue, one worker, a watermark and a daily budget in a ledger | enqueue, catch up, attempt, charge, pause | panics, restarts, failed writes, a full queue |

### How they interact

```
             service manager ──restart──▶ daemon (server/daemon.rs, Pidfile) ──▶ graph server (GraphServer)
                                            │ spawns
      ISOLATION marker ──polled──▶ leadership loop (ControlPlane) ──append──▶ lease log (DurableLeases)
                                            │ starts / aborts                     ▲ claims
                         ┌──────────────────┼───────────────┐                     │
                    task loops         intent drain     subtask farms ────────────┘
              (ControlPlane, TaskHealth,  (IntentQueue)      (Farm)
                  Tension, Outreach)
                         │  push             │
                         └──▶ intents.json ◀─┴── listener, command line

   HTTP handlers ── GuestBudget ─┐
   plugins ── ChannelLanes ── TurnRunner ─▶ turn ─▶ session lock ─▶ provider ─▶ log, session file, archive
                                     │        │     (Conversations)    │               │ (Conversations)
                                     │        │                        └ CliReply      └▶ Extraction
                                     │        └─▶ TurnStream ─▶ reader
                                     ├─ rows ─▶ bounded channel ─▶ writer ─▶ chain file (Receipts) ─▶ Anchors
                                     └─ events ─▶ bus ─▶ ring ─▶ clients (LedgerFeed)
```

* *The lease table is the only arbiter* between tenures, task runs, intents and farm attempts. Its users
  call it under one mutex, so a call is one step for them; what happens inside a call is `DurableLeases`.
* *Tenures* are ended by `JoinHandle::abort`, which takes effect at the next await of the aborted task.
  Everything a tenure spawned may therefore still take the steps that follow in the same poll.
* *Files* are shared between processes: the command line edits `intents.json`, and the isolation marker is
  a file that anyone may create or remove at any time.
* *Shutdown* has windows: drain the turns, flush the writes, archive; each may be outrun.
* *What shares no state in the code shares none here*: a machine of its own is checked by itself.

### What makes each part correct

| Part | Properties (definitions in the modules) |
|---|---|
| Lease table and log | tokens of a resource only grow (`TokensIncrease`); a token a caller holds is on disk (`GrantsAreDurable`); replay accepts whatever the code can leave behind (`ReplayNeverRefuses`); nobody is granted a running resource (`ImplementsContract`) |
| Control plane | a tenure that is over does not act (`NoOrphanScheduler`); a run keeps its claim to its end (`RunsUnderClaim` in `WorkIsClaimed`); the sweep leaves no dead claim (`SweepFreesDeadClaims`); a live process leads again (`Recovers`); isolation sheds everything and orphans stop by themselves (`OldWorkStops`) |
| Intents | an accepted intent is never lost, the cap holds within a tenure, a sleeper holds nothing (`QueueHolds`) |
| Farm | a committed result reaches its controller, a retry fences the child it replaces, nothing outlives the farm (`FarmHolds`); a farm ends (`FarmsEnd` in `WorkGoesOn`) |
| Conversations | an unanswered turn leaves no trace (`NoTraceOfUnanswered`); an answered one stays on record (`AnsweredStaysOnRecord`); checkpoints hide only what is archived and log numbers grow (`LogHolds`); an isolated tail is not shown to a normal turn (`IsolatedTailDropped`); a refused exchange is never on a trunk nor, while no log had to be recovered, in an archive (`RefusedStaysApart`) |
| Plugin turns | after drain nothing runs, slots and counts are exact (`AdmissionHolds`); no lost wake-up (`ShutdownEnds`) |
| Streams | the reader keeps what was said and nothing that was withdrawn (`StreamHolds`); a CLI's reply is spoken whole and once (`CliReplyHolds`) |
| Discord, peers | replies in order and once, what is queued is heard (`LanesHold`); one dialogue turn at a time, none missed by a watcher, a pause is shown (`DialoguesHold`) |
| Receipts and anchors | an acknowledged row stays (`AcknowledgedStays`); the store is in step with its file (`StoreMatchesFile`); a row is written or told missing, a stream is closed once (`RowsAreAccounted`); anchors ascend and what was anchored stays (`AnchorsHold`) |
| Probes | the record is whole, a week keeps its cap, a planted side is counted once (`ProbesHold`) |
| News | rows ascend, what is missing is told (`FeedHolds`); alerts tell the truth (`AlertsHold`); refusals are told (`RefusalsHold`); a halved cap is told, once (`OutreachHolds`); what is waited for comes (`NewsIsTold`) |
| Tension | no closed thread comes back, triage is current, discharge needs work (`TensionHolds`); untouched threads get loud, a pulse wakes (`WorkGoesOn`) |
| Host | no stranger is signalled, a serving daemon is recorded (`PidfileHolds`); passwords fit, only one's own server is stopped (`GraphHolds`); no cap is passed and the recent are tracked (`BudgetHolds`); one extraction at a time, a bounded day, nothing overlooked (`ExtractionHolds`) |

### The other parts

`PROJECT.json` lists the components that are `not_modelled` with the reason of each. In short:

| Part | Code | Why not |
|---|---|---|
| Turn admission by credential | `server/auth.rs`, `trust.rs`, `capability.rs` | a function of the request, without state |
| Daemon boot, configuration, initialisation | `server/boot.rs`, `setup.rs`, `config/`, `init/` | one sequential pass; what it can leave half done is in the modules of the stores |
| Task execution, prompts, reply text, tools, knowledge graph | `scheduler/executor.rs`, `server/prompt.rs`, `tools/`, `graph_*` | text, or an outcome of a call to something outside |
| Document pipeline, caliber, vigil, predictions | `praxis/`, `caliber/`, `vigil/`, `prediction/` | scores and statistics over files in one sequential pass |
| Provider processes, network clients | `cli_provider/`, `anthropic_provider.rs`, `ollama_provider.rs` | I/O; a provider call is an action that answers, fails, or never answers |
| Command line, terminal interface, status endpoints | `cli/`, `tui/`, `server/handlers/` | input, output and layout; the commands that share state with a daemon are actions of other modules |

The map covers about 8% of the crate's lines. The crate keeps its tests inside the source files, and the
bulk of the rest is text, layout, command line and I/O; the parts where an order of steps can go wrong are
the ones above.

## 2. Modules, and how they relate to the code

```
LeaseTable ◀─EXTENDS─ DurableLeases ─INSTANCE─▶ FencingContract        Conversations ◀── Conversations_proofs
    ▲                      ▲                                                          ◀── Conversations_record
    │                 Host_proofs ──▶ Pidfile, GraphServer, GuestBudget    Receipts, Anchors ◀── Receipts_proofs
    ├── ControlPlane ◀── ControlPlane_proofs
    ├── IntentQueue  ◀── IntentQueue_proofs      LedgerFeed, ChannelLanes, MarkerRefusals,
    └── Farm ┐                                   Extraction ◀── Streams_proofs
             └─────────┐
        TurnRunner, TaskHealth, Outreach, PeerDialogue ◀── SideBySide_proofs

MCControlPlane   MCConversations   MCQueues      MCChains      MCSideBySide                    MCHost
(ControlPlane)   (Conversations)   (IntentQueue, (Receipts,    (TurnRunner, TaskHealth,        (DurableLeases,
                                    Extraction,   ProbeRuns)    Tension, MarkerRefusals,        Pidfile,
                                    CliReply)                   Outreach, PeerDialogue,         GraphServer,
                                                                TurnStream, LedgerFeed,         Anchors,
                                                                Farm, ChannelLanes)             GuestBudget)
```

An `MC` module gives the constants their values. Four of them hold several *machines* that share no state:
the machine that runs is chosen at the start and the others stay at their beginning, so the states of a run
are those of each machine in turn and not their product.

**How the steps are cut.** A step of a model is what runs between two points at which somebody else can
come in: between awaits at which other tasks can run, between two system calls of which each may fail or
be the last before a crash, between two atomic operations. Where the code holds a lock over several
awaits, the lock is a variable. Where two threads can run (tokio's workers), a task that was aborted may
go on until it next suspends; this is the `aborted` set of `ControlPlane`, `IntentQueue` and `Farm`, with
an action `AbortLands`, and the clock does not tick while an abort is outstanding.

**How a module is laid out.** Constants and their named assumption, the variables (the first of a machine
is its configuration, fixed at the start), helpers, one action per operation, the next-state relation, the
specification, and the properties. Several promises of one component are one definition, `...Holds`, whose
parts are the named properties before it; the type invariant is one of the parts.

### Leases and what stands on them

**`LeaseTable`** (`coordinator/lease.rs`): the table as a value. Every operation is a pair: a predicate
for "returns `Ok`" (`CanAcquire`, `CanRenew`, `CanRelease`, `CanApply`) and an operator to the next table.
`acquire` refuses a running lease even to its holder; an expired one is reclaimed by the same call;
`release` looks at the holder and at nothing else. `Apply` is one step of replay, with the checks the code
makes again on the way in. The ttl is a function of the resource because every caller passes a constant.
No variables: the other modules keep tables.

**`DurableLeases`** (`coordinator/durable.rs`, `coordinator/wal.rs`): processes that share one lease
directory. `OpenWal` takes the advisory lock and cuts an unterminated tail; `ReplayLine` is one line of the
fold, and `RefuseLine` its fail-closed exit. An append is `Stage*` (the line, or part of it, is written),
then `CommitAppend` (fsync, table installed, token returned), `RewindAppend` (the failed append is cut off
again) or `PoisonAppend` (that failed too). `ProcessDown` keeps what was written, `PowerLoss` keeps any
prefix down to what was fsynced and perhaps a torn line. `issued` and `claim` are history: the tokens
callers were given, and what a holder was told of its term.

**`FencingContract`** is the abstract specification: what a user of the table relies on. A grant carries a
token above all earlier ones and is made only when the previous grant has run out or was given up;
renewals extend; a crash forgets renewals and nothing else. It has no log, no lock and no process.
`DurableLeases` implements it (`ImplementsContract`), with the contract's variables carried along as
history variables of the detailed module.

**`ControlPlane`** (`coordinator/control.rs`, `scheduler/runner.rs`, `server/isolation.rs`): one process at
a time (a restart makes the next), its leadership loop (`pc`), and the task loops of every tenure (`job`).
Two tables: `mem` is the process's, `disk` what its log replays to; a restart begins with `disk`, which
knows no renewals. The loop: open, acquire, sweep the claims of dead tenures, reconcile the queue, look at
the marker again, start the scheduler, lead and renew, release, back off, and each way out of each step.
Task loops: sleep, wake (check the tenure still leads), verify, claim, run, report. Failures are switched
by `Failures`, so that each run says which it assumes.

**`IntentQueue`** (`scheduler/intent.rs`, `cli/intent.rs`, `events/listener.rs`): `disk` is `intents.json`,
`mem` the shared copy, and `copy[w]` the merged queue that writer `w` has saved but not yet put in place
of `mem`: `save_delta` is serialised, the store that follows is not under its lock. A drain per tenure:
poll, gate, read, claim (highest priority first, rate cap), defer, execute, add children, prove the claim,
remove, refresh, release. A release that fails to be logged is ignored, as in the code: the claim stays until
its ttl, and `unreleased` remembers the intent until a drain takes it again. The command line changes `disk` only.

**`Farm`** (`coordinator/farm.rs`, `coordinator/fenced.rs`): a controller per subtask and a child per
attempt. `acquire` and `raise_fence` are separate steps, a child commits at any time while it lives,
`Stalled` children live on after they were given up until their abort lands. The fence compares tokens as
`FarmResults` does; `take_if_token` is part of `TakeResult`.

### Conversations

**`Conversations`** (`session_store.rs`, `server/handlers/chat*`, `wal.rs`, `persist.rs`, `daemon.rs`,
`context/compact.rs`): a turn is a process with a program counter. A message is `Question(t)` or
`Reply(t)` of a turn, or `Note`, what compaction leaves in place of what it removed. Sessions are objects
(`sess`) that the map `live` points to and a turn holds by `ref`: eviction removes the pointer and not the
object, as an `Arc` does; which session is the least recently used is the relation `staler`. A session has
a trunk, a quarantine lane, its fallbacks so far, the lengths an isolated turn found (`found`) and the
watermark (`mark`), its log number and its lock. A refused turn is answered by the fallback and kept on
the lane (`MayFallBack`, `Quarantined`); a conversation over its budget is compacted with a summary or
trimmed (`TooLong`, `Older`, `Compacted`). Files: the session file (`json`), the writes queued for it
(`queue`, which end in any order), the log and its checkpoint (`wal`, `ckpt`), what is in a conversation
archive (`archived`) and in a dead-end file (`deadEnd`). The sweep and the manual reset are two-step
operations as in the code. Shutdown is several steps, a crash may come at any point, a restart loads the
files and recovers the logs. `Scenes` are the circumstances: which failures and which limits play a part.
`KeepRecent`, `MinMessages`, `MaxQuarantine` and `MaxFallbacks` are 20, 30, 50 and 25 in the code;
the assumption `2 * MaxFallbacks <= MaxQuarantine` is why nothing is ever drained from a lane.

### Inside one daemon

**`TurnRunner`** (`server/turns.rs`): a call of `PluginTurns::run` from the rate bucket to the `Drop` of its
guards, at the grain of single atomic operations: count, look at `closed`, register for `changed`, look
again, sleep, wake. `Bind` and `RefuseNew` store first and notify in a step of its own; `drain` registers
before it looks. `Dropped` ends a call at any await.

**`TurnStream`** (`tool_loop.rs`, `speech_gate.rs`): the rounds of a streamed turn; what a guard keeps back,
releases, seals after a tool round and settles when a round is cut (`hold`); the bounded channel
(`lane`) and the control plane beside it for what finds it full (`ctl`), since the producer never waits; the response stream that takes what is due, in the
`select` order of the code (`reader`), and what the client has been told (`audience`). A refused draft is void;
the fallback's whole reply follows, and follows again to a voice if the guard cut it.

**`CliReply`** (`cli_provider/mod.rs`, `adapter.rs`): one line of a child's output at a time. The kinds of
CLI are the four flags of an adapter; an output may end, fail or fall silent before any line.

**`ChannelLanes`** (`plugins/discord_forwarder.rs`): the forwarder of one link: admission against the ids
seen, a sender and a worker per channel, the wait for a slot, the turn, the post and the record of it,
panics, stop with its grace, and the next link, which inherits the memory of ids.

**`PeerDialogue`** (`comms.rs`): the task of a dialogue and its ending guard, requests to start, pause,
resume and stop cut at their awaits, watchers over a ring of events that may lag, isolation and shutdown.

**`TaskHealth`** (`scheduler/health.rs`, `liveness.rs`): streak, flap and silence rules. An alert is decided
by a task loop or the watchdog, delivered, and then marked, each a step; `act` is what an actor has in hand.

**`Tension`** (`tension/`, `scheduler/tension_cycle.rs`): threads whose pressure rises with age, the markers
of a cycle's output that open, work and resolve them against evidence; a cycle opens before and closes
after a call to the model, so cycles overlap on one file; the tick, and the gate that lets a task fire.

**`Outreach`** (`outreach/`): every access of the file is a locked read, change and rename, so one step:
admission, a response recorded by the command line, midnight. The response rate halves the cap; the notice
of that is told by the listener and marked in a step of its own.

**`MarkerRefusals`** (`prediction/refusals.rs`): the notice file; turns show what is pending when they begin
and acknowledge what they showed when they succeed. `Filters` has the one operator it shares with proofs, a
filter by membership in a set.

**`LedgerFeed`** (`ledger.rs`, `server/handlers/events.rs`): the projector numbers events of the bus into
the ring and broadcasts them; a stream replays the ring and goes live, with a notice for whatever expired
or was overrun; clients reconnect with the last number they saw.

### Between processes of a host

**`Pidfile`** (`pidfile.rs`, `cli/down.rs`, `cli/status.rs`): the record with its boot id, the port, commands
that read, check the boot, open a pidfd, confirm and signal, each a step; pids are reused.

**`GraphServer`** (`surrealdb_manager.rs`): a boot looks for a server, reads or writes the root password,
spawns, records the pid, awaits, provisions and signs in; answers are lost, daemons end at any step.

**`GuestBudget`** (`server/guest_budget.rs`, `admission.rs`): a request reads the clock and then takes the
ledger's lock, so two may take it in the other order; turns of the day, of a call, the bucket of a sender,
and which guest is forgotten when too many are tracked.

**`Anchors`** (`oneself/anchor/`): a run previews, takes the lock, assesses each backend, publishes: the
local line, or the file of the month by a conditional put that may conflict, be lost or land late.

**`Receipts`** (`oneself/chain.rs`, `store.rs`, `receipt.rs`, `event.rs`): the file is a sequence of lines; a
line is a whole row, half of one, or a row without its newline. A row's hash is its place in the file, so
`Follows` is the check of sequence number and previous hash together. `Verifies` is the walk of `chain.rs`,
`Class` and `Repaired` are the classification and repair of a tail, `Landings` is every state a failed
write can leave behind. The writer is cut at its awaits and system calls: take a job, swap the overflow
count, resync, write the gap row, write the row. Turns only ever `Send`, which never waits.

**`ProbeRuns`** (`vigil/probe/`): a run looks at the gate, takes both locks, looks again, asks its sets and
the planted facts that are due, writes a row after each, and finishes; commands draw and plant; an append
may fail or be cut off. `spent` counts the turns of the CLI per week, and those whose row a fault took. A tick is a third of a day, `t % 3 = 1` is outside the quiet window, and from a
launch to the second look at the gate less than a tick passes.

**`Extraction`** (`graph_extract.rs`, `session.rs`): an archive is written, waits for its ingest, which may fail
or be dropped, and is then enqueued (`ingesting`, `ready`, `untold`); enqueue takes the queue's lock and raises
the watermark after it; one worker takes, asks the budget, attempts, charges and reports, and a timed-out
attempt is charged nothing; the catch-up of a boot scans, asks and queues in turn.

## 3. Runs, bounds, and what they show

| Run (configuration) | Instance | Checked | Shows |
|---|---|---|---|
| `control_plane` (`MCControlPlane.cfg`) | 1 task, 2 boots, clock to 3 in renewal intervals, 1 isolation, 2 fires, every kind of failure | `NoOrphanScheduler` `WorkIsClaimed` | no task loop of a past tenure acts, and a live run keeps its claim, whichever way tenures end |
| `control_plane_live` (`MCControlPlaneLive.cfg`) | the same with a panicking loop as the only failure, under fairness | `SweepFreesDeadClaims` `Recovers` `OldWorkStops` | a live process comes to lead, lasting isolation stops everything, what a dead loop left behind stops by itself |
| `conversations` (`MCConversations.cfg`) | 2 identities, 3 turns, 7 kinds of scene (below) | `NoTraceOfUnanswered` `AnsweredStaysOnRecord` `LogHolds` `IsolatedTailDropped` `RefusedStaysApart` | rollback, log, checkpoint, isolation and refusals are exact across crashes, evictions, sweeps, resets, compaction and a shutdown that outruns its windows |
| `conversations_refused` (`MCConversationsRefused.cfg`) | the scene with refusals and a crash | `RefusedNotArchived` (violated) | section 6 |
| `intent_queue` (`MCQueues.cfg`) | intents: 3 in a queue of 2, 2 tenures, an hour of 2 ticks, cap 1; extraction: 3 configurations; a CLI's reply: 8 kinds of CLI with 5 scripts | `QueueHolds` `ExtractionHolds` `CliReplyHolds` | the two queues and the reply keep what they promise through restarts, failures, panics and an output that ends anywhere |
| `intent_one_shot` (`MCQueuesOneShot.cfg`) | the intents of it, one tenure | `OneShot` (violated) | section 6 |
| `chains` (`MCChains.cfg`) | receipts: 2 streams, channel of 1, 2 processes, 2 faults; probes: 6 configurations | `StoreMatchesFile` `AcknowledgedStays` `RowsAreAccounted` `ProbesHold` | two files of chained lines, through failed writes of every outcome, crashes and power loss |
| `receipts_reopen` (`MCChainsReopen.cfg`) | the receipts of it | `VerifiedFilesOpen` (violated) | section 6 |
| `side_by_side` (`MCSideBySide.cfg`) | ten machines of one daemon, 1 to 4 configurations each | `AdmissionHolds` `AlertsHold` `TensionHolds` `RefusalsHold` `OutreachHolds` `DialoguesHold` `StreamHolds` `FeedHolds` `FarmHolds` `LanesHold` | what each machine promises holds in every order of its tasks' steps |
| `side_by_side_live` (`MCSideBySideLive.cfg`) | the same machines, smaller, under fairness | `ShutdownEnds` `NewsIsTold` `WorkGoesOn` | shutdown ends, news arrives, farms and lanes end, a pulse wakes |
| `health_all_clear` (`MCSideBySideAllClear.cfg`) | task health | `EscalationAnswered` (violated) | section 6 |
| `host_side_by_side` (`MCHost.cfg`) | leases: 2 processes, 1 resource, 2 holders, 3 tokens, 5 lines, clock to 4; pid file, graph server, anchors, guests: 3 or 4 configurations each | `TokensIncrease` `GrantsAreDurable` `ReplayNeverRefuses` `ImplementsContract` `PidfileHolds` `GraphHolds` `AnchorsHold` `BudgetHolds` | what processes of a host share survives failures, crashes and processes side by side |

A run takes one to three minutes with two workers; `conversations` has 2.2 million states. Every property
of a passing run has a mutant in `PROJECT.json`: a plausible slip in a mapped definition (`*_Unsynced`,
`*_AnyHolder`, `*_Not`, ...) under which TLC finds the property violated.

**The scenes of `Conversations`.** `Crashing`: a crash at any step, with resets by the session limits.
`Isolating`: isolation entered and left twice. `Churning`: two turns over one live session and a cap of
three messages, archives that fail, a sweep, a manual reset, a flip and a shutdown that outruns its
windows. `Compacting`: conversations over their budget, with failed summaries and archives. `Refusing`,
`Losing`, `Suspected`: turns of the owner that the default model refuses, up to the cap of the fallback;
with resets and a crash; under isolation. The scenes are separate because their product is out of reach;
what mixes them is in the proofs of section 5, and three properties carry a condition saying where a
mixture would break them (section 6).

**Why the bounds are enough to be interesting.**

* *Two processes* are what the lock, the restart and the pid are about; a third process meets the same
  files as the second (`Pidfile` has a configuration of three over two pids). A second tenure within a
  process comes from isolation, expiry or a failure.
* *Tokens and lines*: `DurableLeases` needs an acquire, its release or expiry, a second acquire after a
  failed append, and a restart between any two. The proofs remove these bounds.
* *The clock* of `ControlPlane` runs past one ttl and one renewal; a claim's ttl is shorter than the run.
  `Farm`'s (2 subtasks of one farm, 2 attempts, 2 permits, a budget of 3) is past two attempts and the
  budget. In `IntentQueue` a tick is one poll and an hour is two; a ttl
  of two outlasts a poll, and any release may fail.
* *Intents*: three, so that a queue of two is full for a third; one comes before the two others, which
  are symmetric. (The refusal of a third copy of one description needs a longer queue and does not
  fire here; it drops the newcomer like the refusal of a full queue does.)
* *Turns*: three in flight against two sessions are enough for a waiter behind a lock, an eviction of a
  session a turn has opened, and a write overtaken by another.
* *Limits are reached*: `KeepRecent` 2 and `MinMessages` 4 against conversations of up to six messages, a
  fallback cap of 2 against three refusals, a ring, channel and bus of one or two against three to five
  events, a channel of two against the events of a reply, a lane of one against three messages, an
  extraction queue of one, a daily cap of one or two, a bucket of two tokens.
* *Receipts*: a channel of one overflows with two streams; two faults are a write that fails and a repair
  (or a gap row) that fails after it.
* *Probe runs*: a week's end with a weekly cap of one and a fault; asks of one fact that fall due together;
  commands alone over two pairs; the second run of a fortnight (here of two days); another pulse's runs; an
  ask that may repeat.
* *Anchors*: the months' files of one backend with lost and late requests; both backends side by side; a torn
  local file under three runs. *Graph server*: daemons one after the other, two pulses at once, twins.
* *Extraction*: a queue of one over two boots with a panic; a budget over midnight with a failed write;
  attempts that overspend it or time out; two or three archives, each ingested or lost at any time.

Symmetry is used where the values are only compared: two intents of one priority, holders and processes of the leases, identities of the
conversations, streams and probers. No run with a liveness property uses it. `CHECK_DEADLOCK FALSE`
throughout: bounded behaviours end when their bounds are used up, and the daemon may stop for good.

## 4. Fairness

Only what the code's scheduling gives: tokio polls a task that is ready, timers fire, provider calls and
requests have timeouts, and a lock that is let go of again and again is got in the end.

* `ControlPlane`: the loop and the task loops take their enabled steps; an evaluator does not suppress its
  task for ever; an abort lands; the service manager restarts the process; time passes. Isolation,
  resumption, shutdown, crashes and failures are never assumed to happen or to stop happening. `Recovers`
  allows for isolation, shutdown and a dead loop in its conclusion.
* `FairSideSpec` has the fairness of each machine, for the machine that runs:
  * *turns*: a call takes its own steps and its provider call returns; pending notifications are sent; drain
    takes its steps. Timeouts of `drain` and of the waiters, `bind`, and the shutdown itself are *not*
    assumed: `DrainWakes` and `WaitersSeeClose` must hold by notifications alone.
  * *farm*: controllers, commits and aborts are fair and time passes. *A child need never answer*, and
    `EndAtBudget` and `ParentDropped` are not fair, so `FarmsEnd` rests on ttls and attempts alone.
  * *health*, *outreach*: the watchdog and the listener take their turns, and a webhook that is tried again
    and again answers once (strong fairness of `Deliver` and `Tell`); nothing is assumed of task loops.
  * *refusals*: turns are begun, and one of the turns that end succeeds (strong fairness of `Acknowledge`).
  * *tension*: the tick, the period and gated cycles; a cycle ends, well or not.
  * *comms*, *stream*, *feed*, *lanes*: the tasks that read or run; never a new message, event or request.
* The other modules claim safety only.
## 5. Proofs

TLAPS checks these for every value of the constants. Where a run checks the property, the run shows it on a
small instance and the theorem without bounds on the number of processes, tasks, turns, messages or tokens
beyond those the constants name.

| Module | Theorem | Statement |
|---|---|---|
| `Host_proofs` | `TypeCorrect` | `Spec => []TypeOK` |
| | `FencingTokensIncrease` | `Spec => []TokensIncrease` |
| | `IssuedTokensAreDurable` | `Spec => []GrantsAreDurable` |
| | `ReplayAlwaysAccepts` | `Spec => []ReplayNeverRefuses` |
| | `ClaimsAreTold` | `Spec => []RInv` |
| | `LeasesImplementContract` | `Spec => ImplementsContract` (a refinement) |
| | `PidfileInvariance`, `PidfileKeepsItsPromises` | `PidfileSpec => []PidfileIInv`, `PidfileSpec => []PidfileHolds` |
| | `GraphInvariance`, `GraphKeepsItsPromises` | `GraphSpec => []GraphIInv`, `GraphSpec => GraphHolds` (two invariants and two action properties) |
| | `BudgetInvariance`, `BudgetKeepsItsPromises` | `BudgetSpec => []BudgetIInv`, `BudgetSpec => []BudgetHolds` |
| `ControlPlane_proofs` | `Invariance` | `Spec => []IInv` |
| | `NoTenureOutlivesItsLease` | `Spec => []NoOrphanScheduler` |
| | `RunsKeepTheirClaim` | `Spec => []WorkIsClaimed` |
| | `SweepLeavesNoClaim` | `Spec => []SweepFreesDeadClaims`, under two assumptions below |
| `IntentQueue_proofs` | `Invariance` | `Spec => []IInv` |
| | `QueueKeepsItsPromises` | `Spec => []QueueHolds` |
| `Conversations_proofs` | `ConvInvariance` | `Spec => []ConvIInv` |
| | `ConversationsTyped` | `Spec => []TypeOK` |
| | `UnansweredLeaveNoTrace` | `Spec => []NoTraceOfUnanswered` |
| | `RefusedStay` | `Spec => []RefusedStaysApart` |
| `Conversations_record` | `LogInvariance` | `Spec => []LogInvariant` |
| | `AnsweredStay` | `Spec => []AnsweredStaysOnRecord` |
| | `LogKeepsItsPromises` | `Spec => []LogHolds` |
| | `WindowInvariance` | `Spec => []WindowsHold` |
| | `IsolatedTailsAreDropped` | `Spec => []IsolatedTailDropped` |
| `Receipts_proofs` | `TypeCorrect` | `Spec => []TypeOK` |
| | `InStepWithFile` | `Spec => []StoreMatchesFile` |
| | `AcknowledgedRowsStay` | `Spec => AcknowledgedStays` (an action property) |
| | `AccountInvariance`, `RowsAccounted` | `Spec => [](IInv /\ AInv)`, `Spec => []RowsAreAccounted` |
| | `AnchorsInvariance`, `AnchorsKeepTheirPromises` | `AnchorsSpec => []AnchInv`, `AnchorsSpec => AnchorsHold` |
| `SideBySide_proofs` | `TurnsTyped` | `Spec => []TypeOK` |
| | `CountOfFlights` | `Spec => []CountIsExact` |
| | `SlotsAreKept` | `Spec => []PoolIsWhole` |
| | `NothingAfterDrain` | `Spec => []DrainIsFinal` |
| | `AdmissionIsKept` | `Spec => []AdmissionHolds` |
| | `HealthInvariance`, `AlertsTellTheTruth` | `HealthSpec => []HealthIInv`, `HealthSpec => []AlertsHold` |
| | `OutreachInvariance`, `OutreachKeepsItsPromises` | `OutreachSpec => []OutreachIInv`, `OutreachSpec => []OutreachHolds` |
| | `DialogueInvariance`, `DialoguesKeepTheirPromises` | `DialogueSpec => []DialogueIInv`, `DialogueSpec => []DialoguesHold` |
| | `FarmInvariance`, `FarmKeepsItsPromises` | `FarmSpec => []FarmIInv`, `FarmSpec => FarmHolds` (three invariants and an action property) |
| `Streams_proofs` | `FeedInvariance`, `FeedKeepsItsPromises` | `FeedSpec => []FeedIInv`, `FeedSpec => FeedHolds` |
| | `LanesInvariance`, `LanesKeepTheirPromises` | `LanesSpec => []LanesIInv`, `LanesSpec => []LanesHold` |
| | `RefusalsInvariance`, `RefusalsKeepTheirPromises` | `RefusalsSpec => []RefusalsIInv`, `RefusalsSpec => []RefusalsHold` |
| | `ExtractionInvariance`, `ExtractionKeepsItsPromises` | `ExtractSpec => []ExtIInv`, `ExtractSpec => []ExtractionHolds` |

None of these properties is inductive as it stands. Each proof has an inductive invariant, a conjunction
of named parts, that TLC checked first on the instance of the run; then a lemma per action, or per kind of
step; and a last temporal step. What follows is the argument of each.

**Leases.** `TokensIncrease` speaks of tokens already issued; to know that the *next* one is larger one
needs that the table of whoever may append covers every token in the log, and, because a table is rebuilt
from the log, that the log itself is in order. `IInv` therefore adds: `LogSound` (grants of a resource carry
increasing tokens, and a release follows the grant it ends), for the process that owns the lock a table that
`Matches` the log (its watermarks cover the log's tokens, each lease in it is the last word of the log on
its resource), for a process in replay that the table is `Exact`ly what the lines read so far say (this is
what makes `CanApply` hold of the next line), and for a process with an append in flight that the log
without the last line still matches. The lemmas `CutSound`, `GrantExtends`, `ReleaseExtends` and
`ReplayStep` say what truncation, the two kinds of line, and a step of the fold do to these. What makes the
crash cases go through is that no step cuts the log below `synced`, and that every issued token is in a
line up to there. Assumed: `LeaseConstants` and `DurableConstants` (ttls within the code's range, markers
for absence distinct from values).

**The lease log implements the fencing contract.** The refinement maps the contract's clock, grants and
claims to the detailed module's `now` and history variables; the log, the lock, the tables and the
processes have no counterpart. Almost every step is a stutter of the contract; the ones that are not are
commit of an append (a grant or a release of the contract), renewal, the tick, and the crash that forgets
renewals. To match a committed grant with the contract's guard, that the previous grant has run out, one
needs to know what the last holder *was told* against what the tables and the log say: that is `RInv`. A
claim that still runs is the table's own lease, with its token and its expiry, in the one process that has
the log open (`OpenTells`); it is the last thing the log says about its resource (`LogTells`), so a replay
finds it again (`ReplayTells`); and while nobody has the log open no renewal is in force. Hence no append in
flight is over a running claim (`PendingTells`).

**Leadership.** `IInv` of `ControlPlane` says that the handles in store are those of the tenure that leads
(`HandlesKnown`), so whatever ends a tenure asks every task loop of it to stop; and that while an abort is
on its way, the claims of the runs that act were granted at this very moment (`ClaimsAreFresh`: no time
passes before an abort lands, since it lands at the next suspension), so the late steps of an aborted loop
find claims they cannot take. `SweepLeavesNoClaim` holds where the appends of the log do not fail
(`"wal" \notin Failures`: a release that fails leaves the claim to its ttl) and where a process has a pid of
its own (`PidReuse = FALSE`, section 6); the run that checks it assumes the same. Assumed otherwise:
`LeaseConstants` and `ControlPlaneConstants`.

**The intent queue.** Copies of the queue of any age lie about: the file, the shared copy, one in the hand
of every writer that saved and has not yet stored. `IInv` says that all of them hold accepted intents
alone, that each save is made from the file as it is (the lock of `save_delta`), and that an intent leaves
the file only when it is done or withdrawn; so an old copy can bring a finished intent back and can lose
none. A drain has at most one live claim besides those whose release failed, the intent in its hand, and
whoever goes to sleep has released it, lost it to its ttl, or failed to release it (`unreleased`). The cap is a statement on the sequence of runs: a run is added when fewer than the
cap lie within the hour, and the hour only moves on.

**Farms.** Along the attempts of a subtask the tokens ascend: what is stored, the fence, the token of the
attempt under way, the watermark of the table (`AttemptsInOrder`). So from the moment an attempt's fence is
up every earlier child bears a token below it, and what its controller takes is what its own child stored.
`PermitsKept` counts the permits, which travel with the children; `AbortedLive` says that only what lives
has an abort on its way.

**Conversations.** `ConvIInv` has four parts besides types: `Locks` (whoever works on a session has its lock),
`Course` (where turns and the daemon are, one against the other), the order of the least recently used, and
`Messaging`: what trunks, session files, queued writes, logs, checkpoints and archives hold are messages of
turns that were *heard*, and on trunks only of heard turns that were not refused; a session whose lock
a turn has while the provider works is the one exception, and but for that turn's own message (`Settled`)
it is none. The actions change one session each, and most in one of a few ways: `SessionMove` classifies
them, so `Messaging` is proved per kind of move and not per action, and `Untouched` says what the other
sessions keep. `RefusedStaysApart` bounds what is in an archive before any log was recovered, the case of
section 6. Assumed: the module's constants, with `2 * MaxFallbacks <= MaxQuarantine` (25 and 50 in the code).

**What conversations leave on record.** That something *stays* needs to know where each message is, not only
whose it is. `LogInvariant` rests on the one above. `Numbered`: where no session was forgotten and no shutdown
cut a turn off, the numbers of a log ascend, and neither they nor the checkpoint are beyond that of the
session at work on it, so the next entry comes after both.
`Remembered`: an entry the checkpoint hides is *safe* (archived, or refused), and one it does not hide yet is
safe or stands in the session's conversation within `Reach`, the part no open watermark will cut off; this is
why a checkpoint, which is written after a turn's commit, may cover it. `NeatTrunks` (no message twice, a note
first) bounds a conversation by the turns admitted, so that under `CapIsFar` the cap never drops a head.
`HeadMoves` says, per kind of move of a session, where a message within reach is afterwards: there still,
or among what the move archives. `Placed` says that no two identities share a session, that a turn's session is
its identity's where none is forgotten, and that a shutdown leaves no log. `WindowsHold` is the same for isolation mode: what an isolated turn said lies behind
the watermarks (`Plain`), a watermark is a length that trunk and lane have, and it stays below the question of
the turn at work. A normal turn that works has no watermark (`Unmarked`), so all of what it shows is in front.

**Receipts.** `AcknowledgedStays` would fail of a repair that rewrites a line. A repair does change one: it
gives the last line its newline. `Keeps` says what every repair and every failed write preserve, all lines
but the newline of a last line that is not a finished row; `AckedIsWhole` says that the last acknowledged
line is a finished row, so `Keeps` covers everything acknowledged (`KeepsAcked`), and acknowledged lines are
synced, so a power loss does too. `StoreMatchesFile` needs the place of the writer in its job
(`WriterState`: it writes a row only when not poisoned, a gap only when it has just read the file again) and
that one more row keeps a verified file verified (`NextRowVerifies`, from `OneMoreRow`: what an append does
to the number and the last of the rows). `LoseJobKeeps` serves every way a write can fail.
`RowsAreAccounted` is a balance. A row whose write failed may lie in the file all the same; it is then both
there and counted as dropped, until the next resync finds it and takes the count back. `Doubled` says when the
last row is such a one, and `Balanced` charges for it: what was handed over, and one more for a doubled row, is
no more than what landed, what gap rows tell, what waits, and what is counted; so the count that resync takes
back was one too many.
That a stream closes once is said of the rows *and* of the jobs that wait, in their order (`InOrder`), with the state of the turns (`OfTurns`: no close of a turn that
runs is anywhere); so a restart, which closes as lost what the file shows open, meets no close of a dead
process. Files change by repair or by a row (`Grown`), and the sum over the gap rows is the one induction over
data here: two files that agree line by line have the same sums, since there is no least line at which they
part (`Least`, by well-founded induction). Assumed: `ReceiptConstants` (a channel of at least one).

**Plugin turns.** `DrainIsFinal` needs that the count is the *cardinality* of the calls past `enter`
(`CountIsExact`), so that a count of zero means none; that drain runs only after `closed` is set; and
that a call which has counted looks at `closed` before it starts. The lemmas `Moved` and `GotoCounts` say
how a move of one call changes the cardinalities. Assumed: `TurnRunnerAssumption` (finitely many calls,
at least one slot).

**The liveness alarm.** An alert is decided from the store, delivered, and marked in the store, with
outcomes in between. `StreakOwed`: a message on its way that nothing has overtaken says what the store
still owes, so its mark changes the store it was decided from in all that the rule reads. `StreakHeard` and
`FlapHeard`: but for the one that is being marked, what was heard last is what the record says. A message
that *was* overtaken muddles its subject when it is delivered or marked, and of a muddled subject nothing
is claimed. Assumed: `TaskHealthAssumption`.

**Outreach.** A day's messages are counted twice, in the log and in the history, and `DayIsCounted` says
that the two agree until the log loses one of them. A tightening is a property of the last messages of the
capped kind: a message of another kind, an answer or a pruned front may end it and never begin it
(`AnswersLoosen`, `PruningLoosens`, `OthersLoosen`). Hence `ToldInForce`: who was told of a tightening was
told of the one in force. Assumed: `OutreachAssumption`.

**The dialogue with another pulse.** Whoever fills the slot finds the dialogue in it over, and over it stays
(`InSlot`). `Fits` is what a watcher's queue is, given the last turn it has: every turn in the queue that is
new comes after its predecessor, the queue goes up to the last turn that was sent (a turn on record is sent
in a later step), and the end stands behind all of them. To send, to read, to fall behind and to catch up
each keep it (`ToldFits`, `ReadFits`, `EmptyFits`). A pause is told truly because, where no two requests met,
one request alone is between the flag and the phase (`PauseTold`). Assumed: `PeerDialogueAssumption`.

**The pid file.** Nobody but the daemon of the record is signalled because of what each check adds to what a
command knows. A pid is held by one living process at a time (`PidsApart`) and a process keeps its pid until
it dies, so a record that was true when it was written (pid, time of start, boot) is true for ever of that
process (`RecordTrue`), and what a command has checked of the process in its hand stays true as well, and
grows with the step it has reached (`CommandTrue`): from "the file said so" over "that process was alive
then" and "it is the very one" to a handle that no reuse of the pid can turn to somebody else. That a daemon
which serves is recorded needs `OnePort`: who has the port is alive, and the record is taken away by its
own daemon or by a command that found it dead. Assumed: `PidfileAssumption`.

**The graph server.** Each step has one of twelve kinds of effect (`GraphEffect`: a daemon goes a step on, notes a
password, defines its user, a server comes, goes, and so on), and `Effects` says that every action has one; the invariant is
proved per kind. `Apart`: where the circumstances let one daemon boot at a time, no two are busy, and where they
forbid twins, no two of a pulse live. From it, `Unwritten`: a daemon that provisions a pulse finds no password
of it, so a password is never overwritten. `RootKept`: one boot after the other, the root password is on disk
before a server starts with it. `UserMade`: without failures the password about to be written is that of the user
just defined. With a crash between the two it is not; that is a finding (section 6). Assumed: `GraphAssumption`.

**The budgets of guests.** `DayKept`: while no request took the lock behind a later reader of the clock, the
ledger's day is that of the latest and its count the number of admissions of that day, so a new day begins with none.
`CallKept`: a call that was not forgotten has had as many turns as the ledger says, and an untracked one
none. `SenderKept` is the argument of a token bucket: for every moment, what was admitted from it to the
last refill, and the tokens left, are no more than the burst and the ticks between; so no stretch of time,
wherever it ends, has more than its burst and what refills. `SeenKept` ties `past` to the ledger, which makes the forgotten
the least recent. Assumed: `GuestBudgetAssumption`.

**The feed of rows.** Ring, replay and channel are each a *run* of consecutive ids (`EndsAt`), the lemmas
say what appending, evicting, taking the head and filtering by a cursor do to a run; so what reaches a client
goes on from what it had, or begins behind a gap. `Accounted` ties the gap to a debt: what a client has
missed, or is bound to miss because its channel lags, it was told of or is owed the telling.
Assumed: `LedgerFeedAssumption`.

**The Discord lanes.** Messages carry the numbers of their arrival. `InLine`: along the queue of a lane,
its worker's hand and its answers they ascend; `OneWorker`: no message is in two
hands; `LanesOwned`: the lane in the table is its worker's while that worker runs and its link is up;
`BehindPosts` puts what
waits behind what was posted, and `AnswersMarked` says that an answer on record has its message's mark, which
a second arrival meets. Assumed: `ChannelLanesAssumption`.

**Refused markers.** The entries of the file ascend by number and none is empty (`FileOf`), so what an
acknowledgement clears is a prefix of them; `Covers` says that the turn has shown all of that prefix, as long
as the numbering did not begin again under it. A refusal recorded after the notice was shown goes to an entry beyond
what any notice carries, which is why showing a notice moves `shown_through`. The acknowledgement filters the file;
`Filters!Those` is a filter as a function of a *set*, and the lemmas `Draws` and `ThoseAre` say what it
keeps and in what order, by the least counterexample. Assumed: `RefusalsAssumption`.

**Background extraction.** The right to drain the queue is a token that three can have: a drain, a caller of
enqueue, or a catch-up that is about to start one; `ExtRight` says that one has it at most and that
`running` is true exactly when one has. `ExtLedger` relates the day's spend to the file: what was spent and
not lost, to a timeout, a panic, an end or a failed write, is what the ledger says of its day, and nothing of a later one. With `ExtAttempt`, an attempt under
way is of a day the ledger has not left, and it began within the budget, so the day passes its limit by one attempt. `ExtKnown` is stronger than the
promise while the process is up: *every* archive is accounted for, not only those below the watermark, because an enqueue
may raise the watermark over any of them; `ExtStored` says where an archive is between its file and the queue. `Refills` is what a refill of the queue does: it loses nothing, and a
queue and its backlog have no archive twice (`Lined`). Assumed: `ExtractionAssumption`.

**Anchors.** Only the run with the lock writes (`AnchOwner`). `Compared`: of every backend it is done comparing
with under the lock, its chain continues all lines, and if it is to write there, all lines are shorter; nobody
else writes meanwhile, so appending its head keeps the lines ascending. `LastUsed`: the month's file it settled on
is the last with lines, whatever month it has become since, so the order over the files is kept as well. A
request that lands late undoes this; after one, only the lock, the paths and the types are
claimed, and that no published line is ever lost, since the put is conditional on the file it read. Assumed:
`AnchorsAssumption`.

**Left to TLC.** Every liveness property, and whatever rests on `ENABLED`. Properties whose models fold,
sort or filter sequences: what those operators compute for every input is an induction the provers cannot take
from the library (its theorems have an operator as parameter). Where the model has a plain recursive
function, as the sums of `Receipts` and the filter (`Filters`) of `MarkerRefusals` and `Extraction`, the least counterexample
serves instead. Not proved: `CliReplyHolds`, `ProbesHold`, `StreamHolds`, and the action property `TensionHolds`.

## 6. Where the code and its documentation part

Four disagreements have a run whose counterexample shows them.

* **A completed intent runs again** (`intent_one_shot`, `OneShot`; `scheduler/intent.rs`). `save_delta` is
  serialised, but each writer puts its merged queue in place of the shared copy after it let go of the
  lock. A writer that saved before a completion may store after it: the completed intent is back in memory,
  its claim is free, and the drain, which reads the shared copy, runs it again.
* **A refused exchange reaches the archive** (`conversations_refused`, `RefusedNotArchived`; `wal.rs`). The
  quarantine lane is to be "written to a SEPARATE dead-end file so it never reaches EPHEMERAL"
  (`session_store.rs`). `recover_orphans` appends the lane to the trunk and archives both as one
  conversation: a crash between the fallback's reply and the first session file is enough.
* **A repaired receipt file that does not open** (`receipts_reopen`, `VerifiedFilesOpen`;
  `oneself/store.rs`). `classify` verifies the file without its last line. If that line is the recover row
  of an earlier repair, what is left ends in the torn line, and the file is taken for broken, although the
  chain check accepts it. Receipts stay off until somebody intervenes.
* **An alarm that is never answered** (`health_all_clear`, `EscalationAnswered`; `scheduler/health.rs`). A
  success that ends an alerted silence queues an all-clear "so an escalation never dangles unanswered". A
  second success before the watchdog delivers it replaces the record, and the all-clear is gone.

The modules also define properties that do not hold and have no run of their own. They are kept because
they say precisely what a comment or document claims; each is stated next to the ones that hold.

| Definition | Claim | What happens |
|---|---|---|
| `ControlPlane!LeadershipMeansLease` | the flag is "true while this process's coordinator holds the control-plane lease" (`server/mod.rs`) | a failed reconcile or start releases the lease and leaves the flag set |
| `ControlPlane!SweptClaimsAreOrphans` | "no scheduler is running right now" before the sweep (`control.rs`) | an aborted run that does not suspend is still under way |
| `SweepFreesDeadClaims` with `PidReuse = TRUE` | the sweep releases every dead claim | the holder is pulse, pid and tenure number; a restart under the same pid spares the dead process's claims until their ttl |
| `IntentQueue!CapPerHour` | intents are "capped per hour" (`docs/concepts.md`) | the tracker is made anew by every tenure; hence the weaker `CapWithinTenure` |
| `IntentQueue!RemovedNeverStarts` | "Remove an intent from the queue" (`main.rs`) | the drain reads the copy in memory |
| `Farm!StalledNeverCommits` | "a stalled predecessor's commit is rejected in every interleaving" (`farm.rs`) | between giving up and the next fence it is accepted, though nobody reads it; hence `RetryFencesStalled` |
| `Farm!ChildrenRunUnderLease` | "leases bound each child's tenure" | the lease is not renewed after the wait for a permit |
| `Farm!ReclaimsAreStalls` | reclaims are "stalled children superseded" | a retry after an error counts as well |
| `Farm!ReleasesOwnLease` | an "attempt-scoped holder" | two farms of one id in one tenure share resource and holder (needs two `Farms`) |
| `Receipts!GapsAreExact` | a row that landed "is not counted in dropped" (`docs/receipts.md`) | a gap row that lands in a write that fails is told again; never too few, hence `NothingVanishes` |
| `Conversations!IsolatedNeverShown` | an isolated exchange is not shown to a normal turn | the anchor is taken before a reset by the limits or a compaction of the same turn (`steps.rs:694`); the message cap and a manual reset do not move it either, and it ends with the process, an orderly stop included |
| `Conversations!AnsweredIsReplayed` | recovery replays what was answered (`wal.rs`) | after a crash between the log and the queued session file an older file makes the session live, and `recover_orphans` skips every log whose session is live |
| `Conversations!IsolatedStaysInMemory` | the isolated tail "never reaches disk through persist, checkpoint, archive, or eviction" (`chat/steps.rs`) | a write after the lock was let go, an eviction, the sweep and a shutdown take the whole session |
| `AnsweredStaysOnRecord` without `NeverCut`, `NothingDropped` | an answered exchange is kept | an evicted session that a turn already opened is found by nobody, and `clean_up_wal` removes every log; a reset or compaction goes on when its archive failed, the cap drops messages that no archive has, and the next checkpoint covers what went |
| `LogIncreases` with a slow shutdown or an expiry | the log's numbers are "monotonically increasing" (`wal.rs`) | a turn logs after `clean_up_wal` and the restart loads an older file; a session that begins again at 1 appends to the old log |
| `IsolatedTailDropped` with the message cap, a manual reset or an orderly stop | the first normal turn truncates to the watermark | none of them keeps or adjusts the watermark |
| `MarkerRefusals!AcknowledgesWhatItShowed` | "an acknowledgement clears exactly the entries its notice showed" | an emptied file numbers from the start again, and the acknowledgement of an older turn clears the new entries |
| `PeerDialogue!PauseAlwaysShown`, `NothingAfterShutdown` | "The phase shows paused from the request until resume"; shutdown waits "so no provider or peer call outlives the scheduler's" | a request to pause and one to resume set and show in the other order; a start that looked at the door before the close fills the slot after the shutdown's look, and a stopped task goes on until its abort lands |
| `TurnStream!KeptRemainderFollows` | "only the kept remainder follows what was already said" (`docs/http-api.md:107`) | held boundaries of a provider that reports its own follow the later text of the round |
| `LedgerFeed!SaysHowMuchIsGone` | "say how much is gone rather than resuming silently past it" | a cursor from the process before is clamped to the newest row, and the rows before it are passed over |
| `Extraction!NothingMissed` | "Nothing archived is missed" (`graph_extract.rs:34`) | an archive whose ingest failed, was dropped or still ran at the end, one a full queue refused, and one of a catch-up cut short are passed by a later watermark |
| `Extraction!DayIsCapped` | "A per-day token cap, recorded on disk" (`graph_extract.rs:32`) | a timed-out attempt counts as no tokens; a panic, a crash or a failed ledger write loses the spend; hence `lost` in `SpendIsBounded` |
| `ProbeRuns!TurnsAreCapped` | `weekly_turns` caps the "model turns per Monday-to-Sunday week" (`docs/methods/probe-runner.md:373`) | a turn is counted by a row written after it: one that is lost to a crash or a failed append lets the next run through; hence `WeekIsCapped` |
| `GuestBudget!EveryDayIsCapped` | "every guest turn of the plugin, per UTC day" | a request that read the clock before midnight and takes the lock after another day has begun starts the count of both days again |
| `Pidfile!ServingKeepsItsRecord` | "A record for some other pid is left in place" (`pidfile.rs`) | a stopping daemon closes its port long before its record goes; it, `down` or `status` may delete what its successor has written by then |
| `Anchors!AlarmIsTrue`, `AscendsAlways` | a `rewind` or `mismatch` means a rewritten chain or file (`docs/receipts.md:80`) | a run that read the file before another published reports a rewind; one whose request lost the race reads the file anew, and appends to the later line without comparing again |
| `GraphServer!AlreadyProvisioned` | "If password file exists, the pulse is already provisioned" (`surrealdb_manager.rs`) | a boot ends between the user's definition and the password's write: the next keeps the user and writes another password |

Others met while modelling, which no definition states:

* *Conversations.* A checkpoint covers entries of the quarantine lane that no archive has, so a crash before
  the first session file loses a refused exchange (`LaneForgotten`), and expiry does not archive the lane.
  `compact_if_needed` returns the default result whenever nothing had to be compacted, so its "consecutive
  failures" start again after a trim; a drain by count may cut between a tool's call and its result. Session
  files and context buffers write one shared `.tmp` name, so overlapping writes of one file can mix, against
  "atomically" (`session_store.rs`), and an older snapshot may be installed after a newer.
* *Archives.* The archive of a peer dialogue leaves its number empty when its write fails, against "Don't let
  a failed write permanently consume this number"; a failed `append_index` makes `archive_conversation`
  return an error though the file exists.
* *Voice calls.* A call that ends between a turn's open and its lock loses that turn's exchange; a second
  failing `try_read` drops the call unarchived; after a reset a flipped turn anchors past the end.
* *Tension.* An overlapping clean close overwrites `last_refusals`, and a second worker's credit is refused
  under the same cycle counter.
* *Peer dialogue.* A watcher that subscribes after the end but before the guard has archived is told that the
  dialogue was not archived.
* *Voided text.* Deltas already in the channel are written after the reset that voids them.
* *Agent CLIs.* The buffered call writes its input outside the timeout. The boundary of a message is said
  only when the next record or the result arrives, after the next message's deltas, where
  `docs/http-api.md:104` says "`segment` comes after the deltas of the message it closes. When `tool` is true
  it comes before `status tool`". A CLI that dies in the middle of a reply without a result has what was
  assembled stored as its reply.
* *Discord.* A message's age and the stop are looked at before the wait for a slot, which has no end, so a
  message may be answered long after `MAX_QUEUED_AGE`, and one that waits starts its turn after the stop,
  where the comment says "Once `stop` is set no further message starts a turn". When the gateway's task ends
  the stop is not set: queued messages start turns, and the link still reports itself healthy.
* *Extraction.* A boot's scan may queue an archive a second time ("One attempt per archive"); after a worker's
  panic a full queue rests, against `UnwedgeOnPanic`'s comment.
* *Graph server.* Two first boots side by side can leave a root password file that does not open the
  database; a spawner's shutdown stops the server that other pulses use, where the comment says "Detach the
  process so it survives if this pulse shuts down".
* *Anchors.* A preview with an unreadable backend returns before the lock, where `docs/receipts.md:82` says
  that the others are still attempted.
* *Probes.* A planted side is "never" counted twice (`docs/methods/probe-runner.md`), but a crash or failed
  write between the items row and the ask row asks it again (`spoilt` in `PlantedCountedOnce`). The start
  row carries the launch time, from before a wait of up to 90 minutes for the host's lock.

## 7. What is not modelled

* `DurableLeases`: validation of ids, listing, wall-clock jumps (time only grows; the code takes its clock
  from the caller), a log edited by somebody else.
* `ControlPlane`: what a run does; it is a step that ends. The tick loop, which needs no lease.
* `IntentQueue`: a file that does not parse; the code writes by atomic rename. A failed line that reached the
  log of leases all the same: `DurableLeases` has it; here a failed append leaves the claims as they were.
* `Farm`: prompts, synthesis, the receipts of a farm.
* `Conversations`: the voice calls' own set of sessions, migration of old keys, micro compaction, the
  estimate of tokens (any answer), I/O errors of the log and of the session file, power loss. Fused to one step: the look at isolation
  and the later lock of `Reset`, the tries of `evict_lru` on each lock. "Crash" is the
  end of the process: what was written to a file stays. `AnsweredIsReplayed` and the two properties on
  isolation of section 6 are stated and run by nobody.
* `PeerDialogue`: `StartChecks` fuses the two reads of a start.
* `TurnRunner`: names and trust of channels, several plugins (each has its own pool; they share the count).
* `Receipts`: the search for the file and its protection, size limits, digests, files this code did not
  write, a panic of the writer. Hashes do not collide: a row's hash is its place.
* `TurnStream`, `CliReply`: the automaton of markers, the floor of 250 ms, tools, staging, the sandbox, the
  adapters' parsers. `ProbeRuns`: questions, scores, sandbox, fence, the copy of the graph. `LedgerFeed`: what
  rows say, the filter, the backfill. `Anchors`: owners, modes, tokens, `--dry-run`. `Tension`: the
  statistics, mentions, the text of markers. `Outreach`: the gate's own verdict.
* Hazards that no property here covers: a poisoned log refuses every acquire until a restart (`wal.rs:263`);
  `abort_all` only asks (`control.rs:459`); the flag that `/health` shows is set before the reconcile
  (`control.rs:487`); a bad time zone detaches the tension loop (`scheduler/mod.rs:308`); an intent added by
  the command line is not in the shared copy until the next save (`intent.rs:575`); an intents file that does
  not parse is taken for empty and overwritten (`intent.rs:111`); two farms under one id (`farm.rs:371`).
* The components of the last table of section 1.

## 8. Plan

Done: every module of section 2, its runs, and the proofs of section 5.

Next, by weight in the program:

1. *Theorems still to be had* (section 5, "Left to TLC").
2. *Persist coordinator and archive files*: overlapping writes of one file, the index and its numbers
   (`persist.rs`, `session.rs`); voice calls' sessions (`plugins/voice_echo/`).
3. *Pure operators* against reference definitions: document limits, rolling windows of caliber.
