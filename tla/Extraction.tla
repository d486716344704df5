----------------------------- MODULE Extraction -----------------------------
(***************************************************************************)
(* The background extraction of archives (graph_extract.rs): the queue and *)
(* its one worker, the catch-up of a boot, the day's budget and the pause  *)
(* after failures, and the ledger that keeps the day's spend and the       *)
(* watermark over restarts.                                                *)
(*                                                                         *)
(* Archives are numbered as they are written; whoever wrote one waits for  *)
(* the graph's store to ingest it and then calls enqueue (session.rs).     *)
(* The caller of enqueue, the catch-up and the worker take the queue's     *)
(* lock for a moment each and write the ledger after they have let it go;  *)
(* the steps are cut there.                                                *)
(* What the graph's store says of an archive, and what an extraction       *)
(* spends, is the backend's.                                               *)
(***************************************************************************)
EXTENDS Integers, FiniteSets, Sequences, SequencesExt, FiniteSetsExt, Filters

CONSTANTS
    MaxFailures,      \* MAX_CONSECUTIVE_FAILURES
    ExtractConfigs    \* the configurations explored

ASSUME ExtractionAssumption ==
    /\ MaxFailures \in Nat \ {0}
    /\ \A c \in ExtractConfigs :
          /\ c.queued \in Nat \ {0}   \* MAX_QUEUED
          /\ c.limit \in Nat          \* extract_daily_token_budget, 0: no cap
          /\ c.costs \subseteq Nat /\ IsFiniteSet(c.costs)   \* what an attempt may spend
          /\ c.logs \in Nat           \* bound: archives
          /\ c.days \in Nat \ {0}     \* bound: days
          /\ c.boots \in Nat          \* bound: processes
          /\ c.panics \in Nat         \* bound: panics of the worker
          /\ c.faults \in Nat         \* bound: failed writes of the ledger

VARIABLES
    extractLaw,   \* the configuration, fixed
    archives,     \* how many archives there are, those being ingested, those that
                  \* are and wait for enqueue, and those the store has pending
    spendBook,    \* graph_extraction.json: the day, its tokens, the watermark (-1: none)
    jobs,         \* Queue
    pushers,      \* callers of enqueue that have still to raise the watermark
    catchUp,      \* the catch-up task
    drains,       \* the tasks that run `drain`
    host,         \* the clock, and how much has happened
    annals          \* history

extractVars == <<extractLaw, archives, spendBook, jobs, pushers, catchUp, drains, host, annals>>

NoQueue == [pending |-> <<>>, backlog |-> <<>>, running |-> FALSE, fails |-> 0, paused |-> 0]
NoCatchUp == [at |-> "off", above |-> 0, found |-> {}, raise |-> 0, starts |-> FALSE]
NoDrain == [at |-> "off", log |-> 0, raise |-> 0, day |-> 0, spent |-> 0, result |-> "none"]
Workers == {1, 2}

ExtractTypeOK ==
    /\ extractLaw \in ExtractConfigs
    /\ archives.last \in Nat
    /\ archives.ingesting \cup archives.ready \cup archives.awaiting \subseteq 1..archives.last
    /\ spendBook \in [day : Nat, tokens : Nat, mark : Nat \cup {-1}]
    /\ jobs.pending \in Seq(1..archives.last) /\ IsInjective(jobs.pending)
    /\ Len(jobs.pending) <= extractLaw.queued
    /\ jobs.backlog \in Seq(1..archives.last) /\ IsInjective(jobs.backlog)
    /\ jobs.running \in BOOLEAN /\ jobs.fails \in 0..MaxFailures - 1 /\ jobs.paused \in Nat
    /\ \A caller \in pushers : caller.log \in 1..archives.last /\ caller.starts \in BOOLEAN
    /\ catchUp.at \in {"off", "scan", "ask", "found", "raise"}
    /\ \A w \in Workers : drains[w].at \in {"off", "next", "raise", "check", "works", "charge", "report"}

ExtractInit ==
    /\ extractLaw \in ExtractConfigs
    /\ archives = [last |-> 1, ingesting |-> {}, ready |-> {}, awaiting |-> {1}]
    /\ spendBook = [day |-> 0, tokens |-> 0, mark |-> -1]
    /\ jobs = NoQueue
    /\ pushers = {}
    /\ catchUp = NoCatchUp
    /\ drains = [w \in Workers |-> NoDrain]
    /\ host = [up |-> FALSE, day |-> 1, boots |-> 0, panics |-> 0, faults |-> 0]
    /\ annals = [queued |-> {}, full |-> {}, jumped |-> {}, untold |-> {}, history |-> {},
               failing |-> 0, on |-> 0,
               spent |-> [d \in 1..extractLaw.days |-> 0],
               lost |-> [d \in 1..extractLaw.days |-> 0], panicked |-> FALSE]

-----------------------------------------------------------------------------
(* The ledger.  A write replaces the file or leaves it.                    *)

Writes(book) ==
    \/ spendBook' = book /\ UNCHANGED <<host>>
    \/ /\ host.faults < extractLaw.faults
       /\ host' = [host EXCEPT !.faults = @ + 1]
       /\ UNCHANGED spendBook

Raised(log) == [spendBook EXCEPT !.mark = Max({@, log})]
RaisesTo(log) == IF log > spendBook.mark THEN Writes(Raised(log)) ELSE UNCHANGED <<spendBook, host>>

Spent(day) == IF spendBook.day = day THEN spendBook.tokens ELSE 0

Exhausted(day) == extractLaw.limit > 0 /\ Spent(day) >= extractLaw.limit

-----------------------------------------------------------------------------
(* enqueue, and the archives it is called for.                             *)

\* One idle drain begins.
Spawns == \E w \in Workers : /\ drains[w].at = "off"
                             /\ drains' = [drains EXCEPT ![w].at = "next"]
SpawnsIf(starts) == IF starts THEN Spawns ELSE UNCHANGED drains

\* archive_conversation: the next number is taken and its file written.
WriteArchive ==
    /\ host.up /\ archives.last < extractLaw.logs
    /\ archives' = [archives EXCEPT !.last = @ + 1, !.ingesting = @ \cup {archives.last + 1}]
    /\ UNCHANGED <<extractLaw, spendBook, jobs, pushers, catchUp, drains, host, annals>>

\* graph_ingest_archive: the store has its episodes, and enqueue is next ...
IngestEnds(log) ==
    /\ log \in archives.ingesting
    /\ archives' = [archives EXCEPT !.ingesting = @ \ {log}, !.ready = @ \cup {log},
                                   !.awaiting = @ \cup {log}]
    /\ UNCHANGED <<extractLaw, spendBook, jobs, pushers, catchUp, drains, host, annals>>

\* ... or never called: the file's index line or its reading failed, the
\* ingest failed or panicked, or, with the store none the worse, its caller
\* was dropped while it waited or asks for no extraction (comms.rs).
IngestIsLost(log) ==
    /\ log \in archives.ingesting
    /\ \E stored \in {{}, {log}} :
          archives' = [archives EXCEPT !.ingesting = @ \ {log}, !.awaiting = @ \cup stored]
    /\ annals' = [annals EXCEPT !.untold = @ \cup {log}]
    /\ UNCHANGED <<extractLaw, spendBook, jobs, pushers, catchUp, drains, host>>

\* enqueue: on the queue, unless the catch-up put it there or it is full.
Enqueue(log) ==
    /\ log \in archives.ready
    /\ archives' = [archives EXCEPT !.ready = @ \ {log}]
    /\ \/ /\ log \in Range(jobs.pending)
          /\ UNCHANGED <<jobs, pushers, annals>>
       \/ /\ log \notin Range(jobs.pending) /\ Len(jobs.pending) < extractLaw.queued
          /\ jobs' = [jobs EXCEPT !.pending = Append(@, log), !.running = TRUE]
          /\ pushers' = pushers \cup {[log |-> log, starts |-> ~jobs.running]}
          /\ annals' = [annals EXCEPT !.queued = @ \cup {log}]
       \/ /\ log \notin Range(jobs.pending) /\ Len(jobs.pending) >= extractLaw.queued
          /\ annals' = [annals EXCEPT !.full = @ \cup {log}]
          /\ UNCHANGED <<jobs, pushers>>
    /\ UNCHANGED <<extractLaw, spendBook, catchUp, drains, host>>

\* The rest of enqueue: the watermark, and the worker.
RaiseAndStart(caller) ==
    /\ caller \in pushers
    /\ pushers' = pushers \ {caller}
    /\ RaisesTo(caller.log)
    /\ SpawnsIf(caller.starts)
    /\ UNCHANGED <<extractLaw, archives, jobs, catchUp, annals>>

-----------------------------------------------------------------------------
(* The catch-up of a boot.                                                 *)

\* refill moves the backlog into what is free of the queue, oldest first.
Refilled(queue) ==
    LET fresh == Those(queue.backlog, Range(queue.backlog) \ Range(queue.pending))
        room == extractLaw.queued - Len(queue.pending)
        moved == SubSeq(fresh, 1, Min({room, Len(fresh)}))
    IN  [queue EXCEPT !.pending = @ \o moved, !.backlog = SubSeq(fresh, Len(moved) + 1, Len(fresh))]
RefillRaises(queue) == Max({0} \cup (Range(Refilled(queue).pending) \ Range(queue.pending)))

Booted(failed) == host' = [host EXCEPT !.up = TRUE, !.boots = @ + 1, !.faults = @ + failed]

\* for_pulse: a first boot sets the watermark; a later one has a catch-up
\* when there are archives above it.
BootExtractor ==
    /\ ~host.up /\ host.boots < extractLaw.boots
    /\ IF spendBook.mark = -1
       THEN /\ \/ spendBook' = Raised(archives.last) /\ Booted(0)
               \/ host.faults < extractLaw.faults /\ Booted(1) /\ UNCHANGED spendBook
            /\ annals' = [annals EXCEPT !.history = 1..archives.last, !.failing = 0]
            /\ UNCHANGED catchUp
       ELSE /\ Booted(0)
            /\ catchUp' = IF archives.last <= spendBook.mark THEN NoCatchUp
                          ELSE [NoCatchUp EXCEPT !.at = "scan", !.above = spendBook.mark]
            /\ annals' = [annals EXCEPT !.failing = 0]
            /\ UNCHANGED spendBook
    /\ UNCHANGED <<extractLaw, archives, jobs, pushers, drains>>

\* The archives above the watermark that was read at the boot ...
CatchUpScan ==
    /\ catchUp.at = "scan"
    /\ catchUp' = [catchUp EXCEPT !.at = "ask", !.found = catchUp.above + 1..archives.last]
    /\ UNCHANGED <<extractLaw, archives, spendBook, jobs, pushers, drains, host, annals>>

\* ... that the store has pending, or all of them when it cannot be asked ...
CatchUpAsk ==
    /\ catchUp.at = "ask"
    /\ \/ catchUp' = [catchUp EXCEPT !.at = "found", !.found = @ \cap archives.awaiting]
       \/ catchUp' = [catchUp EXCEPT !.at = "found"]
    /\ UNCHANGED <<extractLaw, archives, spendBook, jobs, pushers, drains, host, annals>>

Ascending(logs) == Those([log \in 1..archives.last |-> log], logs)

\* Changed: those that do not fit are forgotten.
CatchUpQueue_NoBacklog ==
    /\ catchUp.at = "found"
    /\ LET wanted == catchUp.found \ (Range(jobs.pending) \cup Range(jobs.backlog))
           queue == [jobs EXCEPT !.backlog = @ \o Ascending(wanted)]
           after == [Refilled(queue) EXCEPT !.backlog = <<>>]
       IN  /\ jobs' = [after EXCEPT !.running = @ \/ after.pending # <<>>]
           /\ catchUp' = [catchUp EXCEPT !.at = "raise", !.found = {}, !.raise = RefillRaises(queue),
                                         !.starts = after.pending # <<>> /\ ~jobs.running]
           /\ annals' = [annals EXCEPT !.queued = @ \cup Range(after.pending)]
    /\ UNCHANGED <<extractLaw, archives, spendBook, pushers, drains, host>>

\* ... are queued behind what is there, and the rest of them kept.
CatchUpQueue ==
    /\ catchUp.at = "found"
    /\ LET wanted == catchUp.found \ (Range(jobs.pending) \cup Range(jobs.backlog))
           queue == [jobs EXCEPT !.backlog = @ \o Ascending(wanted)]
           after == Refilled(queue)
       IN  /\ jobs' = [after EXCEPT !.running = @ \/ after.pending # <<>>]
           /\ catchUp' = [catchUp EXCEPT !.at = "raise", !.found = {}, !.raise = RefillRaises(queue),
                                         !.starts = after.pending # <<>> /\ ~jobs.running]
           /\ annals' = [annals EXCEPT !.queued = @ \cup Range(after.pending)]
    /\ UNCHANGED <<extractLaw, archives, spendBook, pushers, drains, host>>

CatchUpRaise ==
    /\ catchUp.at = "raise"
    /\ RaisesTo(catchUp.raise)
    /\ SpawnsIf(catchUp.starts)
    /\ catchUp' = NoCatchUp
    /\ UNCHANGED <<extractLaw, archives, jobs, pushers, annals>>

-----------------------------------------------------------------------------
(* The worker.                                                             *)

Worker(w, drain) == drains' = [drains EXCEPT ![w] = drain]

\* next_job: the queue is refilled and its first taken, or the worker marked
\* stopped, under one lock.
NextJob(w) ==
    /\ drains[w].at = "next"
    /\ LET after == Refilled(jobs) IN
          IF after.pending = <<>>
          THEN /\ jobs' = [after EXCEPT !.running = FALSE]
               /\ Worker(w, NoDrain)
               /\ annals' = [annals EXCEPT !.panicked = FALSE]
          ELSE /\ jobs' = [after EXCEPT !.pending = Tail(@)]
               /\ Worker(w, [drains[w] EXCEPT !.at = "raise", !.log = Head(after.pending), !.raise = RefillRaises(jobs)])
               /\ annals' = [annals EXCEPT !.queued = @ \cup Range(after.pending), !.panicked = FALSE]
    /\ UNCHANGED <<extractLaw, archives, spendBook, pushers, catchUp, host>>

RaiseRefilled(w) ==
    /\ drains[w].at = "raise"
    /\ RaisesTo(drains[w].raise)
    /\ Worker(w, [drains[w] EXCEPT !.at = "check", !.day = host.day])
    /\ UNCHANGED <<extractLaw, archives, jobs, pushers, catchUp, annals>>

\* refusal: the pulse is isolated, extraction is paused for the day, or the
\* day's budget is spent.
Refusal(w) ==
    /\ drains[w].at = "check"
    /\ \/ Worker(w, [drains[w] EXCEPT !.at = "next"])
       \/ /\ jobs.paused # drains[w].day /\ ~Exhausted(drains[w].day)
          /\ Worker(w, [drains[w] EXCEPT !.at = "works"])
    /\ UNCHANGED <<extractLaw, archives, spendBook, jobs, pushers, catchUp, host, annals>>

\* What an attempt spent and nothing will charge.
Unbilled(day, spent) == [annals EXCEPT !.spent[day] = @ + spent, !.lost[day] = @ + spent]

\* extract: the store had nothing pending; the archive is extracted; no
\* provider; a failure; or no answer in time, and what that attempt spent is
\* not known and counts as nothing.
Extract(w) ==
    /\ drains[w].at = "works"
    /\ \E answer \in {"nothing", "extracted", "unavailable", "failed", "timed out"},
          spent \in extractLaw.costs \cup {0} :
          /\ answer \in {"nothing", "unavailable"} => spent = 0
          /\ answer = "nothing" => drains[w].log \notin archives.awaiting
          /\ answer = "extracted" => drains[w].log \in archives.awaiting
          /\ archives' = IF answer = "extracted"
                         THEN [archives EXCEPT !.awaiting = @ \ {drains[w].log}] ELSE archives
          /\ annals' = Unbilled(drains[w].day, spent)
          /\ Worker(w, [drains[w] EXCEPT !.at = "charge", !.spent = IF answer = "timed out" THEN 0 ELSE spent,
                                         !.result = IF answer = "timed out" THEN "failed" ELSE answer])
    /\ UNCHANGED <<extractLaw, spendBook, jobs, pushers, catchUp, host>>

\* charge, on the day the attempt began.
Charge(w) ==
    /\ drains[w].at = "charge"
    /\ IF drains[w].spent = 0 THEN UNCHANGED <<spendBook, host, annals>>
       ELSE /\ Writes([spendBook EXCEPT !.day = drains[w].day, !.tokens = Spent(drains[w].day) + drains[w].spent])
            /\ annals' = IF spendBook' # spendBook
                       THEN [annals EXCEPT !.lost[drains[w].day] = @ - drains[w].spent] ELSE annals
    /\ Worker(w, [drains[w] EXCEPT !.at = "report"])
    /\ UNCHANGED <<extractLaw, archives, jobs, pushers, catchUp>>

Fails(day) ==
    IF jobs.fails + 1 >= MaxFailures
    THEN [jobs EXCEPT !.fails = 0, !.paused = day] ELSE [jobs EXCEPT !.fails = @ + 1]

\* report and record_failure: a success ends a run of failures, a failure
\* extends it, and the last one allowed pauses the day.
Report(w) ==
    /\ drains[w].at = "report"
    /\ jobs' = CASE drains[w].result = "failed" -> Fails(drains[w].day)
                 [] drains[w].result = "extracted" -> [jobs EXCEPT !.fails = 0]
                 [] OTHER -> jobs
    /\ annals' = CASE drains[w].result = "failed" ->
                      [annals EXCEPT !.failing = IF annals.on = drains[w].day THEN @ + 1 ELSE 1, !.on = drains[w].day]
                 [] drains[w].result = "extracted" -> [annals EXCEPT !.failing = 0]
                 [] OTHER -> annals
    /\ Worker(w, [NoDrain EXCEPT !.at = "next"])
    /\ UNCHANGED <<extractLaw, archives, spendBook, pushers, catchUp, host>>

\* UnwedgeOnPanic.
ExtractPanics(w) ==
    /\ drains[w].at = "works"
    /\ host.panics < extractLaw.panics
    /\ host' = [host EXCEPT !.panics = @ + 1]
    /\ jobs' = [jobs EXCEPT !.running = FALSE]
    /\ Worker(w, NoDrain)
    /\ \E spent \in extractLaw.costs \cup {0} :
          annals' = [Unbilled(drains[w].day, spent) EXCEPT !.panicked = TRUE]
    /\ UNCHANGED <<extractLaw, archives, spendBook, pushers, catchUp>>

-----------------------------------------------------------------------------
(* Around it.                                                              *)

DayPasses ==
    /\ host.day < extractLaw.days
    /\ host' = [host EXCEPT !.day = @ + 1]
    /\ UNCHANGED <<extractLaw, archives, spendBook, jobs, pushers, catchUp, drains, annals>>

\* The process ends, anywhere: a crash, or a shutdown, which archives and
\* ingests what it had without extraction.  The store has some of what was
\* being ingested.  What was still to be queued, below a watermark that was
\* raised over it, will not be looked for again; an attempt under way spent
\* what it spent.
ExtractorEnds(wrote) ==
    /\ host.up
    /\ host' = [host EXCEPT !.up = FALSE]
    /\ wrote => archives.last < extractLaw.logs
    /\ LET last == archives.last + (IF wrote THEN 1 ELSE 0)
           cut == archives.ingesting \cup archives.last + 1..last
           waiting == UNION {Range(jobs.backlog), archives.ingesting, archives.ready, catchUp.found,
                             IF catchUp.at = "scan" THEN catchUp.above + 1..archives.last ELSE {}}
       IN  \E stored \in SUBSET cut, w \in Workers, spent \in extractLaw.costs \cup {0} :
              /\ spent > 0 => drains[w].at = "works"
              /\ archives' = [last |-> last, ingesting |-> {}, ready |-> {},
                              awaiting |-> archives.awaiting \cup stored]
              /\ annals' = [(IF spent > 0 THEN Unbilled(drains[w].day, spent) ELSE annals) EXCEPT
                              !.jumped = @ \cup {log \in waiting : log <= spendBook.mark},
                              !.untold = @ \cup (cut \ stored), !.panicked = FALSE]
    /\ jobs' = NoQueue /\ pushers' = {} /\ catchUp' = NoCatchUp
    /\ drains' = [w \in Workers |-> NoDrain]
    /\ UNCHANGED <<extractLaw, spendBook>>

TaskRuns(w) ==
    \/ NextJob(w) \/ RaiseRefilled(w) \/ Refusal(w) \/ Extract(w) \/ Charge(w) \/ Report(w)

ExtractNext ==
    \/ BootExtractor \/ CatchUpScan \/ CatchUpAsk \/ CatchUpQueue \/ CatchUpRaise \/ DayPasses
    \/ WriteArchive
    \/ \E log \in 1..archives.last : IngestEnds(log) \/ IngestIsLost(log) \/ Enqueue(log)
    \/ \E caller \in pushers : RaiseAndStart(caller)
    \/ \E w \in Workers : TaskRuns(w) \/ ExtractPanics(w)
    \/ \E wrote \in BOOLEAN : ExtractorEnds(wrote)

ExtractSpec == ExtractInit /\ [][ExtractNext]_extractVars

-----------------------------------------------------------------------------
(* Properties.                                                             *)

\* One archive at a time (the module's discipline): never two drains,
\* whatever order enqueue, the catch-up, an end and a panic come in.
OneDrain == \E w \in Workers : drains[w].at = "off"

\* What is queued has a worker, or one that is about to be started: the
\* worker's last look and an enqueue cannot pass each other.  (After a panic
\* the queue rests until the next enqueue.)
NoneStranded ==
    jobs.pending # <<>> /\ ~annals.panicked =>
       \/ \E w \in Workers : drains[w].at # "off"
       \/ \E caller \in pushers : caller.starts
       \/ catchUp.starts

\* A panic is got over: nothing says that the queue is drained when nobody
\* drains it and nobody is about to.
RunningIsTrue ==
    jobs.running => \/ \E w \in Workers : drains[w].at # "off"
                    \/ \E caller \in pushers : caller.starts
                    \/ catchUp.starts

\* A day costs its budget and one attempt over it, restarts and new days
\* included; beyond that only what never reached the ledger: the attempts
\* that timed out, were under way at a panic or an end of the process, or
\* whose charge was not written.
SpendIsBounded ==
    extractLaw.limit > 0 =>
       \A d \in 1..extractLaw.days :
          annals.spent[d] <= extractLaw.limit - 1 + Max(extractLaw.costs \cup {0}) + annals.lost[d]

\* A broken provider costs three attempts a day and process, not one for
\* every archive.
FailuresPause == annals.failing <= MaxFailures

\* No archive is passed over in silence: one at or below the watermark was
\* queued, or is to be; was there before the first boot, or refused by a
\* full queue (said in the log); or its own caller never came to enqueue it:
\* its ingest was lost, or it waited when the process ended, as one in a
\* catch-up or its backlog may have, below a watermark raised by a later one.
NoneOverlooked ==
    \A log \in 1..archives.last :
       log <= spendBook.mark =>
          \/ log \in UNION {annals.queued, annals.full, annals.history, annals.jumped, annals.untold}
          \/ log \in UNION {Range(jobs.backlog), catchUp.found, archives.ingesting, archives.ready}
          \/ catchUp.at = "scan" /\ log > catchUp.above

\* What background extraction promises, with panics, restarts and failed
\* writes: one worker that never leaves a queue unheard, a day's budget, three
\* failures at a time, and no archive passed over but for the reasons named
\* (graph_ingest_archive, enqueue, catch_up, next_job, drain).
ExtractionHolds ==
    /\ ExtractTypeOK /\ OneDrain /\ NoneStranded /\ RunningIsTrue
    /\ SpendIsBounded /\ FailuresPause /\ NoneOverlooked

-----------------------------------------------------------------------------
(* What the documentation says and the code does not do.                   *)

\* graph_extract.rs: "Nothing archived is missed", by the watermark: what is
\* at or below it was queued, or is to be, but for what the first boot found.
NothingMissed ==
    \A log \in 1..archives.last :
       log <= spendBook.mark =>
          \/ log \in annals.queued \cup annals.history \cup Range(jobs.backlog) \cup catchUp.found
          \/ log \in archives.ingesting \cup archives.ready
          \/ catchUp.at = "scan" /\ log > catchUp.above

\* graph_extract.rs: "Bounded spend. A per-day token cap, recorded on disk".
DayIsCapped ==
    extractLaw.limit > 0 =>
       \A d \in 1..extractLaw.days :
          annals.spent[d] <= extractLaw.limit - 1 + Max(extractLaw.costs \cup {0})
=============================================================================
