------------------------------ MODULE ProbeRuns ------------------------------
(***************************************************************************)
(* Probe runs and the record they are counted from (vigil/probe/run.rs,    *)
(* run/paired_turns.rs, record.rs, paired.rs, schedule.rs, scratch.rs).    *)
(*                                                                         *)
(* Runs and commands of one pulse side by side, over four files of chained *)
(* rows, under two locks: the host's, for which a run waits, and the       *)
(* record's, for which nobody does.  A write may fail or a process die     *)
(* with all of its line on disk, a part of it, or nothing.                 *)
(*                                                                         *)
(* A tick is a third of a day: the night and the evening are in the quiet  *)
(* window, the day between is not.  What is asked, the answers and their   *)
(* scores, the sandbox and the copy of the graph are left out.             *)
(***************************************************************************)
EXTENDS Naturals, Sequences, FiniteSets, SequencesExt, FiniteSetsExt

CONSTANTS
    Probers,         \* processes
    StudyConfigs     \* the configurations explored

ASSUME ProbeRunsAssumption ==
    StudyConfigs \subseteq
        [cadence : {"max", "pro"},
         weekday : 0..6,              \* of day 0, Monday is 0
         proDays : Nat \ {0},         \* PRO_CADENCE_DAYS
         weekly : Nat, perRun : Nat,  \* weekly_turns, max_turns_per_run
         sets : Nat,                  \* the turns of the item sets
         sides : Nat \ {0},           \* ASKS_PER_FACT
         pairs : Nat, active : Nat,   \* the set's pairs, max_active
         offsets : SUBSET (Nat \ {0}),
         plantDays : Nat \ {0},       \* PLANT_WINDOW_DAYS
         others : BOOLEAN,            \* another pulse of the host runs probes
         ticks : Nat, runs : Nat, commands : Nat, faults : Nat]    \* bounds

VARIABLES
    study,        \* the configuration, fixed
    probeTime,    \* the clock
    prober,       \* where each process is
    hostLock,     \* who holds host.lock: a process, "other" or "none"
    recordLock,   \* who holds run.lock
    rec,          \* the record: per stream its lines, and whether the last is unended
    scratchDirs,  \* scratch copies on disk
    probeCount,   \* runs, commands and faults so far
    spoilt,       \* history: asks cut off between their answer and their row
    spent         \* history: per week the turns of the CLI, and those without a row

probeVars == <<study, probeTime, prober, hostLock, recordLock, rec, scratchDirs, probeCount, spoilt, spent>>

ProbeStreams == {"runs", "items", "facts", "budget"}
Outside == [at |-> "idle", ifDue |-> FALSE, launched |-> 0, run |-> 0, sets |-> 0, asks |-> <<>>,
            sides |-> 0, todo |-> <<>>, then |-> "idle", good |-> FALSE, stopped |-> "no"]

ProbeInit ==
    /\ study \in StudyConfigs
    /\ probeTime = 0
    /\ prober = [p \in Probers |-> Outside]
    /\ hostLock = "none" /\ recordLock = "none"
    /\ rec = [s \in ProbeStreams |-> [lines |-> <<>>, unended |-> FALSE]]
    /\ scratchDirs = {} /\ spoilt = {}
    /\ probeCount = [runs |-> 0, commands |-> 0, faults |-> 0]
    /\ spent = [w \in 0..((study.weekday + study.ticks \div 3) \div 7) |-> [turns |-> 0, unpaid |-> 0]]

-----------------------------------------------------------------------------
(* The record.  A line is junk, or a row chained to the line `prev`.       *)

Row(is, of, at, n) == [is |-> is, of |-> of, at |-> at, n |-> n]
Line(after, row, told) == [whole |-> TRUE, prev |-> after, row |-> row, told |-> told]
Junk(told) == [whole |-> FALSE, prev |-> 0, row |-> Row("none", 0, 0, 0), told |-> told]

\* read_chain: a row counts if it is chained to the last one that does.
Verified(lines) ==
    LET last[i \in 0..Len(lines)] ==
            IF i = 0 THEN 0
            ELSE IF lines[i].whole /\ lines[i].prev = last[i - 1] THEN i ELSE last[i - 1]
    IN  {i \in DOMAIN lines : last[i] = i}
LastHash(lines) == Max(Verified(lines) \cup {0})
Broken(lines) == \E i \in DOMAIN lines : lines[i].whole /\ i \notin Verified(lines)

Rows(s) == LET lines == rec[s].lines IN {lines[i].row : i \in Verified(lines)}
RowsOf(s, is) == {r \in Rows(s) : r.is = is}

\* append: a line that was left unended is ended first.
Added(old, row, told) ==
    [lines |-> Append(old.lines, Line(LastHash(old.lines), row, told)), unended |-> FALSE]

\* What an append that does not come back may leave.
Remains(old, row) ==
    {old, Added(old, row, FALSE),
     [Added(old, row, FALSE) EXCEPT !.unended = TRUE],
     [lines |-> Append(old.lines, Junk(FALSE)), unended |-> TRUE]}

-----------------------------------------------------------------------------
(* The clock and the gate (schedule.rs).                                   *)

ProbeDay(t) == t \div 3
WeekOf(t) == (study.weekday + ProbeDay(t)) \div 7
Weekday(t) == (study.weekday + ProbeDay(t)) % 7
InWindow(t) == t % 3 # 1

\* Runs that count: complete or partial, by the time of their start row.
Counted == {r \in RowsOf("runs", "start") : \E f \in RowsOf("runs", "finish") : f.of = r.of /\ f.n = 1}
Due(t) ==
    IF study.cadence = "max"
    THEN Weekday(t) \in {0, 2, 4} /\ ~\E r \in Counted : ProbeDay(r.at) = ProbeDay(t)
    ELSE \A r \in Counted : t >= r.at + 3 * study.proDays
TurnsThisWeek(t) ==
    Cardinality({i \in Verified(rec["budget"].lines) : WeekOf(rec["budget"].lines[i].row.at) >= WeekOf(t)})

Gate(scheduled, t, planned) ==
    /\ \A s \in {"runs", "budget", "facts"} : ~Broken(rec[s].lines)
    /\ InWindow(t)
    /\ scheduled => Due(t)
    /\ planned <= study.perRun
    /\ TurnsThisWeek(t) + planned <= study.weekly

-----------------------------------------------------------------------------
(* Paired facts (paired.rs).                                               *)

Draws == RowsOf("facts", "draw")
PlantOf(f) == {r \in RowsOf("facts", "plant") : r.of = f}
AskedOf(f) == {r.n : r \in {x \in RowsOf("facts", "ask") \cup RowsOf("facts", "missed") : x.of = f}}
ActiveFact(d, t) ==
    IF PlantOf(d.of) = {} THEN t - d.at < 3 * study.plantDays
    ELSE Max(study.offsets) \notin AskedOf(d.of)
InFlight(t) == {d \in Draws : ActiveFact(d, t)}

\* due: the latest offset that came due, and the earlier ones it passes over.
CameDue(f, t) ==
    {o \in study.offsets \ AskedOf(f) : \E r \in PlantOf(f) : r.n + 3 * o <= t}
DueAsks(t) ==
    LET asks == {[fact |-> d.of, offset |-> Max(CameDue(d.of, t)),
                  missed |-> CameDue(d.of, t) \ {Max(CameDue(d.of, t))}] :
                 d \in {x \in Draws : CameDue(x.of, t) # {}}}
    IN  SetToSortSeq(asks, LAMBDA a, b : a.fact < b.fact)
Planned(t) == study.sets + study.sides * Len(DueAsks(t))

-----------------------------------------------------------------------------
(* A run (run.rs).                                                         *)

Free(lock, p) == IF lock = p THEN "none" ELSE lock
Leaves(p) ==
    /\ prober' = [prober EXCEPT ![p] = Outside]
    /\ hostLock' = Free(hostLock, p) /\ recordLock' = Free(recordLock, p)
To(p, r) == prober' = [prober EXCEPT ![p] = r] /\ UNCHANGED <<hostLock, recordLock>>
Mishap == probeCount.faults < study.faults /\ probeCount' = [probeCount EXCEPT !.faults = @ + 1]
Fixed == UNCHANGED <<study, probeTime>>

\* sweep_under_host_lock: what is older than six hours, an earlier tick, if
\* no run is live.
Sweeps == IF hostLock = "none" THEN {d \in scratchDirs : d.at = probeTime} ELSE scratchDirs

\* run: the sweep, then a first look without a lock.
Launches(p) ==
    /\ prober[p].at = "idle" /\ probeCount.runs < study.runs
    /\ scratchDirs' = Sweeps
    /\ \E scheduled \in BOOLEAN :
          IF Gate(scheduled, probeTime, Planned(probeTime))
          THEN /\ probeCount' = [probeCount EXCEPT !.runs = @ + 1]
               /\ To(p, [Outside EXCEPT !.at = "waits", !.ifDue = scheduled, !.launched = probeTime,
                                        !.run = probeCount.runs + 1])
          ELSE UNCHANGED <<probeCount, prober, hostLock, recordLock>>
    /\ UNCHANGED <<rec, spoilt, spent>> /\ Fixed

\* take_locks: the record's lock is not waited for.
TakesLocks(p) ==
    /\ prober[p].at = "waits" /\ hostLock = "none"
    /\ IF recordLock = "none"
       THEN /\ hostLock' = p /\ recordLock' = p
            /\ prober' = [prober EXCEPT ![p].at = "plans"]
       ELSE Leaves(p)
    /\ UNCHANGED <<rec, scratchDirs, probeCount, spoilt, spent>> /\ Fixed

\* The wait for the host lock is over, or the run is asked to stop.
WaitsNoMore(p) ==
    /\ prober[p].at = "waits" /\ hostLock # "none"
    /\ Leaves(p)
    /\ UNCHANGED <<rec, scratchDirs, probeCount, spoilt, spent>> /\ Fixed

\* under_lock: everything is read and decided again, then the scratch and
\* the start row.  The row keeps the time of the launch; n is, for the
\* properties, the day on which a scheduled run passed the gate.
UnderLock(p) == Gate(prober[p].ifDue, probeTime, Planned(probeTime))
Plans(p) ==
    /\ prober[p].at = "plans"
    /\ IF UnderLock(p)
       THEN LET r == prober[p]
                gated == IF r.ifDue THEN 1 + ProbeDay(probeTime) ELSE 0
            IN  /\ To(p, [r EXCEPT !.at = "starts", !.sets = study.sets, !.asks = DueAsks(probeTime),
                                   !.then = "graph",
                                   !.todo = <<<<"runs", Row("start", r.run, r.launched, gated)>>>>])
                /\ scratchDirs' = scratchDirs \cup {[run |-> r.run, at |-> probeTime]}
       ELSE Leaves(p) /\ UNCHANGED scratchDirs
    /\ UNCHANGED <<rec, probeCount, spoilt, spent>> /\ Fixed

Ready(p, at) == prober[p].at = at /\ prober[p].todo = <<>>
Status(r) == IF r.good THEN "partial" ELSE "aborted"
Stopped(r) == [r EXCEPT !.stopped = Status(r)]

\* graph_or_abort
TakesGraph(p) ==
    /\ Ready(p, "graph")
    /\ \/ To(p, [prober[p] EXCEPT !.at = "sets"]) /\ UNCHANGED probeCount
       \/ Mishap /\ To(p, [prober[p] EXCEPT !.at = "close", !.stopped = "aborted"])
    /\ UNCHANGED <<rec, scratchDirs, spoilt, spent>> /\ Fixed

\* ask and settle: answered; failed, which ends a run that had no answer;
\* cut in the middle; or never begun (a quota, the time budget, a signal).
Spent == <<"budget", Row("turn", 0, probeTime, 0)>>
Outcomes(p) ==
    LET r == [prober[p] EXCEPT !.todo = <<Spent>>]
    IN  [answered |-> [r EXCEPT !.good = TRUE],
         failed |-> IF r.good THEN r ELSE [r EXCEPT !.stopped = "aborted"],
         cut |-> Stopped(r),
         refused |-> Stopped(prober[p])]
TurnEnds(how) ==
    /\ IF how = "answered" THEN UNCHANGED probeCount ELSE Mishap
    /\ spent' = IF how = "refused" THEN spent ELSE [spent EXCEPT ![WeekOf(probeTime)].turns = @ + 1]

AsksSet(p) ==
    /\ Ready(p, "sets") /\ prober[p].sets > 0 /\ prober[p].stopped = "no"
    /\ \E how \in {"answered", "failed", "cut", "refused"} :
          /\ TurnEnds(how)
          /\ To(p, [Outcomes(p)[how] EXCEPT !.sets = @ - 1, !.then = "sets"])
    /\ UNCHANGED <<rec, scratchDirs, spoilt>> /\ Fixed

\* ask_item_sets returns.
SetsDone(p) ==
    /\ Ready(p, "sets") /\ (prober[p].sets = 0 \/ prober[p].stopped # "no")
    /\ To(p, [prober[p] EXCEPT !.at = IF prober[p].stopped = "no" THEN "planted" ELSE "close"])
    /\ UNCHANGED <<rec, scratchDirs, probeCount, spoilt, spent>> /\ Fixed

\* run_paired of the planted side: the offset is used once it was asked.
Answer(p) == <<"items", Row("planted", Head(prober[p].asks).fact, probeTime, Head(prober[p].asks).offset)>>
AsksPlanted(p) ==
    /\ Ready(p, "planted") /\ prober[p].asks # <<>>
    /\ \E how \in {"answered", "failed", "cut", "refused"} :
          LET r == Outcomes(p)[how]
          IN  /\ TurnEnds(how)
              /\ IF r.stopped = "no"
                 THEN To(p, [r EXCEPT !.todo = Append(@, Answer(p)), !.then = "later", !.sides = study.sides - 1])
                 ELSE To(p, [r EXCEPT !.then = "close"])
    /\ UNCHANGED <<rec, scratchDirs, spoilt>> /\ Fixed

\* ask_later_sides
AsksLater(p) ==
    /\ Ready(p, "later") /\ prober[p].sides > 0 /\ prober[p].stopped = "no"
    /\ \E how \in {"answered", "failed", "cut", "refused"} :
          /\ TurnEnds(how)
          /\ To(p, [Outcomes(p)[how] EXCEPT !.sides = @ - 1, !.then = "later"])
    /\ UNCHANGED <<rec, scratchDirs, spoilt>> /\ Fixed

\* record_asked: the offsets passed over, then the one asked.
AskedRows(ask) ==
    LET of(is, o) == <<"facts", Row(is, ask.fact, probeTime, o)>>
        missed == SetToSortSeq(ask.missed, <)
    IN  Append([i \in DOMAIN missed |-> of("missed", missed[i])], of("ask", ask.offset))
RecordsAsked_Complete(p) ==       \* mutant: only an ask that was not stopped
    /\ Ready(p, "later") /\ (prober[p].sides = 0 \/ prober[p].stopped # "no")
    /\ IF prober[p].stopped = "no"
       THEN To(p, [prober[p] EXCEPT !.at = "asked", !.todo = AskedRows(Head(prober[p].asks)),
                                    !.then = "planted"])
       ELSE To(p, [prober[p] EXCEPT !.at = "close"])
    /\ UNCHANGED <<rec, scratchDirs, probeCount, spoilt, spent>> /\ Fixed
RecordsAsked(p) ==
    /\ Ready(p, "later") /\ (prober[p].sides = 0 \/ prober[p].stopped # "no")
    /\ To(p, [prober[p] EXCEPT !.at = "asked", !.todo = AskedRows(Head(prober[p].asks)),
                               !.then = IF prober[p].stopped = "no" THEN "planted" ELSE "close"])
    /\ UNCHANGED <<rec, scratchDirs, probeCount, spoilt, spent>> /\ Fixed

FactsDone(p) ==
    /\ Ready(p, "planted") /\ prober[p].asks = <<>>
    /\ To(p, [prober[p] EXCEPT !.at = "close"])
    /\ UNCHANGED <<rec, scratchDirs, probeCount, spoilt, spent>> /\ Fixed

\* tear_down and finish; a scratch that stays is an alert.
TearsDown(p) ==
    /\ Ready(p, "close")
    /\ \/ scratchDirs' = {d \in scratchDirs : d.run # prober[p].run} /\ UNCHANGED probeCount
       \/ scratchDirs' = scratchDirs /\ Mishap
    /\ To(p, [prober[p] EXCEPT !.at = "finish", !.then = "idle", !.todo =
                 <<<<"runs", Row("finish", prober[p].run, probeTime, IF prober[p].stopped = "aborted" THEN 0 ELSE 1)>>>>])
    /\ UNCHANGED <<rec, spoilt, spent>> /\ Fixed

-----------------------------------------------------------------------------
(* Draws and plants (paired.rs), under the record's lock.                  *)

TakesRecord(p) ==
    /\ prober[p].at = "idle" /\ probeCount.commands < study.commands
    /\ recordLock = "none" /\ recordLock' = p
    /\ ~Broken(rec["facts"].lines)
    /\ probeCount' = [probeCount EXCEPT !.commands = @ + 1]
    /\ UNCHANGED <<hostLock, rec, scratchDirs, spoilt, spent>> /\ Fixed
Writes(p, row) ==
    prober' = [prober EXCEPT ![p] = [Outside EXCEPT !.at = "command", !.todo = <<<<"facts", row>>>>]]

\* draw: a pair no fact ever used.
DrawsFact(p) ==
    /\ TakesRecord(p)
    /\ Cardinality(InFlight(probeTime)) < study.active
    /\ \E pair \in (1..study.pairs) \ {d.n : d \in Draws} :
          Writes(p, Row("draw", probeCount.commands + 1, probeTime, pair))

\* plant: the owner said it at some time since the draw.
Plantable(d) == PlantOf(d.of) = {} /\ ActiveFact(d, probeTime)
PlantsFact(p) ==
    /\ TakesRecord(p)
    /\ \E d \in {x \in Draws : Plantable(x)} : \E said \in d.at..probeTime :
          Writes(p, Row("plant", d.of, probeTime, said))

-----------------------------------------------------------------------------
(* RowLands, one at a time, and how they and the processes fail.            *)

RowLands(p) ==
    /\ prober[p].todo # <<>>
    /\ LET s == Head(prober[p].todo)[1]
           left == Tail(prober[p].todo)
       IN  /\ rec' = [rec EXCEPT ![s] = Added(@, Head(prober[p].todo)[2], TRUE)]
           /\ IF left # <<>> THEN To(p, [prober[p] EXCEPT !.todo = left])
              ELSE IF prober[p].then = "idle" THEN Leaves(p)
              ELSE To(p, [prober[p] EXCEPT !.todo = <<>>, !.at = prober[p].then,
                          !.asks = IF prober[p].at = "asked" THEN Tail(@) ELSE @])
    /\ UNCHANGED <<scratchDirs, probeCount, spoilt, spent>> /\ Fixed

\* Once the planted side was answered and until the ask is on record.
Exposed(p) ==
    prober[p].at \in {"planted", "later", "asked"} /\ prober[p].asks # <<>>
    /\ (prober[p].at = "planted" => prober[p].todo # <<>>)
Spoils(p) ==
    LET ask == Head(prober[p].asks)
    IN  spoilt' = IF Exposed(p) THEN spoilt \cup {<<ask.fact, ask.offset>>} ELSE spoilt

Leftover(p) ==
    IF prober[p].todo = <<>> THEN UNCHANGED rec
    ELSE \E f \in Remains(rec[Head(prober[p].todo)[1]], Head(prober[p].todo)[2]) :
            rec' = [rec EXCEPT ![Head(prober[p].todo)[1]] = f]

\* A turn of the CLI of which no row is left.
Unpaid(p) ==
    LET lost == /\ prober[p].todo # <<>> /\ Head(prober[p].todo)[1] = "budget"
                /\ Verified(rec'["budget"].lines) = Verified(rec["budget"].lines)
    IN  spent' = IF lost THEN [spent EXCEPT ![WeekOf(Head(prober[p].todo)[2].at)].unpaid = @ + 1] ELSE spent

\* An error ends a command, or a run that has no start row or is writing
\* its finish; else it stops the run, which still records an ask of which
\* the planted side was answered.
AppendFails(p) ==
    /\ prober[p].todo # <<>> /\ Mishap /\ Leftover(p) /\ Unpaid(p)
    /\ LET r == [prober[p] EXCEPT !.todo = <<>>]
       IN  \/ /\ r.at = "later" /\ To(p, Stopped(r)) /\ UNCHANGED <<scratchDirs, spoilt>>
           \/ /\ r.at \in {"sets", "planted", "asked"} /\ To(p, [Stopped(r) EXCEPT !.at = "close"])
              /\ Spoils(p) /\ UNCHANGED scratchDirs
           \/ /\ r.at \in {"starts", "finish", "command"} /\ Leaves(p)
              /\ scratchDirs' = IF r.at = "starts" THEN {d \in scratchDirs : d.run # r.run} ELSE scratchDirs
              /\ UNCHANGED spoilt
    /\ Fixed

ProberDies(p) ==
    /\ prober[p].at # "idle" /\ Mishap /\ Leftover(p) /\ Unpaid(p) /\ Leaves(p) /\ Spoils(p)
    /\ UNCHANGED scratchDirs /\ Fixed

-----------------------------------------------------------------------------
(* The world, and the specification.                                       *)

\* From the launch to the second look at the gate is less than a tick: the
\* wait for the host lock is bounded.
ProbeTick ==
    /\ probeTime < study.ticks
    /\ \A p \in Probers : prober[p].at \in {"waits", "plans"} => prober[p].launched = probeTime
    /\ probeTime' = probeTime + 1
    /\ UNCHANGED <<study, prober, hostLock, recordLock, rec, scratchDirs, probeCount, spoilt, spent>>
OthersRun ==
    /\ study.others /\ hostLock \in {"none", "other"}
    /\ hostLock' = IF hostLock = "none" THEN "other" ELSE "none"
    /\ UNCHANGED <<study, probeTime, prober, recordLock, rec, scratchDirs, probeCount, spoilt, spent>>

RunSteps(p) ==
    \/ TakesLocks(p) \/ WaitsNoMore(p) \/ Plans(p) \/ TakesGraph(p) \/ AsksSet(p) \/ SetsDone(p)
    \/ AsksPlanted(p) \/ AsksLater(p) \/ RecordsAsked(p) \/ FactsDone(p) \/ TearsDown(p) \/ RowLands(p)
ProbeNext ==
    \/ ProbeTick \/ OthersRun
    \/ \E p \in Probers :
          \/ Launches(p) \/ DrawsFact(p) \/ PlantsFact(p) \/ AppendFails(p) \/ ProberDies(p) \/ RunSteps(p)
ProbeSpec == ProbeInit /\ [][ProbeNext]_probeVars

-----------------------------------------------------------------------------
(* Properties.                                                             *)

ProbePoints == {"idle", "waits", "plans", "starts", "graph", "sets", "planted", "later", "asked",
                "close", "finish", "command"}

Running(p) == prober[p].at \notin {"idle", "waits", "command"}

\* Every variable holds a value of its kind; a run holds both locks, to its
\* end, and a command that of the record (run.rs, Plan keeps them).
ProbeTypeOK ==
    /\ study \in StudyConfigs /\ probeTime \in 0..study.ticks
    /\ \A p \in Probers : Running(p) => hostLock = p /\ recordLock = p
    /\ \A p \in Probers : prober[p].at = "command" => recordLock = p
    /\ \A p \in Probers : prober[p].at \in ProbePoints /\ prober[p].stopped \in {"no", "partial", "aborted"}
    /\ hostLock \in Probers \cup {"none", "other"} /\ recordLock \in Probers \cup {"none"}
    /\ \A s \in ProbeStreams : rec[s].unended \in BOOLEAN
    /\ \A d \in scratchDirs : d.run \in 1..study.runs /\ d.at \in 0..study.ticks

\* In no week does the CLI run more turns than the weekly bound and those
\* whose row a failed append or a death took, by runs that began in the week
\* before too; so the budget is passed by one turn a fault at most (run.rs:
\* the gate is asked again under the host lock, and a turn is counted only
\* after it; record_budget).
WeekIsCapped == \A w \in DOMAIN spent : spent[w].turns <= study.weekly + spent[w].unpaid

\* Whatever was cut off, no row stands on a line that does not count, and
\* every row whose append returned is read back (record.rs: append ends an
\* unended line, and chains to the last row that counts).
RecordIsWhole ==
    \A s \in ProbeStreams :
        LET lines == rec[s].lines
        IN  ~Broken(lines) /\ \A i \in DOMAIN lines : lines[i].told => i \in Verified(lines)

\* An offset of a fact is answered once for the planted side, except where
\* the run was cut off between that answer and the row that says so
\* (run/paired_turns.rs records the ask also of a stopped run).
PlantedCountedOnce ==
    LET answers == {i \in Verified(rec["items"].lines) : TRUE}
        which(i) == <<rec["items"].lines[i].row.of, rec["items"].lines[i].row.n>>
    IN  \A i, j \in answers : which(i) = which(j) => i = j \/ which(i) \in spoilt

\* No pair is drawn twice, and no more facts are in flight than may be,
\* with commands side by side (paired.rs, under the record's lock).
PairsUsedOnce ==
    /\ \A d, e \in Draws : d.n = e.n => d.of = e.of
    /\ Cardinality(InFlight(probeTime)) <= study.active

\* A run that is under way has its scratch (scratch.rs: the sweep is skipped
\* while the host lock is held).
NoLiveSwept ==
    \A p \in Probers : Running(p) /\ prober[p].at \notin {"plans", "finish"} =>
        \E d \in scratchDirs : d.run = prober[p].run

\* No two scheduled runs that count passed the gate on one day
\* (schedule.rs:8, "a run already finished today").
ScheduledOncePerDay == \A r, q \in Counted : r.n > 0 /\ r.n = q.n => r.of = q.of

\* What a probe's record promises, with runs side by side, faults and
\* restarts: the budget of the week, whole rows, each planted fact and pair
\* counted once, and no scratch swept from under a run (run.rs, record.rs,
\* scratch.rs, schedule.rs).
ProbesHold ==
    /\ ProbeTypeOK /\ WeekIsCapped /\ ScheduledOncePerDay /\ NoLiveSwept
    /\ RecordIsWhole /\ PlantedCountedOnce /\ PairsUsedOnce

-----------------------------------------------------------------------------
(* What a document says and the code does not do.                          *)

\* The weekly budget is one of "model turns per Monday-to-Sunday week", and
\* "a run that would exceed either is refused before it starts"
\* (docs/methods/probe-runner.md:373).
TurnsAreCapped == \A w \in DOMAIN spent : spent[w].turns <= study.weekly
=============================================================================
