------------------------------- MODULE Tension -------------------------------
(***************************************************************************)
(* The tension store: threads whose pressure rises while nobody works on   *)
(* them (tension/mod.rs), the markers of a cycle's output that open, work  *)
(* and resolve them against evidence (tension/ingest.rs), the cycles that  *)
(* open and close around a call to the model (scheduler/tension_cycle.rs), *)
(* the tick loop, and the gate that lets a task fire (evaluator.rs).       *)
(*                                                                         *)
(* Every change is a locked read, change and rename of one file, so one    *)
(* step.  Cycles of task loops and of the intent drain overlap.  A file    *)
(* that does not parse is set aside by the next change, which is lost.     *)
(*                                                                         *)
(* Pressure is a small number; the age of a thread counts periods up to    *)
(* Half, where its weight doubles.  A label stands for its origin.  The    *)
(* statistics of the store, mentions, the notice of refused markers and    *)
(* what an alert says are left out.                                        *)
(***************************************************************************)
EXTENDS Integers, SequencesExt

CONSTANTS
    PulseCycles,     \* actors that run cycles
    Gated,           \* those whose task has the salience evaluator
    Predictions,     \* prediction errors on record, above the surprise threshold
    Questions,       \* what a marker may open a thread for
    MaxThreads,      \* bound: threads ever in the file
    Half,            \* periods untouched that double a thread's weight
    TensionConfigs   \* the configurations explored

ASSUME TensionAssumption ==
    /\ Gated \subseteq PulseCycles /\ Predictions \cap Questions = {}
    /\ Half \in Nat \ {0}
    /\ TensionConfigs \subseteq
         [cap : Nat,          \* max_live_threads
          credit : Nat,       \* work_credit
          threshold : Nat,    \* cycle_threshold
          ceiling : Nat,      \* MAX_TENSION
          actors : SUBSET PulseCycles,
          tools : BOOLEAN,    \* provider_reports_tool_rounds
          markers : 1..2,     \* bound: markers in an output
          threads : 0..MaxThreads,
          breaks : Nat]       \* bound: files damaged

VARIABLES
    law,         \* the configuration, fixed
    threads,     \* the threads, tombstones included
    triage,      \* the outstanding demand
    periods,     \* tick periods since the last tick (MAX_TICKS_PER_UPDATE is 1 here)
    overdue,     \* no cycle recorded within the floor interval
    broken,      \* the file does not parse
    breaks,
    cyc          \* cyc[c]: where a cycle is, and the evidence it can show

tensionVars == <<law, threads, triage, periods, overdue, broken, breaks, cyc>>

NoTriage == [live |-> 0, candidate |-> 0]
NoCycle == [at |-> "idle", moved |-> FALSE, ran |-> FALSE]

TensionInit ==
    /\ law \in TensionConfigs
    /\ threads = <<>> /\ triage = NoTriage
    /\ periods = 1               \* the first tick counts as one
    /\ overdue = TRUE            \* no cycle was ever recorded
    /\ broken = FALSE /\ breaks = 0
    /\ cyc = [c \in PulseCycles |-> NoCycle]

Live(ts) == {i \in DOMAIN ts : ts[i].live}
AtLeast(a, b) == IF a > b THEN a ELSE b
AtMost(a, b) == IF a < b THEN a ELSE b

-----------------------------------------------------------------------------
(* The store: s is its threads and its triage.                             *)

\* The live thread with the least pressure, the oldest of equals.
Calmest(ts) ==
    CHOOSE i \in Live(ts) : \A j \in Live(ts) :
        ts[i].tension < ts[j].tension \/ (ts[i].tension = ts[j].tension /\ i <= j)

RaiseTriage(ts) == [live |-> Cardinality(Live(ts)), candidate |-> Calmest(ts)]
OverCap(ts) == Cardinality(Live(ts)) > law.cap

\* open: a live thread of that origin is only mentioned again.
Opened(s, origin) ==
    IF \E i \in Live(s.threads) : s.threads[i].origin = origin THEN s
    ELSE LET ts == Append(s.threads, [origin |-> origin, live |-> TRUE, tension |-> 0,
                                      age |-> 0, worked |-> FALSE])
         IN  [threads |-> ts, triage |-> IF OverCap(ts) THEN RaiseTriage(ts) ELSE s.triage]

\* credit_work: once per thread for each value of the cycle counter (worked
\* says that last_worked_cycle is its present value).
Credited(s, i) ==
    IF i \notin Live(s.threads) \/ s.threads[i].worked THEN s
    ELSE [s EXCEPT !.threads[i] = [@ EXCEPT !.tension = AtLeast(0, @ - law.credit),
                                            !.age = 0, !.worked = TRUE]]

\* resolve: a demand that survives is taken again.
Resolved(s, i) ==
    IF i \notin Live(s.threads) THEN s
    ELSE LET ts == [s.threads EXCEPT ![i].live = FALSE]
         IN  [threads |-> ts, triage |-> IF s.triage = NoTriage \/ ~OverCap(ts) THEN NoTriage
                                         ELSE RaiseTriage(ts)]

\* ingest_prediction_errors looks at tombstones too.
Ingested(s) ==
    FoldSet(LAMBDA p, acc :
                IF \E i \in DOMAIN acc.threads : acc.threads[i].origin = p THEN acc
                ELSE Opened(acc, p),
            s, Predictions)

\* verify: a file outside the journal that moved since the cycle began, no
\* matter by whom, or a tool that ran in it.
Verified_Existing(c, claim) ==   \* mutant: a file need only exist
    claim = "file" \/ (claim = "tool" /\ cyc[c].ran)
Verified(c, claim) == (claim = "file" /\ cyc[c].moved) \/ (claim = "tool" /\ cyc[c].ran)

\* The markers an output may hold, and what they do to the store.  A claim
\* that is refused does nothing; dissolving and abandoning need a reason only.
Claims == IF law.tools THEN {"file", "tool"} ELSE {"file"}
Markers ==
    [what : {"open"}, on : Questions, claim : {"none"}]
        \cup [what : {"work"}, on : 1..law.threads, claim : Claims]
        \cup [what : {"answer"}, on : 1..law.threads, claim : Claims]
        \cup [what : {"abandon"}, on : 1..law.threads, claim : {"none"}]
Outputs == {{}} \cup IF law.markers = 1 THEN {{k} : k \in Markers} ELSE {{k, l} : k, l \in Markers}

\* apply_cycle: opens, then work, then resolutions, then prediction errors.
ApplyCycle(c, out, s) ==
    LET of(what) == {k \in out : k.what = what}
        opened == FoldSet(LAMBDA k, acc : Opened(acc, k.on), s, of("open"))
        worked == FoldSet(LAMBDA k, acc : IF Verified(c, k.claim) THEN Credited(acc, k.on) ELSE acc,
                          opened, of("work"))
        closed == FoldSet(LAMBDA k, acc : IF k.what = "abandon" \/ Verified(c, k.claim)
                                          THEN Resolved(acc, k.on) ELSE acc,
                          worked, of("answer") \cup of("abandon"))
    IN  Ingested(closed)

-----------------------------------------------------------------------------
(* The actors.                                                             *)

\* save_delta on a file that does not parse: it is set aside, the change lost.
Quarantine ==
    /\ threads' = <<>> /\ triage' = NoTriage
    /\ periods' = 1 /\ overdue' = TRUE
    /\ broken' = FALSE

\* 2^(hours_untouched / half): a thread nobody works on gets louder faster.
AgeWeight(age) == IF age >= Half THEN 2 ELSE 1

Tick ==
    /\ UNCHANGED <<law, breaks, cyc>>
    /\ IF broken THEN Quarantine
       ELSE /\ threads' = [i \in DOMAIN threads |->
                 IF threads[i].live
                 THEN [threads[i] EXCEPT !.tension =
                         AtMost(law.ceiling, @ + AgeWeight(threads[i].age) * periods)]
                 ELSE threads[i]]
            /\ periods' = 0
            /\ UNCHANGED <<triage, overdue, broken>>

\* Time: a period of the tick passes, or the floor interval.
PeriodPasses ==
    /\ periods' = 1
    /\ threads' = [i \in DOMAIN threads |-> IF threads[i].live
                     THEN [threads[i] EXCEPT !.age = AtMost(Half, @ + 1)] ELSE threads[i]]
    /\ UNCHANGED <<law, triage, overdue, broken, breaks, cyc>>

FloorPasses ==
    /\ ~overdue /\ overdue' = TRUE
    /\ UNCHANGED <<law, threads, triage, periods, broken, breaks, cyc>>

\* evaluate_salience, while vigil reports no decline.  A file that does not
\* parse reads as an empty store.
Salient == \/ broken \/ overdue
           \/ \E i \in Live(threads) : threads[i].tension > law.threshold

\* The prompt is built and started_at taken, after the gate where there is one.
StartCycle(c) ==
    /\ c \in law.actors /\ cyc[c].at = "idle"
    /\ c \in Gated => Salient
    /\ cyc' = [cyc EXCEPT ![c] = [NoCycle EXCEPT !.at = "prompted"]]
    /\ UNCHANGED <<law, threads, triage, periods, overdue, broken, breaks>>

\* open_cycle: the counter moves, last_cycle_at is now.
OpenCycle(c) ==
    /\ cyc[c].at = "prompted"
    /\ cyc' = [cyc EXCEPT ![c].at = "calling"]
    /\ UNCHANGED <<law, breaks>>
    /\ IF broken THEN Quarantine
       ELSE /\ overdue' = FALSE
            /\ threads' = [i \in DOMAIN threads |-> [threads[i] EXCEPT !.worked = FALSE]]
            /\ UNCHANGED <<triage, periods, broken>>

\* A file of the pulse is written, by a cycle or by anybody else; a tool runs.
FileMoves ==
    /\ cyc' = [c \in PulseCycles |-> IF cyc[c].at = "idle" THEN cyc[c]
                                     ELSE [cyc[c] EXCEPT !.moved = TRUE]]
    /\ UNCHANGED <<law, threads, triage, periods, overdue, broken, breaks>>

ToolRuns(c) ==
    /\ cyc[c].at = "calling" /\ law.tools
    /\ cyc' = [cyc EXCEPT ![c].ran = TRUE]
    /\ UNCHANGED <<law, threads, triage, periods, overdue, broken, breaks>>

\* The call fails: the cycle is never closed.
CycleFails(c) ==
    /\ cyc[c].at = "calling"
    /\ cyc' = [cyc EXCEPT ![c] = NoCycle]
    /\ UNCHANGED <<law, threads, triage, periods, overdue, broken, breaks>>

CloseCycle(c) ==
    /\ cyc[c].at = "calling"
    /\ cyc' = [cyc EXCEPT ![c] = NoCycle]
    /\ UNCHANGED <<law, breaks>>
    /\ IF broken THEN Quarantine
       ELSE /\ \E out \in Outputs :
                 LET s == ApplyCycle(c, out, [threads |-> threads, triage |-> triage])
                 IN  /\ Len(s.threads) <= law.threads
                     /\ threads' = s.threads /\ triage' = s.triage
            /\ UNCHANGED <<periods, overdue, broken>>

FileBreaks ==
    /\ breaks < law.breaks /\ breaks' = breaks + 1
    /\ broken' = TRUE
    /\ UNCHANGED <<law, threads, triage, periods, overdue, cyc>>

TensionNext ==
    \/ Tick \/ PeriodPasses \/ FloorPasses \/ FileMoves \/ FileBreaks
    \/ \E c \in PulseCycles : StartCycle(c) \/ OpenCycle(c) \/ ToolRuns(c)
                                \/ CycleFails(c) \/ CloseCycle(c)

\* Time passes, the tick loop goes on, and the loop of a gated task fires
\* when its gate lets it and gets through its cycle.
TensionFairness ==
    /\ WF_tensionVars(Tick) /\ WF_tensionVars(PeriodPasses)
    /\ \A c \in Gated : /\ WF_tensionVars(StartCycle(c))
                        /\ WF_tensionVars(OpenCycle(c))
                        /\ WF_tensionVars(CycleFails(c) \/ CloseCycle(c))

TensionSpec == TensionInit /\ [][TensionNext]_tensionVars /\ TensionFairness
-----------------------------------------------------------------------------
(* Properties.                                                             *)

\* Types of the store and the cycles.
TensionTypeOK ==
    /\ Len(threads) <= law.threads
    /\ \A i \in DOMAIN threads :
          /\ threads[i].origin \in Predictions \cup Questions
          /\ threads[i].tension \in 0..law.ceiling /\ threads[i].age \in 0..Half
          /\ threads[i].live \in BOOLEAN /\ threads[i].worked \in BOOLEAN
    /\ periods \in 0..1 /\ overdue \in BOOLEAN /\ broken \in BOOLEAN
    /\ \A c \in PulseCycles : cyc[c].at \in {"idle", "prompted", "calling"}

\* Only work lowers pressure: a thread that stays live and gets quieter does
\* so by one credit at most, and has a cycle closing in this step that could
\* show a file moved since it began, or a tool it ran; an answered one stays
\* answered (apply_markers, credit_work, WorkEvidence::verify).  A damaged
\* file is the exception.
Quieter(i) == threads[i].live /\ threads'[i].live /\ threads'[i].tension < threads[i].tension
DischargeNeedsWork ==
    [][\A i \in DOMAIN threads : ~broken /\ i \in DOMAIN threads' =>
          /\ Quieter(i) =>
                /\ threads'[i].tension >= threads[i].tension - law.credit
                /\ \E c \in PulseCycles : cyc[c].at = "calling" /\ cyc'[c].at = "idle"
                                          /\ (cyc[c].moved \/ cyc[c].ran)
          /\ threads[i].live = FALSE => threads'[i].live = FALSE]_tensionVars

\* A prediction error has one thread, whether it lives or was answered, so
\* what was answered never comes back (ingest_prediction_errors, open).
NoResurrection ==
    \A i, j \in DOMAIN threads :
        threads[i].origin = threads[j].origin /\ i # j =>
            threads[i].origin \in Questions /\ ~(threads[i].live /\ threads[j].live)

\* The demand for triage stands exactly while there are more live threads
\* than the cap, counts them right and offers a thread that can still be
\* retired (open, resolve, raise_triage).
TriageIsCurrent ==
    /\ triage # NoTriage <=> OverCap(threads)
    /\ triage # NoTriage => /\ triage.live = Cardinality(Live(threads))
                            /\ triage.candidate \in Live(threads)

\* What the tensions promise a pulse: the threads are the file's, a verdict
\* needs work, what was resolved stays so, and the demand for triage is the
\* one of now, for cycles that overlap and a file that breaks (open_cycle,
\* close_cycle, tick, load).
TensionHolds ==
    /\ [](TensionTypeOK /\ NoResurrection /\ TriageIsCurrent)
    /\ DischargeNeedsWork

\* A thread nobody works on gets as loud as can be in the end (tick,
\* age_weight): nothing but work or a verdict holds it down.
UntouchedGetsLoud ==
    \A i \in 1..MaxThreads :
        (i \in DOMAIN threads /\ threads[i].live /\ threads[i].age > 0)
          ~> \/ i \notin Live(threads) \/ threads[i].tension = law.ceiling
             \/ threads[i].age = 0

\* The gate cannot starve a pulse that has a gated task: when no cycle was
\* recorded for the floor interval, one is recorded in the end
\* (evaluate_salience, record_cycle).
PulseWakes == overdue /\ Gated \cap law.actors # {} ~> ~overdue
=============================================================================
