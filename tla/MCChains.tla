------------------------------ MODULE MCChains ------------------------------
(***************************************************************************)
(* The two records that are files of chained lines, for TLC: the receipts  *)
(* and the rows of probe runs.  They share no state: one of them runs, at  *)
(* the choice of the start, and the other stays at its beginning.          *)
(***************************************************************************)
EXTENDS Receipts, ProbeRuns, TLC

VARIABLE chain

CONSTANTS s1, s2, q1, q2,
          Chains        \* those that may be chosen

Interchangeable == Permutations(Streams) \cup Permutations(Probers)

\* ProbeRuns: a week's end with turns for one run, and a write cut off; asks
\* of one fact that fall due together; commands alone; the second run of a
\* fortnight, here of two days; another pulse's runs; an ask that may repeat.
\* Day 0 is weekday `day`, Monday is 0.
Study(cadence, day, weekly, sets, pairs, spans, other, most, times, orders, failures) ==
    [cadence |-> cadence, weekday |-> day, proDays |-> 2, weekly |-> weekly, perRun |-> weekly,
     sets |-> sets, sides |-> 2, pairs |-> pairs, active |-> 1, offsets |-> spans, plantDays |-> 1,
     others |-> other, ticks |-> most, runs |-> times, commands |-> orders, faults |-> failures]
ProbeConfigs ==
    {Study("max", 6, 1, 1, 0, {1}, FALSE, 3, 2, 0, 1), Study("pro", 0, 4, 0, 1, {1, 2}, FALSE, 6, 1, 2, 0),
     Study("max", 0, 1, 0, 2, {1}, FALSE, 6, 0, 4, 1), Study("pro", 0, 2, 1, 0, {1}, FALSE, 6, 2, 0, 0),
     Study("max", 0, 2, 1, 0, {1}, TRUE, 2, 2, 0, 0), Study("max", 5, 4, 0, 1, {1}, FALSE, 3, 2, 2, 1)}

ChainsInit ==
    /\ chain \in Chains
    /\ Init /\ ProbeInit
    /\ chain # "probes" => study = CHOOSE s \in StudyConfigs : TRUE
ChainsNext ==
    /\ UNCHANGED chain
    /\ \/ chain = "receipts" /\ Next /\ UNCHANGED probeVars
       \/ chain = "probes" /\ ProbeNext /\ UNCHANGED vars

ChainsSpec == ChainsInit /\ [][ChainsNext]_<<chain, vars, probeVars>>
=============================================================================
