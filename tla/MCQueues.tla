------------------------------ MODULE MCQueues ------------------------------
(***************************************************************************)
(* The queue of intents, the queue of archives to extract and the reply of *)
(* an agent CLI, for TLC: they share no state, and one of them runs, at    *)
(* the choice of the start, while the others stay at their beginning.      *)
(***************************************************************************)
EXTENDS IntentQueue, Extraction, CliReply, TLC

VARIABLE machine

CONSTANTS a, b, c, listener,
          Machines      \* those of them that may be chosen

TtlOfDef == [i \in Resources |-> 2]
DescOfDef == [i \in Resources |-> IF i = c THEN "look up" ELSE "check in"]
PriorityOfDef == [i \in Resources |-> IF i = c THEN 1 ELSE 2]
TenuresDef == 1..MaxTenure
Alike == Permutations({a, b})

\* Extraction: a queue of one that fills, one whose worker panics and which
\* the backlog of a boot joins; attempts that overspend the budget, over
\* midnight, an end of the process and a failed write.
Extractor(queued, cost, logs, days, boots, panics, faults) ==
    [queued |-> queued, limit |-> 2, costs |-> {cost}, logs |-> logs, days |-> days,
     boots |-> boots, panics |-> panics, faults |-> faults]
ExtractorConfigs ==
    {Extractor(1, 0, 4, 1, 1, 0, 0), Extractor(1, 0, 3, 1, 2, 1, 0), Extractor(2, 2, 3, 2, 2, 0, 0),
     Extractor(2, 2, 3, 2, 1, 0, 1), Extractor(2, 2, 2, 2, 2, 0, 1)}
\* CliReply: every kind of CLI, and replies of up to three messages.
AText == "text"
ACall == "tool"
Replies ==
    {<<<<AText, ACall>>, <<AText>>>>, <<<<ACall>>, <<AText, AText>>>>, <<<<AText>>, <<AText, ACall>>>>,
     <<<<AText>>, <<AText, AText>>>>, <<<<AText, AText, ACall>>, <<ACall>>, <<AText>>>>}
ReplyClis == [deltas : BOOLEAN, ids : BOOLEAN, terminal : BOOLEAN, script : Replies]

Runs(name) == machine = name
Pinned(name, at, set) == ~Runs(name) => at = CHOOSE x \in set : TRUE
QueuesInit ==
    /\ machine \in Machines
    /\ Init /\ ExtractInit /\ CliInit
    /\ Pinned("extract", extractLaw, ExtractConfigs) /\ Pinned("cli", cliLaw, CliConfigs)

Rests(name, itsVars) == IF Runs(name) THEN TRUE ELSE UNCHANGED itsVars
OthersRest ==
    /\ UNCHANGED machine
    /\ Rests("intents", vars) /\ Rests("extract", extractVars) /\ Rests("cli", cliVars)

QueuesNext ==
    \/ Runs("intents") /\ Next /\ OthersRest
    \/ Runs("extract") /\ ExtractNext /\ OthersRest
    \/ Runs("cli") /\ CliNext /\ OthersRest

QueuesSpec == QueuesInit /\ [][QueuesNext]_<<machine, vars, extractVars, cliVars>>
=============================================================================
