------------------------------- MODULE MCHost -------------------------------
(***************************************************************************)
(* What the processes of a host share, for TLC: the lease log, the pid     *)
(* file, the graph server and the anchors, and the ledger of guests.  They *)
(* share no state: one of them runs, at the choice of the start, and the   *)
(* others stay at their beginning.                                         *)
(***************************************************************************)
EXTENDS DurableLeases, Pidfile, GraphServer, Anchors, GuestBudget, TLC

VARIABLE machine

CONSTANTS task, h1, h2, p1, p2, k1, k2, s1, s2, d1, d2, d3, x1, x2,
          r1, r2, u1, u2, u3, a1, a2,
          Machines      \* those that may be chosen

TtlOfDef == [r \in Resources |-> 2]
Interchangeable == Permutations({h1, h2}) \cup Permutations({p1, p2})

\* Pidfile: two commands side by side; three processes over two pids and a
\* reboot.
Os(processes, commanders, reboots) ==
    [procs |-> processes, stoppers |-> commanders, reboots |-> reboots]
OsConfigs == {Os(2, {s1, s2}, 0), Os(3, {s1}, 0), Os(2, {s1}, 1)}

\* GraphServer: daemons one after the other; two of two pulses at once, or
\* of one.
Host(alone, twins, boots, failures) ==
    [alone |-> alone, twins |-> twins, boots |-> boots, faults |-> failures]
GraphConfigs ==
    {Host(TRUE, FALSE, 3, 2), Host(FALSE, FALSE, 2, 1), Host(FALSE, TRUE, 2, 0)}

\* Anchors: a month's file that two runs write; both backends side by side;
\* a torn local file under three runs.
Site(names, times, most, again, files, failures) ==
    [backends |-> names, runs |-> times, rows |-> most, rewrites |-> again,
     months |-> files, faults |-> failures]
SiteConfigs ==
    {Site({"github"}, 3, 2, 0, 2, 2), Site({"local", "github"}, 2, 2, 1, 1, 0),
     Site({"local"}, 3, 3, 1, 1, 1), Site({"local", "github"}, 2, 2, 0, 1, 2)}

\* GuestBudget: a daily cap; a cap per call with more callers than are
\* tracked; a bucket.
Caps(kind, daily, perCall, burst, tracked, callers, requests) ==
    [kind |-> kind, daily |-> daily, perCall |-> perCall, burst |-> burst, tracked |-> tracked,
     ticks |-> 3, day |-> 2, guests |-> callers, turns |-> requests]
CallerConfigs ==
    {Caps("call", 1, 0, 0, 3, {u1, u2}, 4), Caps("call", 0, 1, 0, 2, {u1, u2, u3}, 4),
     Caps("sender", 0, 0, 2, 1, {u1, u2}, 5)}

Runs(name) == machine = name
Pinned(name, at, set) == ~Runs(name) => at = CHOOSE x \in set : TRUE
HostInit ==
    /\ machine \in Machines
    /\ Init /\ PidfileInit /\ GraphInit /\ AnchorsInit /\ BudgetInit
    /\ Pinned("pidfile", os, PidfileConfigs) /\ Pinned("graph", host, HostConfigs)
    /\ Pinned("anchors", site, AnchorConfigs) /\ Pinned("budget", caps, BudgetConfigs)

Rests(name, itsVars) == IF Runs(name) THEN TRUE ELSE UNCHANGED itsVars
OthersRest ==
    /\ UNCHANGED machine
    /\ Rests("leases", vars) /\ Rests("pidfile", pidfileVars) /\ Rests("graph", graphVars)
    /\ Rests("anchors", anchorVars) /\ Rests("budget", budgetVars)

HostNext ==
    \/ Runs("leases") /\ Next /\ OthersRest
    \/ Runs("pidfile") /\ PidfileNext /\ OthersRest
    \/ Runs("graph") /\ GraphNext /\ OthersRest
    \/ Runs("anchors") /\ AnchorsNext /\ OthersRest
    \/ Runs("budget") /\ BudgetNext /\ OthersRest

hostVars == <<machine, vars, pidfileVars, graphVars, anchorVars, budgetVars>>
HostSpec == HostInit /\ [][HostNext]_hostVars
=============================================================================
