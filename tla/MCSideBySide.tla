---------------------------- MODULE MCSideBySide ----------------------------
(***************************************************************************)
(* Machines that share no state, for TLC: one of them runs, at the         *)
(* choice of the start, and the others stay at their beginning.  The       *)
(* states are those of each, one after the other, and not their product.   *)
(***************************************************************************)
EXTENDS TurnRunner, TaskHealth, Tension, MarkerRefusals, Outreach, PeerDialogue,
        TurnStream, LedgerFeed, Farm, ChannelLanes

VARIABLE machine

CONSTANTS t1, t2, t3, a1, c1, c2, w1, g1, g2, p, q1, q2, n1, n2,
          f1, f2, b1, b2, b3, d1, d2,
          Machines      \* those of them that may be chosen

\* TaskHealth: a task that flaps and a process that restarts; or one failure
\* to alert, and nothing succeeding for long.
HealthConfigs ==
    {[threshold |-> 2, window |-> 2, samples |-> 2, floor |-> 60, silence |-> FALSE, restarts |-> 1],
     [threshold |-> 1, window |-> 1, samples |-> 2, floor |-> 60, silence |-> TRUE, restarts |-> 0]}

\* Tension: two cycles side by side; three threads over a cap of one and a
\* damaged file; a threshold, and a provider that reports its tools; and
\* what a pulse without a gated task has.
NoCycles ==
    [cap |-> 1, credit |-> 1, threshold |-> 0, ceiling |-> 0, actors |-> {},
     tools |-> FALSE, markers |-> 1, threads |-> 0, breaks |-> 0]
PulseConfigs ==
    {NoCycles,
     [NoCycles EXCEPT !.ceiling = 1, !.actors = {c1, c2}, !.threads = 2],
     [NoCycles EXCEPT !.actors = {c1}, !.threads = 3, !.breaks = 1],
     [NoCycles EXCEPT !.actors = {c1}, !.threshold = 1, !.ceiling = 2, !.tools = TRUE,
                      !.threads = 2]}

\* Outreach: a cap that halves to nothing, and one that halves to one.
PolicyConfigs == {[cap |-> 1, window |-> 2, floor |-> 50], [cap |-> 2, window |-> 2, floor |-> 100]}

\* PeerDialogue: a watcher and a request to pause; two requests that cross;
\* two dialogues, started side by side; isolation under a watcher.
Talk(d, w, h, toggle, isolate) ==
    [turns |-> 2 \div d, dialogues |-> d, watchers |-> w, handlers |-> h,
     toggles |-> toggle, isolates |-> isolate]
TalkConfigs == {Talk(1, {w1}, {g1}, 2, 0), Talk(1, {}, {g1, g2}, 2, 0),
                Talk(2, {}, {g1, g2}, 0, 1), Talk(1, {w1}, {g1}, 1, 1)}

\* TurnStream: a provider without boundaries and with; a voice that keeps
\* unsettled speech, of either provider, an owner's call among them.
Stream(voice, bounds, fallback, cap, rounds, text) ==
    [voice |-> voice, bounds |-> bounds, fallback |-> fallback,
     cap |-> cap, rounds |-> rounds, text |-> text]
ReplyConfigs ==
    {Stream(FALSE, FALSE, FALSE, 0, 1, 1), Stream(FALSE, FALSE, TRUE, 0, 0, 2),
     Stream(FALSE, TRUE, FALSE, 0, 0, 2), Stream(TRUE, FALSE, TRUE, 2, 1, 1),
     Stream(TRUE, TRUE, FALSE, 2, 0, 3)}

\* LedgerFeed: rows that overrun a ring, a channel and the bus; a restart;
\* two clients.
Feed(ringSize, live, busSize, clients, events, drops, boots) ==
    [ring |-> ringSize, live |-> live, bus |-> busSize, clients |-> clients,
     events |-> events, drops |-> drops, boots |-> boots]
RowConfigs == {Feed(1, 1, 1, {f1}, 5, 1, 1), Feed(2, 1, 2, {f1}, 3, 1, 2), Feed(2, 1, 1, {f1, f2}, 3, 0, 1)}

\* Farm: one clock tick is one subtask ttl.
FarmTtlOf == [s \in Resources |-> SubtaskTtl]
FarmTenureOf == [f \in Farms |-> 1]
FarmHolders == {1} \X (1..MaxAttempts)

\* ChannelLanes: two channels over one slot and a worker that panics; a link
\* that is restarted.
DiscordMessages == {<<d1, 1>>, <<d1, 2>>, <<d2, 3>>}
Chat(slots, admits, panics, links) ==
    [window |-> 1, slots |-> slots, admits |-> admits, panics |-> panics, links |-> links]
ChatConfigs == {Chat(1, 3, 1, 1), Chat(2, 2, 0, 2)}

\* Smaller ones, for what must happen in the end.
OneHealth == {[threshold |-> 1, window |-> 1, samples |-> 2, floor |-> 60, silence |-> FALSE, restarts |-> 1]}
OnePulse == {NoCycles, [NoCycles EXCEPT !.ceiling = 1, !.actors = {c1}, !.threads = 1]}
OnePolicy == {[cap |-> 1, window |-> 1, floor |-> 50]}
OneTalk == {[Talk(1, {w1}, {g1}, 1, 0) EXCEPT !.turns = 1]}
OneReply == {Stream(FALSE, TRUE, FALSE, 0, 0, 1)}
OneChat == {Chat(1, 2, 0, 1)}
FewRows == {Feed(1, 1, 1, {f1}, 3, 1, 1), Feed(1, 1, 1, {f1}, 2, 0, 2)}

Runs(name) == machine = name
Pinned(name, at, set) == ~Runs(name) => at = CHOOSE x \in set : TRUE
SideInit ==
    /\ machine \in Machines
    /\ Init /\ HealthInit /\ TensionInit /\ RefusalsInit /\ OutreachInit /\ DialogueInit
    /\ StreamInit /\ FeedInit /\ FarmInit /\ LanesInit
    /\ Pinned("health", config, Configs) /\ Pinned("tension", law, {NoCycles})
    /\ Pinned("outreach", policy, OutreachConfigs) /\ Pinned("comms", talk, CommsConfigs)
    /\ Pinned("stream", stream, StreamConfigs) /\ Pinned("feed", feed, FeedConfigs)
    /\ Pinned("lanes", chatLaw, LaneConfigs)

Rests(name, itsVars) == IF Runs(name) THEN TRUE ELSE UNCHANGED itsVars
OthersRest ==
    /\ UNCHANGED machine
    /\ Rests("turns", vars) /\ Rests("health", healthVars) /\ Rests("tension", tensionVars)
    /\ Rests("refusals", refusalVars) /\ Rests("outreach", outreachVars)
    /\ Rests("comms", dialogueVars) /\ Rests("stream", streamVars) /\ Rests("feed", feedVars)
    /\ Rests("farm", farmingVars) /\ Rests("lanes", lanesVars)

SideNext ==
    \/ Runs("turns") /\ Next /\ OthersRest
    \/ Runs("health") /\ HealthNext /\ OthersRest
    \/ Runs("tension") /\ TensionNext /\ OthersRest
    \/ Runs("refusals") /\ RefusalsNext /\ OthersRest
    \/ Runs("outreach") /\ OutreachNext /\ OthersRest
    \/ Runs("comms") /\ DialogueNext /\ OthersRest
    \/ Runs("stream") /\ StreamNext /\ OthersRest
    \/ Runs("feed") /\ FeedNext /\ OthersRest
    \/ Runs("farm") /\ FarmNext /\ OthersRest
    \/ Runs("lanes") /\ LanesNext /\ OthersRest

sideVars ==
    <<machine, vars, healthVars, tensionVars, refusalVars, outreachVars, dialogueVars,
      streamVars, feedVars, farmingVars, lanesVars>>
SideSpec == SideInit /\ [][SideNext]_sideVars

FairSideSpec ==
    /\ SideSpec
    \* TurnFairness, for the machine that runs, and so on
    /\ \A t \in Turns : WF_vars(Runs("turns") /\ Own(t))
    /\ WF_vars(Runs("turns") /\ DrainArm) /\ WF_vars(Runs("turns") /\ DrainLook)
    /\ WF_vars(Runs("turns") /\ \E what \in announce : Announce(what))
    \* HealthFairness
    /\ WF_healthVars(Runs("health") /\ WatchdogTick)
    /\ \A x \in Subjects :
          /\ WF_healthVars(Runs("health") /\ WatchdogDecides(x))
          /\ WF_healthVars(Runs("health") /\ BackoffOver(x))
          /\ SF_healthVars(Runs("health") /\ act[Watchdog].on = x /\ Deliver(Watchdog))
    /\ WF_healthVars(Runs("health") /\ MarkDelivered(Watchdog))
    /\ WF_healthVars(Runs("health") /\ (Deliver(Watchdog) \/ DeliveryFails(Watchdog)))
    \* TensionFairness
    /\ WF_tensionVars(Runs("tension") /\ Tick) /\ WF_tensionVars(Runs("tension") /\ PeriodPasses)
    /\ \A c \in Gated : /\ WF_tensionVars(Runs("tension") /\ StartCycle(c))
                        /\ WF_tensionVars(Runs("tension") /\ OpenCycle(c))
                        /\ WF_tensionVars(Runs("tension") /\ (CycleFails(c) \/ CloseCycle(c)))
    \* RefusalsFairness
    /\ \A t \in NoticeTurns : /\ WF_refusalVars(Runs("refusals") /\ BeginTurn(t))
                              /\ SF_refusalVars(Runs("refusals") /\ Acknowledge(t))
                              /\ WF_refusalVars(Runs("refusals") /\ EndTurn(t, FALSE))
    \* OutreachFairness
    /\ WF_outreachVars(Runs("outreach") /\ \E passes \in BOOLEAN : Admit(Finding, passes))
    /\ SF_outreachVars(Runs("outreach") /\ Tell)
    /\ WF_outreachVars(Runs("outreach") /\ (Tell \/ TellFails))
    /\ WF_outreachVars(Runs("outreach") /\ MarkAnnounced)
    \* DialogueFairness
    /\ \A d \in Dialogues : WF_dialogueVars(Runs("comms") /\ TaskSteps(d))
    /\ \A w \in CommsWatchers : WF_dialogueVars(Runs("comms") /\ (Receive(w) \/ CatchUp(w)))
    \* StreamFairness and FeedFairness
    /\ WF_streamVars(Runs("stream") /\ ReaderSteps)
    /\ WF_feedVars(Runs("feed") /\ ProjectorSteps)
    /\ \A c \in FeedClients : WF_feedVars(Runs("feed") /\ StreamSteps(c))
    \* FarmFairness
    /\ \A f \in Farms : WF_farmingVars(Runs("farm") /\ FinishFarm(f))
    /\ \A c \in Controllers : /\ WF_farmingVars(Runs("farm") /\ Controller(c))
                              /\ WF_farmingVars(Runs("farm") /\ AbortLands(c))
    /\ \A k \in Children : /\ WF_farmingVars(Runs("farm") /\ Commit(k))
                           /\ WF_farmingVars(Runs("farm") /\ AbortLands(k))
    /\ WF_farmingVars(Runs("farm") /\ FarmTick)
    \* LanesFairness
    /\ \A i \in 1..2 : WF_lanesVars(Runs("lanes") /\ i \in DOMAIN workers /\ WorkerSteps(i))

\* What somebody waits to hear is heard in the end: the streak of a task, the
\* refusal of a marker, a tightened cap, the events of the ledger, the end of
\* a dialogue, and what a reply withdraws.
NewsIsTold ==
    /\ StreakTold /\ RefusalsTold /\ NoSilentDeath
    /\ FollowersCatchUp /\ WatchersEnd /\ NothingWaitsForTheModel

\* What is begun ends, and what waits to begin does, by the clocks of the
\* code alone: a farm whose children stall, the lanes of a link that stops,
\* a thread nobody works on, a pulse that no gate lets through.
WorkGoesOn == FarmsEnd /\ LanesEnd /\ UntouchedGetsLoud /\ PulseWakes
=============================================================================
