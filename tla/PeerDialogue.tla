----------------------------- MODULE PeerDialogue -----------------------------
(***************************************************************************)
(* The dialogue with another pulse that a daemon may run (comms.rs): its   *)
(* task, the requests that start, pause, resume and stop it, the watchers  *)
(* that follow it over a stream (server/handlers/comms.rs), isolation and  *)
(* the daemon's shutdown.                                                  *)
(*                                                                         *)
(* A step is what happens under one lock or between two awaits: handlers   *)
(* run on other threads than the task.  An abort lands where the task      *)
(* waits.  An event goes to whoever is listening; a watcher that falls     *)
(* behind by more than the ring holds is told so, and what it did not read *)
(* is gone.  What is said, whom it is sent to and how far the peer is      *)
(* trusted are left out.                                                   *)
(***************************************************************************)
EXTENDS Naturals, Sequences, FiniteSets

CONSTANTS
    MaxDialogues,     \* bound: dialogues ever started
    CommsWatchers,    \* clients that follow a dialogue
    CommsHandlers,    \* requests to start, pause or resume, side by side
    Ring,             \* capacity of the event channel
    CommsConfigs      \* the configurations explored

ASSUME PeerDialogueAssumption ==
    /\ MaxDialogues \in Nat \ {0} /\ Ring \in Nat \ {0}
    /\ CommsConfigs \subseteq
         [turns : Nat \ {0},       \* max_turns
          dialogues : 1..MaxDialogues,
          watchers : SUBSET CommsWatchers,
          handlers : SUBSET CommsHandlers,
          toggles : Nat,           \* bound: requests to pause or resume
          isolates : Nat]          \* bound: changes of the isolation marker

VARIABLES
    talk,        \* the configuration, fixed
    dlg,         \* dlg[d]: a dialogue, its task and its events
    current,     \* the slot
    asking,      \* asking[h]: what a request is about to do
    watch,       \* watch[w]: where a watcher is
    door,        \* Slot::shutdown
    apart,       \* the isolation marker
    crossed,     \* history: dialogues with two requests to pause or resume at once
    toggles, isolates

dialogueVars == <<talk, dlg, current, asking, watch, door, apart, crossed, toggles, isolates>>

Dialogues == 1..MaxDialogues
Thinking == {"local", "peer"}
NoTurnYet == [phase |-> "local", before |-> "local", turns |-> 0, go |-> TRUE, at |-> "none",
              aborted |-> FALSE, filed |-> 0]
NotAsking == [at |-> "idle", of |-> 1, go |-> TRUE]
NotWatching == [of |-> 0, queue |-> <<>>, lagged |-> FALSE, last |-> 0, ended |-> "no", gap |-> FALSE]

Over(r) == r.phase \in {"ended", "failed"}

DialogueInit ==
    /\ talk \in CommsConfigs
    /\ dlg = [d \in Dialogues |-> NoTurnYet]
    /\ current = 0
    /\ asking = [h \in CommsHandlers |-> NotAsking]
    /\ watch = [w \in CommsWatchers |-> NotWatching]
    /\ door = "open" /\ apart = FALSE /\ crossed = {}
    /\ toggles = 0 /\ isolates = 0

-----------------------------------------------------------------------------
(* The record of a dialogue, and who hears of it.                          *)

Status == [is |-> "status", n |-> 0]
TurnEvent(n) == [is |-> "turn", n |-> n]
End == [is |-> "end", n |-> 0]

Following(w) == watch[w].of # 0 /\ watch[w].ended = "no"

\* The event channel: each watcher of d has the events in its queue.
Sent(d, events) ==
    [w \in CommsWatchers |->
        LET queue == watch[w].queue \o events
        IN  IF watch[w].of # d \/ ~Following(w) \/ watch[w].lagged THEN watch[w]
            ELSE IF Len(queue) > Ring THEN [watch[w] EXCEPT !.queue = <<>>, !.lagged = TRUE]
            ELSE [watch[w] EXCEPT !.queue = queue]]

\* set_phase: an ending is final, and a pause wins over "thinking".
PhaseSet(r, phase) ==
    IF Over(r) THEN r
    ELSE IF r.phase = "paused" /\ phase \in Thinking THEN [r EXCEPT !.before = phase]
    ELSE [r EXCEPT !.phase = phase]
PhaseEvent(r, phase) ==
    IF Over(r) \/ (r.phase = "paused" /\ phase \in Thinking) THEN <<>> ELSE <<Status>>

\* set_paused, after the flag has been sent.
PausedSet(r, go) ==
    CASE ~Over(r) /\ ~go /\ r.phase \in Thinking ->
            [r EXCEPT !.before = r.phase, !.phase = "paused"]
      [] ~Over(r) /\ go /\ r.phase = "paused" -> [r EXCEPT !.phase = r.before]
      [] OTHER -> r

\* stop: over at once, its task asked to end.
Stopped(r) == IF Over(r) THEN r ELSE [r EXCEPT !.phase = "ended", !.aborted = TRUE]

-----------------------------------------------------------------------------
(* The task: converse, and the guard that ends it.                         *)

slotAndRequests == <<talk, current, asking, door, apart, crossed, toggles, isolates>>

Before(who) == IF who = "local" THEN "before_local" ELSE "before_peer"
Pushing(who) == IF who = "local" THEN "push_local" ELSE "push_peer"
Other(who) == IF who = "local" THEN "peer" ELSE "local"
TaskStep(d, r, at, events) ==
    /\ dlg' = [dlg EXCEPT ![d] = [r EXCEPT !.at = at]]
    /\ watch' = Sent(d, events)
    /\ UNCHANGED slotAndRequests
Phase(d, phase, at) == TaskStep(d, PhaseSet(dlg[d], phase), at, PhaseEvent(dlg[d], phase))

\* shed and set_phase, at the start and before every turn.
NextTurn(d, who) ==
    IF apart THEN Phase(d, "failed", "dropping") ELSE Phase(d, who, who)

TaskBegins(d) == dlg[d].at = "new" /\ NextTurn(d, "local")

\* wait_while_paused.
TaskGoesOn(d) ==
    \E who \in Thinking :
        /\ dlg[d].at = Before(who) /\ dlg[d].go
        /\ NextTurn(d, who)

\* A provider or peer call returns: push_turn puts the turn on record, and
\* sends it when it has let go of the lock.
TurnComes(d) ==
    \E who \in Thinking :
        /\ dlg[d].at = who
        /\ TaskStep(d, [dlg[d] EXCEPT !.turns = @ + 1], Pushing(who), <<>>)

TurnFails(d) ==
    /\ dlg[d].at \in Thinking
    /\ Phase(d, "failed", "dropping")

TurnIsSent(d) ==
    \E who \in Thinking :
        /\ dlg[d].at = Pushing(who)
        /\ TaskStep(d, dlg[d], IF dlg[d].turns >= talk.turns THEN "capped" ELSE Before(Other(who)),
                    <<TurnEvent(dlg[d].turns)>>)

TaskFinishes(d) ==
    dlg[d].at = "capped" /\ Phase(d, "ended", "dropping")

\* The abort lands where the task waits, before its first poll too.
Waits(r) == r.at \in {"new", "local", "peer"} \/ (r.at \in {"before_local", "before_peer"} /\ ~r.go)
AbortEnds(d) ==
    /\ dlg[d].aborted /\ Waits(dlg[d])
    /\ TaskStep(d, dlg[d], "dropping", <<>>)

\* EndGuard::drop: the phase, the archive (nothing while isolated, and
\* nothing to file without a turn), and the last two events.
GuardDrops(d) ==
    /\ dlg[d].at = "dropping"
    /\ TaskStep(d, IF Over(dlg[d]) THEN dlg[d] ELSE [dlg[d] EXCEPT !.phase = "ended"],
                "archiving", <<>>)

GuardArchives(d) ==
    /\ dlg[d].at = "archiving"
    /\ TaskStep(d, [dlg[d] EXCEPT !.filed = IF apart THEN 0 ELSE dlg[d].turns], "closing", <<>>)

GuardTells(d) ==
    /\ dlg[d].at = "closing"
    /\ TaskStep(d, dlg[d], "gone", <<Status, End>>)

-----------------------------------------------------------------------------
(* Requests.                                                               *)

\* start: the checks first, the slot after that.
StartChecks(h) ==
    /\ h \in talk.handlers /\ asking[h].at = "idle"
    /\ ~apart /\ door = "open"
    /\ asking' = [asking EXCEPT ![h] = [NotAsking EXCEPT !.at = "starting"]]
    /\ UNCHANGED <<talk, dlg, current, watch, door, apart, crossed, toggles, isolates>>

\* Under the slot's lock.
Busy == current # 0 /\ ~Over(dlg[current])
StartFills(h) ==
    /\ asking[h].at = "starting"
    /\ asking' = [asking EXCEPT ![h] = NotAsking]
    /\ IF Busy \/ current = talk.dialogues THEN UNCHANGED <<dlg, current>>
       ELSE /\ current' = current + 1
            /\ dlg' = [dlg EXCEPT ![current + 1].at = "new"]
    /\ UNCHANGED <<talk, watch, door, apart, crossed, toggles, isolates>>

\* pause and resume: the flag, then the phase under the lock.
AskPause(h, go) ==
    /\ h \in talk.handlers /\ asking[h].at = "idle" /\ toggles < talk.toggles
    /\ current # 0 /\ ~Over(dlg[current])
    /\ toggles' = toggles + 1
    /\ dlg' = [dlg EXCEPT ![current].go = go]
    /\ asking' = [asking EXCEPT ![h] = [at |-> "pausing", of |-> current, go |-> go]]
    /\ crossed' = IF \E g \in CommsHandlers \ {h} : asking[g].at = "pausing"
                  THEN crossed \cup {current} ELSE crossed
    /\ UNCHANGED <<talk, current, watch, door, apart, isolates>>

ShowPause(h) ==
    LET d == asking[h].of
    IN  /\ asking[h].at = "pausing"
        /\ dlg' = [dlg EXCEPT ![d] = PausedSet(@, asking[h].go)]
        /\ watch' = Sent(d, IF dlg'[d] = dlg[d] THEN <<>> ELSE <<Status>>)
        /\ asking' = [asking EXCEPT ![h] = NotAsking]
        /\ UNCHANGED <<talk, current, door, apart, crossed, toggles, isolates>>

Stop ==
    /\ current # 0 /\ ~Over(dlg[current])
    /\ dlg' = [dlg EXCEPT ![current] = Stopped(@)]
    /\ UNCHANGED watch /\ UNCHANGED slotAndRequests

\* The marker comes and goes.
IsolationFlips ==
    /\ isolates < talk.isolates /\ isolates' = isolates + 1
    /\ apart' = ~apart
    /\ UNCHANGED <<talk, dlg, current, asking, watch, door, crossed, toggles>>

-----------------------------------------------------------------------------
(* Watchers.                                                               *)

\* subscribe: the turns so far and a live receiver, under one lock.
Subscribed(d, gap) ==
    [NotWatching EXCEPT !.of = d, !.last = dlg[d].turns, !.gap = gap,
                        !.ended = IF Over(dlg[d]) THEN "replayed" ELSE "no"]
unwatched == <<talk, dlg, current, asking, door, apart, crossed, toggles, isolates>>

Subscribe(w) ==
    /\ w \in talk.watchers /\ watch[w].of = 0 /\ current # 0
    /\ watch' = [watch EXCEPT ![w] = Subscribed(current, FALSE)]
    /\ UNCHANGED unwatched

\* A turn that was replayed is dropped by its number.
Receive(w) ==
    /\ Following(w) /\ watch[w].queue # <<>>
    /\ LET event == Head(watch[w].queue)
           on == [watch[w] EXCEPT !.queue = Tail(@)]
       IN  watch' = [watch EXCEPT ![w] =
             CASE event.is = "end" -> [on EXCEPT !.ended = "event"]
               [] event.is = "turn" /\ event.n > on.last ->
                    [on EXCEPT !.last = event.n, !.gap = @ \/ event.n # on.last + 1]
               [] OTHER -> on]
    /\ UNCHANGED unwatched

\* Lagged: what was missed is taken from the record, with a new receiver.
CatchUp_Fresh(w) ==              \* mutant: only the new receiver
    /\ Following(w) /\ watch[w].lagged
    /\ watch' = [watch EXCEPT ![w] =
          [Subscribed(@.of, @.gap) EXCEPT !.last = watch[w].last]]
    /\ UNCHANGED unwatched
CatchUp(w) ==
    /\ Following(w) /\ watch[w].lagged
    /\ watch' = [watch EXCEPT ![w] = Subscribed(@.of, @.gap)]
    /\ UNCHANGED unwatched

-----------------------------------------------------------------------------
(* Slot::shutdown: no more starts, stop what runs, wait for its ending.    *)

ShutdownCloses ==
    /\ door = "open" /\ door' = "closed"
    /\ UNCHANGED <<talk, dlg, current, asking, watch, apart, crossed, toggles, isolates>>

ShutdownStops ==
    /\ door = "closed"
    /\ IF current = 0 \/ Over(dlg[current]) THEN door' = "done" /\ UNCHANGED dlg
       ELSE door' = "waiting" /\ dlg' = [dlg EXCEPT ![current] = Stopped(@)]
    /\ UNCHANGED <<talk, current, asking, watch, apart, crossed, toggles, isolates>>

ShutdownSeesEnd ==
    /\ door = "waiting" /\ dlg[current].at = "gone"
    /\ door' = "done"
    /\ UNCHANGED <<talk, dlg, current, asking, watch, apart, crossed, toggles, isolates>>

TaskSteps(d) ==
    \/ TaskBegins(d) \/ TaskGoesOn(d) \/ TurnComes(d) \/ TurnFails(d) \/ TurnIsSent(d)
    \/ TaskFinishes(d) \/ AbortEnds(d) \/ GuardDrops(d) \/ GuardArchives(d) \/ GuardTells(d)

DialogueNext ==
    \/ \E d \in Dialogues : TaskSteps(d)
    \/ \E h \in CommsHandlers : \/ StartChecks(h) \/ StartFills(h) \/ ShowPause(h)
                                \/ \E go \in BOOLEAN : AskPause(h, go)
    \/ \E w \in CommsWatchers : Subscribe(w) \/ Receive(w) \/ CatchUp(w)
    \/ Stop \/ IsolationFlips
    \/ ShutdownCloses \/ ShutdownStops \/ ShutdownSeesEnd

\* Calls return, one way or the other (they have timeouts), the task runs
\* on, and a watcher reads its stream.
DialogueFairness ==
    /\ \A d \in Dialogues : WF_dialogueVars(TaskSteps(d))
    /\ \A w \in CommsWatchers : WF_dialogueVars(Receive(w) \/ CatchUp(w))

DialogueSpec == DialogueInit /\ [][DialogueNext]_dialogueVars /\ DialogueFairness
-----------------------------------------------------------------------------
(* Properties.                                                             *)

TaskPlaces == {"none", "new", "local", "peer", "push_local", "push_peer", "before_local",
               "before_peer", "capped", "dropping", "archiving", "closing", "gone"}

\* Types of the dialogues, the watchers and the slot.
DialogueTypeOK ==
    /\ current \in 0..talk.dialogues
    /\ \A d \in Dialogues :
          /\ dlg[d].phase \in Thinking \cup {"paused", "ended", "failed"}
          /\ dlg[d].before \in Thinking /\ dlg[d].at \in TaskPlaces
          /\ dlg[d].turns \in 0..talk.turns /\ dlg[d].filed \in 0..talk.turns
          /\ d > current => dlg[d].at = "none"
    /\ \A w \in CommsWatchers : /\ watch[w].of \in 0..current
                                /\ watch[w].ended \in {"no", "event", "replayed"}
    /\ door \in {"open", "closed", "waiting", "done"}

\* A daemon holds one dialogue at a time: however starts, stops and endings
\* cross, at most one is not over (start, stop, EndGuard).
OneAtATime ==
    Cardinality({d \in Dialogues : dlg[d].at # "none" /\ ~Over(dlg[d])}) <= 1

\* A watcher sees every turn, in order: none falls between the replay and
\* the stream, none is dropped when the ring overtakes it, and one that
\* follows to the end has all of them, those that came after a stop too
\* (subscribe, push_turn, the Lagged arm of stream).
NoTurnMissed ==
    \A w \in CommsWatchers :
        /\ ~watch[w].gap
        /\ watch[w].ended = "event" => watch[w].last = dlg[watch[w].of].turns

Quiescent(d) == \A h \in CommsHandlers : ~(asking[h].at = "pausing" /\ asking[h].of = d)

\* The phase a client is shown tells whether the task may go on, unless two
\* requests to pause or resume have met (set_paused, set_phase).
PauseIsShown ==
    \A d \in Dialogues :
        (Quiescent(d) /\ d \notin crossed /\ dlg[d].at # "none" /\ ~Over(dlg[d])) =>
            (dlg[d].phase = "paused" <=> ~dlg[d].go)

\* What a daemon's dialogue promises, with starts, stops, pauses and watchers
\* that cross: one at a time, every turn seen in order, and a phase that is
\* true (start, set_paused, push_turn, stream).
DialoguesHold == DialogueTypeOK /\ OneAtATime /\ NoTurnMissed /\ PauseIsShown

\* Whoever follows a dialogue is told its end, unless the dialogue is left
\* paused and not stopped: also when it is stopped before its task was ever
\* polled, or while it is paused (stop, EndGuard).
WatchersEnd ==
    \A w \in CommsWatchers, d \in Dialogues :
        <>[](watch[w].of = d => \/ watch[w].ended # "no"
                                \/ ~dlg[d].go /\ ~dlg[d].aborted)

-----------------------------------------------------------------------------
(* What the source says and the code does not do.                          *)

\* "The phase shows paused from the request until resume."
PauseAlwaysShown ==
    \A d \in Dialogues :
        (Quiescent(d) /\ dlg[d].at # "none" /\ ~Over(dlg[d])) =>
            (dlg[d].phase = "paused" <=> ~dlg[d].go)

\* Slot: closed "is set by shutdown so a start arriving during the drain is
\* refused"; shutdown waits for the ending "so no provider or peer call
\* outlives the scheduler's".
NothingAfterShutdown ==
    door = "done" => \A d \in Dialogues : dlg[d].at \notin {"new", "local", "peer"}
=============================================================================
