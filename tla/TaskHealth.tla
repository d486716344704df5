----------------------------- MODULE TaskHealth -----------------------------
(***************************************************************************)
(* The liveness alarm: the health store (scheduler/health.rs), which says  *)
(* what the operator is owed, and its delivery (scheduler/liveness.rs) by  *)
(* two kinds of actor, the loop of a task after each of its cycles and the *)
(* watchdog every quarter of an hour.                                      *)
(*                                                                         *)
(* An actor reads the store under its lock, lets go of it, posts the       *)
(* message, and takes the lock again to mark it delivered: other actors    *)
(* act in between.  Every mutation is written to the file in the same      *)
(* critical section, so the store that a restart loads is the one in       *)
(* memory; a save that fails (logged, otherwise ignored) is not modelled.  *)
(*                                                                         *)
(* Time is abstract: a backoff that has run out, a silence that has lasted *)
(* long enough and an outcome that left the flap window are steps of their *)
(* own.  The flap rule's baseline hides what lies before it, so marking it *)
(* empties the window.  Alerts sent are counted as none or some.           *)
(***************************************************************************)
EXTENDS Integers, FiniteSets, SequencesExt

CONSTANTS
    Tasks,         \* the enabled scheduled tasks
    Watchdog,      \* the watchdog loop
    Global,        \* the subject of the "nothing succeeds" rule
    Configs        \* the configurations explored

ASSUME TaskHealthAssumption ==
    /\ IsFiniteSet(Tasks) /\ Tasks # {}
    /\ Watchdog \notin Tasks /\ Global \notin Tasks
    /\ Configs \subseteq
         [threshold : Nat \ {0},      \* alert_after_consecutive_failures
          window : Nat \ {0},         \* flap_window_size
          samples : Nat \ {0, 1},     \* flap_min_samples.max(2)
          floor : 0..100,             \* flap_min_success_percent
          silence : BOOLEAN,          \* can global_silence_alert_hours ever pass
          restarts : Nat]             \* bound: ends of a process or of a tenure

VARIABLES
    config,     \* LivenessConfig, fixed
    health,     \* health[t]: TaskHealth
    silence,    \* GlobalHealth, and whether the window without success has passed
    act,        \* act[a]: what an actor is doing
    lastWord,      \* history: whether the last word on x was an alert, per rule
    muddled,    \* history: subjects a message of which was overtaken or its mark lost
    restarts

healthVars == <<config, health, silence, act, lastWord, muddled, restarts>>

Subjects == Tasks \cup {Global}
Actors == Tasks \cup {Watchdog}
MaxStreak == config.threshold + 1      \* bound: saturating_add, here already there

Kinds == {"failing", "recovered", "flapping", "flap_resolved"}
Idle == [at |-> "idle", on |-> Global, kind |-> "none", outdated |-> FALSE, todo |-> {}]

HealthInit ==
    /\ config \in Configs
    /\ health = [t \in Tasks |-> [streak |-> 0, alerted |-> FALSE, due |-> TRUE,
                                  resolution |-> FALSE, window |-> <<>>,
                                  flapAlerted |-> FALSE, flapDue |-> TRUE]]
    /\ silence = [past |-> FALSE, alerted |-> FALSE, due |-> TRUE, resolution |-> FALSE]
    /\ act = [a \in Actors |-> Idle]
    /\ lastWord = [x \in Subjects |-> [streak |-> FALSE, flap |-> FALSE]]
    /\ muddled = {}
    /\ restarts = 0

-----------------------------------------------------------------------------
(* What the store says.                                                    *)

PushOutcome(window, ok) ==
    LET longer == Append(window, ok)
    IN  IF Len(longer) > config.window THEN Tail(longer) ELSE longer

Succeeded(h) ==
    [h EXCEPT !.resolution = @ \/ h.alerted, !.streak = 0, !.alerted = FALSE,
              !.due = TRUE, !.window = PushOutcome(@, TRUE)]

\* A streak that starts forgets the alerts of the one before it.
Failed(h) ==
    [h EXCEPT !.alerted = @ /\ h.streak # 0, !.due = @ \/ h.streak = 0,
              !.streak = IF @ < MaxStreak THEN @ + 1 ELSE @,
              !.window = PushOutcome(@, FALSE)]

\* record_success replaces the global record: an all-clear that was not
\* delivered yet is kept only if this success ends an alerted silence too.
SilenceBroken ==
    [past |-> FALSE, alerted |-> FALSE, due |-> TRUE, resolution |-> silence.alerted]

\* flap_verdict.
Percent(window) == (100 * Len(SelectSeq(window, LAMBDA ok : ok))) \div Len(window)
Judged(window) == Len(window) >= config.samples
Flapping(window) == Judged(window) /\ Percent(window) < config.floor
Steady(window) == Judged(window) /\ Percent(window) >= config.floor

\* pending_task_alert: a recovery first, then the streak rule, which keeps
\* the flap rule quiet even when its own backoff has silenced it.
PendingTaskAlert(t) ==
    LET h == health[t]
    IN  CASE h.resolution                               -> "recovered"
          [] ~h.resolution /\ h.streak >= config.threshold     -> IF h.due THEN "failing" ELSE "none"
          [] ~h.resolution /\ h.streak < config.threshold /\ Flapping(h.window)
                                                        -> IF h.flapDue THEN "flapping" ELSE "none"
          [] ~h.resolution /\ h.streak < config.threshold /\ Steady(h.window) /\ h.flapAlerted
                                                        -> "flap_resolved"
          [] OTHER                                      -> "none"

\* pending_global_alert, with at least one task enabled.
PendingGlobalAlert ==
    IF silence.resolution THEN "recovered"
    ELSE IF silence.past /\ silence.due THEN "failing" ELSE "none"

Pending(x) == IF x = Global THEN PendingGlobalAlert ELSE PendingTaskAlert(x)

\* mark_task_alert_delivered.
MarkedTask(h, kind) ==
    CASE kind = "recovered"     -> [h EXCEPT !.resolution = FALSE]
      [] kind = "failing"       -> [h EXCEPT !.alerted = TRUE, !.due = FALSE, !.window = <<>>]
      [] kind = "flapping"      -> [h EXCEPT !.flapAlerted = TRUE, !.flapDue = FALSE]
      [] kind = "flap_resolved" -> [h EXCEPT !.flapAlerted = FALSE, !.flapDue = TRUE,
                                             !.window = <<>>]

\* mark_global_alert_delivered.
MarkedGlobal(kind) ==
    IF kind = "recovered" THEN [silence EXCEPT !.resolution = FALSE]
    ELSE [silence EXCEPT !.alerted = TRUE, !.due = FALSE]

-----------------------------------------------------------------------------
(* Delivery.                                                               *)

\* History: a message on its way is overtaken when what it reports is over,
\* or when another message under the same rule says something else.
Overtake(f, over) ==
    [a \in Actors |-> IF f[a].at \in {"sending", "marking"} /\ <<f[a].on, f[a].kind>> \in over
                      THEN [f[a] EXCEPT !.outdated = TRUE] ELSE f[a]]

\* A cycle of task t is over and its outcome recorded.
RecordOutcome(t, ok) ==
    /\ act[t].at = "idle"
    /\ health' = [health EXCEPT ![t] = IF ok THEN Succeeded(@) ELSE Failed(@)]
    /\ silence' = IF ok THEN SilenceBroken ELSE silence
    /\ act' = [Overtake(act,
                  IF ok THEN {<<t, "failing">>, <<Global, "failing">>, <<Global, "recovered">>}
                             \cup (IF health[t].alerted THEN {<<t, "recovered">>} ELSE {})
                  ELSE {})
               EXCEPT ![t] = [Idle EXCEPT !.at = "deciding", !.on = t]]
    /\ UNCHANGED <<config, lastWord, muddled, restarts>>

\* The watchdog wakes and lists the enabled tasks.
WatchdogTick ==
    /\ act[Watchdog] = Idle
    /\ act' = [act EXCEPT ![Watchdog].todo = Subjects]
    /\ UNCHANGED <<config, health, silence, lastWord, muddled, restarts>>

\* The actor has nothing more to do for this subject.
Rest(f, a) == [f EXCEPT ![a] = [Idle EXCEPT !.todo = f[a].todo]]

\* Under the read lock: what is owed now about x.
Decide(a, x, f) ==
    LET kind == Pending(x)
    IN  /\ act' = IF kind = "none" THEN Rest(f, a)
                  ELSE [f EXCEPT ![a].at = "sending", ![a].on = x, ![a].kind = kind]
        /\ UNCHANGED <<config, health, silence, lastWord, muddled, restarts>>

LoopDecides(t) == act[t].at = "deciding" /\ Decide(t, t, act)

\* The watchdog goes through the tasks one by one, and then to the global rule.
WatchdogDecides(x) ==
    /\ act[Watchdog].at = "idle" /\ x \in act[Watchdog].todo
    /\ x = Global => act[Watchdog].todo = {Global}
    /\ Decide(Watchdog, x, [act EXCEPT ![Watchdog].todo = @ \ {x}])

Rule(kind) == IF kind \in {"failing", "recovered"} THEN "streak" ELSE "flap"

\* The webhook takes the message.
Deliver(a) ==
    LET x == act[a].on  kind == act[a].kind
    IN  /\ act[a].at = "sending"
        /\ act' = [Overtake(act, {x} \X {k \in Kinds \ {kind} : Rule(k) = Rule(kind)})
                   EXCEPT ![a].at = "marking"]
        /\ lastWord' = [lastWord EXCEPT ![x][Rule(kind)] = kind \in {"failing", "flapping"}]
        /\ muddled' = IF act[a].outdated THEN muddled \cup {x} ELSE muddled
        /\ UNCHANGED <<config, health, silence, restarts>>

DeliveryFails_Marking(a) ==      \* mutant: marked before the webhook has taken it
    /\ act[a].at = "sending"
    /\ act' = [act EXCEPT ![a].at = "marking"]
    /\ UNCHANGED <<config, health, silence, lastWord, muddled, restarts>>

\* It does not: the alert stays owed.
DeliveryFails(a) ==
    /\ act[a].at = "sending"
    /\ act' = Rest(act, a)
    /\ UNCHANGED <<config, health, silence, lastWord, muddled, restarts>>

\* Under the write lock: whatever the store has become meanwhile.
MarkDelivered(a) ==
    LET x == act[a].on  kind == act[a].kind
    IN  /\ act[a].at = "marking"
        /\ IF x = Global
           THEN silence' = MarkedGlobal(kind) /\ UNCHANGED health
           ELSE health' = [health EXCEPT ![x] = MarkedTask(@, kind)] /\ UNCHANGED silence
        /\ act' = Rest(Overtake(act, IF kind \in {"recovered", "flap_resolved"}
                                     THEN {<<x, kind>>} ELSE {}), a)
        /\ muddled' = IF act[a].outdated THEN muddled \cup {x} ELSE muddled
        /\ UNCHANGED <<config, lastWord, restarts>>

\* Time passes: a backoff runs out, nothing has succeeded for long enough, or
\* the oldest outcome leaves the flap window.
BackoffOver(x) ==
    /\ IF x = Global THEN silence' = [silence EXCEPT !.due = TRUE] /\ UNCHANGED health
       ELSE health' = [health EXCEPT ![x].due = TRUE, ![x].flapDue = TRUE] /\ UNCHANGED silence
    /\ UNCHANGED <<config, act, lastWord, muddled, restarts>>

SilenceLasts ==
    /\ config.silence
    /\ silence' = [silence EXCEPT !.past = TRUE]
    /\ UNCHANGED <<config, health, act, lastWord, muddled, restarts>>

OutcomeAges(t) ==
    /\ health[t].window # <<>>
    /\ health' = [health EXCEPT ![t].window = Tail(@)]
    /\ UNCHANGED <<config, silence, act, lastWord, muddled, restarts>>

\* The process or the tenure ends and the next one loads the file.  What was
\* delivered and not marked will be sent again.
HealthRestart ==
    /\ restarts < config.restarts
    /\ restarts' = restarts + 1
    /\ act' = [a \in Actors |-> Idle]
    /\ muddled' = muddled \cup {act[a].on : a \in {b \in Actors : act[b].at = "marking"}}
    /\ UNCHANGED <<config, health, silence, lastWord>>

HealthNext ==
    \/ \E t \in Tasks, ok \in BOOLEAN : RecordOutcome(t, ok)
    \/ WatchdogTick
    \/ \E x \in Subjects : WatchdogDecides(x) \/ BackoffOver(x)
    \/ \E a \in Actors : Deliver(a) \/ DeliveryFails(a) \/ MarkDelivered(a)
    \/ \E t \in Tasks : LoopDecides(t) \/ OutcomeAges(t)
    \/ SilenceLasts
    \/ HealthRestart

\* The watchdog's loop goes on, backoffs run out, and a webhook that is asked
\* for ever about a subject takes a message about it at last.
HealthFairness ==
    /\ WF_healthVars(WatchdogTick)
    /\ \A x \in Subjects : /\ WF_healthVars(WatchdogDecides(x))
                           /\ WF_healthVars(BackoffOver(x))
                           /\ SF_healthVars(act[Watchdog].on = x /\ Deliver(Watchdog))
    /\ WF_healthVars(MarkDelivered(Watchdog))
    /\ WF_healthVars(Deliver(Watchdog) \/ DeliveryFails(Watchdog))

HealthSpec == HealthInit /\ [][HealthNext]_healthVars /\ HealthFairness
-----------------------------------------------------------------------------
(* Properties.                                                             *)

\* Types of the store and of the actors.
HealthTypeOK ==
    /\ \A t \in Tasks : /\ health[t].streak \in 0..MaxStreak
                        /\ health[t].window \in Seq(BOOLEAN) /\ Len(health[t].window) <= config.window
                        /\ \A f \in {"alerted", "due", "resolution", "flapAlerted", "flapDue"} :
                              health[t][f] \in BOOLEAN
    /\ \A f \in DOMAIN silence : silence[f] \in BOOLEAN
    /\ \A a \in Actors : /\ act[a].at \in {"idle", "deciding", "sending", "marking"}
                         /\ act[a].on \in Subjects /\ act[a].todo \subseteq Subjects
                         /\ act[a].kind \in Kinds \cup {"none"}
    /\ muddled \subseteq Subjects /\ restarts \in 0..config.restarts

Unmarked(x) == \E a \in Actors : act[a].at = "marking" /\ act[a].on = x
Settled(x) == x \notin muddled /\ ~Unmarked(x)

\* The operator's picture is the store's: unless a message was overtaken by
\* an outcome or its mark was lost, the last word about a task is [ALERT]
\* exactly while the store holds an alerted streak or an all-clear it still
\* owes (deliver-then-commit in deliver_task_alert, record_success,
\* record_failure and mark_task_alert_delivered between them).
PictureIsTrue ==
    \A t \in Tasks : Settled(t) =>
        /\ lastWord[t].streak <=> health[t].alerted \/ health[t].resolution
        /\ lastWord[t].flap <=> health[t].flapAlerted

\* The store keeps its bounds (push_outcome) and the operator its picture.
AlertsHold == HealthTypeOK /\ PictureIsTrue

\* An alerted silence that a success has ended still owes its [RESOLVED]
\* until it is delivered: "so an escalation never dangles unanswered".
EscalationAnswered ==
    Settled(Global) /\ lastWord[Global].streak => silence.alerted \/ silence.resolution

\* A streak that reaches the threshold is told, or ends, however often the
\* webhook fails, loops overtake each other or the process restarts.
StreakTold ==
    \A t \in Tasks : health[t].streak >= config.threshold ~> lastWord[t].streak \/ health[t].streak = 0
=============================================================================
