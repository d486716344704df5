----------------------------- MODULE TurnRunner -----------------------------
(***************************************************************************)
(* How a plugin's turns enter the pipeline and how shutdown waits for them *)
(* (server/turns.rs): the rate bucket and the pool of slots, the count of  *)
(* turns in flight, the wait for the daemon's state to be bound, and       *)
(* refuse_new and drain.                                                   *)
(*                                                                         *)
(* Atomics are read and written one at a time, and a notification reaches  *)
(* only those who have registered for it by then (tokio's notify_waiters); *)
(* the steps are cut where the code reads, writes, notifies or waits.      *)
(***************************************************************************)
EXTENDS Integers, FiniteSets

CONSTANTS
    Turns,      \* calls of PluginTurns::run, on handles of one plugin
    Patient,    \* those whose handle waits for a slot SlotWait::Forever
    Slots       \* PLUGIN_POOL_SIZE

ASSUME TurnRunnerAssumption ==
    /\ IsFiniteSet(Turns) /\ Patient \subseteq Turns
    /\ Slots \in Nat \ {0}

VARIABLES
    closed,     \* Shared.closed
    bound,      \* Shared.state is set
    inFlight,   \* Shared.in_flight
    free,       \* permits left in the plugin's pool
    pc,         \* pc[t]: where call t is in PluginTurns::run
    woken,      \* woken[t]: call t, registered for `changed`, was notified
    announce,   \* notifications of `changed` still to be sent
    drain,      \* where drain is
    heard       \* drain, registered for `drained`, was notified

vars == <<closed, bound, inFlight, free, pc, woken, announce, drain, heard>>
daemonVars == <<closed, bound, announce, drain>>

Outside == {"idle", "rate", "slot", "over"}       \* holds nothing
Started == {"armed", "asleep", "running"}         \* past the closed check
Counted == Started \cup {"counted"}
Holding == Counted \cup {"permit", "last", "released"}
States == Outside \cup Holding

TypeOK ==
    /\ closed \in BOOLEAN
    /\ bound \in BOOLEAN
    /\ inFlight \in Nat
    /\ free \in 0..Slots
    /\ pc \in [Turns -> States]
    /\ woken \in [Turns -> BOOLEAN]
    /\ announce \subseteq {"bind", "close"}
    /\ drain \in {"off", "armed", "asleep", "all", "late"}
    /\ heard \in BOOLEAN

InFlight == {t \in Turns : pc[t] \in Counted}

Init ==
    /\ closed = FALSE
    /\ bound = FALSE
    /\ inFlight = 0
    /\ free = Slots
    /\ pc = [t \in Turns |-> "idle"]
    /\ woken = [t \in Turns |-> FALSE]
    /\ announce = {}
    /\ drain = "off"
    /\ heard = FALSE

-----------------------------------------------------------------------------
(* A call of run.                                                          *)

Goto(t, state) == pc' = [pc EXCEPT ![t] = state]

\* run asks for its rate token, unless shutdown has started.
Call(t) ==
    /\ pc[t] = "idle"
    /\ Goto(t, IF closed THEN "over" ELSE "rate")
    /\ UNCHANGED <<daemonVars, inFlight, free, woken, heard>>

\* rate_token: closed is looked at in each round; a token is granted, or the
\* call is over its limit, which only a patient one waits out.
RateToken(t) ==
    /\ pc[t] = "rate"
    /\ \/ closed /\ Goto(t, "over")
       \/ ~closed /\ Goto(t, "slot")
       \/ ~closed /\ t \notin Patient /\ Goto(t, "over")
    /\ UNCHANGED <<daemonVars, inFlight, free, woken, heard>>

\* slot: a permit, or Busy for a call that does not wait for ever.
TakeSlot(t) ==
    /\ pc[t] = "slot"
    /\ \/ free > 0 /\ free' = free - 1 /\ Goto(t, "permit")
       \/ free = 0 /\ t \notin Patient /\ Goto(t, "over") /\ UNCHANGED free
    /\ UNCHANGED <<daemonVars, inFlight, woken, heard>>

\* enter counts the call first ...
Enter(t) ==
    /\ pc[t] = "permit"
    /\ inFlight' = inFlight + 1
    /\ Goto(t, "counted")
    /\ UNCHANGED <<daemonVars, free, woken, heard>>

\* Changed: takes what fetch_sub returns for the count that is left.
Leave_Left(t) ==
    /\ inFlight' = inFlight - 1
    /\ Goto(t, IF inFlight = 0 THEN "last" ELSE "released")
    /\ UNCHANGED <<daemonVars, free, heard>>

\* Flight's Drop: the count goes down, and the last one out will notify.
Leave(t) ==
    /\ inFlight' = inFlight - 1
    /\ Goto(t, IF inFlight = 1 THEN "last" ELSE "released")
    /\ UNCHANGED <<daemonVars, free, heard>>

\* Changed: a call refused by enter has no Flight to drop.
LookClosed_NoFlight(t) ==
    /\ pc[t] = "counted"
    /\ Goto(t, IF closed THEN "released" ELSE "armed")
    /\ woken' = [woken EXCEPT ![t] = FALSE]
    /\ UNCHANGED <<daemonVars, inFlight, free, heard>>

\* ... and looks at closed after.  Then state() registers for `changed`.
LookClosed(t) ==
    /\ pc[t] = "counted"
    /\ IF closed THEN Leave(t) /\ UNCHANGED woken
       ELSE /\ Goto(t, "armed")
            /\ woken' = [woken EXCEPT ![t] = FALSE]
            /\ UNCHANGED <<daemonVars, inFlight, free, heard>>

\* state(), registered: closed, bound (then the admission decides), or not
\* bound yet.
LookBound(t) ==
    /\ pc[t] = "armed"
    /\ \/ closed /\ Leave(t)
       \/ ~closed /\ bound /\ Leave(t)
       \/ /\ ~closed /\ bound /\ Goto(t, "running")
          /\ UNCHANGED <<daemonVars, inFlight, free, heard>>
       \/ /\ ~closed /\ ~bound /\ Goto(t, "asleep")
          /\ UNCHANGED <<daemonVars, inFlight, free, heard>>
    /\ UNCHANGED woken

\* A notified waiter goes round the loop: it registers again and looks.
Wake(t) ==
    /\ pc[t] = "asleep" /\ woken[t]
    /\ Goto(t, "armed")
    /\ woken' = [woken EXCEPT ![t] = FALSE]
    /\ UNCHANGED <<daemonVars, inFlight, free, heard>>

\* READY_TIMEOUT passes.
NotReady(t) == pc[t] = "asleep" /\ Leave(t) /\ UNCHANGED woken

\* run_turn returns.
Finish(t) == pc[t] = "running" /\ Leave(t) /\ UNCHANGED woken

\* The plugin drops the call where it waits.
Dropped(t) ==
    \/ /\ pc[t] \in {"rate", "slot"} /\ Goto(t, "over")
       /\ UNCHANGED <<daemonVars, inFlight, free, woken, heard>>
    \/ pc[t] \in {"asleep", "running"} /\ Leave(t) /\ UNCHANGED woken

\* The last one out wakes drain, if drain has registered.
NotifyDrained(t) ==
    /\ pc[t] = "last"
    /\ Goto(t, "released")
    /\ heard' = (heard \/ drain \in {"armed", "asleep"})
    /\ UNCHANGED <<daemonVars, inFlight, free, woken>>

ReleaseSlot(t) ==
    /\ pc[t] = "released"
    /\ free' = free + 1
    /\ Goto(t, "over")
    /\ UNCHANGED <<daemonVars, inFlight, woken, heard>>

-----------------------------------------------------------------------------
(* The daemon.                                                             *)

\* bind stores first and notifies then, and so does refuse_new.
Bind ==
    /\ ~bound
    /\ bound' = TRUE
    /\ announce' = announce \cup {"bind"}
    /\ UNCHANGED <<closed, inFlight, free, pc, woken, drain, heard>>

RefuseNew ==
    /\ ~closed
    /\ closed' = TRUE
    /\ announce' = announce \cup {"close"}
    /\ UNCHANGED <<bound, inFlight, free, pc, woken, drain, heard>>

Announce(what) ==
    /\ what \in announce
    /\ announce' = announce \ {what}
    /\ woken' = [t \in Turns |-> woken[t] \/ pc[t] \in {"armed", "asleep"}]
    /\ UNCHANGED <<closed, bound, inFlight, free, pc, drain, heard>>

\* drain, once refuse_new has returned, registers before it looks.
DrainArm ==
    /\ closed /\ "close" \notin announce
    /\ \/ drain = "off"
       \/ drain = "asleep" /\ heard
    /\ drain' = "armed"
    /\ heard' = FALSE
    /\ UNCHANGED <<closed, bound, inFlight, free, pc, woken, announce>>

DrainLook ==
    /\ drain = "armed"
    /\ drain' = IF inFlight = 0 THEN "all" ELSE "asleep"
    /\ UNCHANGED <<closed, bound, inFlight, free, pc, woken, announce, heard>>

\* The deadline passes; drain looks once more.
DrainTimeout ==
    /\ drain = "asleep"
    /\ drain' = IF inFlight = 0 THEN "all" ELSE "late"
    /\ UNCHANGED <<closed, bound, inFlight, free, pc, woken, announce, heard>>

-----------------------------------------------------------------------------
Own(t) == \/ Call(t) \/ RateToken(t) \/ TakeSlot(t) \/ Enter(t) \/ LookClosed(t)
          \/ LookBound(t) \/ Wake(t) \/ Finish(t) \/ NotifyDrained(t) \/ ReleaseSlot(t)
Turn(t) == Own(t) \/ NotReady(t) \/ Dropped(t)
Daemon == \/ Bind \/ RefuseNew \/ DrainArm \/ DrainLook \/ DrainTimeout
          \/ \E what \in announce : Announce(what)

Next == (\E t \in Turns : Turn(t)) \/ Daemon

Spec == Init /\ [][Next]_vars

\* A call takes its own steps, and its provider call returns; the daemon
\* sends the notifications it owes and drain runs when it can.  No timeout,
\* no bind and no shutdown is taken for granted.
TurnFairness ==
    /\ \A t \in Turns : WF_vars(Own(t))
    /\ WF_vars(DrainArm) /\ WF_vars(DrainLook)
    /\ WF_vars(\E what \in announce : Announce(what))

FairSpec == Spec /\ TurnFairness

-----------------------------------------------------------------------------
(* Properties.                                                             *)

\* Once drain has answered that every turn finished, none runs or is about
\* to: enter counts before it looks at closed, so drain sees the turn or the
\* turn sees refuse_new.
DrainIsFinal == drain = "all" => \A t \in Turns : pc[t] \notin Started

\* Slots are neither lost nor made: those free and those held are the pool,
\* whichever way a call ends.
PoolIsWhole == free + Cardinality({t \in Turns : pc[t] \in Holding}) = Slots

\* The count that drain reads is the number of calls between enter and the
\* Drop of their Flight.
CountIsExact == inFlight = Cardinality(InFlight)

\* What the admission of turns promises, in every order of entering, refusal,
\* abort and end: an answered drain is final, and neither a slot nor the
\* count is lost (enter, run, drain and the two drops).
AdmissionHolds == TypeOK /\ DrainIsFinal /\ PoolIsWhole /\ CountIsExact

\* Without its deadline drain still wakes: the last turn's notification is
\* not lost between drain's look at the count and its wait.
DrainWakes == drain = "asleep" ~> drain # "asleep"

\* A call that waits for the bind does not outwait a shutdown.
WaitersSeeClose == \A t \in Turns : (closed /\ pc[t] = "asleep") ~> pc[t] = "over"

\* Both of them: a shutdown comes to its end by itself.
ShutdownEnds == DrainWakes /\ WaitersSeeClose
=============================================================================
