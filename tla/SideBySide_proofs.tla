------------------------- MODULE SideBySide_proofs -------------------------
(***************************************************************************)
(* Proofs about what a daemon runs side by side: the plugin turns, the     *)
(* liveness alarm, outreach, the dialogue with another pulse and farmed    *)
(* subtasks, each for any calls, tasks, messages, watchers and attempts.   *)
(* The argument of each is told where its part begins.                     *)
(***************************************************************************)
EXTENDS TurnRunner, TaskHealth, Outreach, PeerDialogue, Farm, FiniteSetTheorems, TLAPS

-----------------------------------------------------------------------------
(* The plugin turns.                                                       *)
(*                                                                         *)
(* The argument: the count and the free slots are cardinalities of sets of *)
(* calls, so a count of zero means that no call is past enter.  drain runs *)
(* only when closed is set, and from then on no call gets past the look at *)
(* closed that follows its own count.                                      *)

HeldSlots == {t \in Turns : pc[t] \in Holding}

DrainAfterClose == drain # "off" => closed

TurnsIInv == /\ TypeOK
        /\ CountIsExact
        /\ free + Cardinality(HeldSlots) = Slots
        /\ DrainAfterClose
        /\ DrainIsFinal

\* What the constants are.
LEMMA TurnConstants ==
    /\ IsFiniteSet(Turns)
    /\ Slots \in Nat \ {0}
BY TurnRunnerAssumption

\* A set of calls is finite and its size a number; a member makes it
\* positive.
LEMMA SizeFacts ==
    ASSUME NEW S, S \subseteq Turns
    PROVE  /\ IsFiniteSet(S) /\ Cardinality(S) \in Nat
           /\ \A t \in S : Cardinality(S) > 0
           /\ Cardinality(S) = 0 => S = {}
<1>1. IsFiniteSet(S)
  BY TurnConstants, FS_Subset
<1>2. Cardinality(S) \in Nat
  BY <1>1, FS_CardinalityType
<1>3. Cardinality(S) = 0 <=> S = {}
  BY <1>1, FS_EmptySet
<1>4. QED BY <1>1, <1>2, <1>3

\* How one call's move changes the size of the set of calls in some states.
LEMMA Moved ==
    ASSUME NEW K, NEW f \in [Turns -> States], NEW g \in [Turns -> States],
           NEW t \in Turns, NEW s \in States, g = [f EXCEPT ![t] = s],
           NEW A, A = {u \in Turns : f[u] \in K},
           NEW B, B = {u \in Turns : g[u] \in K}
    PROVE  /\ f[t] \in K /\ s \in K => Cardinality(B) = Cardinality(A)
           /\ f[t] \notin K /\ s \notin K => Cardinality(B) = Cardinality(A)
           /\ f[t] \notin K /\ s \in K => Cardinality(B) = Cardinality(A) + 1
           /\ f[t] \in K /\ s \notin K => Cardinality(B) = Cardinality(A) - 1
<1>1. \A u \in Turns : g[u] = IF u = t THEN s ELSE f[u]
  OBVIOUS
<1>2. IsFiniteSet(A) /\ IsFiniteSet(B)
  BY SizeFacts
<1>3. (f[t] \in K <=> s \in K) => A = B
  BY <1>1
<1>4. ASSUME f[t] \notin K, s \in K PROVE Cardinality(B) = Cardinality(A) + 1
  <2>1. t \notin A /\ B = A \cup {t}
    BY <1>1, <1>4
  <2>2. QED BY <2>1, <1>2, FS_AddElement
<1>5. ASSUME f[t] \in K, s \notin K PROVE Cardinality(B) = Cardinality(A) - 1
  <2>1. t \in A /\ B = A \ {t}
    BY <1>1, <1>5
  <2>2. QED BY <2>1, <1>2, FS_RemoveElement
<1>6. QED BY <1>3, <1>4, <1>5

\* What a call's move does to the two sets that the counts are about.
LEMMA GotoCounts ==
    ASSUME TypeOK, NEW t \in Turns, NEW s \in States, Goto(t, s)
    PROVE  /\ pc' \in [Turns -> States]
           /\ pc'[t] = s /\ \A u \in Turns \ {t} : pc'[u] = pc[u]
           /\ pc[t] \in Counted /\ s \notin Counted
                => Cardinality(InFlight') = Cardinality(InFlight) - 1
           /\ pc[t] \notin Counted /\ s \in Counted
                => Cardinality(InFlight') = Cardinality(InFlight) + 1
           /\ (pc[t] \in Counted <=> s \in Counted)
                => Cardinality(InFlight') = Cardinality(InFlight)
           /\ pc[t] \in Holding /\ s \notin Holding
                => Cardinality(HeldSlots') = Cardinality(HeldSlots) - 1
           /\ pc[t] \notin Holding /\ s \in Holding
                => Cardinality(HeldSlots') = Cardinality(HeldSlots) + 1
           /\ (pc[t] \in Holding <=> s \in Holding)
                => Cardinality(HeldSlots') = Cardinality(HeldSlots)
<1>1. pc \in [Turns -> States] /\ pc' \in [Turns -> States]
  BY DEF TypeOK, Goto
<1>2. pc' = [pc EXCEPT ![t] = s]
  BY DEF Goto
<1>3. InFlight = {u \in Turns : pc[u] \in Counted} /\ InFlight' = {u \in Turns : pc'[u] \in Counted}
  BY DEF InFlight
<1>4. HeldSlots = {u \in Turns : pc[u] \in Holding} /\ HeldSlots' = {u \in Turns : pc'[u] \in Holding}
  BY DEF HeldSlots
<1>5. /\ pc[t] \in Counted /\ s \notin Counted
           => Cardinality(InFlight') = Cardinality(InFlight) - 1
      /\ pc[t] \notin Counted /\ s \in Counted
           => Cardinality(InFlight') = Cardinality(InFlight) + 1
      /\ (pc[t] \in Counted <=> s \in Counted)
           => Cardinality(InFlight') = Cardinality(InFlight)
  BY <1>1, <1>2, <1>3, Moved
<1>6. /\ pc[t] \in Holding /\ s \notin Holding
           => Cardinality(HeldSlots') = Cardinality(HeldSlots) - 1
      /\ pc[t] \notin Holding /\ s \in Holding
           => Cardinality(HeldSlots') = Cardinality(HeldSlots) + 1
      /\ (pc[t] \in Holding <=> s \in Holding)
           => Cardinality(HeldSlots') = Cardinality(HeldSlots)
  BY <1>1, <1>2, <1>4, Moved
<1>7. pc'[t] = s /\ \A u \in Turns \ {t} : pc'[u] = pc[u]
  BY <1>1, <1>2
<1>8. QED BY <1>1, <1>5, <1>6, <1>7

-----------------------------------------------------------------------------
(* The invariant and its steps.                                            *)

\* The invariant holds at first.
LEMMA TurnsStart == Init => TurnsIInv
<1> SUFFICES ASSUME Init PROVE TurnsIInv
  OBVIOUS
<1>1. TypeOK
  <2>1. pc \in [Turns -> States]
    BY DEF Init, States, Outside
  <2>2. free \in 0..Slots
    BY TurnConstants DEF Init
  <2>3. QED BY <2>1, <2>2 DEF Init, TypeOK
<1>2. InFlight = {} /\ HeldSlots = {}
  BY DEF Init, InFlight, HeldSlots, Counted, Started, Holding
<1>3. Cardinality(InFlight) = 0 /\ Cardinality(HeldSlots) = 0
  BY <1>2, FS_EmptySet
<1>4. QED
  BY <1>1, <1>3, TurnConstants DEF Init, TurnsIInv, CountIsExact, DrainAfterClose, DrainIsFinal

\* Flight's Drop counts a call out that was counted in (turns.rs).
LEMMA LeaveStep ==
    ASSUME TurnsIInv, NEW t \in Turns, pc[t] \in Counted, Leave(t),
           woken' \in [Turns -> BOOLEAN]
    PROVE  TurnsIInv'
<1> DEFINE s == IF inFlight = 1 THEN "last" ELSE "released"
<1>1. Goto(t, s) /\ s \in States /\ s \in Holding /\ s \notin Counted /\ s \notin Started
  BY DEF Leave, States, Holding, Counted, Started
<1>2. pc[t] \in Holding /\ t \in InFlight
  BY DEF Holding, InFlight
<1> HIDE DEF s
<1>3. TypeOK
  BY DEF TurnsIInv
<1>4. /\ pc' \in [Turns -> States] /\ pc'[t] = s
      /\ \A u \in Turns \ {t} : pc'[u] = pc[u]
      /\ Cardinality(InFlight') = Cardinality(InFlight) - 1
      /\ Cardinality(HeldSlots') = Cardinality(HeldSlots)
  BY <1>1, <1>2, <1>3, GotoCounts
<1>5. Cardinality(InFlight) \in Nat /\ Cardinality(InFlight) > 0
  BY <1>2, SizeFacts DEF InFlight
<1>6. inFlight = Cardinality(InFlight)
  BY DEF TurnsIInv, CountIsExact
<1>7. inFlight' = inFlight - 1 /\ UNCHANGED <<closed, bound, announce, drain, free, heard>>
  BY DEF Leave, daemonVars
<1>8. TypeOK'
  BY <1>3, <1>4, <1>5, <1>6, <1>7 DEF TypeOK
<1>9. CountIsExact'
  BY <1>4, <1>6, <1>7 DEF CountIsExact
<1>10. (free + Cardinality(HeldSlots) = Slots)'
  BY <1>4, <1>7 DEF TurnsIInv
<1>11. DrainAfterClose' /\ DrainIsFinal'
  BY <1>1, <1>4, <1>7 DEF TurnsIInv, DrainAfterClose, DrainIsFinal
<1>12. QED BY <1>8, <1>9, <1>10, <1>11 DEF TurnsIInv

\* A move that neither enters nor leaves the count nor the pool, of a call
\* that does not come to be past the look at closed.
LEMMA QuietMove ==
    ASSUME TurnsIInv, NEW t \in Turns, NEW s \in States, Goto(t, s),
           pc[t] \in Counted <=> s \in Counted,
           pc[t] \in Holding <=> s \in Holding,
           s \in Started => pc[t] \in Started \/ ~closed,
           UNCHANGED <<daemonVars, inFlight, free>>,
           woken' \in [Turns -> BOOLEAN], heard' \in BOOLEAN
    PROVE  TurnsIInv'
<1>1. TypeOK
  BY DEF TurnsIInv
<1>2. /\ pc' \in [Turns -> States] /\ pc'[t] = s
      /\ \A u \in Turns \ {t} : pc'[u] = pc[u]
      /\ Cardinality(InFlight') = Cardinality(InFlight)
      /\ Cardinality(HeldSlots') = Cardinality(HeldSlots)
  BY <1>1, GotoCounts
<1>3. UNCHANGED <<closed, bound, announce, drain, inFlight, free>>
  BY DEF daemonVars
<1>4. TypeOK' /\ CountIsExact' /\ (free + Cardinality(HeldSlots) = Slots)'
  BY <1>1, <1>2, <1>3 DEF TurnsIInv, TypeOK, CountIsExact
<1>5. DrainAfterClose'
  BY <1>3 DEF TurnsIInv, DrainAfterClose
<1>6. DrainIsFinal'
  <2> SUFFICES ASSUME drain = "all", NEW u \in Turns PROVE pc'[u] \notin Started
    BY <1>3 DEF DrainIsFinal
  <2>1. closed /\ pc[u] \notin Started /\ pc[t] \notin Started
    BY DEF TurnsIInv, DrainAfterClose, DrainIsFinal
  <2>2. QED BY <1>2, <2>1
<1>7. QED BY <1>4, <1>5, <1>6 DEF TurnsIInv

\* Every step of a call keeps the invariant (PluginTurns::run).
LEMMA TurnStep ==
    ASSUME TurnsIInv, NEW t \in Turns, Turn(t)
    PROVE  TurnsIInv'
<1> USE DEF Counted, Started, Holding, Outside, States
<1>1. TypeOK /\ woken \in [Turns -> BOOLEAN] /\ heard \in BOOLEAN /\ pc[t] \in States
  BY DEF TurnsIInv, TypeOK
<1>2. CASE Call(t)
  <2>1. woken' \in [Turns -> BOOLEAN] /\ heard' \in BOOLEAN
    BY <1>1, <1>2 DEF Call
  <2>2. \E s \in {"over", "rate"} : Goto(t, s)
    BY <1>2 DEF Call
  <2>3. pc[t] = "idle" /\ UNCHANGED <<daemonVars, inFlight, free>>
    BY <1>2 DEF Call
  <2>4. QED BY <2>1, <2>2, <2>3, QuietMove
<1>3. CASE RateToken(t)
  <2>1. woken' \in [Turns -> BOOLEAN] /\ heard' \in BOOLEAN
    BY <1>1, <1>3 DEF RateToken
  <2>2. \E s \in {"over", "slot"} : Goto(t, s)
    BY <1>3 DEF RateToken
  <2>3. pc[t] = "rate" /\ UNCHANGED <<daemonVars, inFlight, free>>
    BY <1>3 DEF RateToken
  <2>4. QED BY <2>1, <2>2, <2>3, QuietMove
<1>4. CASE TakeSlot(t)
  <2>1. CASE free > 0 /\ free' = free - 1 /\ Goto(t, "permit")
    <3>1. pc[t] = "slot" /\ UNCHANGED <<closed, bound, announce, drain, inFlight, woken, heard>>
      BY <1>4 DEF TakeSlot, daemonVars
    <3>2. /\ pc' \in [Turns -> States] /\ pc'[t] = "permit"
          /\ \A u \in Turns \ {t} : pc'[u] = pc[u]
          /\ Cardinality(InFlight') = Cardinality(InFlight)
          /\ Cardinality(HeldSlots') = Cardinality(HeldSlots) + 1
      BY <1>1, <2>1, <3>1, GotoCounts
    <3>3. Cardinality(HeldSlots) \in Nat
      BY SizeFacts DEF HeldSlots
    <3>4. TypeOK'
      BY <1>1, <2>1, <3>1, <3>2, TurnConstants DEF TypeOK
    <3>5. CountIsExact' /\ (free + Cardinality(HeldSlots) = Slots)'
      BY <1>1, <2>1, <3>1, <3>2, <3>3 DEF TurnsIInv, CountIsExact, TypeOK
    <3>6. DrainAfterClose' /\ DrainIsFinal'
      BY <3>1, <3>2 DEF TurnsIInv, DrainAfterClose, DrainIsFinal
    <3>7. QED BY <3>4, <3>5, <3>6 DEF TurnsIInv
  <2>2. CASE free = 0 /\ Goto(t, "over") /\ UNCHANGED free
    <3>1. pc[t] = "slot" /\ UNCHANGED <<daemonVars, inFlight, free>>
      BY <1>4, <2>2 DEF TakeSlot
    <3>2. woken' \in [Turns -> BOOLEAN] /\ heard' \in BOOLEAN
      BY <1>1, <1>4 DEF TakeSlot
    <3>3. QED BY <2>2, <3>1, <3>2, QuietMove
  <2>3. QED BY <1>4, <2>1, <2>2 DEF TakeSlot
<1>5. CASE Enter(t)
  <2>1. pc[t] = "permit" /\ Goto(t, "counted") /\ inFlight' = inFlight + 1
    BY <1>5 DEF Enter
  <2>2. UNCHANGED <<closed, bound, announce, drain, free, woken, heard>>
    BY <1>5 DEF Enter, daemonVars
  <2>3. /\ pc' \in [Turns -> States] /\ pc'[t] = "counted"
        /\ \A u \in Turns \ {t} : pc'[u] = pc[u]
        /\ Cardinality(InFlight') = Cardinality(InFlight) + 1
        /\ Cardinality(HeldSlots') = Cardinality(HeldSlots)
    BY <1>1, <2>1, GotoCounts
  <2>4. TypeOK'
    BY <1>1, <2>1, <2>2, <2>3 DEF TypeOK
  <2>5. CountIsExact' /\ (free + Cardinality(HeldSlots) = Slots)'
    BY <2>1, <2>2, <2>3 DEF TurnsIInv, CountIsExact
  <2>6. DrainAfterClose' /\ DrainIsFinal'
    BY <2>2, <2>3 DEF TurnsIInv, DrainAfterClose, DrainIsFinal
  <2>7. QED BY <2>4, <2>5, <2>6 DEF TurnsIInv
<1>6. CASE LookClosed(t)
  <2>1. CASE closed
    <3>1. pc[t] = "counted" /\ Leave(t) /\ woken' \in [Turns -> BOOLEAN]
      BY <1>1, <1>6, <2>1 DEF LookClosed
    <3>2. QED BY <3>1, LeaveStep
  <2>2. CASE ~closed
    <3>1. pc[t] = "counted" /\ Goto(t, "armed") /\ UNCHANGED <<daemonVars, inFlight, free>>
      BY <1>6, <2>2 DEF LookClosed
    <3>2. woken' \in [Turns -> BOOLEAN] /\ heard' \in BOOLEAN
      BY <1>1, <1>6, <2>2 DEF LookClosed
    <3>3. QED BY <2>2, <3>1, <3>2, QuietMove
  <2>3. QED BY <2>1, <2>2
<1>7. CASE LookBound(t)
  <2>1. pc[t] = "armed" /\ woken' \in [Turns -> BOOLEAN]
    BY <1>1, <1>7 DEF LookBound
  <2>2. CASE Leave(t)
    BY <2>1, <2>2, LeaveStep
  <2>3. CASE ~Leave(t)
    <3>1. /\ \E s \in {"running", "asleep"} : Goto(t, s)
          /\ UNCHANGED <<daemonVars, inFlight, free>> /\ heard' \in BOOLEAN
      BY <1>1, <1>7, <2>3 DEF LookBound
    <3>2. QED BY <2>1, <3>1, QuietMove
  <2>4. QED BY <2>2, <2>3
<1>8. CASE Wake(t)
  <2>1. pc[t] = "asleep" /\ Goto(t, "armed") /\ UNCHANGED <<daemonVars, inFlight, free>>
    BY <1>8 DEF Wake
  <2>2. woken' \in [Turns -> BOOLEAN] /\ heard' \in BOOLEAN
    BY <1>1, <1>8 DEF Wake
  <2>3. QED BY <2>1, <2>2, QuietMove
<1>9. CASE NotReady(t) \/ Finish(t)
  <2>1. pc[t] \in {"asleep", "running"} /\ Leave(t) /\ woken' \in [Turns -> BOOLEAN]
    BY <1>1, <1>9 DEF NotReady, Finish
  <2>2. QED BY <2>1, LeaveStep
<1>10. CASE Dropped(t)
  <2>1. CASE pc[t] \in {"rate", "slot"} /\ Goto(t, "over") /\ UNCHANGED <<daemonVars, inFlight, free, woken, heard>>
    <3>1. woken' \in [Turns -> BOOLEAN] /\ heard' \in BOOLEAN
      BY <1>1, <2>1
    <3>2. QED BY <2>1, <3>1, QuietMove
  <2>2. CASE pc[t] \in {"asleep", "running"} /\ Leave(t) /\ UNCHANGED woken
    <3>1. woken' \in [Turns -> BOOLEAN]
      BY <1>1, <2>2
    <3>2. QED BY <2>2, <3>1, LeaveStep
  <2>3. QED BY <1>10, <2>1, <2>2 DEF Dropped
<1>11. CASE NotifyDrained(t)
  <2>1. pc[t] = "last" /\ Goto(t, "released") /\ UNCHANGED <<daemonVars, inFlight, free>>
    BY <1>11 DEF NotifyDrained
  <2>2. woken' \in [Turns -> BOOLEAN] /\ heard' \in BOOLEAN
    BY <1>1, <1>11 DEF NotifyDrained
  <2>3. QED BY <2>1, <2>2, QuietMove
<1>12. CASE ReleaseSlot(t)
  <2>1. pc[t] = "released" /\ Goto(t, "over") /\ free' = free + 1
    BY <1>12 DEF ReleaseSlot
  <2>2. UNCHANGED <<closed, bound, announce, drain, inFlight, woken, heard>>
    BY <1>12 DEF ReleaseSlot, daemonVars
  <2>3. /\ pc' \in [Turns -> States] /\ pc'[t] = "over"
        /\ \A u \in Turns \ {t} : pc'[u] = pc[u]
        /\ Cardinality(InFlight') = Cardinality(InFlight)
        /\ Cardinality(HeldSlots') = Cardinality(HeldSlots) - 1
    BY <1>1, <2>1, GotoCounts
  <2>4. t \in HeldSlots
    BY <2>1 DEF HeldSlots
  <2>5. Cardinality(HeldSlots) \in Nat /\ Cardinality(HeldSlots) > 0
    BY <2>4, SizeFacts DEF HeldSlots
  <2>6. TypeOK'
    <3>1. free' \in 0..Slots
      BY <1>1, <2>1, <2>5, TurnConstants DEF TurnsIInv, TypeOK
    <3>2. QED BY <1>1, <2>2, <2>3, <3>1 DEF TypeOK
  <2>7. CountIsExact' /\ (free + Cardinality(HeldSlots) = Slots)'
    BY <1>1, <2>1, <2>2, <2>3, <2>5 DEF TurnsIInv, CountIsExact, TypeOK
  <2>8. DrainAfterClose' /\ DrainIsFinal'
    BY <2>2, <2>3 DEF TurnsIInv, DrainAfterClose, DrainIsFinal
  <2>9. QED BY <2>6, <2>7, <2>8 DEF TurnsIInv
<1>13. QED BY <1>2, <1>3, <1>4, <1>5, <1>6, <1>7, <1>8, <1>9, <1>10, <1>11, <1>12 DEF Turn, Own

\* Every step of the daemon keeps the invariant: drain answers from the
\* count, and a count of zero means that no call is past enter.
LEMMA DaemonStep ==
    ASSUME TurnsIInv, Daemon
    PROVE  TurnsIInv'
<1>1. TypeOK
  BY DEF TurnsIInv
<1>2. UNCHANGED <<inFlight, free, pc>>
  BY DEF Daemon, Bind, RefuseNew, DrainArm, DrainLook, DrainTimeout, Announce
<1>3. InFlight' = InFlight /\ HeldSlots' = HeldSlots
  BY <1>2 DEF InFlight, HeldSlots
<1>4. TypeOK'
  <2>1. closed' \in BOOLEAN /\ bound' \in BOOLEAN
    BY <1>1 DEF Daemon, Bind, RefuseNew, DrainArm, DrainLook, DrainTimeout, Announce, TypeOK
  <2>2. woken' \in [Turns -> BOOLEAN]
    <3>1. CASE \E what \in announce : Announce(what)
      BY <3>1, <1>1, Zenon DEF Announce, TypeOK
    <3>2. CASE woken' = woken
      BY <3>2, <1>1 DEF TypeOK
    <3>3. QED BY <3>1, <3>2 DEF Daemon, Bind, RefuseNew, DrainArm, DrainLook, DrainTimeout
  <2>3. announce' \subseteq {"bind", "close"}
    BY <1>1 DEF Daemon, Bind, RefuseNew, DrainArm, DrainLook, DrainTimeout, Announce, TypeOK
  <2>4. drain' \in {"off", "armed", "asleep", "all", "late"} /\ heard' \in BOOLEAN
    BY <1>1 DEF Daemon, Bind, RefuseNew, DrainArm, DrainLook, DrainTimeout, Announce, TypeOK
  <2>5. QED BY <1>1, <1>2, <2>1, <2>2, <2>3, <2>4 DEF TypeOK
<1>5. CountIsExact' /\ (free + Cardinality(HeldSlots) = Slots)'
  BY <1>2, <1>3 DEF TurnsIInv, CountIsExact
<1>6. DrainAfterClose'
  BY DEF TurnsIInv, DrainAfterClose, Daemon, Bind, RefuseNew, DrainArm, DrainLook, DrainTimeout, Announce
<1>7. DrainIsFinal'
  <2>1. CASE drain' = "all" /\ drain # "all"
    <3>1. inFlight = 0
      BY <2>1 DEF Daemon, Bind, RefuseNew, DrainArm, DrainLook, DrainTimeout, Announce
    <3>2. InFlight = {}
      BY <3>1, SizeFacts DEF TurnsIInv, CountIsExact, InFlight
    <3>3. QED BY <1>2, <3>2 DEF DrainIsFinal, InFlight, Counted
  <2>2. CASE drain' # "all" \/ drain = "all"
    BY <1>2, <2>2 DEF TurnsIInv, DrainIsFinal
  <2>3. QED BY <2>1, <2>2
<1>8. QED BY <1>4, <1>5, <1>6, <1>7 DEF TurnsIInv

\* It holds when nothing happens.
LEMMA TurnsRest == ASSUME TurnsIInv, UNCHANGED vars PROVE TurnsIInv'
BY DEF vars, TurnsIInv, TypeOK, CountIsExact, InFlight, HeldSlots, DrainAfterClose, DrainIsFinal

\* It holds of every behaviour.
LEMMA TurnsInvariance == Spec => []TurnsIInv
<1>1. TurnsIInv /\ [Next]_vars => TurnsIInv'
  BY TurnStep, DaemonStep, TurnsRest DEF Next
<1>2. QED BY <1>1, TurnsStart, PTL DEF Spec

-----------------------------------------------------------------------------
(* Theorems.                                                               *)

\* The variables keep their types: in particular the count of flights never
\* goes below zero, where fetch_sub would wrap (turns.rs: Flight).
THEOREM TurnsTyped == Spec => []TypeOK
<1>1. TurnsIInv => TypeOK
  BY DEF TurnsIInv
<1>2. QED BY <1>1, TurnsInvariance, PTL

\* Whatever the number of calls, what drain reads is the number of calls
\* between enter and the Drop of their Flight (turns.rs: enter, Flight).
THEOREM CountOfFlights == Spec => []CountIsExact
<1>1. TurnsIInv => CountIsExact
  BY DEF TurnsIInv
<1>2. QED BY <1>1, TurnsInvariance, PTL

\* No slot of a plugin's pool is lost or made, whichever way a call ends
\* (turns.rs: slot).
THEOREM SlotsAreKept == Spec => []PoolIsWhole
<1>1. TurnsIInv => PoolIsWhole
  BY DEF TurnsIInv, PoolIsWhole, HeldSlots
<1>2. QED BY <1>1, TurnsInvariance, PTL

\* When drain has answered that every turn finished, none runs and none will
\* (turns.rs: "so drain either sees this turn or this turn sees refuse_new").
THEOREM NothingAfterDrain == Spec => []DrainIsFinal
<1>1. TurnsIInv => DrainIsFinal
  BY DEF TurnsIInv
<1>2. QED BY <1>1, TurnsInvariance, PTL

\* What the admission of turns promises holds for any number of calls and
\* slots (turns.rs: enter, run, drain and the two drops).
THEOREM AdmissionIsKept == Spec => []AdmissionHolds
<1>1. TypeOK /\ DrainIsFinal /\ PoolIsWhole /\ CountIsExact => AdmissionHolds
  BY DEF AdmissionHolds
<1>2. QED BY <1>1, TurnsTyped, CountOfFlights, SlotsAreKept, NothingAfterDrain, PTL

-----------------------------------------------------------------------------
(* The liveness alarm.                                                     *)
(*                                                                         *)
(* The argument: a message on its way that nothing has overtaken still     *)
(* says what the store owes, so the store that its mark changes is the one *)
(* it was decided from, in all that the rule reads.  A message that was    *)
(* overtaken muddles its subject when it is delivered or marked, and from  *)
(* then on nothing is claimed of it.                                       *)

Healths == [streak : 0..MaxStreak, alerted : BOOLEAN, due : BOOLEAN, resolution : BOOLEAN,
            window : Seq(BOOLEAN), flapAlerted : BOOLEAN, flapDue : BOOLEAN]
Silences == [past : BOOLEAN, alerted : BOOLEAN, due : BOOLEAN, resolution : BOOLEAN]
Acts == [at : {"idle", "deciding", "sending", "marking"}, on : Subjects,
         kind : Kinds \cup {"none"}, outdated : BOOLEAN, todo : SUBSET Subjects]
LastWords == [streak : BOOLEAN, flap : BOOLEAN]

HealthTyped ==
  /\ config \in Configs
  /\ health \in [Tasks -> Healths] /\ \A t \in Tasks : Len(health[t].window) <= config.window
  /\ silence \in Silences
  /\ act \in [Actors -> Acts]
  /\ lastWord \in [Subjects -> LastWords]
  /\ muddled \subseteq Subjects /\ restarts \in 0..config.restarts

KindIsKnown == \A a \in Actors : act[a].at \in {"sending", "marking"} => act[a].kind \in Kinds

(* A message of a kind about a task that is on its way and not overtaken,  *)
(* and one under a rule that is delivered and not marked.                  *)
OnItsWay(a, t, kind) ==
  /\ act[a].at \in {"sending", "marking"} /\ act[a].on = t /\ act[a].kind = kind
  /\ ~act[a].outdated
MarkedLater(a, t, rule) == act[a].at = "marking" /\ act[a].on = t /\ Rule(act[a].kind) = rule

StreakOwed(t) ==
  /\ health[t].alerted => health[t].streak # 0 /\ ~health[t].resolution
  /\ \A a \in Actors : OnItsWay(a, t, "failing") => health[t].streak # 0 /\ ~health[t].resolution
  /\ \A a \in Actors : OnItsWay(a, t, "recovered") => health[t].resolution

StreakHeard(t) ==
  /\ (\A a \in Actors : ~MarkedLater(a, t, "streak")) =>
       (lastWord[t].streak <=> health[t].alerted \/ health[t].resolution)
  /\ \A a \in Actors : MarkedLater(a, t, "streak") /\ ~act[a].outdated =>
       (lastWord[t].streak <=> act[a].kind = "failing")

FlapHeard(t) ==
  /\ (\A a \in Actors : ~MarkedLater(a, t, "flap")) => (lastWord[t].flap <=> health[t].flapAlerted)
  /\ \A a \in Actors : MarkedLater(a, t, "flap") /\ ~act[a].outdated =>
       (lastWord[t].flap <=> act[a].kind = "flapping")

OwedAsHeard == \A t \in Tasks : t \notin muddled => StreakOwed(t) /\ StreakHeard(t) /\ FlapHeard(t)

HealthIInv == HealthTyped /\ KindIsKnown /\ OwedAsHeard

(* The constants, and the configuration in force.                          *)
LEMMA ConfigFacts ==
  ASSUME config \in Configs
  PROVE  /\ config.threshold \in Nat \ {0} /\ config.window \in Nat \ {0} /\ config.restarts \in Nat
         /\ MaxStreak \in Nat /\ MaxStreak > 1
         /\ Watchdog \notin Tasks /\ Global \notin Tasks
         /\ Watchdog \in Actors /\ Global \in Subjects /\ Tasks \subseteq Actors /\ Tasks \subseteq Subjects
BY TaskHealthAssumption DEF MaxStreak, Actors, Subjects

(* What an outcome makes of a task's record.                               *)
LEMMA WindowFacts ==
  ASSUME config \in Configs, NEW w \in Seq(BOOLEAN), Len(w) <= config.window, NEW ok \in BOOLEAN
  PROVE  PushOutcome(w, ok) \in Seq(BOOLEAN) /\ Len(PushOutcome(w, ok)) <= config.window
<1>1. PICK longer : longer = Append(w, ok)
  OBVIOUS
<1>2. longer \in Seq(BOOLEAN) /\ Len(longer) = Len(w) + 1 /\ Len(w) \in Nat /\ longer # <<>>
  BY <1>1
<1>3. PushOutcome(w, ok) = IF Len(longer) > config.window THEN Tail(longer) ELSE longer
  BY <1>1 DEF PushOutcome
<1>4. Tail(longer) \in Seq(BOOLEAN) /\ Len(Tail(longer)) = Len(w)
  BY <1>2
<1>5. config.window \in Nat
  BY ConfigFacts
<1>6. CASE Len(longer) > config.window
  BY <1>2, <1>3, <1>4, <1>5, <1>6
<1>7. CASE ~(Len(longer) > config.window)
  BY <1>2, <1>3, <1>5, <1>7
<1> QED BY <1>6, <1>7

(* The record of a task after a run that went well (record_success).       *)
LEMMA SucceededFacts ==
  ASSUME config \in Configs, NEW h \in Healths, Len(h.window) <= config.window
  PROVE  /\ Succeeded(h) \in Healths /\ Len(Succeeded(h).window) <= config.window
         /\ Succeeded(h).streak = 0 /\ ~Succeeded(h).alerted
         /\ Succeeded(h).resolution = (h.resolution \/ h.alerted)
         /\ Succeeded(h).flapAlerted = h.flapAlerted
<1>1. PICK w : w = PushOutcome(h.window, TRUE)
  OBVIOUS
<1>2. w \in Seq(BOOLEAN) /\ Len(w) <= config.window
  BY <1>1, WindowFacts DEF Healths
<1>3. Succeeded(h) = [h EXCEPT !.resolution = @ \/ h.alerted, !.streak = 0, !.alerted = FALSE,
                              !.due = TRUE, !.window = w]
  BY <1>1 DEF Succeeded
<1>4. 0 \in 0..MaxStreak
  BY ConfigFacts
<1> QED BY <1>2, <1>3, <1>4 DEF Healths

(* The record of a task after a run that failed (record_failure).          *)
LEMMA FailedFacts ==
  ASSUME config \in Configs, NEW h \in Healths, Len(h.window) <= config.window
  PROVE  /\ Failed(h) \in Healths /\ Len(Failed(h).window) <= config.window
         /\ Failed(h).streak # 0 /\ Failed(h).alerted = (h.alerted /\ h.streak # 0)
         /\ Failed(h).resolution = h.resolution
         /\ Failed(h).flapAlerted = h.flapAlerted
<1>1. PICK w : w = PushOutcome(h.window, FALSE)
  OBVIOUS
<1>2. w \in Seq(BOOLEAN) /\ Len(w) <= config.window
  BY <1>1, WindowFacts DEF Healths
<1>3. PICK n : n = IF h.streak < MaxStreak THEN h.streak + 1 ELSE h.streak
  OBVIOUS
<1>4. n \in 0..MaxStreak /\ n # 0
  BY <1>3, ConfigFacts DEF Healths
<1>5. Failed(h) = [h EXCEPT !.alerted = @ /\ h.streak # 0, !.due = @ \/ h.streak = 0,
                           !.streak = n, !.window = w]
  BY <1>1, <1>3 DEF Failed
<1> QED BY <1>2, <1>4, <1>5 DEF Healths

(* What is owed about a task.                                              *)
LEMMA PendingFacts ==
  ASSUME config \in Configs, health \in [Tasks -> Healths], NEW t \in Tasks
  PROVE  /\ Pending(t) \in Kinds \cup {"none"}
         /\ Pending(t) = "recovered" => health[t].resolution
         /\ Pending(t) = "failing" => health[t].streak # 0 /\ ~health[t].resolution
<1>1. t # Global
  BY ConfigFacts
<1>2. health[t].streak \in Nat /\ config.threshold \in Nat \ {0}
  BY ConfigFacts DEF Healths
<1>3. PICK fl : fl = Flapping(health[t].window)
  OBVIOUS
<1>4. PICK st : st = Steady(health[t].window)
  OBVIOUS
<1>5. fl \in BOOLEAN /\ st \in BOOLEAN
  BY <1>3, <1>4 DEF Flapping, Steady, Judged
<1>6. Pending(t) =
        CASE health[t].resolution -> "recovered"
          [] ~health[t].resolution /\ health[t].streak >= config.threshold ->
               IF health[t].due THEN "failing" ELSE "none"
          [] ~health[t].resolution /\ health[t].streak < config.threshold /\ fl ->
               IF health[t].flapDue THEN "flapping" ELSE "none"
          [] ~health[t].resolution /\ health[t].streak < config.threshold /\ st /\ health[t].flapAlerted ->
               "flap_resolved"
          [] OTHER -> "none"
  BY <1>1, <1>3, <1>4 DEF Pending, PendingTaskAlert
<1> QED BY <1>2, <1>6 DEF Kinds

(* What overtaking leaves of the messages on their way.                    *)
LEMMA OvertakeFacts ==
  ASSUME NEW f \in [Actors -> Acts], NEW over, NEW g, g = Overtake(f, over)
  PROVE  /\ g \in [Actors -> Acts]
         /\ \A a \in Actors :
              /\ g[a].at = f[a].at /\ g[a].on = f[a].on /\ g[a].kind = f[a].kind /\ g[a].todo = f[a].todo
              /\ f[a].outdated => g[a].outdated
              /\ f[a].at \in {"sending", "marking"} /\ <<f[a].on, f[a].kind>> \in over => g[a].outdated
              /\ ~(f[a].at \in {"sending", "marking"} /\ <<f[a].on, f[a].kind>> \in over)
                   => g[a].outdated = f[a].outdated
<1>1. g = [a \in Actors |-> IF f[a].at \in {"sending", "marking"} /\ <<f[a].on, f[a].kind>> \in over
                            THEN [f[a] EXCEPT !.outdated = TRUE] ELSE f[a]]
  BY DEF Overtake
<1>2. ASSUME NEW a \in Actors
      PROVE  /\ [f[a] EXCEPT !.outdated = TRUE] \in Acts
             /\ [f[a] EXCEPT !.outdated = TRUE].at = f[a].at /\ [f[a] EXCEPT !.outdated = TRUE].on = f[a].on
             /\ [f[a] EXCEPT !.outdated = TRUE].kind = f[a].kind
             /\ [f[a] EXCEPT !.outdated = TRUE].todo = f[a].todo
             /\ [f[a] EXCEPT !.outdated = TRUE].outdated
  BY DEF Acts
<1> QED BY <1>1, <1>2

(* An actor that does nothing for anybody.                                 *)
LEMMA IdleFacts ==
  ASSUME config \in Configs
  PROVE  /\ Idle \in Acts /\ Idle.at = "idle" /\ Idle.todo = {}
         /\ \A T \in SUBSET Subjects : [Idle EXCEPT !.todo = T] \in Acts
         /\ \A T : [Idle EXCEPT !.todo = T].at = "idle"
         /\ \A t \in Tasks : /\ [Idle EXCEPT !.at = "deciding", !.on = t] \in Acts
                             /\ [Idle EXCEPT !.at = "deciding", !.on = t].at = "deciding"
BY ConfigFacts DEF Idle, Acts

(* No task has run yet.                                                    *)
LEMMA HealthStarts == HealthInit => HealthIInv
<1> SUFFICES ASSUME HealthInit PROVE HealthIInv
  OBVIOUS
<1>1. config \in Configs /\ act = [a \in Actors |-> Idle] /\ muddled = {} /\ restarts = 0
  BY DEF HealthInit
<1>2. \A a \in Actors : act[a] = Idle /\ act[a].at = "idle"
  BY <1>1, IdleFacts
<1>3. act \in [Actors -> Acts]
  BY <1>1, IdleFacts
<1>4. PICK h : h = [streak |-> 0, alerted |-> FALSE, due |-> TRUE, resolution |-> FALSE, window |-> <<>>,
                    flapAlerted |-> FALSE, flapDue |-> TRUE]
  OBVIOUS
<1>5. h \in Healths /\ Len(h.window) = 0
  BY <1>1, ConfigFacts, <1>4 DEF Healths
<1>6. \A t \in Tasks : health[t] = h
  BY <1>4 DEF HealthInit
<1>7. health \in [Tasks -> Healths] /\ \A t \in Tasks : Len(health[t].window) <= config.window
  BY <1>1, <1>4, <1>5, <1>6, ConfigFacts DEF HealthInit
<1>8. silence \in Silences /\ lastWord \in [Subjects -> LastWords]
  BY DEF HealthInit, Silences, LastWords
<1>9. HealthTyped
  BY <1>1, <1>3, <1>7, <1>8, ConfigFacts DEF HealthTyped
<1>10. KindIsKnown
  BY <1>2 DEF KindIsKnown
<1>11. OwedAsHeard
  <2> SUFFICES ASSUME NEW t \in Tasks PROVE StreakOwed(t) /\ StreakHeard(t) /\ FlapHeard(t)
    BY DEF OwedAsHeard
  <2>1. ~health[t].alerted /\ ~health[t].resolution /\ ~health[t].flapAlerted
    BY <1>4, <1>6
  <2>2. ~lastWord[t].streak /\ ~lastWord[t].flap
    BY <1>1, ConfigFacts DEF HealthInit
  <2> QED BY <1>2, <2>1, <2>2 DEF StreakOwed, StreakHeard, FlapHeard, OnItsWay, MarkedLater
<1> QED BY <1>9, <1>10, <1>11 DEF HealthIInv

-----------------------------------------------------------------------------
(* What a step that changes little leaves alone.                           *)
LEMMA OwedStays ==
  ASSUME NEW t \in Tasks, StreakOwed(t),
         /\ health'[t].streak # 0 <=> health[t].streak # 0
         /\ health'[t].alerted = health[t].alerted /\ health'[t].resolution = health[t].resolution,
         \A a \in Actors : act'[a].at \in {"sending", "marking"} /\ ~act'[a].outdated /\ act'[a].on = t =>
            /\ act[a].at \in {"sending", "marking"} /\ ~act[a].outdated
            /\ act[a].on = t /\ act'[a].kind = act[a].kind
  PROVE  StreakOwed(t)'
BY DEF StreakOwed, OnItsWay

(* What was heard of a task stays true when nothing new is owed or on its  *)
(* way.                                                                    *)
LEMMA HeardStays ==
  ASSUME NEW t \in Tasks, StreakHeard(t), FlapHeard(t),
         lastWord'[t] = lastWord[t],
         /\ health'[t].alerted \/ health'[t].resolution <=> health[t].alerted \/ health[t].resolution
         /\ health'[t].flapAlerted = health[t].flapAlerted,
         \A a \in Actors :
            /\ act'[a].at = "marking" <=> act[a].at = "marking"
            /\ act[a].at = "marking" => /\ act'[a].on = act[a].on /\ act'[a].kind = act[a].kind
                                        /\ act[a].outdated => act'[a].outdated
  PROVE  StreakHeard(t)' /\ FlapHeard(t)'
<1>1. \A a \in Actors, rule \in {"streak", "flap"} : MarkedLater(a, t, rule)' <=> MarkedLater(a, t, rule)
  BY DEF MarkedLater, Rule
<1>2. \A a \in Actors : MarkedLater(a, t, "streak")' /\ ~act'[a].outdated =>
                          MarkedLater(a, t, "streak") /\ ~act[a].outdated /\ act'[a].kind = act[a].kind
  BY <1>1 DEF MarkedLater
<1>3. \A a \in Actors : MarkedLater(a, t, "flap")' /\ ~act'[a].outdated =>
                          MarkedLater(a, t, "flap") /\ ~act[a].outdated /\ act'[a].kind = act[a].kind
  BY <1>1 DEF MarkedLater
<1>4. StreakHeard(t)'
  BY <1>1, <1>2 DEF StreakHeard
<1>5. FlapHeard(t)'
  BY <1>1, <1>3 DEF FlapHeard
<1> QED BY <1>4, <1>5

(* A cycle of a task is over.                                              *)
LEMMA OutcomeKeeps ==
  ASSUME HealthIInv, NEW t \in Tasks, NEW ok \in BOOLEAN, RecordOutcome(t, ok)
  PROVE  HealthIInv'
<1>1. HealthTyped /\ KindIsKnown /\ OwedAsHeard
  BY DEF HealthIInv
<1>2. /\ config \in Configs /\ health \in [Tasks -> Healths] /\ act \in [Actors -> Acts]
      /\ \A u \in Tasks : Len(health[u].window) <= config.window
      /\ config' = config /\ lastWord' = lastWord /\ muddled' = muddled /\ restarts' = restarts
      /\ act[t].at = "idle" /\ t \in Actors
  BY <1>1, ConfigFacts DEF HealthTyped, RecordOutcome
<1>3. PICK over : over = IF ok THEN {<<t, "failing">>, <<Global, "failing">>, <<Global, "recovered">>}
                                      \cup (IF health[t].alerted THEN {<<t, "recovered">>} ELSE {})
                         ELSE {}
  OBVIOUS
<1>4. PICK f : f = Overtake(act, over)
  OBVIOUS
<1>5. PICK d : d = [Idle EXCEPT !.at = "deciding", !.on = t]
  OBVIOUS
<1>6. d \in Acts /\ d.at = "deciding"
  BY <1>2, <1>5, IdleFacts
<1>7. act' = [f EXCEPT ![t] = d]
  BY <1>3, <1>4, <1>5 DEF RecordOutcome
<1>8. /\ f \in [Actors -> Acts]
      /\ \A a \in Actors :
           /\ f[a].at = act[a].at /\ f[a].on = act[a].on /\ f[a].kind = act[a].kind /\ f[a].todo = act[a].todo
           /\ act[a].outdated => f[a].outdated
           /\ act[a].at \in {"sending", "marking"} /\ <<act[a].on, act[a].kind>> \in over => f[a].outdated
  BY <1>2, <1>4, OvertakeFacts
<1>9. act' \in [Actors -> Acts] /\ \A a \in Actors : act'[a] = IF a = t THEN d ELSE f[a]
  BY <1>2, <1>6, <1>7, <1>8
<1>10. PICK h : h = IF ok THEN Succeeded(health[t]) ELSE Failed(health[t])
  OBVIOUS
<1>11. PICK g \in Healths : g = health[t] /\ Len(g.window) <= config.window
  BY <1>2
<1>12. /\ h \in Healths /\ Len(h.window) <= config.window /\ h.flapAlerted = g.flapAlerted
       /\ ok => h.streak = 0 /\ ~h.alerted /\ h.resolution = (g.resolution \/ g.alerted)
       /\ ~ok => h.streak # 0 /\ h.alerted = (g.alerted /\ g.streak # 0) /\ h.resolution = g.resolution
  BY <1>2, <1>10, <1>11, SucceededFacts, FailedFacts
<1>13. health' = [health EXCEPT ![t] = h]
  BY <1>10 DEF RecordOutcome
<1>14. /\ health' \in [Tasks -> Healths] /\ \A u \in Tasks : health'[u] = IF u = t THEN h ELSE health[u]
       /\ \A u \in Tasks : Len(health'[u].window) <= config.window
  BY <1>2, <1>12, <1>13
<1>15. silence' \in Silences
  BY <1>1 DEF HealthTyped, RecordOutcome, SilenceBroken, Silences
<1>16. HealthTyped'
  BY <1>2, <1>1, <1>9, <1>14, <1>15 DEF Healths, MaxStreak, HealthTyped
<1>17. KindIsKnown'
  BY <1>1, <1>6, <1>8, <1>9 DEF KindIsKnown
<1>18. OwedAsHeard'
  <2> SUFFICES ASSUME NEW u \in Tasks, u \notin muddled
               PROVE  StreakOwed(u)' /\ StreakHeard(u)' /\ FlapHeard(u)'
    BY <1>2 DEF OwedAsHeard
  <2>1. StreakOwed(u) /\ StreakHeard(u) /\ FlapHeard(u)
    BY <1>1 DEF OwedAsHeard
  <2>2. \A a \in Actors : act'[a].at \in {"sending", "marking"} =>
          /\ act[a].at = act'[a].at /\ act'[a].on = act[a].on /\ act'[a].kind = act[a].kind
          /\ act[a].outdated => act'[a].outdated
          /\ <<act[a].on, act[a].kind>> \in over => act'[a].outdated
    BY <1>6, <1>8, <1>9
  <2>3. \A a \in Actors : act[a].at = "marking" =>
          /\ act'[a].at = "marking" /\ act'[a].on = act[a].on /\ act'[a].kind = act[a].kind
          /\ act[a].outdated => act'[a].outdated
    BY <1>2, <1>8, <1>9
  <2>4. /\ health'[u].alerted \/ health'[u].resolution <=> health[u].alerted \/ health[u].resolution
        /\ health'[u].flapAlerted = health[u].flapAlerted
    <3>1. CASE u # t
      BY <1>14, <3>1
    <3>2. CASE u = t /\ ok
      BY <1>11, <1>12, <1>14, <3>2 DEF Healths
    <3>3. CASE u = t /\ ~ok
      BY <1>11, <2>1, <3>3, <1>12, <1>14 DEF StreakOwed, Healths
    <3> QED BY <3>1, <3>2, <3>3
  <2>5. StreakHeard(u)' /\ FlapHeard(u)'
    BY <2>2, <2>3, <1>2, <2>1, <2>4, HeardStays
  <2>6. StreakOwed(u)'
    <3>1. CASE u # t
      BY <1>14, <3>1, <2>1, <2>2 DEF StreakOwed, OnItsWay
    <3>2. CASE u = t /\ ok
      <4>1. ~health'[u].alerted /\ health'[u].resolution = (g.resolution \/ g.alerted)
        BY <1>12, <1>14, <3>2
      <4>2. ASSUME NEW a \in Actors PROVE ~OnItsWay(a, u, "failing")'
        BY <1>3, <3>2, <2>2 DEF OnItsWay
      <4>3. ASSUME NEW a \in Actors, OnItsWay(a, u, "recovered")' PROVE health'[u].resolution
        BY <2>2, <4>3, <1>11, <2>1, <3>2, <4>1 DEF OnItsWay, StreakOwed, Healths
      <4> QED BY <4>1, <4>2, <4>3 DEF StreakOwed
    <3>3. CASE u = t /\ ~ok
      <4>1. /\ health'[u].streak # 0 /\ health'[u].resolution = health[u].resolution
            /\ health'[u].alerted => health[u].alerted
        BY <1>11, <1>12, <1>14, <3>3 DEF Healths
      <4>2. \A a \in Actors, k \in {"failing", "recovered"} : OnItsWay(a, u, k)' => OnItsWay(a, u, k)
        BY <2>2 DEF OnItsWay
      <4> QED BY <2>1, <4>1, <4>2 DEF StreakOwed
    <3> QED BY <3>1, <3>2, <3>3
  <2> QED BY <2>5, <2>6
<1> QED BY <1>16, <1>17, <1>18 DEF HealthIInv

(* What is owed is decided, and sent or not.                               *)
LEMMA DecideKeeps ==
  ASSUME HealthIInv, NEW a \in Actors, NEW x \in Subjects, NEW f \in [Actors -> Acts],
         \A b \in Actors : /\ f[b].at = act[b].at /\ f[b].on = act[b].on /\ f[b].kind = act[b].kind
                           /\ f[b].outdated = act[b].outdated,
         act[a].at \in {"idle", "deciding"}, Decide(a, x, f)
  PROVE  HealthIInv'
<1>1. HealthTyped /\ KindIsKnown /\ OwedAsHeard
  BY DEF HealthIInv
<1>2. /\ config \in Configs /\ health \in [Tasks -> Healths]
      /\ config' = config /\ health' = health /\ silence' = silence
      /\ lastWord' = lastWord /\ muddled' = muddled /\ restarts' = restarts
  BY <1>1 DEF HealthTyped, Decide
<1>3. PICK kind : kind = Pending(x)
  OBVIOUS
<1>4. /\ kind \in Kinds \cup {"none"}
      /\ \A t \in Tasks : x = t => /\ kind = "recovered" => health[t].resolution
                                   /\ kind = "failing" => health[t].streak # 0 /\ ~health[t].resolution
  BY <1>2, <1>3, ConfigFacts, PendingFacts DEF Pending, PendingGlobalAlert, Kinds, Subjects
<1>5. PICK idle : idle = [Idle EXCEPT !.todo = f[a].todo]
  OBVIOUS
<1>6. idle \in Acts /\ idle.at = "idle"
  BY <1>2, <1>5, IdleFacts DEF Acts
<1>7. PICK e : e = [f[a] EXCEPT !.at = "sending", !.on = x, !.kind = kind]
  OBVIOUS
<1>8. e \in Acts /\ e.at = "sending" /\ e.on = x /\ e.kind = kind /\ e.outdated = act[a].outdated
  BY <1>4, <1>7 DEF Acts
<1>9. act' = IF kind = "none" THEN [f EXCEPT ![a] = idle] ELSE [f EXCEPT ![a] = e]
  BY <1>3, <1>5, <1>7 DEF Decide, Rest
<1>10. /\ act' \in [Actors -> Acts] /\ \A b \in Actors : b # a => act'[b] = f[b]
       /\ act'[a] = IF kind = "none" THEN idle ELSE e
  BY <1>6, <1>8, <1>9
<1>11. HealthTyped'
  BY <1>2, <1>1, <1>10 DEF Healths, MaxStreak, HealthTyped
<1>12. KindIsKnown'
  <2> SUFFICES ASSUME NEW b \in Actors, act'[b].at \in {"sending", "marking"} PROVE act'[b].kind \in Kinds
    BY DEF KindIsKnown
  <2>1. CASE b = a
    BY <1>4, <1>6, <1>8, <1>10, <2>1
  <2>2. CASE b # a
    BY <1>1, <1>10, <2>2 DEF KindIsKnown
  <2> QED BY <2>1, <2>2
<1>13. OwedAsHeard'
  <2> SUFFICES ASSUME NEW u \in Tasks, u \notin muddled
               PROVE  StreakOwed(u)' /\ StreakHeard(u)' /\ FlapHeard(u)'
    BY <1>2 DEF OwedAsHeard
  <2>1. StreakOwed(u) /\ StreakHeard(u) /\ FlapHeard(u)
    BY <1>1 DEF OwedAsHeard
  <2>2. StreakHeard(u)' /\ FlapHeard(u)'
    BY <1>6, <1>8, <1>10, <1>2, <2>1, HeardStays
  <2>3. \A b \in Actors : \A k : OnItsWay(b, u, k)' => OnItsWay(b, u, k) \/ (b = a /\ x = u /\ k = kind)
    BY <1>6, <1>8, <1>10 DEF OnItsWay
  <2>4. StreakOwed(u)'
    BY <1>2, <1>4, <2>1, <2>3 DEF StreakOwed
  <2> QED BY <2>2, <2>4
<1> QED BY <1>11, <1>12, <1>13 DEF HealthIInv

(* A message that does not arrive, time that passes, and nothing at all.   *)
LEMMA QuietStepKeeps ==
  ASSUME HealthIInv,
         \/ WatchdogTick \/ SilenceLasts \/ UNCHANGED healthVars
         \/ \E x \in Subjects : BackoffOver(x)
         \/ \E a \in Actors : DeliveryFails(a)
         \/ \E t \in Tasks : OutcomeAges(t)
  PROVE  HealthIInv'
<1>1. HealthTyped /\ KindIsKnown /\ OwedAsHeard
  BY DEF HealthIInv
<1>2. /\ config \in Configs /\ config' = config /\ lastWord' = lastWord
      /\ muddled' = muddled /\ restarts' = restarts
      /\ health \in [Tasks -> Healths] /\ act \in [Actors -> Acts] /\ silence \in Silences
  BY <1>1 DEF HealthTyped, WatchdogTick, SilenceLasts, healthVars, BackoffOver, DeliveryFails, OutcomeAges
<1>3. silence' \in Silences
  BY <1>2 DEF WatchdogTick, SilenceLasts, healthVars, BackoffOver, DeliveryFails, OutcomeAges,
     Silences
<1>4. /\ health' \in [Tasks -> Healths]
      /\ \A t \in Tasks : /\ Len(health'[t].window) <= config.window
                          /\ health'[t].streak = health[t].streak
                          /\ health'[t].alerted = health[t].alerted
                          /\ health'[t].resolution = health[t].resolution
                          /\ health'[t].flapAlerted = health[t].flapAlerted
  <2>1. CASE health' = health
    BY <1>1, <1>2, <2>1 DEF HealthTyped
  <2>2. ASSUME NEW x \in Tasks, health' = [health EXCEPT ![x].due = TRUE, ![x].flapDue = TRUE]
        PROVE  /\ health' \in [Tasks -> Healths]
               /\ \A t \in Tasks : /\ Len(health'[t].window) <= config.window
                                   /\ health'[t].streak = health[t].streak
                                   /\ health'[t].alerted = health[t].alerted
                                   /\ health'[t].resolution = health[t].resolution
                                   /\ health'[t].flapAlerted = health[t].flapAlerted
    <3>1. PICK g \in Healths : g = health[x] /\ Len(g.window) <= config.window
      BY <1>1, <1>2 DEF HealthTyped
    <3>2. PICK h : h = [g EXCEPT !.due = TRUE, !.flapDue = TRUE]
      OBVIOUS
    <3>3. /\ h \in Healths /\ h.window = g.window /\ h.streak = g.streak /\ h.alerted = g.alerted
          /\ h.resolution = g.resolution /\ h.flapAlerted = g.flapAlerted
      BY <3>2 DEF Healths
    <3>4. health' = [health EXCEPT ![x] = h]
      BY <1>2, <2>2, <3>1, <3>2
    <3> QED BY <1>1, <1>2, <3>1, <3>3, <3>4 DEF HealthTyped
  <2>3. ASSUME NEW x \in Tasks, OutcomeAges(x)
        PROVE  /\ health' \in [Tasks -> Healths]
               /\ \A t \in Tasks : /\ Len(health'[t].window) <= config.window
                                   /\ health'[t].streak = health[t].streak
                                   /\ health'[t].alerted = health[t].alerted
                                   /\ health'[t].resolution = health[t].resolution
                                   /\ health'[t].flapAlerted = health[t].flapAlerted
    <3>1. PICK g \in Healths : g = health[x] /\ Len(g.window) <= config.window
      BY <1>1, <1>2 DEF HealthTyped
    <3>2. PICK w : w = Tail(g.window)
      OBVIOUS
    <3>3. w \in Seq(BOOLEAN) /\ Len(w) <= config.window
      <4>1. g.window \in Seq(BOOLEAN) /\ g.window # <<>>
        BY <2>3, <3>1 DEF Healths, OutcomeAges
      <4>2. w \in Seq(BOOLEAN) /\ Len(w) = Len(g.window) - 1 /\ Len(g.window) \in Nat
        <5>1. PICK v \in Seq(BOOLEAN) : v = g.window
          BY <4>1
        <5>2. v # <<>> /\ w = Tail(v)
          BY <3>2, <4>1, <5>1
        <5>3. w \in Seq(BOOLEAN) /\ Len(w) = Len(v) - 1 /\ Len(v) \in Nat
          BY <5>2
        <5> QED BY <5>1, <5>3
      <4> QED BY <1>2, <3>1, <4>2, ConfigFacts
    <3>4. PICK h : h = [g EXCEPT !.window = w]
      OBVIOUS
    <3>5. /\ h \in Healths /\ h.window = w /\ h.streak = g.streak /\ h.alerted = g.alerted
          /\ h.resolution = g.resolution /\ h.flapAlerted = g.flapAlerted
      BY <3>3, <3>4 DEF Healths
    <3>6. health' = [health EXCEPT ![x] = h]
      BY <2>3, <3>1, <3>2, <3>4 DEF OutcomeAges
    <3> QED BY <1>1, <1>2, <3>1, <3>3, <3>5, <3>6 DEF HealthTyped
  <2>4. \/ health' = health
        \/ \E x \in Tasks : health' = [health EXCEPT ![x].due = TRUE, ![x].flapDue = TRUE]
        \/ \E x \in Tasks : OutcomeAges(x)
    BY DEF WatchdogTick, SilenceLasts, healthVars, BackoffOver, DeliveryFails, Subjects
  <2> QED BY <2>1, <2>2, <2>3, <2>4
<1>5. /\ act' \in [Actors -> Acts]
      /\ \A a \in Actors : \/ /\ act'[a].at = act[a].at /\ act'[a].on = act[a].on
                              /\ act'[a].kind = act[a].kind /\ act'[a].outdated = act[a].outdated
                           \/ act'[a].at = "idle" /\ act[a].at = "sending"
  <2>1. CASE act' = act
    BY <1>2, <2>1
  <2>2. CASE WatchdogTick
    <3>1. PICK e : e = [act[Watchdog] EXCEPT !.todo = Subjects]
      OBVIOUS
    <3>2. /\ e \in Acts /\ e.at = act[Watchdog].at /\ e.on = act[Watchdog].on
          /\ e.kind = act[Watchdog].kind /\ e.outdated = act[Watchdog].outdated
      BY <1>2, <3>1, ConfigFacts DEF Acts
    <3>3. act' = [act EXCEPT ![Watchdog] = e] /\ Watchdog \in Actors
      BY <1>2, <2>2, <3>1, ConfigFacts DEF WatchdogTick
    <3> QED BY <1>2, <3>2, <3>3
  <2>3. ASSUME NEW b \in Actors, DeliveryFails(b)
        PROVE  /\ act' \in [Actors -> Acts]
               /\ \A a \in Actors : \/ /\ act'[a].at = act[a].at /\ act'[a].on = act[a].on
                                       /\ act'[a].kind = act[a].kind /\ act'[a].outdated = act[a].outdated
                                    \/ act'[a].at = "idle" /\ act[a].at = "sending"
    <3>1. PICK idle : idle = [Idle EXCEPT !.todo = act[b].todo]
      OBVIOUS
    <3>2. idle \in Acts /\ idle.at = "idle"
      BY <1>2, <3>1, IdleFacts DEF Acts
    <3>3. act' = [act EXCEPT ![b] = idle] /\ act[b].at = "sending"
      BY <2>3, <3>1 DEF DeliveryFails, Rest
    <3> QED BY <1>2, <3>2, <3>3
  <2>4. act' = act \/ WatchdogTick \/ \E b \in Actors : DeliveryFails(b)
    BY DEF SilenceLasts, healthVars, BackoffOver, OutcomeAges
  <2> QED BY <2>1, <2>2, <2>3, <2>4
<1>6. HealthTyped'
  BY <1>2, <1>1, <1>3, <1>4, <1>5 DEF Healths, MaxStreak, HealthTyped
<1>7. KindIsKnown'
  BY <1>1, <1>5 DEF KindIsKnown
<1>8. OwedAsHeard'
  <2> SUFFICES ASSUME NEW u \in Tasks, u \notin muddled
               PROVE  StreakOwed(u)' /\ StreakHeard(u)' /\ FlapHeard(u)'
    BY <1>2 DEF OwedAsHeard
  <2>1. StreakOwed(u) /\ StreakHeard(u) /\ FlapHeard(u)
    BY <1>1 DEF OwedAsHeard
  <2>2. \A b \in Actors :
          /\ act'[b].at = "marking" <=> act[b].at = "marking"
          /\ act[b].at = "marking" => /\ act'[b].on = act[b].on /\ act'[b].kind = act[b].kind
                                      /\ act[b].outdated => act'[b].outdated
    BY <1>5
  <2>3. StreakHeard(u)' /\ FlapHeard(u)'
    BY <1>4, <1>2, <2>1, <2>2, HeardStays
  <2>4. \A b \in Actors : \A k : OnItsWay(b, u, k)' => OnItsWay(b, u, k)
    BY <1>5 DEF OnItsWay
  <2>5. StreakOwed(u)'
    BY <1>4, <2>1, <2>4 DEF StreakOwed
  <2> QED BY <2>3, <2>5
<1> QED BY <1>6, <1>7, <1>8 DEF HealthIInv

(* The rule of a kind, and what a message of it says.                      *)
LEMMA RuleFacts ==
  /\ Rule("failing") = "streak" /\ Rule("recovered") = "streak"
  /\ Rule("flapping") = "flap" /\ Rule("flap_resolved") = "flap"
  /\ \A kind \in Kinds : /\ Rule(kind) = "streak" <=> kind \in {"failing", "recovered"}
                         /\ Rule(kind) = "flap" <=> kind \in {"flapping", "flap_resolved"}
BY DEF Rule, Kinds

(* A message arrives.                                                      *)
LEMMA DeliverKeeps ==
  ASSUME HealthIInv, NEW a \in Actors, Deliver(a)
  PROVE  HealthIInv'
<1>1. HealthTyped /\ KindIsKnown /\ OwedAsHeard
  BY DEF HealthIInv
<1>2. /\ config \in Configs /\ act \in [Actors -> Acts] /\ act[a].at = "sending"
      /\ config' = config /\ health' = health /\ silence' = silence /\ restarts' = restarts
      /\ lastWord \in [Subjects -> LastWords] /\ muddled \subseteq Subjects
  BY <1>1 DEF HealthTyped, Deliver
<1>3. PICK x : x = act[a].on
  OBVIOUS
<1>4. PICK kind : kind = act[a].kind
  OBVIOUS
<1>5. x \in Subjects /\ kind \in Kinds
  BY <1>1, <1>2, <1>3, <1>4 DEF KindIsKnown, Acts
<1>6. PICK over : over = {x} \X {k \in Kinds \ {kind} : Rule(k) = Rule(kind)}
  OBVIOUS
<1>7. PICK f : f = Overtake(act, over)
  OBVIOUS
<1>8. /\ f \in [Actors -> Acts]
      /\ \A b \in Actors :
           /\ f[b].at = act[b].at /\ f[b].on = act[b].on /\ f[b].kind = act[b].kind
           /\ act[b].outdated => f[b].outdated
           /\ act[b].at \in {"sending", "marking"} /\ <<act[b].on, act[b].kind>> \in over => f[b].outdated
           /\ ~(act[b].at \in {"sending", "marking"} /\ <<act[b].on, act[b].kind>> \in over)
                => f[b].outdated = act[b].outdated
  BY <1>2, <1>7, OvertakeFacts
<1>9. PICK e : e = [f[a] EXCEPT !.at = "marking"]
  OBVIOUS
<1>10. <<x, kind>> \notin over
  BY <1>6
<1>11. e \in Acts /\ e.at = "marking" /\ e.on = x /\ e.kind = kind /\ e.outdated = act[a].outdated
  BY <1>3, <1>4, <1>8, <1>10, <1>9 DEF Acts
<1>12. act' = [f EXCEPT ![a] = e]
  BY <1>3, <1>4, <1>6, <1>7, <1>9 DEF Deliver
<1>13. act' \in [Actors -> Acts] /\ act'[a] = e /\ \A b \in Actors : b # a => act'[b] = f[b]
  BY <1>8, <1>11, <1>12
<1>14. PICK w : w = IF Rule(kind) = "streak"
                    THEN [lastWord[x] EXCEPT !.streak = kind \in {"failing", "flapping"}]
                    ELSE [lastWord[x] EXCEPT !.flap = kind \in {"failing", "flapping"}]
  OBVIOUS
<1>15. /\ w \in LastWords
       /\ Rule(kind) = "streak" => (w.streak <=> kind = "failing") /\ w.flap = lastWord[x].flap
       /\ Rule(kind) = "flap" => (w.flap <=> kind = "flapping") /\ w.streak = lastWord[x].streak
  <2>1. PICK v \in LastWords : v = lastWord[x]
    BY <1>2, <1>5
  <2>2. PICK alarm : alarm = (kind \in {"failing", "flapping"})
    OBVIOUS
  <2>0. alarm \in BOOLEAN
    BY <2>2
  <2>3. w = IF Rule(kind) = "streak" THEN [v EXCEPT !.streak = alarm] ELSE [v EXCEPT !.flap = alarm]
    BY <1>14, <2>1, <2>2
  <2>4. /\ [v EXCEPT !.streak = alarm] \in LastWords /\ [v EXCEPT !.flap = alarm] \in LastWords
        /\ [v EXCEPT !.streak = alarm].streak = alarm /\ [v EXCEPT !.streak = alarm].flap = v.flap
        /\ [v EXCEPT !.flap = alarm].flap = alarm /\ [v EXCEPT !.flap = alarm].streak = v.streak
    BY <2>0 DEF LastWords
  <2>5. CASE kind \in {"failing", "recovered"}
    BY <2>2, <2>5, RuleFacts, <2>1, <2>3, <2>4
  <2>6. CASE kind \in {"flapping", "flap_resolved"}
    BY <2>2, <2>6, RuleFacts, <2>1, <2>3, <2>4
  <2> QED BY <1>5, <2>5, <2>6 DEF Kinds
<1>16. lastWord' = [lastWord EXCEPT ![x] = w]
  BY <1>3, <1>4, <1>14 DEF Deliver, Rule
<1>17. lastWord' \in [Subjects -> LastWords] /\ \A u \in Subjects : lastWord'[u] = IF u = x THEN w ELSE lastWord[u]
  BY <1>2, <1>15, <1>16
<1>18. muddled' = IF act[a].outdated THEN muddled \cup {x} ELSE muddled
  BY <1>3 DEF Deliver
<1>19. HealthTyped'
  BY <1>2, <1>5, <1>18, <1>1, <1>13, <1>17 DEF Healths, MaxStreak, HealthTyped
<1>20. KindIsKnown'
  <2> SUFFICES ASSUME NEW b \in Actors, act'[b].at \in {"sending", "marking"} PROVE act'[b].kind \in Kinds
    BY DEF KindIsKnown
  <2>1. CASE b = a
    BY <1>5, <1>11, <1>13, <2>1
  <2>2. CASE b # a
    BY <1>1, <1>8, <1>13, <2>2 DEF KindIsKnown
  <2> QED BY <2>1, <2>2
<1>21. OwedAsHeard'
  <2> SUFFICES ASSUME NEW u \in Tasks, u \notin muddled'
               PROVE  StreakOwed(u)' /\ StreakHeard(u)' /\ FlapHeard(u)'
    BY DEF OwedAsHeard
  <2>1. u \notin muddled /\ (u = x => ~act[a].outdated) /\ u \in Subjects
    BY <1>2, <1>18, ConfigFacts
  <2>2. StreakOwed(u) /\ StreakHeard(u) /\ FlapHeard(u)
    BY <1>1, <2>1 DEF OwedAsHeard
  <2>3. StreakOwed(u)'
    <3>1. \A b \in Actors : act'[b].at \in {"sending", "marking"} /\ ~act'[b].outdated /\ act'[b].on = u =>
            /\ act[b].at \in {"sending", "marking"} /\ ~act[b].outdated
            /\ act[b].on = u /\ act'[b].kind = act[b].kind
      <4>1. ASSUME NEW b \in Actors, b # a,
                   act'[b].at \in {"sending", "marking"}, ~act'[b].outdated, act'[b].on = u
            PROVE  /\ act[b].at \in {"sending", "marking"} /\ ~act[b].outdated
                   /\ act[b].on = u /\ act'[b].kind = act[b].kind
        BY <1>8, <1>13, <4>1
      <4>2. ~act'[a].outdated /\ act'[a].on = u =>
              /\ act[a].at \in {"sending", "marking"} /\ ~act[a].outdated
              /\ act[a].on = u /\ act'[a].kind = act[a].kind
        BY <1>2, <1>3, <1>4, <1>11, <1>13
      <4> QED BY <4>1, <4>2
    <3> QED BY <1>2, <2>2, <3>1, OwedStays
  <2>4. CASE u # x
    <3>1. \A b \in Actors, rule \in {"streak", "flap"} : MarkedLater(b, u, rule)' =>
             /\ MarkedLater(b, u, rule) /\ act'[b].kind = act[b].kind /\ (act[b].outdated => act'[b].outdated)
      BY ZenonT(40), <1>8, <1>11, <1>13, <2>4 DEF MarkedLater
    <3>2. \A b \in Actors, rule \in {"streak", "flap"} : MarkedLater(b, u, rule) => MarkedLater(b, u, rule)'
      BY <1>2, <1>8, <1>13 DEF MarkedLater
    <3>3. lastWord'[u] = lastWord[u]
      BY <1>17, <2>1, <2>4
    <3> QED BY <1>2, <2>2, <2>3, <3>1, <3>2, <3>3 DEF StreakHeard, FlapHeard
  <2>5. CASE u = x
    <3>1. lastWord'[u] = w
      BY <1>17, <2>1, <2>5
    <3>2. \A rule : MarkedLater(a, u, rule)' <=> rule = Rule(kind)
      BY <1>11, <1>13, <2>5 DEF MarkedLater, Rule
    <3>3. \A b \in Actors : b # a => \A rule : MarkedLater(b, u, rule)' <=> MarkedLater(b, u, rule)
      BY ZenonT(40), <1>8, <1>13 DEF MarkedLater, Rule
    <3>4. \A b \in Actors : b # a => act'[b].kind = act[b].kind /\ (act[b].outdated => act'[b].outdated)
      BY <1>8, <1>13
    <3>5. ASSUME NEW b \in Actors, b # a, MarkedLater(b, u, Rule(kind))', ~act'[b].outdated
          PROVE  act'[b].kind = kind
      <4>1. MarkedLater(b, u, Rule(kind)) /\ act'[b].kind = act[b].kind /\ act[b].kind \in Kinds
        BY <1>1, <3>3, <3>4, <3>5 DEF MarkedLater, KindIsKnown
      <4>2. <<act[b].on, act[b].kind>> \notin over
        BY <1>8, <1>13, <3>5, <4>1 DEF MarkedLater
      <4> QED BY <1>6, <2>5, <4>1, <4>2 DEF MarkedLater
    <3>6. ~MarkedLater(a, u, "streak") /\ ~MarkedLater(a, u, "flap")
      BY <1>2 DEF MarkedLater
    <3>7. act'[a].kind = kind
      BY <1>11, <1>13
    <3>8. CASE Rule(kind) = "streak"
      <4>1. w.streak <=> kind = "failing"
        BY <1>15, <3>8
      <4>2. w.flap = lastWord[u].flap
        BY <1>15, <2>5, <3>8
      <4>3. ~MarkedLater(a, u, "flap")' /\ MarkedLater(a, u, "streak")'
        BY <3>2, <3>8
      <4>4. StreakHeard(u)'
        BY <3>1, <3>5, <3>7, <3>8, <4>1, <4>3 DEF StreakHeard
      <4>5. FlapHeard(u)'
        BY <1>2, <2>2, <3>1, <3>3, <3>4, <3>6, <4>2, <4>3 DEF FlapHeard
      <4> QED BY <2>3, <4>4, <4>5
    <3>9. CASE Rule(kind) = "flap"
      <4>1. w.flap <=> kind = "flapping"
        BY <1>15, <3>9
      <4>2. w.streak = lastWord[u].streak
        BY <1>15, <2>5, <3>9
      <4>3. ~MarkedLater(a, u, "streak")' /\ MarkedLater(a, u, "flap")'
        BY <3>2, <3>9
      <4>4. FlapHeard(u)'
        BY <3>1, <3>5, <3>7, <3>9, <4>1, <4>3 DEF FlapHeard
      <4>5. StreakHeard(u)'
        BY <1>2, <2>2, <3>1, <3>3, <3>4, <3>6, <4>2, <4>3 DEF StreakHeard
      <4> QED BY <2>3, <4>4, <4>5
    <3>10. Rule(kind) \in {"streak", "flap"}
      BY DEF Rule
    <3> QED BY <2>3, <3>8, <3>9, <3>10
  <2> QED BY <2>3, <2>4, <2>5
<1> QED BY <1>19, <1>20, <1>21 DEF HealthIInv

(* What a mark makes of a task's record.                                   *)
LEMMA MarkedFacts ==
  ASSUME config \in Configs, NEW h \in Healths, Len(h.window) <= config.window, NEW kind \in Kinds
  PROVE  /\ MarkedTask(h, kind) \in Healths /\ Len(MarkedTask(h, kind).window) <= config.window
         /\ MarkedTask(h, kind).streak = h.streak
         /\ MarkedTask(h, kind).alerted = (h.alerted \/ kind = "failing")
         /\ MarkedTask(h, kind).resolution = (h.resolution /\ kind # "recovered")
         /\ MarkedTask(h, kind).flapAlerted = ((h.flapAlerted \/ kind = "flapping") /\ kind # "flap_resolved")
<1>1. <<>> \in Seq(BOOLEAN) /\ Len(<<>>) = 0 /\ 0 <= config.window
  BY ConfigFacts
<1>2. CASE kind = "recovered"
  BY <1>2 DEF MarkedTask, Healths
<1>3. CASE kind = "failing"
  BY <1>1, <1>3 DEF MarkedTask, Healths
<1>4. CASE kind = "flapping"
  BY <1>4 DEF MarkedTask, Healths
<1>5. CASE kind = "flap_resolved"
  BY <1>1, <1>5 DEF MarkedTask, Healths
<1> QED BY <1>2, <1>3, <1>4, <1>5 DEF Kinds

(* A delivered message is marked.                                          *)
LEMMA MarkKeeps ==
  ASSUME HealthIInv, NEW a \in Actors, MarkDelivered(a)
  PROVE  HealthIInv'
<1>1. HealthTyped /\ KindIsKnown /\ OwedAsHeard
  BY DEF HealthIInv
<1>2. /\ config \in Configs /\ act \in [Actors -> Acts] /\ act[a].at = "marking"
      /\ config' = config /\ lastWord' = lastWord /\ restarts' = restarts
      /\ muddled \subseteq Subjects /\ health \in [Tasks -> Healths] /\ silence \in Silences
      /\ \A t \in Tasks : Len(health[t].window) <= config.window
  BY <1>1 DEF HealthTyped, MarkDelivered
<1>3. PICK x : x = act[a].on
  OBVIOUS
<1>4. PICK kind : kind = act[a].kind
  OBVIOUS
<1>5. x \in Subjects /\ kind \in Kinds
  BY <1>1, <1>2, <1>3, <1>4 DEF KindIsKnown, Acts
<1>6. PICK over : over = IF kind \in {"recovered", "flap_resolved"} THEN {<<x, kind>>} ELSE {}
  OBVIOUS
<1>7. PICK f : f = Overtake(act, over)
  OBVIOUS
<1>8. /\ f \in [Actors -> Acts]
      /\ \A b \in Actors :
           /\ f[b].at = act[b].at /\ f[b].on = act[b].on /\ f[b].kind = act[b].kind
           /\ act[b].outdated => f[b].outdated
           /\ act[b].at \in {"sending", "marking"} /\ <<act[b].on, act[b].kind>> \in over => f[b].outdated
  BY <1>2, <1>7, OvertakeFacts
<1>9. PICK idle : idle = [Idle EXCEPT !.todo = f[a].todo]
  OBVIOUS
<1>10. idle \in Acts /\ idle.at = "idle"
  BY <1>8, <1>2, <1>9, IdleFacts DEF Acts
<1>11. act' = [f EXCEPT ![a] = idle]
  BY <1>3, <1>4, <1>6, <1>7, <1>9 DEF MarkDelivered, Rest
<1>12. act' \in [Actors -> Acts] /\ act'[a] = idle /\ \A b \in Actors : b # a => act'[b] = f[b]
  BY <1>8, <1>10, <1>11
<1>13. muddled' = IF act[a].outdated THEN muddled \cup {x} ELSE muddled
  BY <1>3 DEF MarkDelivered
<1>14. silence' \in Silences
  BY <1>2 DEF MarkDelivered, MarkedGlobal, Silences
<1>15. /\ health' \in [Tasks -> Healths]
       /\ \A u \in Tasks : /\ Len(health'[u].window) <= config.window
                           /\ health'[u].streak = health[u].streak
                           /\ u # x => health'[u] = health[u]
       /\ x \in Tasks =>
            /\ health'[x].alerted = (health[x].alerted \/ kind = "failing")
            /\ health'[x].resolution = (health[x].resolution /\ kind # "recovered")
            /\ health'[x].flapAlerted = ((health[x].flapAlerted \/ kind = "flapping") /\ kind # "flap_resolved")
  <2>1. CASE x = Global
    BY <1>2, <1>3, <2>1, ConfigFacts DEF MarkDelivered
  <2>2. CASE x # Global
    <3>1. x \in Tasks
      BY <1>5, <2>2 DEF Subjects
    <3>2. PICK g \in Healths : g = health[x] /\ Len(g.window) <= config.window
      BY <1>2, <3>1
    <3>3. PICK h : h = MarkedTask(g, kind)
      OBVIOUS
    <3>4. /\ h \in Healths /\ Len(h.window) <= config.window /\ h.streak = g.streak
          /\ h.alerted = (g.alerted \/ kind = "failing")
          /\ h.resolution = (g.resolution /\ kind # "recovered")
          /\ h.flapAlerted = ((g.flapAlerted \/ kind = "flapping") /\ kind # "flap_resolved")
      BY <1>2, <1>5, <3>2, <3>3, MarkedFacts
    <3>5. health' = [health EXCEPT ![x] = h]
      BY <1>3, <1>4, <2>2, <3>2, <3>3 DEF MarkDelivered
    <3>6. health'[x] = h /\ \A u \in Tasks : u # x => health'[u] = health[u]
      BY <1>2, <3>1, <3>5
    <3>7. health' \in [Tasks -> Healths]
      BY <1>2, <3>4, <3>5
    <3> QED BY <1>2, <3>2, <3>4, <3>6, <3>7
  <2> QED BY <2>1, <2>2
<1>16. HealthTyped'
  BY <1>2, <1>5, <1>13, <1>1, <1>12, <1>14, <1>15 DEF Healths, MaxStreak, HealthTyped
<1>17. KindIsKnown'
  <2> SUFFICES ASSUME NEW b \in Actors, act'[b].at \in {"sending", "marking"} PROVE act'[b].kind \in Kinds
    BY DEF KindIsKnown
  <2>1. b # a
    BY <1>10, <1>12
  <2> QED BY <1>1, <1>8, <1>12, <2>1 DEF KindIsKnown
<1>18. OwedAsHeard'
  <2> SUFFICES ASSUME NEW u \in Tasks, u \notin muddled'
               PROVE  StreakOwed(u)' /\ StreakHeard(u)' /\ FlapHeard(u)'
    BY DEF OwedAsHeard
  <2>1. u \notin muddled /\ (u = x => ~act[a].outdated)
    BY <1>13
  <2>2. StreakOwed(u) /\ StreakHeard(u) /\ FlapHeard(u)
    BY <1>1, <2>1 DEF OwedAsHeard
  <2>3. \A b \in Actors : act'[b].at \in {"sending", "marking"} =>
          /\ b # a /\ act[b].at = act'[b].at /\ act'[b].on = act[b].on /\ act'[b].kind = act[b].kind
          /\ act[b].outdated => act'[b].outdated
          /\ <<act[b].on, act[b].kind>> \in over => act'[b].outdated
    <3> SUFFICES ASSUME NEW b \in Actors, act'[b].at \in {"sending", "marking"}
                 PROVE  /\ b # a /\ act[b].at = act'[b].at /\ act'[b].on = act[b].on /\ act'[b].kind = act[b].kind
                        /\ act[b].outdated => act'[b].outdated
                        /\ <<act[b].on, act[b].kind>> \in over => act'[b].outdated
      OBVIOUS
    <3>1. b # a
      BY <1>10, <1>12
    <3> QED BY <1>8, <1>12, <3>1
  <2>4. \A b \in Actors, k \in Kinds : OnItsWay(b, u, k)' => OnItsWay(b, u, k)
    BY <2>3 DEF OnItsWay
  <2>5. ASSUME NEW b \in Actors, b # a
        PROVE  /\ \A rule : MarkedLater(b, u, rule)' <=> MarkedLater(b, u, rule)
               /\ act'[b].kind = act[b].kind /\ (act[b].outdated => act'[b].outdated)
    BY <1>8, <1>12, <2>5 DEF MarkedLater, Rule
  <2>6. ~MarkedLater(a, u, "streak")' /\ ~MarkedLater(a, u, "flap")'
    BY <1>10, <1>12 DEF MarkedLater
  <2>7. /\ MarkedLater(a, u, "streak") <=> u = x /\ kind \in {"failing", "recovered"}
        /\ MarkedLater(a, u, "flap") <=> u = x /\ kind \in {"flapping", "flap_resolved"}
    BY <1>2, <1>3, <1>4, <1>5, RuleFacts DEF MarkedLater
  <2>8. CASE u # x
    <3>1. health'[u] = health[u]
      BY <1>15, <2>8
    <3>2. ~MarkedLater(a, u, "streak") /\ ~MarkedLater(a, u, "flap")
      BY <2>7, <2>8
    <3>3. StreakOwed(u)'
      BY <2>2, <2>4, <3>1 DEF StreakOwed, Kinds
    <3>4. StreakHeard(u)'
      BY <1>2, <2>2, <2>5, <2>6, <3>1, <3>2 DEF StreakHeard
    <3>5. FlapHeard(u)'
      BY <1>2, <2>2, <2>5, <2>6, <3>1, <3>2 DEF FlapHeard
    <3> QED BY <3>3, <3>4, <3>5
  <2>9. CASE u = x
    <3>1. /\ health'[u].alerted = (health[u].alerted \/ kind = "failing")
          /\ health'[u].resolution = (health[u].resolution /\ kind # "recovered")
          /\ health'[u].flapAlerted = ((health[u].flapAlerted \/ kind = "flapping") /\ kind # "flap_resolved")
          /\ health'[u].streak = health[u].streak
      BY <1>15, <2>9
    <3>2. OnItsWay(a, u, kind)
      BY <1>2, <1>3, <1>4, <2>1, <2>9 DEF OnItsWay
    <3>3. kind = "recovered" => /\ health[u].resolution
                                /\ \A b \in Actors : ~OnItsWay(b, u, "recovered")'
      <4> SUFFICES ASSUME kind = "recovered"
                   PROVE  health[u].resolution /\ \A b \in Actors : ~OnItsWay(b, u, "recovered")'
        OBVIOUS
      <4>1. health[u].resolution
        BY <2>2, <3>2 DEF StreakOwed
      <4>2. <<u, "recovered">> \in over
        BY <1>6, <2>9
      <4> QED BY <2>3, <4>1, <4>2 DEF OnItsWay
    <3>4. kind = "failing" => health[u].streak # 0 /\ ~health[u].resolution
      BY <2>2, <3>2 DEF StreakOwed
    <3>5. health[u].alerted \in BOOLEAN /\ health[u].resolution \in BOOLEAN /\ health[u].flapAlerted \in BOOLEAN
      BY <1>2 DEF Healths
    <3>6. StreakOwed(u)'
      BY <2>2, <3>1, <3>4, <3>5, <2>4, <3>3 DEF StreakOwed, Kinds
    <3>7. StreakHeard(u)'
      <4>1. CASE kind \in {"failing", "recovered"}
        <5>1. lastWord[u].streak <=> kind = "failing"
          BY <1>4, <2>1, <2>2, <2>7, <2>9, <4>1 DEF StreakHeard
        <5>2. kind = "recovered" => ~health[u].alerted
          BY <2>2, <3>3 DEF StreakOwed
        <5>3. lastWord[u].streak <=> health'[u].alerted \/ health'[u].resolution
          BY <3>1, <3>5, <4>1, <5>1, <5>2
        <5>4. \A b \in Actors : MarkedLater(b, u, "streak")' /\ ~act'[b].outdated =>
                 (lastWord[u].streak <=> act'[b].kind = "failing")
          BY <2>2, <2>5, <2>6 DEF StreakHeard
        <5> QED BY <1>2, <5>3, <5>4 DEF StreakHeard
      <4>2. CASE kind \notin {"failing", "recovered"}
        BY <2>7, <4>2, <3>1, <3>5, <1>2, <2>2, <2>5, <2>6 DEF StreakHeard
      <4> QED BY <4>1, <4>2
    <3>8. FlapHeard(u)'
      <4>1. CASE kind \in {"flapping", "flap_resolved"}
        BY <1>4, <2>1, <2>2, <2>7, <2>9, <4>1, <3>1, <3>5, <2>5, <2>6, <1>2 DEF FlapHeard
      <4>2. CASE kind \notin {"flapping", "flap_resolved"}
        BY <2>7, <4>2, <3>1, <3>5, <1>2, <2>2, <2>5, <2>6 DEF FlapHeard
      <4> QED BY <4>1, <4>2
    <3> QED BY <3>6, <3>7, <3>8
  <2> QED BY <2>8, <2>9
<1> QED BY <1>16, <1>17, <1>18 DEF HealthIInv

(* The process or the tenure ends.                                         *)
LEMMA HealthRestartKeeps ==
  ASSUME HealthIInv, HealthRestart
  PROVE  HealthIInv'
<1>1. HealthTyped /\ KindIsKnown /\ OwedAsHeard
  BY DEF HealthIInv
<1>2. /\ config \in Configs /\ act \in [Actors -> Acts] /\ act' = [a \in Actors |-> Idle]
      /\ config' = config /\ health' = health /\ silence' = silence /\ lastWord' = lastWord
      /\ muddled' = muddled \cup {act[a].on : a \in {b \in Actors : act[b].at = "marking"}}
      /\ restarts < config.restarts /\ restarts' = restarts + 1
  BY <1>1 DEF HealthTyped, HealthRestart
<1>3. act' \in [Actors -> Acts] /\ \A a \in Actors : act'[a].at = "idle"
  BY <1>2, IdleFacts
<1>4. HealthTyped'
  <2>1. Healths' = Healths
    BY <1>2 DEF Healths, MaxStreak
  <2>2. muddled' \subseteq Subjects
    BY <1>2, <1>1 DEF Acts, HealthTyped
  <2>3. restarts' \in 0..config.restarts
    BY <1>1, <1>2, ConfigFacts DEF HealthTyped
  <2> QED BY <1>1, <1>2, <1>3, <2>1, <2>2, <2>3 DEF HealthTyped
<1>5. KindIsKnown'
  BY <1>3 DEF KindIsKnown
<1>6. OwedAsHeard'
  <2> SUFFICES ASSUME NEW u \in Tasks, u \notin muddled'
               PROVE  StreakOwed(u)' /\ StreakHeard(u)' /\ FlapHeard(u)'
    BY DEF OwedAsHeard
  <2>1. StreakOwed(u) /\ StreakHeard(u) /\ FlapHeard(u)
    BY <1>1, <1>2 DEF OwedAsHeard
  <2>2. \A a \in Actors : \A rule : ~MarkedLater(a, u, rule)
    BY <1>2 DEF MarkedLater
  <2>3. \A a \in Actors : \A rule : ~MarkedLater(a, u, rule)' /\ ~OnItsWay(a, u, rule)'
    BY <1>3 DEF MarkedLater, OnItsWay
  <2> QED BY <1>2, <2>1, <2>2, <2>3 DEF StreakOwed, StreakHeard, FlapHeard
<1> QED BY <1>4, <1>5, <1>6 DEF HealthIInv

(* Every state of the liveness alarm has the inductive invariant.          *)
THEOREM HealthInvariance == HealthSpec => []HealthIInv
<1>1. HealthIInv /\ [HealthNext]_healthVars => HealthIInv'
  <2> SUFFICES ASSUME HealthIInv, [HealthNext]_healthVars PROVE HealthIInv'
    OBVIOUS
  <2>1. ASSUME NEW t \in Tasks, NEW ok \in BOOLEAN, RecordOutcome(t, ok) PROVE HealthIInv'
    BY <2>1, OutcomeKeeps
  <2>2. ASSUME \/ WatchdogTick \/ SilenceLasts \/ UNCHANGED healthVars
               \/ \E x \in Subjects : BackoffOver(x)
               \/ \E a \in Actors : DeliveryFails(a)
               \/ \E t \in Tasks : OutcomeAges(t)
        PROVE  HealthIInv'
    BY <2>2, QuietStepKeeps
  <2>3. ASSUME NEW t \in Tasks, LoopDecides(t) PROVE HealthIInv'
    BY ConfigFacts, <2>3, DecideKeeps DEF HealthIInv, HealthTyped, LoopDecides
  <2>4. ASSUME NEW x \in Subjects, WatchdogDecides(x) PROVE HealthIInv'
    <3>1. config \in Configs /\ act \in [Actors -> Acts]
      BY DEF HealthIInv, HealthTyped
    <3>2. Watchdog \in Actors
      BY <3>1, ConfigFacts
    <3>3. PICK e : e = [act[Watchdog] EXCEPT !.todo = @ \ {x}]
      OBVIOUS
    <3>4. /\ e \in Acts /\ e.at = act[Watchdog].at /\ e.on = act[Watchdog].on
          /\ e.kind = act[Watchdog].kind /\ e.outdated = act[Watchdog].outdated
      BY <3>1, <3>2, <3>3 DEF Acts
    <3>5. PICK f : f = [act EXCEPT ![Watchdog] = e]
      OBVIOUS
    <3>6. Decide(Watchdog, x, f) /\ act[Watchdog].at = "idle"
      BY <3>3, <3>5, <2>4 DEF WatchdogDecides
    <3>7. /\ f \in [Actors -> Acts]
          /\ \A b \in Actors : /\ f[b].at = act[b].at /\ f[b].on = act[b].on /\ f[b].kind = act[b].kind
                               /\ f[b].outdated = act[b].outdated
      BY <3>1, <3>2, <3>4, <3>5
    <3> QED BY <3>2, <3>6, <3>7, DecideKeeps
  <2>5. ASSUME NEW a \in Actors, Deliver(a) PROVE HealthIInv'
    BY <2>5, DeliverKeeps
  <2>6. ASSUME NEW a \in Actors, MarkDelivered(a) PROVE HealthIInv'
    BY <2>6, MarkKeeps
  <2>7. CASE HealthRestart
    BY <2>7, HealthRestartKeeps
  <2> QED BY <2>1, <2>2, <2>3, <2>4, <2>5, <2>6, <2>7 DEF HealthNext
<1> QED BY <1>1, HealthStarts, PTL DEF HealthSpec

(* The operator's picture is the store's (AlertsHold), for any tasks,      *)
(* thresholds, windows and number of restarts: unless a message about a    *)
(* task was overtaken by an outcome or its mark was lost, the last word    *)
(* about it is an alert exactly while the store holds one or owes the      *)
(* all-clear.                                                              *)
THEOREM AlertsTellTheTruth == HealthSpec => []AlertsHold
<1>1. HealthIInv => AlertsHold
  <2> SUFFICES ASSUME HealthIInv PROVE AlertsHold
    OBVIOUS
  <2>1. HealthTyped /\ OwedAsHeard
    BY DEF HealthIInv
  <2>2. HealthTypeOK
    <3>1. ASSUME NEW t \in Tasks
          PROVE  /\ health[t].streak \in 0..MaxStreak
                 /\ health[t].window \in Seq(BOOLEAN) /\ Len(health[t].window) <= config.window
                 /\ \A f \in {"alerted", "due", "resolution", "flapAlerted", "flapDue"} :
                       health[t][f] \in BOOLEAN
      BY <2>1 DEF HealthTyped, Healths
    <3>2. \A f \in DOMAIN silence : silence[f] \in BOOLEAN
      BY <2>1 DEF HealthTyped, Silences
    <3>3. ASSUME NEW a \in Actors
          PROVE  /\ act[a].at \in {"idle", "deciding", "sending", "marking"}
                 /\ act[a].on \in Subjects /\ act[a].todo \subseteq Subjects
                 /\ act[a].kind \in Kinds \cup {"none"}
      BY <2>1 DEF HealthTyped, Acts
    <3> QED BY <2>1, <3>1, <3>2, <3>3 DEF HealthTypeOK, HealthTyped
  <2>3. PictureIsTrue
    <3> SUFFICES ASSUME NEW t \in Tasks, Settled(t)
                 PROVE  /\ lastWord[t].streak <=> health[t].alerted \/ health[t].resolution
                        /\ lastWord[t].flap <=> health[t].flapAlerted
      BY DEF PictureIsTrue
    <3>1. StreakHeard(t) /\ FlapHeard(t)
      BY <2>1 DEF OwedAsHeard, Settled
    <3>2. \A a \in Actors : \A rule : ~MarkedLater(a, t, rule)
      BY DEF Settled, Unmarked, MarkedLater
    <3> QED BY <3>1, <3>2 DEF StreakHeard, FlapHeard
  <2> QED BY <2>2, <2>3 DEF AlertsHold
<1> QED BY <1>1, HealthInvariance, PTL

-----------------------------------------------------------------------------
(* Outreach.                                                               *)
(*                                                                         *)
(* The argument: the messages of a day are counted twice, in the log and   *)
(* in the history, and the two agree until the log loses one of them.  A   *)
(* tightening is a property of the last messages of the capped kind, which *)
(* another kind, an answer or a pruned front may end and never begin; so   *)
(* who was told of it was told of the one in force.                        *)

Sendings == [kind : {Finding, Blocking}, today : BOOLEAN, answered : BOOLEAN]
OutreachTyped ==
  /\ policy \in OutreachConfigs
  /\ sent \in Seq(Sendings) /\ Len(sent) <= MaxSent
  /\ announced \in {NotAnnounced, TightenedCap}
  /\ listener.at \in {"idle", "telling", "marking"} /\ listener = [at |-> listener.at, cap |-> listener.cap]
  /\ listener.at # "idle" => listener.cap = TightenedCap
  /\ quiet \in BOOLEAN /\ unreadable \in BOOLEAN /\ spent \in Nat
  /\ forgotten \in BOOLEAN /\ toldOf \in BOOLEAN /\ unmarked \in BOOLEAN

DayIsCounted == ~forgotten => spent = SentToday(sent, Finding) /\ spent <= policy.cap

(* Who was told knows of the tightening in force, and the record says so   *)
(* or the mark was lost.                                                   *)
ToldInForce ==
  /\ toldOf => Tightened(sent)
  /\ toldOf /\ listener.at = "idle" => announced = TightenedCap \/ unmarked
  /\ listener.at = "marking" /\ Tightened(sent) => toldOf

OutreachIInv == OutreachTyped /\ DayIsCounted /\ ToldInForce /\ AnnouncedIsTold /\ ToldOnce

(* A message the answer to which comes, or the day of which is over.       *)
LEMMA SendingFacts ==
  ASSUME NEW e \in Sendings, NEW f
  PROVE  /\ f = [e EXCEPT !.answered = TRUE] =>
              f \in Sendings /\ f.kind = e.kind /\ f.today = e.today /\ f.answered
         /\ f = [e EXCEPT !.today = FALSE] =>
              f \in Sendings /\ f.kind = e.kind /\ ~f.today /\ f.answered = e.answered
BY DEF Sendings

(* The constants, and the configuration in force.                          *)
LEMMA PolicyFacts ==
  ASSUME policy \in OutreachConfigs
  PROVE  /\ MaxSent \in Nat \ {0} /\ policy.cap \in Nat /\ policy.window \in Nat \ {0}
         /\ policy.floor \in Nat /\ TightenedCap \in Nat /\ TightenedCap # NotAnnounced
         /\ TightenedCap <= policy.cap /\ \A log : EffectiveCap(log) <= policy.cap
BY OutreachAssumption DEF TightenedCap, NotAnnounced, EffectiveCap

(* The places of a log are finitely many.                                  *)
LEMMA PlacesAreFinite ==
  ASSUME NEW log \in Seq(Sendings), NEW S \in SUBSET DOMAIN log
  PROVE  IsFiniteSet(S) /\ Cardinality(S) \in Nat
<1>1. Len(log) \in Nat /\ DOMAIN log = 1..Len(log)
  OBVIOUS
<1>2. IsFiniteSet(1..Len(log))
  BY <1>1, FS_Interval
<1> QED BY <1>1, <1>2, FS_Subset, FS_CardinalityType

(* Places that all move down by one are as many.                           *)
LEMMA ShiftedPlaces ==
  ASSUME NEW S \in SUBSET Nat, IsFiniteSet(S), NEW T, T = {i - 1 : i \in S}
  PROVE  IsFiniteSet(T) /\ Cardinality(T) = Cardinality(S)
<1>1. PICK f : f = [i \in S |-> i - 1]
  OBVIOUS
<1>2. f \in Bijection(S, T)
  BY <1>1 DEF Bijection, Injection, Surjection, IsInjective
<1> QED BY <1>2, FS_Bijection DEF ExistsBijection

(* Messages of which only the day, or an answer, is another make the same  *)
(* last ones.                                                              *)
LEMMA SameMessages ==
  ASSUME NEW log \in Seq(Sendings), NEW other \in Seq(Sendings), Len(other) = Len(log),
         \A i \in DOMAIN log : other[i].kind = log[i].kind
  PROVE  OfKind(other, Finding) = OfKind(log, Finding) /\ Recent(other) = Recent(log)
<1>1. DOMAIN other = DOMAIN log
  OBVIOUS
<1>2. OfKind(other, Finding) = OfKind(log, Finding)
  BY <1>1 DEF OfKind
<1> QED BY <1>2 DEF Recent

(* An answer more does not tighten.                                        *)
LEMMA AnswersLoosen ==
  ASSUME policy \in OutreachConfigs,
         NEW log \in Seq(Sendings), NEW other \in Seq(Sendings), Len(other) = Len(log),
         \A i \in DOMAIN log : /\ other[i].kind = log[i].kind
                               /\ log[i].answered => other[i].answered,
         Tightened(other)
  PROVE  Tightened(log)
<1>1. Recent(other) = Recent(log)
  BY SameMessages
<1>2. Recent(log) \subseteq DOMAIN log /\ DOMAIN other = DOMAIN log
  BY DEF Recent, OfKind
<1>3. Answered(log) \subseteq Answered(other) /\ Answered(other) \subseteq DOMAIN other
  BY <1>1, <1>2 DEF Answered
<1>4. /\ IsFiniteSet(Answered(other)) /\ Cardinality(Answered(other)) \in Nat
      /\ Cardinality(Answered(log)) \in Nat
  BY <1>2, <1>3, PlacesAreFinite
<1>5. Cardinality(Answered(log)) <= Cardinality(Answered(other))
  BY <1>3, <1>4, FS_Subset
<1>6. policy.floor * policy.window \in Nat
  BY PolicyFacts
<1> QED BY <1>1, <1>4, <1>5, <1>6 DEF Tightened

(* The front that is pruned does not tighten either.                       *)
LEMMA PruningLoosens ==
  ASSUME policy \in OutreachConfigs, NEW log \in Seq(Sendings), log # <<>>, Tightened(Tail(log))
  PROVE  Tightened(log)
<1> DEFINE rest == Tail(log)
           own == OfKind(log, Finding)
           own1 == OfKind(rest, Finding)
<1>1. /\ Len(log) \in Nat /\ Len(log) > 0 /\ rest \in Seq(Sendings) /\ Len(rest) = Len(log) - 1
      /\ DOMAIN log = 1..Len(log) /\ DOMAIN rest = 1..(Len(log) - 1)
      /\ \A i \in DOMAIN rest : rest[i] = log[i + 1]
  OBVIOUS
<1>2. own \subseteq DOMAIN log /\ own1 \subseteq DOMAIN rest /\ own \subseteq Nat /\ own1 \subseteq Nat
  BY <1>1 DEF OfKind
<1>3. \A i \in Nat : i \in own1 <=> i # 0 /\ i + 1 \in own
  BY <1>1 DEF OfKind
<1> HIDE DEF rest, own, own1
<1>4. \A i \in Nat : IsFiniteSet({j \in own : j > i}) /\ Cardinality({j \in own : j > i}) \in Nat
  BY <1>2, PlacesAreFinite
<1>5. ASSUME NEW i \in Nat, i # 0
      PROVE  Cardinality({j \in own1 : j > i - 1}) = Cardinality({j \in own : j > i})
  <2>1. PICK S : S = {j \in own : j > i}
    OBVIOUS
  <2>2. {j \in own1 : j > i - 1} = {j - 1 : j \in S}
    <3>1. ASSUME NEW j \in own1, j > i - 1 PROVE j + 1 \in S /\ j = (j + 1) - 1
      BY <1>2, <1>3, <1>5, <2>1, <3>1
    <3>2. ASSUME NEW j \in S PROVE j - 1 \in own1 /\ j - 1 > i - 1
      BY <1>2, <1>3, <1>5, <2>1, <3>2
    <3> QED BY <3>1, <3>2
  <2>3. S \in SUBSET Nat /\ IsFiniteSet(S)
    BY <1>2, <1>4, <1>5, <2>1
  <2> QED BY <2>1, <2>2, <2>3, ShiftedPlaces
<1>6. \A i \in Nat : i \in Recent(rest) <=> i # 0 /\ i + 1 \in Recent(log)
  <2>1. ASSUME NEW i \in Nat
        PROVE  i \in Recent(rest) <=> i \in own1 /\ Cardinality({j \in own1 : j > i}) < policy.window
    BY DEF Recent, own1
  <2>2. ASSUME NEW i \in Nat
        PROVE  i \in Recent(log) <=> i \in own /\ Cardinality({j \in own : j > i}) < policy.window
    BY DEF Recent, own
  <2>3. ASSUME NEW i \in Nat
        PROVE  Cardinality({j \in own1 : j > i}) = Cardinality({j \in own : j > i + 1})
    BY <1>5
  <2> SUFFICES ASSUME NEW i \in Nat PROVE i \in Recent(rest) <=> i # 0 /\ i + 1 \in Recent(log)
    OBVIOUS
  <2>4. i + 1 \in Nat
    OBVIOUS
  <2>5. i + 1 \in Recent(log) <=> i + 1 \in own /\ Cardinality({j \in own : j > i + 1}) < policy.window
    BY <2>2, <2>4
  <2>6. i \in Recent(rest) <=> i \in own1 /\ Cardinality({j \in own : j > i + 1}) < policy.window
    BY <2>1, <2>3
  <2> QED BY <1>3, <2>5, <2>6
<1>7. Recent(log) \subseteq own /\ Recent(rest) \subseteq own1
  BY DEF Recent, own, own1
<1>8. 1 \notin Recent(log)
  <2> SUFFICES ASSUME 1 \in Recent(log) PROVE FALSE
    OBVIOUS
  <2>1. 1 \in own /\ Cardinality({j \in own : j > 1}) < policy.window
    BY DEF Recent, own
  <2>2. PICK S : S = {j \in own : j > 1}
    OBVIOUS
  <2>3. PICK R : R = {j - 1 : j \in S}
    OBVIOUS
  <2>4. S \subseteq Nat /\ IsFiniteSet(S) /\ Cardinality(S) \in Nat
    BY <1>2, <1>4, <2>2
  <2>5. IsFiniteSet(R) /\ Cardinality(R) = Cardinality(S)
    BY <2>3, <2>4, ShiftedPlaces
  <2>6. Recent(rest) \subseteq R
    <3>1. ASSUME NEW i \in Recent(rest) PROVE i + 1 \in S /\ i = (i + 1) - 1
      BY <1>2, <1>6, <1>7, <2>2, <3>1
    <3> QED BY <2>3, <3>1
  <2>7. Cardinality(Recent(rest)) <= Cardinality(R) /\ Cardinality(Recent(rest)) \in Nat
    BY <2>5, <2>6, FS_Subset, FS_CardinalityType
  <2> QED BY <2>1, <2>2, <2>4, <2>5, <2>7, PolicyFacts DEF Tightened, rest
<1>9. Recent(rest) = {i - 1 : i \in Recent(log)}
  <2>1. ASSUME NEW i \in Recent(rest) PROVE i + 1 \in Recent(log) /\ i = (i + 1) - 1
    BY <1>2, <1>6, <1>7, <2>1
  <2>2. ASSUME NEW i \in Recent(log) PROVE i - 1 \in Recent(rest)
    BY <1>1, <1>2, <1>7, <1>8, <2>2, <1>6
  <2> QED BY <2>1, <2>2
<1>10. Answered(rest) = {i - 1 : i \in Answered(log)}
  <2>1. ASSUME NEW i \in Answered(rest) PROVE i + 1 \in Answered(log) /\ i = (i + 1) - 1
    <3>1. i \in Recent(rest) /\ rest[i].answered /\ i \in DOMAIN rest /\ i \in Nat
      BY <1>2, <1>7, <2>1 DEF Answered
    <3>2. rest[i] = log[i + 1] /\ i + 1 \in Recent(log)
      BY <1>1, <1>6, <3>1
    <3> QED BY <3>1, <3>2 DEF Answered
  <2>2. ASSUME NEW i \in Answered(log) PROVE i - 1 \in Answered(rest)
    BY <1>2, <1>7, <1>8, <2>2, <1>9, <1>1 DEF Answered
  <2> QED BY <2>1, <2>2
<1>11. /\ IsFiniteSet(Recent(log)) /\ IsFiniteSet(Answered(log))
       /\ Recent(log) \subseteq Nat /\ Answered(log) \subseteq Nat
  BY <1>2, <1>7, <1>1, PlacesAreFinite DEF Answered
<1>12. Cardinality(Recent(rest)) = Cardinality(Recent(log))
  BY <1>9, <1>11, ShiftedPlaces
<1>13. Cardinality(Answered(rest)) = Cardinality(Answered(log))
  BY <1>10, <1>11, ShiftedPlaces
<1> QED BY <1>12, <1>13 DEF Tightened, rest

(* A message of another kind at the end does not tighten.                  *)
LEMMA OthersLoosen ==
  ASSUME policy \in OutreachConfigs, NEW log \in Seq(Sendings), NEW e \in Sendings,
         e.kind # Finding, Tightened(Append(log, e))
  PROVE  Tightened(log)
<1>1. PICK longer : longer = Append(log, e)
  OBVIOUS
<1>2. /\ longer \in Seq(Sendings) /\ Len(longer) = Len(log) + 1 /\ Len(log) \in Nat
      /\ DOMAIN log = 1..Len(log) /\ DOMAIN longer = 1..(Len(log) + 1)
      /\ longer[Len(log) + 1] = e /\ \A i \in DOMAIN log : longer[i] = log[i]
  BY <1>1
<1>3. OfKind(longer, Finding) = OfKind(log, Finding)
  BY <1>2 DEF OfKind
<1>4. Recent(longer) = Recent(log) /\ Recent(log) \subseteq DOMAIN log
  BY <1>3 DEF Recent, OfKind
<1>5. Answered(longer) = Answered(log)
  BY <1>2, <1>4 DEF Answered
<1> QED BY <1>1, <1>4, <1>5 DEF Tightened

(* What recording a message does to the count of the day.                  *)
LEMMA DayCounts ==
  ASSUME policy \in OutreachConfigs, NEW log \in Seq(Sendings), Len(log) <= MaxSent,
         NEW kind \in {Finding, Blocking},
         ~(Len(log) = MaxSent /\ Head(log).kind = Finding /\ Head(log).today)
  PROVE  SentToday(RecordSent(log, kind), Finding) =
           IF kind = Finding THEN SentToday(log, Finding) + 1 ELSE SentToday(log, Finding)
<1>1. PICK e : e = [kind |-> kind, today |-> TRUE, answered |-> FALSE]
  OBVIOUS
<1>2. PICK longer : longer = Append(log, e)
  OBVIOUS
<1>3. /\ longer \in Seq(Sendings) /\ Len(longer) = Len(log) + 1 /\ Len(log) \in Nat
      /\ DOMAIN log = 1..Len(log) /\ DOMAIN longer = 1..(Len(log) + 1)
      /\ longer[Len(log) + 1] = e /\ \A i \in DOMAIN log : longer[i] = log[i]
  BY <1>1, <1>2 DEF Sendings
<1>4. PICK D : D = {i \in OfKind(log, Finding) : log[i].today}
  OBVIOUS
<1>5. PICK D1 : D1 = {i \in OfKind(longer, Finding) : longer[i].today}
  OBVIOUS
<1>6. D \subseteq DOMAIN log /\ IsFiniteSet(D) /\ Cardinality(D) \in Nat /\ Len(log) + 1 \notin D
  BY <1>4, <1>3, PlacesAreFinite DEF OfKind
<1>7. D1 = IF kind = Finding THEN D \cup {Len(log) + 1} ELSE D
  BY <1>1, <1>3, <1>4, <1>5 DEF OfKind, Finding, Blocking
<1>8. /\ IsFiniteSet(D1) /\ D1 \subseteq DOMAIN longer
      /\ Cardinality(D1) = IF kind = Finding THEN Cardinality(D) + 1 ELSE Cardinality(D)
  <2>1. PICK n : n = Len(log) + 1
    OBVIOUS
  <2>2. n \notin D /\ n \in DOMAIN longer /\ D \subseteq DOMAIN longer
    BY <1>3, <1>6, <2>1
  <2>3. IsFiniteSet(D \cup {n}) /\ Cardinality(D \cup {n}) = Cardinality(D) + 1
    BY <1>6, <2>2, FS_AddElement
  <2> QED BY <1>6, <1>7, <2>1, <2>2, <2>3
<1>9. CASE Len(longer) <= MaxSent
  <2>1. RecordSent(log, kind) = longer
    BY <1>1, <1>2, <1>3, <1>9, PolicyFacts DEF RecordSent
  <2> QED BY <1>4, <1>5, <1>8, <2>1 DEF SentToday
<1>10. CASE Len(longer) > MaxSent
  <2>1. RecordSent(log, kind) = Tail(longer) /\ Len(log) = MaxSent /\ Len(log) > 0
    BY <1>1, <1>2, <1>3, <1>10, PolicyFacts DEF RecordSent
  <2>2. PICK rest : rest = Tail(longer)
    OBVIOUS
  <2>3. /\ Len(rest) = Len(log) /\ DOMAIN rest = 1..Len(log)
        /\ \A i \in DOMAIN rest : rest[i] = longer[i + 1]
    BY <1>3, <2>2
  <2>4. PICK D2 : D2 = {i \in OfKind(rest, Finding) : rest[i].today}
    OBVIOUS
  <2>5. 1 \notin D1
    BY <1>3, <2>1, <1>5 DEF OfKind
  <2>6. D2 = {i - 1 : i \in D1}
    <3>1. ASSUME NEW i \in D2 PROVE i + 1 \in D1 /\ i = (i + 1) - 1
      BY <2>3, <2>4, <3>1, <1>3, <1>5 DEF OfKind
    <3>2. ASSUME NEW i \in D1 PROVE i - 1 \in D2
      BY <1>3, <1>5, <2>5, <3>2, <2>3, <2>4 DEF OfKind
    <3> QED BY <3>1, <3>2
  <2>7. D1 \subseteq Nat
    BY <1>3, <1>8
  <2>8. Cardinality(D2) = Cardinality(D1)
    BY <1>8, <2>6, <2>7, ShiftedPlaces
  <2> QED BY <1>4, <1>8, <2>1, <2>2, <2>4, <2>8 DEF SentToday
<1> QED BY <1>3, <1>9, <1>10, PolicyFacts

(* What recording a message leaves of the log.                             *)
LEMMA RecordedFacts ==
  ASSUME policy \in OutreachConfigs, NEW log \in Seq(Sendings), Len(log) <= MaxSent,
         NEW kind \in {Finding, Blocking}
  PROVE  /\ RecordSent(log, kind) \in Seq(Sendings) /\ Len(RecordSent(log, kind)) <= MaxSent
         /\ kind = Blocking /\ Tightened(RecordSent(log, kind)) => Tightened(log)
<1>1. PICK e : e = [kind |-> kind, today |-> TRUE, answered |-> FALSE]
  OBVIOUS
<1>2. PICK longer : longer = Append(log, e)
  OBVIOUS
<1>3. /\ e \in Sendings /\ longer \in Seq(Sendings) /\ longer # <<>>
      /\ Len(longer) = Len(log) + 1 /\ Len(log) \in Nat
  BY <1>1, <1>2 DEF Sendings
<1>4. RecordSent(log, kind) = IF Len(longer) > MaxSent THEN Tail(longer) ELSE longer
  BY <1>1, <1>2 DEF RecordSent
<1>5. RecordSent(log, kind) \in Seq(Sendings) /\ Len(RecordSent(log, kind)) <= MaxSent
  BY <1>3, <1>4, PolicyFacts
<1>6. ASSUME kind = Blocking, Tightened(RecordSent(log, kind)) PROVE Tightened(log)
  <2>1. Tightened(longer)
    BY <1>3, <1>4, <1>6, PruningLoosens
  <2>2. e.kind # Finding
    BY <1>1, <1>6 DEF Finding, Blocking
  <2> QED BY <1>2, <1>3, <2>1, <2>2, OthersLoosen
<1> QED BY <1>5, <1>6

(* An empty log is no day's count and no verdict.                          *)
LEMMA EmptyLog ==
  ASSUME policy \in OutreachConfigs
  PROVE  ~Tightened(<<>>) /\ SentToday(<<>>, Finding) = 0
<1>1. OfKind(<<>>, Finding) = {}
  BY DEF OfKind
<1>2. Recent(<<>>) = {} /\ {i \in OfKind(<<>>, Finding) : (<<>>)[i].today} = {}
  BY <1>1 DEF Recent
<1> QED BY <1>2, PolicyFacts, FS_EmptySet DEF Tightened, SentToday

(* What a step makes of the properties of the log, said of the log after   *)
(* it.                                                                     *)
LEMMA LogAfter ==
  ASSUME policy' = policy, NEW log, log = sent'
  PROVE  /\ Tightened(sent)' <=> Tightened(log)
         /\ SentToday(sent, Finding)' = SentToday(log, Finding)
         /\ TightenedCap' = TightenedCap
BY DEF Tightened, Answered, Recent, OfKind, SentToday, TightenedCap

(* The step that leaves the log alone.                                     *)
LEMMA LogStays ==
  ASSUME policy' = policy, sent' = sent
  PROVE  /\ Tightened(sent)' <=> Tightened(sent)
         /\ SentToday(sent, Finding)' = SentToday(sent, Finding)
         /\ TightenedCap' = TightenedCap
BY DEF Tightened, Answered, Recent, OfKind, SentToday, TightenedCap

(* No message was sent yet.                                                *)
LEMMA OutreachStarts == OutreachInit => OutreachIInv
<1> SUFFICES ASSUME OutreachInit PROVE OutreachIInv
  OBVIOUS
<1>1. policy \in OutreachConfigs /\ sent = <<>>
  BY DEF OutreachInit
<1>2. ~Tightened(sent) /\ SentToday(sent, Finding) = 0
  BY <1>1, EmptyLog
<1>3. sent \in Seq(Sendings) /\ Len(sent) <= MaxSent
  BY <1>1, PolicyFacts
<1>4. /\ listener.at = "idle" /\ listener = [at |-> listener.at, cap |-> listener.cap]
      /\ announced = NotAnnounced
  BY DEF OutreachInit, NoNotice
<1>5. /\ quiet \in BOOLEAN /\ unreadable \in BOOLEAN /\ spent \in Nat
      /\ forgotten \in BOOLEAN /\ toldOf \in BOOLEAN /\ unmarked \in BOOLEAN
  BY DEF OutreachInit
<1>6. OutreachTyped
  BY <1>1, <1>3, <1>4, <1>5 DEF OutreachTyped
<1> QED
  BY <1>1, <1>2, <1>4, <1>6, PolicyFacts DEF OutreachInit, OutreachIInv, DayIsCounted, ToldInForce,
       AnnouncedIsTold, ToldOnce

(* A message is admitted, refused, or meets a damaged file.                *)
LEMMA AdmitKeeps ==
  ASSUME OutreachIInv, NEW kind \in {Finding, Blocking}, NEW passes \in BOOLEAN, Admit(kind, passes)
  PROVE  OutreachIInv'
<1>1. OutreachTyped /\ DayIsCounted /\ ToldInForce /\ AnnouncedIsTold /\ ToldOnce
  BY DEF OutreachIInv
<1>2. /\ policy \in OutreachConfigs /\ policy' = policy /\ quiet' = quiet /\ unmarked' = unmarked
      /\ listener.at = "idle"
  BY <1>1 DEF Admit, OutreachTyped
<1>3. CASE unreadable
  <2>1. /\ sent' = sent /\ announced' = announced /\ spent' = spent /\ forgotten' = forgotten
        /\ toldOf' = toldOf /\ listener' = listener /\ unreadable' = FALSE
    BY <1>3 DEF Admit, SetAside
  <2>2. /\ Tightened(sent)' <=> Tightened(sent)
        /\ SentToday(sent, Finding)' = SentToday(sent, Finding) /\ TightenedCap' = TightenedCap
    BY <1>2, <2>1, LogStays
  <2> QED
    BY <1>1, <1>2, <2>1, <2>2 DEF OutreachIInv, OutreachTyped, DayIsCounted, ToldInForce,
         AnnouncedIsTold, ToldOnce
<1>4. CASE ~unreadable
  <2>1. PICK ok : ok = (Admissible(kind) /\ passes)
    OBVIOUS
  <2>2. ok \in BOOLEAN
    BY <2>1
  <2>3. PICK log : log = IF ok THEN RecordSent(sent, kind) ELSE sent
    OBVIOUS
  <2>4. /\ sent' = log /\ announced' = Reconciled(kind) /\ unreadable' = unreadable
        /\ listener' = IF NoticeOwed(kind, ok)
                       THEN [at |-> "telling", cap |-> TightenedCap] ELSE listener
        /\ spent' = IF ok /\ kind = Finding /\ spent <= policy.cap THEN spent + 1 ELSE spent
        /\ forgotten' = (forgotten \/ (Len(sent) = MaxSent /\ ok
                                       /\ Head(sent).kind = Finding /\ Head(sent).today))
        /\ toldOf' = (toldOf /\ Tightened(log))
    BY <1>4, <2>1, <2>3 DEF Admit
  <2>5. /\ Tightened(sent)' <=> Tightened(log)
        /\ SentToday(sent, Finding)' = SentToday(log, Finding) /\ TightenedCap' = TightenedCap
    BY <1>2, <2>4, LogAfter
  <2>6. /\ log \in Seq(Sendings) /\ Len(log) <= MaxSent
        /\ kind = Blocking /\ Tightened(log) => Tightened(sent)
    BY <1>1, <1>2, <2>3, RecordedFacts DEF OutreachTyped
  <2>7. OutreachTyped'
    BY <1>1, <2>2, <2>4, <1>2, <2>5, <2>6 DEF Reconciled, OutreachTyped
  <2>8. DayIsCounted'
    <3> SUFFICES ASSUME ~forgotten' PROVE spent' = SentToday(log, Finding) /\ spent' <= policy.cap
      BY <1>2, <2>5 DEF DayIsCounted
    <3>1. /\ spent = SentToday(sent, Finding) /\ spent <= policy.cap
          /\ ok => ~(Len(sent) = MaxSent /\ Head(sent).kind = Finding /\ Head(sent).today)
      BY <1>1, <2>4 DEF DayIsCounted
    <3>2. CASE ~ok
      BY <2>3, <2>4, <3>1, <3>2
    <3>3. CASE ok /\ kind = Blocking
      BY <1>1, <1>2, <3>1, <3>3, DayCounts, <2>3, <2>4 DEF OutreachTyped, Finding, Blocking
    <3>4. CASE ok /\ kind = Finding
      BY <1>1, <1>2, <3>1, <3>4, DayCounts, <2>1, PolicyFacts, <2>3, <2>4 DEF OutreachTyped,
         Admissible, WithinCap, Finding, Blocking, EffectiveCap
    <3> QED BY <2>2, <3>2, <3>3, <3>4
  <2>9. kind = Finding => (listener'.at = "telling" => Tightened(sent) /\ announced # TightenedCap)
    BY <1>2, <2>4 DEF NoticeOwed
  <2>10. kind = Blocking => listener' = listener /\ announced' = announced
    BY <2>4 DEF NoticeOwed, Reconciled, Finding, Blocking
  <2>11. kind = Finding => announced' = IF Tightened(sent) THEN announced ELSE NotAnnounced
    BY <2>4 DEF Reconciled
  <2>12. TightenedCap # NotAnnounced
    BY <1>2, PolicyFacts
  <2>13. toldOf' => toldOf /\ Tightened(log) /\ Tightened(sent)
    BY <1>1, <2>4 DEF ToldInForce
  <2>14. listener'.at \in {"idle", "telling"}
    BY <1>2, <2>4
  <2>15. ToldInForce'
    BY <1>1, <1>2, <2>10, <2>11, <2>13, <2>5, <2>14 DEF ToldInForce
  <2>16. AnnouncedIsTold'
    <3> SUFFICES ASSUME Tightened(log), announced' = TightenedCap PROVE toldOf'
      BY <2>5 DEF AnnouncedIsTold
    <3>1. Tightened(sent) /\ announced = TightenedCap
      BY <2>6, <2>10, <2>11, <2>12
    <3> QED BY <1>1, <2>4, <3>1 DEF AnnouncedIsTold
  <2>17. ToldOnce'
    <3> SUFFICES ASSUME listener'.at = "telling", toldOf' PROVE unmarked
      BY <1>2 DEF ToldOnce
    <3>1. kind = Finding /\ announced # TightenedCap
      BY <1>2, <2>9, <2>10
    <3> QED BY <1>1, <1>2, <2>13, <3>1 DEF ToldInForce
  <2> QED BY <2>7, <2>8, <2>15, <2>16, <2>17 DEF OutreachIInv
<1> QED BY <1>3, <1>4

(* A notice is told, is not, is marked as told, or is lost.                *)
LEMMA NoticesKeep ==
  ASSUME OutreachIInv, Tell \/ TellFails \/ MarkAnnounced \/ ListenerRestarts
  PROVE  OutreachIInv'
<1>1. OutreachTyped /\ DayIsCounted /\ ToldInForce /\ AnnouncedIsTold /\ ToldOnce
  BY DEF OutreachIInv
<1>2. /\ policy \in OutreachConfigs /\ policy' = policy /\ sent' = sent /\ quiet' = quiet
      /\ spent' = spent /\ forgotten' = forgotten
  BY <1>1 DEF Tell, TellFails, MarkAnnounced, ListenerRestarts, SetAside, OutreachTyped
<1>3. /\ Tightened(sent)' <=> Tightened(sent)
      /\ SentToday(sent, Finding)' = SentToday(sent, Finding) /\ TightenedCap' = TightenedCap
  BY <1>2, LogStays
<1>4. DayIsCounted'
  BY <1>1, <1>2, <1>3 DEF DayIsCounted
<1>5. Tightened(sent) \in BOOLEAN
  BY DEF Tightened
<1>6. CASE Tell
  BY <1>6, <1>1, <1>2, <1>3, <1>5, <1>4 DEF Tell, OutreachTyped, OutreachIInv, ToldInForce,
     AnnouncedIsTold, ToldOnce
<1>7. CASE TellFails \/ ListenerRestarts
  BY <1>1, <1>7, <1>2, <1>3, <1>4 DEF TellFails, ListenerRestarts, OutreachTyped, NoNotice,
     ToldOnce, OutreachIInv, ToldInForce, AnnouncedIsTold
<1>8. CASE MarkAnnounced
  <2>1. /\ listener' = NoNotice /\ toldOf' = toldOf /\ listener.at = "marking"
        /\ listener.cap = TightenedCap
        /\ \/ announced' = announced /\ unmarked' = toldOf /\ unreadable' = FALSE
           \/ announced' = listener.cap /\ unmarked' = unmarked /\ unreadable' = unreadable
    BY <1>1, <1>8 DEF MarkAnnounced, SetAside, OutreachTyped
  <2>2. listener'.at = "idle" /\ listener' = [at |-> listener'.at, cap |-> listener'.cap]
    BY <2>1 DEF NoNotice
  <2>3. OutreachTyped'
    BY <1>1, <1>2, <1>3, <2>1, <2>2 DEF OutreachTyped
  <2>4. ToldInForce'
    BY <1>1, <1>3, <2>1, <2>2 DEF ToldInForce
  <2>5. AnnouncedIsTold'
    BY <1>1, <1>3, <2>1 DEF AnnouncedIsTold, ToldInForce
  <2> QED BY <1>4, <2>2, <2>3, <2>4, <2>5 DEF OutreachIInv, ToldOnce
<1> QED BY <1>6, <1>7, <1>8

(* The operator answers, or his day ends.                                  *)
LEMMA AnswersKeep ==
  ASSUME OutreachIInv, NEW i \in 1..MaxSent, Respond(i)
  PROVE  OutreachIInv'
<1>1. OutreachTyped /\ DayIsCounted /\ ToldInForce /\ AnnouncedIsTold /\ ToldOnce
  BY DEF OutreachIInv
<1>2. /\ policy \in OutreachConfigs /\ policy' = policy /\ quiet' = quiet /\ listener' = listener
      /\ unmarked' = unmarked /\ announced' = announced /\ spent' = spent /\ forgotten' = forgotten
  BY <1>1 DEF Respond, SetAside, OutreachTyped
<1>3. CASE unreadable
  <2>1. sent' = sent /\ toldOf' = toldOf /\ unreadable' = FALSE
    BY <1>3 DEF Respond, SetAside
  <2>2. /\ Tightened(sent)' <=> Tightened(sent)
        /\ SentToday(sent, Finding)' = SentToday(sent, Finding) /\ TightenedCap' = TightenedCap
    BY <1>2, <2>1, LogStays
  <2> QED
    BY <1>1, <1>2, <2>1, <2>2 DEF OutreachIInv, OutreachTyped, DayIsCounted, ToldInForce,
         AnnouncedIsTold, ToldOnce
<1>4. CASE ~unreadable
  <2>1. PICK log : log = [sent EXCEPT ![i].answered = TRUE]
    OBVIOUS
  <2>2. i \in DOMAIN sent /\ sent' = log /\ toldOf' = (toldOf /\ Tightened(sent')) /\ unreadable' = unreadable
    BY <1>4, <2>1 DEF Respond
  <2>3. sent \in Seq(Sendings) /\ Len(sent) <= MaxSent
    BY <1>1 DEF OutreachTyped
  <2>4. /\ log \in Seq(Sendings) /\ Len(log) = Len(sent) /\ DOMAIN log = DOMAIN sent
        /\ \A j \in DOMAIN sent : /\ log[j].kind = sent[j].kind
                                  /\ log[j].today = sent[j].today
                                  /\ sent[j].answered => log[j].answered
    <3>1. PICK e : e = [sent[i] EXCEPT !.answered = TRUE]
      OBVIOUS
    <3>2. /\ e \in Sendings /\ e.kind = sent[i].kind /\ e.today = sent[i].today /\ e.answered
      <4>1. PICK g \in Sendings : g = sent[i]
        BY <2>2, <2>3
      <4>2. e = [g EXCEPT !.answered = TRUE]
        BY <3>1, <4>1
      <4>3. e \in Sendings /\ e.kind = g.kind /\ e.today = g.today /\ e.answered
        BY <4>2, SendingFacts
      <4> QED BY <4>1, <4>3
    <3>3. log = [sent EXCEPT ![i] = e]
      BY <2>1, <3>1
    <3>4. log \in Seq(Sendings) /\ Len(log) = Len(sent) /\ DOMAIN log = DOMAIN sent
      BY <2>2, <2>3, <3>2, <3>3
    <3>5. \A j \in DOMAIN sent : log[j] = IF j = i THEN e ELSE sent[j]
      BY <3>3
    <3> QED BY <3>2, <3>4, <3>5
  <2>5. /\ Tightened(sent)' <=> Tightened(log)
        /\ SentToday(sent, Finding)' = SentToday(log, Finding) /\ TightenedCap' = TightenedCap
    BY <1>2, <2>2, LogAfter
  <2>6. Tightened(log) => Tightened(sent)
    BY <1>2, <2>3, <2>4, AnswersLoosen
  <2>7. SentToday(log, Finding) = SentToday(sent, Finding)
    BY <2>3, <2>4, SameMessages DEF OfKind, SentToday
  <2>8. toldOf' <=> toldOf /\ Tightened(log)
    BY <2>2
  <2>9. toldOf' \in BOOLEAN
    BY <1>1, <2>2 DEF OutreachTyped, Tightened
  <2>10. OutreachTyped'
    BY <1>1, <1>2, <2>2, <2>3, <2>4, <2>5, <2>9 DEF OutreachTyped
  <2>11. DayIsCounted'
    BY <1>1, <1>2, <2>5, <2>7 DEF DayIsCounted
  <2>12. ToldInForce'
    BY <1>1, <1>2, <2>5, <2>6, <2>8 DEF ToldInForce
  <2>13. AnnouncedIsTold'
    BY <1>1, <1>2, <2>5, <2>6, <2>8 DEF AnnouncedIsTold
  <2>14. ToldOnce'
    BY <1>1, <1>2, <2>8 DEF ToldOnce
  <2> QED BY <2>10, <2>11, <2>12, <2>13, <2>14 DEF OutreachIInv
<1> QED BY <1>3, <1>4

(* A day ends, and its counts with it.                                     *)
LEMMA MidnightKeeps ==
  ASSUME OutreachIInv, Midnight
  PROVE  OutreachIInv'
<1>1. OutreachTyped /\ DayIsCounted /\ ToldInForce /\ AnnouncedIsTold /\ ToldOnce
  BY DEF OutreachIInv
<1>2. /\ policy \in OutreachConfigs /\ policy' = policy /\ quiet' = quiet /\ listener' = listener
      /\ unmarked' = unmarked /\ announced' = announced /\ spent' = 0 /\ forgotten' = FALSE
      /\ toldOf' = toldOf /\ unreadable' = unreadable
  BY <1>1 DEF Midnight, OutreachTyped
<1>3. PICK log : log = [i \in DOMAIN sent |-> [sent[i] EXCEPT !.today = FALSE]]
  OBVIOUS
<1>4. sent' = log /\ sent \in Seq(Sendings) /\ Len(sent) <= MaxSent
  BY <1>1, <1>3 DEF Midnight, OutreachTyped
<1>5. /\ log \in Seq(Sendings) /\ Len(log) = Len(sent) /\ DOMAIN log = DOMAIN sent
      /\ \A j \in DOMAIN sent : /\ log[j].kind = sent[j].kind /\ ~log[j].today
                                /\ log[j].answered = sent[j].answered
  <2>1. ASSUME NEW j \in DOMAIN sent
        PROVE  /\ log[j] \in Sendings /\ log[j].kind = sent[j].kind /\ ~log[j].today
               /\ log[j].answered = sent[j].answered
    <3>1. sent[j] \in Sendings /\ log[j] = [sent[j] EXCEPT !.today = FALSE]
      BY <1>3, <1>4
    <3>2. PICK g \in Sendings : g = sent[j]
      BY <3>1
    <3>3. PICK f : f = log[j]
      OBVIOUS
    <3>4. f = [g EXCEPT !.today = FALSE]
      BY <3>1, <3>2, <3>3
    <3>5. f \in Sendings /\ f.kind = g.kind /\ ~f.today /\ f.answered = g.answered
      BY <3>4, SendingFacts
    <3> QED BY <3>2, <3>3, <3>5
  <2>2. DOMAIN sent = 1..Len(sent) /\ Len(sent) \in Nat /\ DOMAIN log = 1..Len(sent)
    BY <1>3, <1>4
  <2>3. log = [j \in 1..Len(sent) |-> log[j]]
    BY <1>3, <2>2
  <2>4. log \in Seq(Sendings) /\ Len(log) = Len(sent)
    BY <2>1, <2>2, <2>3
  <2> QED BY <2>1, <2>2, <2>4
<1>6. /\ Tightened(sent)' <=> Tightened(log)
      /\ SentToday(sent, Finding)' = SentToday(log, Finding) /\ TightenedCap' = TightenedCap
  BY <1>2, <1>4, LogAfter
<1>7. Tightened(log) <=> Tightened(sent)
  BY <1>2, <1>4, <1>5, AnswersLoosen
<1>8. SentToday(log, Finding) = 0
  BY <1>5, FS_EmptySet DEF OfKind, SentToday
<1>9. OutreachTyped'
  BY <1>1, <1>2, <1>4, <1>5, <1>6 DEF OutreachTyped
<1>10. DayIsCounted'
  BY <1>2, <1>6, <1>8, PolicyFacts DEF DayIsCounted
<1> QED
  BY <1>1, <1>2, <1>6, <1>7, <1>9, <1>10 DEF OutreachIInv, ToldInForce, AnnouncedIsTold, ToldOnce

(* Quiet hours begin or end.                                               *)
LEMMA QuietHoursKeep ==
  ASSUME OutreachIInv, QuietHours \/ UNCHANGED outreachVars
  PROVE  OutreachIInv'
<1>1. OutreachTyped /\ DayIsCounted /\ ToldInForce /\ AnnouncedIsTold /\ ToldOnce
  BY DEF OutreachIInv
<1>2. /\ policy' = policy /\ sent' = sent /\ quiet' \in BOOLEAN /\ listener' = listener
      /\ unmarked' = unmarked /\ announced' = announced /\ spent' = spent /\ forgotten' = forgotten
      /\ toldOf' = toldOf /\ unreadable' = unreadable
  BY <1>1 DEF QuietHours, outreachVars, OutreachTyped
<1>3. /\ Tightened(sent)' <=> Tightened(sent)
      /\ SentToday(sent, Finding)' = SentToday(sent, Finding) /\ TightenedCap' = TightenedCap
  BY <1>2, LogStays
<1>4. OutreachTyped'
  BY <1>1, <1>2, <1>3 DEF OutreachTyped
<1> QED
  BY <1>1, <1>2, <1>3, <1>4 DEF OutreachIInv, DayIsCounted, ToldInForce, AnnouncedIsTold, ToldOnce

(* A damaged file forgets what was sent and what was told.                 *)
LEMMA DamageKeeps ==
  ASSUME OutreachIInv, FileDamaged
  PROVE  OutreachIInv'
<1>1. OutreachTyped
  BY DEF OutreachIInv
<1>2. PICK log : log = sent'
  OBVIOUS
<1>3. /\ policy \in OutreachConfigs /\ policy' = policy /\ log = <<>> /\ quiet' = quiet
      /\ listener' = listener /\ unmarked' = unmarked /\ announced' = NotAnnounced
      /\ spent' = spent /\ (forgotten' <=> spent > 0) /\ toldOf' = FALSE /\ unreadable' = TRUE
  BY <1>1, <1>2 DEF FileDamaged, OutreachTyped
<1>4. /\ Tightened(sent)' <=> Tightened(log)
      /\ SentToday(sent, Finding)' = SentToday(log, Finding) /\ TightenedCap' = TightenedCap
  BY <1>2, <1>3, LogAfter
<1>5. ~Tightened(log) /\ SentToday(log, Finding) = 0
  BY <1>3, EmptyLog
<1>6. sent' \in Seq(Sendings) /\ Len(sent') <= MaxSent
  BY <1>2, <1>3, PolicyFacts
<1>7. spent \in Nat /\ forgotten' \in BOOLEAN
  BY <1>1 DEF OutreachTyped, FileDamaged
<1>8. OutreachTyped'
  BY <1>1, <1>3, <1>4, <1>6, <1>7 DEF OutreachTyped
<1>9. DayIsCounted'
  <2> SUFFICES ASSUME ~forgotten' PROVE spent' = SentToday(log, Finding) /\ spent' <= policy.cap
    BY <1>3, <1>4 DEF DayIsCounted
  <2>1. spent = 0
    BY <1>3, <1>7
  <2> QED BY <1>3, <1>5, <2>1, PolicyFacts
<1> QED BY <1>3, <1>4, <1>5, <1>8, <1>9 DEF OutreachIInv, ToldInForce, AnnouncedIsTold, ToldOnce

(* Every state of the outreach has the inductive invariant.                *)
THEOREM OutreachInvariance == OutreachSpec => []OutreachIInv
<1>1. OutreachIInv /\ [OutreachNext]_outreachVars => OutreachIInv'
  <2> SUFFICES ASSUME OutreachIInv, [OutreachNext]_outreachVars PROVE OutreachIInv'
    OBVIOUS
  <2>1. ASSUME NEW kind \in {Finding, Blocking}, NEW passes \in BOOLEAN, Admit(kind, passes)
        PROVE  OutreachIInv'
    BY <2>1, AdmitKeeps
  <2>2. CASE Tell \/ TellFails \/ MarkAnnounced \/ ListenerRestarts
    BY <2>2, NoticesKeep
  <2>3. ASSUME NEW i \in 1..MaxSent, Respond(i) PROVE OutreachIInv'
    BY <2>3, AnswersKeep
  <2>4. CASE Midnight
    BY <2>4, MidnightKeeps
  <2>5. CASE QuietHours \/ UNCHANGED outreachVars
    BY <2>5, QuietHoursKeep
  <2>6. CASE FileDamaged
    BY <2>6, DamageKeeps
  <2> QED BY <2>1, <2>2, <2>3, <2>4, <2>5, <2>6 DEF OutreachNext
<1> QED BY <1>1, OutreachStarts, PTL DEF OutreachSpec

(* What outreach promises the operator (OutreachHolds), for every cap,     *)
(* window, floor and size of log: no more messages of a capped kind a day  *)
(* than the cap, a record that never says of a tightening nobody told that *)
(* it was told, and one notice of each unless its mark was lost.           *)
THEOREM OutreachKeepsItsPromises == OutreachSpec => []OutreachHolds
<1>1. OutreachIInv => OutreachHolds
  <2> SUFFICES ASSUME OutreachIInv PROVE OutreachHolds
    OBVIOUS
  <2>1. OutreachTyped /\ DayIsCounted
    BY DEF OutreachIInv
  <2>2. /\ Len(sent) <= MaxSent /\ announced \in {NotAnnounced, TightenedCap}
        /\ listener.at \in {"idle", "telling", "marking"}
    BY <2>1 DEF OutreachTyped
  <2>3. \A i \in DOMAIN sent : sent[i] \in Sendings
    BY <2>1 DEF OutreachTyped
  <2>4. OutreachTypeOK
    BY <2>2, <2>3 DEF OutreachTypeOK, Sendings
  <2> QED BY <2>1, <2>4 DEF OutreachHolds, CapPerDay, DayIsCounted, OutreachIInv
<1> QED BY <1>1, OutreachInvariance, PTL

-----------------------------------------------------------------------------
(* The dialogue with another pulse.                                        *)
(*                                                                         *)
(* The argument: whoever starts a dialogue finds the one in the slot over, *)
(* and over it stays.  The turns in a watcher's queue go on from the last  *)
(* it has, each after its predecessor, up to the last that was sent, and   *)
(* the end comes behind them.  A pause is told by the one request that     *)
(* makes it.                                                               *)

Events == [is : {"status", "turn", "end"}, n : Nat]
Early == {"none", "new", "local", "peer", "before_local", "before_peer"}
Pushes == {"push_local", "push_peer"}
Dlgs == [phase : Thinking \cup {"paused", "ended", "failed"}, before : Thinking, turns : Nat,
         go : BOOLEAN, at : TaskPlaces, aborted : BOOLEAN, filed : Nat]
Askings == [at : {"idle", "starting", "pausing"}, of : Dialogues, go : BOOLEAN]
Watches == [of : 0..MaxDialogues, queue : Seq(Events), lagged : BOOLEAN, last : Nat,
            ended : {"no", "event", "replayed"}, gap : BOOLEAN]

DialogueTyped ==
  /\ talk \in CommsConfigs
  /\ dlg \in [Dialogues -> Dlgs] /\ current \in 0..talk.dialogues
  /\ asking \in [CommsHandlers -> Askings] /\ watch \in [CommsWatchers -> Watches]
  /\ door \in {"open", "closed", "waiting", "done"} /\ crossed \subseteq Dialogues

(* A record: a turn more is allowed to a task that may still take one, and *)
(* a task that has shut its dialogue down is over.                         *)
RecordIsSound(r) ==
  /\ r.turns <= talk.turns /\ r.filed <= talk.turns
  /\ r.at \in Early => r.turns < talk.turns
  /\ r.at \in {"archiving", "closing", "gone"} => Over(r)

InSlot(d) ==
  /\ d > current => dlg[d] = NoTurnYet
  /\ d <= current => dlg[d].at # "none"
  /\ d < current => Over(dlg[d])

Pausing(h, d) == asking[h].at = "pausing" /\ asking[h].of = d
PauseTold(d) ==
  d \notin crossed =>
    /\ \A g, h \in CommsHandlers : Pausing(g, d) /\ Pausing(h, d) => g = h
    /\ \A h \in CommsHandlers : Pausing(h, d) => asking[h].go = dlg[d].go
    /\ Quiescent(d) /\ dlg[d].at # "none" /\ ~Over(dlg[d]) =>
         (dlg[d].phase = "paused" <=> ~dlg[d].go)

DialoguesKept == \A d \in Dialogues : RecordIsSound(dlg[d]) /\ InSlot(d) /\ PauseTold(d)
AskersKept == \A h \in CommsHandlers : asking[h].at = "pausing" => asking[h].of \in 1..current

(* The turns of a record that were sent, and what a queue holds of them    *)
(* for a watcher who has the turns up to last.                             *)
SentOut(r, m) == m <= r.turns /\ (r.at \in Pushes => m < r.turns)
Consecutive(queue, last) ==
  \A i \in DOMAIN queue : queue[i].is = "turn" =>
    \/ queue[i].n <= last + 1
    \/ \E j \in DOMAIN queue : j < i /\ queue[j].is = "turn" /\ queue[j].n + 1 = queue[i].n
UpTo(queue, r) == \A i \in DOMAIN queue : queue[i].is = "turn" => queue[i].n <= r.turns
Covering(queue, last, r) ==
  \A m \in Nat : m > last /\ SentOut(r, m) => \E i \in DOMAIN queue : queue[i] = TurnEvent(m)
EndIsLast(queue, r) ==
  \A i \in DOMAIN queue : queue[i].is = "end" =>
    r.at = "gone" /\ \A j \in DOMAIN queue : j > i => queue[j].is # "turn"
Fits(queue, last, r) ==
  Consecutive(queue, last) /\ UpTo(queue, r) /\ Covering(queue, last, r) /\ EndIsLast(queue, r)

Served(v, r) ==
  /\ v.last <= r.turns
  /\ v.ended = "event" => r.at = "gone" /\ v.last = r.turns
  /\ v.ended = "no" /\ ~v.lagged => Fits(v.queue, v.last, r)
  /\ v.lagged => v.queue = <<>>
WatcherServed(w) ==
  /\ watch[w].of \in 0..current /\ ~watch[w].gap
  /\ watch[w].of # 0 => Served(watch[w], dlg[watch[w].of])
  /\ watch[w].of = 0 => watch[w].ended = "no"
WatchersServed == \A w \in CommsWatchers : WatcherServed(w)

DialogueIInv == DialogueTyped /\ DialoguesKept /\ AskersKept /\ WatchersServed

(* The constants, and the configuration in force.                          *)
LEMMA TalkFacts ==
  ASSUME talk \in CommsConfigs
  PROVE  /\ talk.turns \in Nat \ {0} /\ talk.dialogues \in Nat \ {0} /\ talk.dialogues <= MaxDialogues
         /\ MaxDialogues \in Nat \ {0} /\ 1 \in Dialogues /\ Dialogues \subseteq Nat \ {0}
         /\ \A d \in 1..talk.dialogues : d \in Dialogues
BY PeerDialogueAssumption DEF Dialogues

(* A record that no task has touched.                                      *)
LEMMA FreshFacts ==
  ASSUME talk \in CommsConfigs
  PROVE  NoTurnYet \in Dlgs /\ RecordIsSound(NoTurnYet) /\ NoTurnYet.at = "none" /\ NoTurnYet.go
         /\ NoTurnYet.turns = 0 /\ NoTurnYet.phase = "local" /\ NoTurnYet.filed = 0
BY TalkFacts DEF NoTurnYet, Dlgs, Thinking, TaskPlaces, RecordIsSound, Over, Early

-----------------------------------------------------------------------------
(* Queues.                                                                 *)

(* A queue with more events behind it.                                     *)
LEMMA LongerQueue ==
  ASSUME NEW queue \in Seq(Events), NEW events \in Seq(Events), NEW longer, longer = queue \o events
  PROVE  /\ longer \in Seq(Events) /\ DOMAIN queue = 1..Len(queue) /\ DOMAIN longer = 1..(Len(queue) + Len(events))
         /\ DOMAIN events = 1..Len(events) /\ Len(queue) \in Nat /\ Len(events) \in Nat
         /\ \A i \in 1..Len(queue) : longer[i] = queue[i] /\ queue[i] \in Events
         /\ \A i \in 1..Len(events) : longer[Len(queue) + i] = events[i] /\ Len(queue) + i \in DOMAIN longer
         /\ \A i \in DOMAIN longer : i > Len(queue) => i - Len(queue) \in 1..Len(events)
                                                       /\ longer[i] = events[i - Len(queue)]
OBVIOUS

(* The things a task says at a time are told apart.                        *)
LEMMA EventTuples ==
  ASSUME NEW n
  PROVE  /\ <<TurnEvent(n)>> # <<>> /\ <<TurnEvent(n)>> # <<Status>> /\ <<TurnEvent(n)>> # <<Status, End>>
         /\ <<Status, End>> # <<>> /\ <<Status, End>> # <<Status>>
<1>1. TurnEvent(n) # Status
  BY DEF TurnEvent, Status
<1>2. Len(<<>>) = 0
  OBVIOUS
<1>3. Len(<<Status>>) = 1 /\ <<Status>>[1] = Status
  OBVIOUS
<1>4. Len(<<TurnEvent(n)>>) = 1 /\ <<TurnEvent(n)>>[1] = TurnEvent(n)
  OBVIOUS
<1>5. Len(<<Status, End>>) = 2
  OBVIOUS
<1>6. <<TurnEvent(n)>> # <<>>
  BY <1>2, <1>4
<1>7. <<TurnEvent(n)>> # <<Status>>
  BY <1>1, <1>3, <1>4
<1>8. <<TurnEvent(n)>> # <<Status, End>>
  BY <1>4, <1>5
<1>9. <<Status, End>> # <<>>
  BY <1>2, <1>5
<1>10. <<Status, End>> # <<Status>>
  BY <1>3, <1>5
<1> QED BY <1>6, <1>7, <1>8, <1>9, <1>10

(* What the task tells its watchers, and what becomes of their queues.     *)
Tells(r, s, events) ==
  \/ /\ events \in {<<>>, <<Status>>}
     /\ s.turns >= r.turns /\ (r.at = "gone" => s.at = "gone")
     /\ \A m \in Nat : SentOut(s, m) => SentOut(r, m)
  \/ /\ events = <<TurnEvent(s.turns)>> /\ r.at \in Pushes /\ s.turns = r.turns
  \/ /\ events = <<Status, End>> /\ r.at # "gone" /\ s.at = "gone" /\ s.turns = r.turns
     /\ \A m \in Nat : SentOut(s, m) => SentOut(r, m)

(* The only turn a task tells of is its last, and the end is told with a   *)
(* status.                                                                 *)
LEMMA ToldEvents ==
  ASSUME NEW r \in Dlgs, NEW s \in Dlgs, NEW events, Tells(r, s, events)
  PROVE  /\ events \in Seq(Events)
         /\ \A i \in DOMAIN events : events[i].is = "turn" => events = <<TurnEvent(s.turns)>>
         /\ \A i \in DOMAIN events : events[i].is = "end" => events = <<Status, End>>
<1>1. Status \in Events /\ End \in Events /\ Status.is = "status" /\ End.is = "end" /\ 0 \in Nat
  BY DEF Status, End, Events
<1>2. TurnEvent(s.turns) \in Events /\ TurnEvent(s.turns).is = "turn"
  BY DEF TurnEvent, Events, Dlgs
<1>3. CASE events = <<>>
  BY <1>3
<1>4. CASE events = <<Status>>
  BY <1>1, <1>4
<1>5. CASE events = <<TurnEvent(s.turns)>>
  BY <1>2, <1>5
<1>6. CASE events = <<Status, End>>
  BY <1>1, <1>6
<1> QED BY <1>3, <1>4, <1>5, <1>6 DEF Tells

(* What a task says, put behind a queue that fits, fits the new record.    *)
LEMMA ToldFits ==
  ASSUME NEW queue \in Seq(Events), NEW last \in Nat, NEW r \in Dlgs, NEW s \in Dlgs,
         NEW events, Tells(r, s, events), Fits(queue, last, r), NEW longer, longer = queue \o events
  PROVE  longer \in Seq(Events) /\ Fits(longer, last, s)
<1>1. /\ events \in Seq(Events)
      /\ \A i \in DOMAIN events : events[i].is = "turn" => events = <<TurnEvent(s.turns)>>
      /\ \A i \in DOMAIN events : events[i].is = "end" => events = <<Status, End>>
  BY ToldEvents
<1>2. /\ longer \in Seq(Events) /\ DOMAIN queue = 1..Len(queue) /\ DOMAIN longer = 1..(Len(queue) + Len(events))
      /\ DOMAIN events = 1..Len(events) /\ Len(queue) \in Nat /\ Len(events) \in Nat
      /\ \A i \in 1..Len(queue) : longer[i] = queue[i] /\ queue[i] \in Events
      /\ \A i \in 1..Len(events) : longer[Len(queue) + i] = events[i] /\ Len(queue) + i \in DOMAIN longer
      /\ \A i \in DOMAIN longer : i > Len(queue) => i - Len(queue) \in 1..Len(events)
                                                    /\ longer[i] = events[i - Len(queue)]
  BY <1>1, LongerQueue
<1>3. Consecutive(queue, last) /\ UpTo(queue, r) /\ Covering(queue, last, r) /\ EndIsLast(queue, r)
  BY DEF Fits
<1>4. r.turns \in Nat /\ s.turns \in Nat /\ s.turns >= r.turns
  BY DEF Tells, Dlgs
<1>5. ASSUME NEW i \in DOMAIN longer
      PROVE  \/ i \in DOMAIN queue /\ longer[i] = queue[i]
             \/ /\ i > Len(queue) /\ i - Len(queue) \in DOMAIN events
                /\ longer[i] = events[i - Len(queue)]
  BY <1>2
<1>6. \A i \in DOMAIN queue : i \in DOMAIN longer /\ longer[i] = queue[i] /\ i \in Nat
  BY <1>2
<1>7. \A m : TurnEvent(m).is = "turn" /\ TurnEvent(m).n = m
  BY DEF TurnEvent
<1>8. ASSUME NEW i \in DOMAIN longer, i > Len(queue), longer[i].is = "turn"
      PROVE  /\ events = <<TurnEvent(s.turns)>> /\ i = Len(queue) + 1
             /\ longer[i].n = s.turns /\ longer[i] = TurnEvent(s.turns) /\ r.at \in Pushes /\ s.turns = r.turns
  <2>1. i - Len(queue) \in DOMAIN events /\ longer[i] = events[i - Len(queue)] /\ i \in Nat
    BY <1>2, <1>8
  <2>2. events = <<TurnEvent(s.turns)>>
    BY <1>1, <1>8, <2>1
  <2>3. Len(events) = 1 /\ events[1] = TurnEvent(s.turns)
    BY <2>2
  <2>4. i - Len(queue) = 1
    BY <1>2, <2>1, <2>3
  <2>5. r.at \in Pushes /\ s.turns = r.turns
    BY <2>2, EventTuples DEF Tells
  <2> QED BY <1>2, <1>7, <2>1, <2>2, <2>3, <2>4, <2>5
<1>9. Consecutive(longer, last)
  <2> SUFFICES ASSUME NEW i \in DOMAIN longer, longer[i].is = "turn", ~(longer[i].n <= last + 1)
               PROVE  \E j \in DOMAIN longer : j < i /\ longer[j].is = "turn" /\ longer[j].n + 1 = longer[i].n
    BY DEF Consecutive
  <2>1. CASE i \in DOMAIN queue /\ longer[i] = queue[i]
    BY <1>3, <1>6, <2>1 DEF Consecutive
  <2>2. CASE i > Len(queue)
    <3>1. longer[i].n = r.turns /\ r.at \in Pushes
      BY <1>8, <2>2
    <3>2. PICK m : m = r.turns - 1
      OBVIOUS
    <3>3. m \in Nat /\ m > last /\ SentOut(r, m) /\ m + 1 = longer[i].n
      BY <1>4, <3>1, <3>2 DEF SentOut
    <3>4. PICK j \in DOMAIN queue : queue[j] = TurnEvent(m)
      BY <1>3, <3>3 DEF Covering
    <3>5. j \in DOMAIN longer /\ j < i /\ longer[j].is = "turn" /\ longer[j].n = m
      BY <1>2, <1>6, <1>7, <2>2, <3>4
    <3> QED BY <3>3, <3>5
  <2> QED BY <1>5, <2>1, <2>2
<1>10. UpTo(longer, s)
  <2> SUFFICES ASSUME NEW i \in DOMAIN longer, longer[i].is = "turn" PROVE longer[i].n <= s.turns
    BY DEF UpTo
  <2>1. CASE i \in DOMAIN queue /\ longer[i] = queue[i]
    BY <1>2, <1>3, <2>1, <1>4 DEF UpTo, Events
  <2>2. CASE i > Len(queue)
    BY <1>4, <1>8, <2>2
  <2> QED BY <1>5, <2>1, <2>2
<1>11. Covering(longer, last, s)
  <2> SUFFICES ASSUME NEW m \in Nat, m > last, SentOut(s, m)
               PROVE  \E i \in DOMAIN longer : longer[i] = TurnEvent(m)
    BY DEF Covering
  <2>1. CASE SentOut(r, m)
    BY <1>3, <1>6, <2>1 DEF Covering
  <2>2. CASE ~SentOut(r, m)
    <3>1. events = <<TurnEvent(s.turns)>> /\ r.at \in Pushes /\ s.turns = r.turns
      BY <2>2 DEF Tells
    <3>2. m = s.turns
      BY <1>4, <2>2, <3>1 DEF SentOut
    <3>3. Len(events) = 1 /\ events[1] = TurnEvent(s.turns)
      BY <3>1
    <3>4. Len(queue) + 1 \in DOMAIN longer /\ longer[Len(queue) + 1] = TurnEvent(m)
      BY <1>2, <3>2, <3>3
    <3> QED BY <3>4
  <2> QED BY <2>1, <2>2
<1>12. EndIsLast(longer, s)
  <2> SUFFICES ASSUME NEW i \in DOMAIN longer, longer[i].is = "end"
               PROVE  s.at = "gone" /\ \A j \in DOMAIN longer : j > i => longer[j].is # "turn"
    BY DEF EndIsLast
  <2>1. CASE i \in DOMAIN queue /\ longer[i] = queue[i]
    BY <1>3, <2>1, <1>5, <1>8 DEF EndIsLast, Tells, Pushes
  <2>2. CASE i > Len(queue)
    <3>1. i - Len(queue) \in DOMAIN events /\ longer[i] = events[i - Len(queue)] /\ i \in Nat
      BY <1>2, <2>2
    <3>2. events = <<Status, End>>
      BY <1>1, <3>1
    <3>4. s.at = "gone"
      BY <3>2, EventTuples DEF Tells
    <3>5. \A j \in DOMAIN longer : j > i => longer[j].is # "turn"
      <4> SUFFICES ASSUME NEW j \in DOMAIN longer, j > i, longer[j].is = "turn" PROVE FALSE
        OBVIOUS
      <4>1. j > Len(queue)
        BY <1>2, <2>2, <3>1
      <4>2. events = <<TurnEvent(s.turns)>>
        BY <1>8, <4>1
      <4> QED BY <3>2, <4>2, EventTuples
    <3> QED BY <3>4, <3>5
  <2> QED BY <1>5, <2>1, <2>2
<1> QED BY <1>2, <1>9, <1>10, <1>11, <1>12 DEF Fits

(* A watcher reads the next event.                                         *)
Read(queue, last, event, rest, upto) ==
  /\ event = Head(queue) /\ rest = Tail(queue)
  /\ upto = IF event.is = "turn" /\ event.n > last THEN event.n ELSE last

(* What is read is the next turn or an old one; the rest of the queue      *)
(* fits.                                                                   *)
LEMMA ReadFits ==
  ASSUME NEW queue \in Seq(Events), queue # <<>>, NEW last \in Nat, NEW r \in Dlgs,
         Fits(queue, last, r), last <= r.turns,
         NEW event, NEW rest, NEW upto, Read(queue, last, event, rest, upto)
  PROVE  /\ rest \in Seq(Events) /\ event \in Events /\ upto \in Nat /\ Fits(rest, upto, r)
         /\ event.is = "end" => r.at = "gone" /\ last = r.turns
         /\ event.is = "turn" /\ event.n > last => event.n = last + 1 /\ event.n <= r.turns
<1>0. /\ event = Head(queue) /\ rest = Tail(queue)
      /\ upto = IF event.is = "turn" /\ event.n > last THEN event.n ELSE last
  BY DEF Read
<1>1. /\ rest \in Seq(Events) /\ Len(queue) \in Nat /\ Len(queue) > 0 /\ Len(rest) = Len(queue) - 1
      /\ DOMAIN queue = 1..Len(queue) /\ DOMAIN rest = 1..(Len(queue) - 1)
      /\ \A i \in DOMAIN rest : rest[i] = queue[i + 1] /\ i + 1 \in DOMAIN queue /\ i \in Nat
      /\ event = queue[1] /\ 1 \in DOMAIN queue
  BY <1>0
<1>2. \A i \in DOMAIN queue : queue[i] \in Events /\ queue[i].n \in Nat /\ i \in Nat /\ i >= 1
  <2>1. \A i \in DOMAIN queue : queue[i] \in Events /\ i \in Nat /\ i >= 1
    BY <1>1
  <2>2. \A e \in Events : e.n \in Nat
    BY DEF Events
  <2> QED BY <2>1, <2>2
<1>3. event \in Events /\ event.n \in Nat /\ upto \in Nat /\ upto >= last /\ r.turns \in Nat
  BY <1>0, <1>1, <1>2 DEF Dlgs
<1>4. Consecutive(queue, last) /\ UpTo(queue, r) /\ Covering(queue, last, r) /\ EndIsLast(queue, r)
  BY DEF Fits
<1>5. \A i \in DOMAIN queue : i # 1 => i - 1 \in DOMAIN rest /\ rest[i - 1] = queue[i]
  <2> SUFFICES ASSUME NEW i \in DOMAIN queue, i # 1 PROVE i - 1 \in DOMAIN rest /\ rest[i - 1] = queue[i]
    OBVIOUS
  <2>1. i - 1 \in DOMAIN rest /\ (i - 1) + 1 = i
    BY <1>1, <1>2
  <2> QED BY <1>1, <2>1
<1>6. event.is = "turn" /\ event.n > last => event.n = last + 1 /\ event.n <= r.turns
  <2> SUFFICES ASSUME event.is = "turn", event.n > last PROVE event.n = last + 1 /\ event.n <= r.turns
    OBVIOUS
  <2>1. event.n <= r.turns
    BY <1>1, <1>4 DEF UpTo
  <2>2. ~ \E j \in DOMAIN queue : j < 1
    BY <1>2
  <2>3. event.n <= last + 1
    BY <1>1, <1>4, <2>2 DEF Consecutive
  <2> QED BY <1>3, <2>1, <2>3
<1>7. event.is = "end" => r.at = "gone" /\ last = r.turns
  <2> SUFFICES ASSUME event.is = "end" PROVE r.at = "gone" /\ last = r.turns
    OBVIOUS
  <2>1. r.at = "gone" /\ \A j \in DOMAIN queue : j > 1 => queue[j].is # "turn"
    BY <1>1, <1>4 DEF EndIsLast
  <2>2. \A j \in DOMAIN queue : queue[j].is # "turn"
    BY <1>1, <1>2, <2>1
  <2>3. SentOut(r, r.turns)
    BY <1>3, <2>1 DEF SentOut, Pushes
  <2>4. ~(r.turns > last)
    <3> SUFFICES ASSUME r.turns > last PROVE FALSE
      OBVIOUS
    <3>1. PICK i \in DOMAIN queue : queue[i] = TurnEvent(r.turns)
      BY <1>3, <1>4, <2>3 DEF Covering
    <3> QED BY <2>2, <3>1 DEF TurnEvent
  <2> QED BY <1>3, <2>1, <2>4
<1>8. event.is = "turn" => event.n <= upto
  BY <1>0, <1>3
<1>9. Consecutive(rest, upto)
  <2> SUFFICES ASSUME NEW i \in DOMAIN rest, rest[i].is = "turn", ~(rest[i].n <= upto + 1)
               PROVE  \E j \in DOMAIN rest : j < i /\ rest[j].is = "turn" /\ rest[j].n + 1 = rest[i].n
    BY DEF Consecutive
  <2>1. i + 1 \in DOMAIN queue /\ rest[i] = queue[i + 1] /\ queue[i + 1].is = "turn" /\ i \in Nat
    BY <1>1
  <2>2. ~(queue[i + 1].n <= last + 1)
    BY <1>2, <1>3, <2>1
  <2>3. PICK j \in DOMAIN queue : j < i + 1 /\ queue[j].is = "turn" /\ queue[j].n + 1 = queue[i + 1].n
    BY <1>4, <2>1, <2>2 DEF Consecutive
  <2>4. j # 1
    <3> SUFFICES ASSUME j = 1 PROVE FALSE
      OBVIOUS
    <3>1. event.is = "turn" /\ event.n + 1 = rest[i].n
      BY <1>1, <2>1, <2>3
    <3> QED BY <1>3, <1>8, <3>1
  <2>5. j - 1 \in DOMAIN rest /\ rest[j - 1] = queue[j] /\ j - 1 < i
    BY <1>2, <1>5, <2>1, <2>3, <2>4
  <2> QED BY <2>1, <2>3, <2>5
<1>10. UpTo(rest, r)
  BY <1>1, <1>4 DEF UpTo
<1>11. Covering(rest, upto, r)
  <2> SUFFICES ASSUME NEW m \in Nat, m > upto, SentOut(r, m)
               PROVE  \E i \in DOMAIN rest : rest[i] = TurnEvent(m)
    BY DEF Covering
  <2>1. PICK i \in DOMAIN queue : queue[i] = TurnEvent(m)
    BY <1>3, <1>4 DEF Covering
  <2>2. i # 1
    <3> SUFFICES ASSUME i = 1 PROVE FALSE
      OBVIOUS
    <3>1. event.is = "turn" /\ event.n = m
      BY <1>1, <2>1 DEF TurnEvent
    <3> QED BY <1>3, <1>8, <3>1
  <2> QED BY <1>5, <2>1, <2>2
<1>12. EndIsLast(rest, r)
  <2> SUFFICES ASSUME NEW i \in DOMAIN rest, rest[i].is = "end"
               PROVE  r.at = "gone" /\ \A j \in DOMAIN rest : j > i => rest[j].is # "turn"
    BY DEF EndIsLast
  <2>1. r.at = "gone" /\ \A j \in DOMAIN queue : j > i + 1 => queue[j].is # "turn"
    BY <1>1, <1>4 DEF EndIsLast
  <2>2. ASSUME NEW j \in DOMAIN rest, j > i PROVE rest[j].is # "turn"
    BY <1>1, <2>2, <2>1
  <2> QED BY <2>1, <2>2
<1> QED BY <1>1, <1>3, <1>6, <1>7, <1>9, <1>10, <1>11, <1>12 DEF Fits

(* A queue that holds nothing suits whoever has every turn.                *)
LEMMA EmptyFits ==
  ASSUME NEW r \in Dlgs
  PROVE  Fits(<<>>, r.turns, r) /\ <<>> \in Seq(Events)
<1>1. \A i \in DOMAIN <<>> : FALSE
  OBVIOUS
<1>2. Covering(<<>>, r.turns, r)
  BY DEF Covering, SentOut, Dlgs
<1>3. Consecutive(<<>>, r.turns) /\ UpTo(<<>>, r) /\ EndIsLast(<<>>, r)
  BY <1>1 DEF Consecutive, UpTo, EndIsLast
<1> QED BY <1>2, <1>3 DEF Fits

(* What a watcher has after the task has said something.                   *)
AfterEvents(v, events) ==
  IF v.ended # "no" \/ v.lagged THEN v
  ELSE IF Len(v.queue \o events) > Ring THEN [v EXCEPT !.queue = <<>>, !.lagged = TRUE]
  ELSE [v EXCEPT !.queue = v.queue \o events]

(* A watcher is served as well after the task has said something.          *)
LEMMA ServedAfter ==
  ASSUME NEW v \in Watches, NEW r \in Dlgs, NEW s \in Dlgs, NEW events, Tells(r, s, events), Served(v, r),
         NEW u, u = AfterEvents(v, events) \/ (u = v /\ events = <<>>)
  PROVE  u \in Watches /\ Served(u, s) /\ u.of = v.of /\ u.gap = v.gap /\ u.ended = v.ended
<1>0. PICK longer : longer = v.queue \o events
  OBVIOUS
<1>1. v.queue \in Seq(Events) /\ v.last \in Nat /\ r.turns \in Nat /\ s.turns \in Nat
  BY DEF Watches, Dlgs
<1>2. s.turns >= r.turns
  BY <1>1 DEF Tells
<1>3. r.at = "gone" => s.at = "gone" /\ s.turns = r.turns
  <2> SUFFICES ASSUME r.at = "gone" PROVE s.at = "gone" /\ s.turns = r.turns
    OBVIOUS
  <2>1. s.at = "gone" /\ \A m \in Nat : SentOut(s, m) => SentOut(r, m)
    BY DEF Tells, Pushes
  <2>2. SentOut(s, s.turns)
    BY <1>1, <2>1 DEF SentOut, Pushes
  <2>3. s.turns <= r.turns
    BY <1>1, <2>1, <2>2 DEF SentOut
  <2> QED BY <1>1, <1>2, <2>1, <2>3
<1>4. v.last <= s.turns /\ (v.ended = "event" => s.at = "gone" /\ v.last = s.turns)
  BY <1>1, <1>2, <1>3 DEF Served
<1>45. v.lagged => v.queue = <<>>
  BY DEF Served
<1>5. v.ended = "no" /\ ~v.lagged => longer \in Seq(Events) /\ Fits(longer, v.last, s)
  <2>1. PICK q \in Seq(Events) : q = v.queue
    BY <1>1
  <2>2. PICK n \in Nat : n = v.last
    BY <1>1
  <2>3. v.ended = "no" /\ ~v.lagged => Fits(q, n, r)
    BY <2>1, <2>2 DEF Served
  <2>4. longer = q \o events
    BY <1>0, <2>1
  <2>5. Fits(q, n, r) => longer \in Seq(Events) /\ Fits(longer, n, s)
    BY <2>4, ToldFits
  <2> QED BY <2>2, <2>3, <2>5
<1>6. CASE v.ended # "no" \/ v.lagged
  BY <1>6, <1>4, <1>45 DEF AfterEvents, Served
<1>7. CASE ~(v.ended # "no" \/ v.lagged) /\ u = [v EXCEPT !.queue = <<>>, !.lagged = TRUE]
  <2>1. <<>> \in Seq(Events)
    OBVIOUS
  <2>2. u \in Watches /\ u.last = v.last /\ u.ended = v.ended /\ u.lagged /\ u.queue = <<>> /\ u.of = v.of /\ u.gap = v.gap
    BY <1>7, <2>1 DEF Watches
  <2> QED BY <1>4, <2>2 DEF Served
<1>8. CASE ~(v.ended # "no" \/ v.lagged) /\ u = [v EXCEPT !.queue = longer]
  BY <1>5, <1>8, <1>4 DEF Watches, Served
<1>9. CASE ~(v.ended # "no" \/ v.lagged) /\ u = v /\ events = <<>>
  BY <1>0, <1>1, <1>9, <1>4, <1>5 DEF Served
<1> QED BY <1>0, <1>6, <1>7, <1>8, <1>9 DEF AfterEvents

-----------------------------------------------------------------------------
(* The steps.                                                              *)

(* No dialogue was started yet.                                            *)
LEMMA DialogueStarts == DialogueInit => DialogueIInv
<1> SUFFICES ASSUME DialogueInit PROVE DialogueIInv
  OBVIOUS
<1>1. talk \in CommsConfigs /\ current = 0 /\ crossed = {} /\ door = "open"
  BY DEF DialogueInit
<1>2. \A d \in Dialogues : dlg[d] = NoTurnYet /\ d > current /\ d \in Nat
  BY <1>1, TalkFacts DEF DialogueInit
<1>3. dlg \in [Dialogues -> Dlgs] /\ current \in 0..talk.dialogues
  BY <1>1, FreshFacts, TalkFacts DEF DialogueInit
<1>4. NotAsking \in Askings /\ NotAsking.at = "idle"
  BY <1>1, TalkFacts DEF NotAsking, Askings
<1>5. asking \in [CommsHandlers -> Askings] /\ \A h \in CommsHandlers : asking[h].at = "idle"
  BY <1>4 DEF DialogueInit
<1>6. NotWatching \in Watches /\ NotWatching.of = 0 /\ ~NotWatching.gap /\ NotWatching.ended = "no"
  BY <1>1, TalkFacts DEF NotWatching, Watches
<1>7. /\ watch \in [CommsWatchers -> Watches]
      /\ \A w \in CommsWatchers : watch[w].of = 0 /\ ~watch[w].gap /\ watch[w].ended = "no"
  BY <1>6 DEF DialogueInit
<1>8. DialogueTyped
  BY <1>1, <1>3, <1>5, <1>7 DEF DialogueTyped
<1>9. DialoguesKept
  <2> SUFFICES ASSUME NEW d \in Dialogues PROVE RecordIsSound(dlg[d]) /\ InSlot(d) /\ PauseTold(d)
    BY DEF DialoguesKept
  <2>1. RecordIsSound(dlg[d])
    BY <1>1, <1>2, FreshFacts
  <2>2. InSlot(d)
    BY <1>1, <1>2 DEF InSlot
  <2>3. PauseTold(d)
    BY <1>1, <1>2, <1>5, FreshFacts DEF PauseTold, Pausing
  <2> QED BY <2>1, <2>2, <2>3
<1>10. AskersKept
  BY <1>5 DEF AskersKept
<1>11. WatchersServed
  BY <1>1, <1>7 DEF WatchersServed, WatcherServed
<1> QED BY <1>8, <1>9, <1>10, <1>11 DEF DialogueIInv

(* Watchers of a record that takes a step.                                 *)
LEMMA WatchersAfter ==
  ASSUME DialogueIInv, NEW d \in Dialogues, NEW s \in Dlgs, dlg' = [dlg EXCEPT ![d] = s],
         current' = current, NEW events, Tells(dlg[d], s, events),
         watch' = Sent(d, events) \/ (watch' = watch /\ events = <<>>)
  PROVE  watch' \in [CommsWatchers -> Watches] /\ WatchersServed'
<1>1. /\ dlg \in [Dialogues -> Dlgs] /\ watch \in [CommsWatchers -> Watches] /\ WatchersServed
      /\ talk \in CommsConfigs /\ current \in 0..talk.dialogues
  BY DEF DialogueIInv, DialogueTyped
<1>2. ASSUME NEW w \in CommsWatchers
      PROVE  watch'[w] \in Watches /\ WatcherServed(w)'
  <2>1. PICK v \in Watches : v = watch[w]
    BY <1>1
  <2>2. /\ v.of \in 0..current /\ ~v.gap
        /\ v.of # 0 => Served(v, dlg[v.of])
        /\ v.of = 0 => v.ended = "no"
    BY <1>1, <2>1 DEF WatchersServed, WatcherServed
  <2>3. d # 0 /\ dlg'[d] = s /\ \A e \in Dialogues : e # d => dlg'[e] = dlg[e]
    BY <1>1, TalkFacts
  <2>4. v.of # 0 => v.of \in Dialogues
    BY <1>1, <2>2, TalkFacts
  <2>6. PICK u : u = watch'[w]
    OBVIOUS
  <2>7. CASE v.of # d
    <3>1. u = v
      BY <2>1, <2>6, <2>7 DEF Sent
    <3>2. v.of # 0 => Served(v, dlg'[v.of])
      BY <2>2, <2>3, <2>4, <2>7
    <3>3. watch'[w] = v
      BY <2>6, <3>1
    <3> QED
      BY SMTT(40), <2>2, <3>2, <3>3 DEF WatcherServed, Served, Fits, Consecutive, UpTo, Covering, EndIsLast, SentOut
  <2>8. CASE v.of = d
    <3>1. u = AfterEvents(v, events) \/ (u = v /\ events = <<>>)
      BY <2>1, <2>3, <2>6, <2>8 DEF Sent, Following, AfterEvents
    <3>2. Served(v, dlg[d])
      BY <2>2, <2>3, <2>8
    <3>3. PICK r \in Dlgs : r = dlg[d]
      BY <1>1
    <3>4. u \in Watches /\ Served(u, s) /\ u.of = v.of /\ u.gap = v.gap /\ u.ended = v.ended
      BY <3>2, <3>3, <3>1, ServedAfter
    <3>5. watch'[w] = u /\ dlg'[u.of] = s
      BY <2>3, <2>6, <2>8, <3>4
    <3>6. u.of \in 0..current' /\ ~u.gap /\ u.of # 0
      BY SMTT(40), <2>2, <2>3, <2>8, <3>4
    <3> QED
      BY SMTT(40), <3>4, <3>5, <3>6 DEF WatcherServed, Served, Fits, Consecutive, UpTo, Covering, EndIsLast, SentOut
  <2> QED BY <2>7, <2>8
<1>3. watch' = [w \in CommsWatchers |-> watch'[w]]
  BY <1>1 DEF Sent
<1> QED BY <1>2, <1>3 DEF WatchersServed

(* A step of one record.                                                   *)
LEMMA RecordStepKeeps ==
  ASSUME DialogueIInv, NEW d \in Dialogues, NEW s \in Dlgs, dlg' = [dlg EXCEPT ![d] = s],
         current' = current, talk' = talk, NEW events, Tells(dlg[d], s, events),
         watch' = Sent(d, events) \/ (watch' = watch /\ events = <<>>),
         RecordIsSound(s), dlg[d].at # "none", s.at # "none", Over(dlg[d]) => Over(s),
         asking' \in [CommsHandlers -> Askings], AskersKept', \A e \in Dialogues : PauseTold(e)',
         door' \in {"open", "closed", "waiting", "done"}, crossed' \subseteq Dialogues
  PROVE  DialogueIInv'
<1>1. DialogueTyped /\ DialoguesKept /\ dlg \in [Dialogues -> Dlgs] /\ talk \in CommsConfigs /\ current \in Nat
  BY TalkFacts DEF DialogueIInv, DialogueTyped
<1>2. watch' \in [CommsWatchers -> Watches] /\ WatchersServed'
  BY WatchersAfter
<1>3. dlg' \in [Dialogues -> Dlgs] /\ dlg'[d] = s /\ \A e \in Dialogues : e # d => dlg'[e] = dlg[e]
  BY <1>1
<1>4. DialogueTyped'
  BY <1>1, <1>2, <1>3 DEF DialogueTyped
<1>5. d <= current
  BY <1>1, FreshFacts, TalkFacts DEF DialoguesKept, InSlot
<1>6. DialoguesKept'
  <2> SUFFICES ASSUME NEW e \in Dialogues PROVE RecordIsSound(dlg[e])' /\ InSlot(e)'
    BY DEF DialoguesKept
  <2>1. RecordIsSound(dlg[e]) /\ InSlot(e)
    BY <1>1 DEF DialoguesKept
  <2>2. CASE e # d
    BY <1>3, <2>1, <2>2 DEF RecordIsSound, InSlot, Over
  <2>3. CASE e = d
    BY <1>1, TalkFacts, <1>3, <1>5, <2>1, <2>3 DEF RecordIsSound, InSlot, Over
  <2> QED BY <2>2, <2>3
<1> QED BY <1>2, <1>4, <1>6 DEF DialogueIInv

(* A step that leaves what is asked alone tells of no other pause.         *)
LEMMA PauseStays ==
  ASSUME DialogueIInv, NEW d \in Dialogues, NEW s \in Dlgs, dlg' = [dlg EXCEPT ![d] = s],
         UNCHANGED <<asking, crossed>>, s.go = dlg[d].go, dlg[d].at # "none", Over(dlg[d]) => Over(s),
         ~Over(s) => (s.phase = "paused" <=> dlg[d].phase = "paused")
  PROVE  \A e \in Dialogues : PauseTold(e)'
<1>1. DialoguesKept /\ dlg \in [Dialogues -> Dlgs]
  BY DEF DialogueIInv, DialogueTyped
<1> SUFFICES ASSUME NEW e \in Dialogues PROVE PauseTold(e)'
  OBVIOUS
<1>2. PauseTold(e)
  BY <1>1 DEF DialoguesKept
<1>3. dlg'[d] = s /\ (e # d => dlg'[e] = dlg[e])
  BY <1>1
<1>4. Quiescent(e)' <=> Quiescent(e)
  BY DEF Quiescent
<1>5. CASE e # d
  BY <1>2, <1>3, <1>4, <1>5 DEF PauseTold, Pausing, Over
<1>6. CASE e = d
  BY <1>2, <1>3, <1>4, <1>6 DEF PauseTold, Pausing, Over
<1> QED BY <1>5, <1>6

(* A step of the task.                                                     *)
LEMMA TaskStepKeeps ==
  ASSUME DialogueIInv, NEW d \in Dialogues, NEW r \in Dlgs, NEW at \in TaskPlaces, NEW events,
         TaskStep(d, r, at, events), NEW s, s = [r EXCEPT !.at = at],
         r.go = dlg[d].go, Tells(dlg[d], s, events), RecordIsSound(s),
         dlg[d].at # "none", at # "none", Over(dlg[d]) => Over(r),
         ~Over(r) => (r.phase = "paused" <=> dlg[d].phase = "paused")
  PROVE  DialogueIInv'
<1>1. s \in Dlgs /\ s.at = at /\ s.phase = r.phase /\ s.go = r.go
  BY DEF Dlgs
<1>2. dlg' = [dlg EXCEPT ![d] = s] /\ watch' = Sent(d, events) /\ UNCHANGED slotAndRequests
  BY DEF TaskStep
<1>3. /\ current' = current /\ talk' = talk /\ UNCHANGED <<asking, crossed>>
      /\ door' = door /\ asking' = asking /\ crossed' = crossed
  BY <1>2 DEF slotAndRequests
<1>4. Over(dlg[d]) => Over(s)
  BY <1>1 DEF Over
<1>5. ~Over(s) => (s.phase = "paused" <=> dlg[d].phase = "paused")
  BY <1>1 DEF Over
<1>6. \A e \in Dialogues : PauseTold(e)'
  BY <1>1, <1>2, <1>3, <1>4, <1>5, PauseStays
<1>7. /\ asking' \in [CommsHandlers -> Askings] /\ AskersKept'
      /\ door' \in {"open", "closed", "waiting", "done"} /\ crossed' \subseteq Dialogues
  BY <1>3 DEF DialogueIInv, DialogueTyped, AskersKept
<1> QED BY <1>1, <1>2, <1>3, <1>4, <1>6, <1>7, RecordStepKeeps

(* A step that sets the phase.                                             *)
LEMMA PhaseKeeps ==
  ASSUME DialogueIInv, NEW d \in Dialogues, NEW phase \in Thinking \cup {"ended", "failed"},
         NEW at \in TaskPlaces, Phase(d, phase, at),
         dlg[d].at \notin {"none", "archiving", "closing", "gone"} \cup Pushes,
         at \notin {"none", "archiving", "closing", "gone"} \cup Pushes,
         at \in Early => dlg[d].turns < talk.turns
  PROVE  DialogueIInv'
<1>1. PICK q \in Dlgs : q = dlg[d]
  BY DEF DialogueIInv, DialogueTyped
<1>2. RecordIsSound(q)
  BY <1>1 DEF DialogueIInv, DialoguesKept
<1>3. PICK r : r = PhaseSet(q, phase)
  OBVIOUS
<1>4. /\ r \in Dlgs /\ r.go = q.go /\ r.turns = q.turns /\ r.filed = q.filed /\ (Over(q) => Over(r))
      /\ ~Over(r) => (r.phase = "paused" <=> q.phase = "paused")
  BY <1>3 DEF PhaseSet, Dlgs, Over, Thinking
<1>5. PICK s : s = [r EXCEPT !.at = at]
  OBVIOUS
<1>6. s \in Dlgs /\ s.at = at /\ s.turns = q.turns /\ s.filed = q.filed
  BY <1>4, <1>5 DEF Dlgs
<1>7. PICK events : events = PhaseEvent(q, phase)
  OBVIOUS
<1>8. events \in {<<>>, <<Status>>}
  BY <1>7 DEF PhaseEvent
<1>9. q.turns \in Nat
  BY DEF Dlgs
<1>10. Tells(q, s, events)
  BY <1>1, <1>6, <1>8, <1>9 DEF Tells, SentOut
<1>11. RecordIsSound(s)
  BY <1>1, <1>2, <1>6 DEF RecordIsSound
<1>12. TaskStep(d, r, at, events)
  BY <1>1, <1>3, <1>7 DEF Phase
<1> QED BY <1>1, <1>4, <1>5, <1>10, <1>11, <1>12, TaskStepKeeps

(* The task goes to its next turn, or fails for the isolation marker.      *)
LEMMA NextTurnKeeps ==
  ASSUME DialogueIInv, NEW d \in Dialogues, NEW who \in Thinking, NextTurn(d, who),
         dlg[d].at \in {"new", "before_local", "before_peer"}
  PROVE  DialogueIInv'
<1>1. RecordIsSound(dlg[d])
  BY DEF DialogueIInv, DialoguesKept
<1>2. dlg[d].turns < talk.turns
  BY <1>1 DEF RecordIsSound, Early
<1>3. CASE apart
  BY <1>3, <1>2, PhaseKeeps DEF NextTurn, TaskPlaces, Pushes, Early
<1>4. CASE ~apart
  BY <1>4, <1>2, PhaseKeeps DEF NextTurn, TaskPlaces, Thinking, Pushes
<1> QED BY <1>3, <1>4

(* The steps of a task, one by one.                                        *)
LEMMA TaskStepsKeep ==
  ASSUME DialogueIInv, NEW d \in Dialogues, TaskSteps(d)
  PROVE  DialogueIInv'
<1>1. PICK q \in Dlgs : q = dlg[d]
  BY DEF DialogueIInv, DialogueTyped
<1>2. RecordIsSound(q)
  BY <1>1 DEF DialogueIInv, DialoguesKept
<1>3. talk.turns \in Nat \ {0} /\ q.turns \in Nat /\ q.filed \in Nat
  BY TalkFacts DEF DialogueIInv, DialogueTyped, Dlgs
<1>4. CASE TaskBegins(d)
  BY <1>4, NextTurnKeeps DEF TaskBegins, Thinking
<1>5. CASE TaskGoesOn(d)
  <2>1. PICK who \in Thinking : dlg[d].at = Before(who) /\ NextTurn(d, who)
    BY <1>5 DEF TaskGoesOn
  <2>2. dlg[d].at \in {"before_local", "before_peer"}
    BY <2>1 DEF Before
  <2> QED BY <2>1, <2>2, NextTurnKeeps
<1>6. CASE TurnComes(d)
  <2>1. PICK who \in Thinking :
          dlg[d].at = who /\ TaskStep(d, [dlg[d] EXCEPT !.turns = @ + 1], Pushing(who), <<>>)
    BY <1>6 DEF TurnComes
  <2>2. PICK r : r = [q EXCEPT !.turns = @ + 1]
    OBVIOUS
  <2>3. r \in Dlgs /\ r.turns = q.turns + 1 /\ r.filed = q.filed /\ r.go = q.go /\ r.phase = q.phase
    BY <1>3, <2>2 DEF Dlgs
  <2>4. PICK at : at = Pushing(who)
    OBVIOUS
  <2>5. at \in Pushes /\ at \in TaskPlaces /\ at # "none" /\ q.at \in Early /\ q.at # "none" /\ q.at # "gone"
        /\ q.at \notin Pushes
    BY <1>1, <2>1, <2>4 DEF Pushing, Pushes, TaskPlaces, Early, Thinking
  <2>6. PICK s : s = [r EXCEPT !.at = at]
    OBVIOUS
  <2>7. s \in Dlgs /\ s.at = at /\ s.turns = q.turns + 1 /\ s.filed = q.filed
    BY <2>3, <2>5, <2>6 DEF Dlgs
  <2>8. Tells(q, s, <<>>)
    BY <1>3, <2>5, <2>7 DEF Tells, SentOut
  <2>9. RecordIsSound(s)
    BY <1>2, <2>5, <1>3, <2>7 DEF RecordIsSound, Pushes, Early
  <2>10. TaskStep(d, r, at, <<>>)
    BY <1>1, <2>1, <2>2, <2>4
  <2>11. Over(q) => Over(r)
    BY <2>3 DEF Over
  <2> QED BY <1>1, <2>3, <2>5, <2>6, <2>8, <2>9, <2>10, <2>11, TaskStepKeeps
<1>7. CASE TurnFails(d)
  BY <1>7, PhaseKeeps DEF TurnFails, Thinking, TaskPlaces, Pushes, Early
<1>8. CASE TurnIsSent(d)
  <2>1. PICK who \in Thinking :
          /\ dlg[d].at = Pushing(who)
          /\ TaskStep(d, dlg[d], IF dlg[d].turns >= talk.turns THEN "capped" ELSE Before(Other(who)),
                      <<TurnEvent(dlg[d].turns)>>)
    BY <1>8 DEF TurnIsSent
  <2>2. PICK at : at = IF q.turns >= talk.turns THEN "capped" ELSE Before(Other(who))
    OBVIOUS
  <2>3. /\ at \in {"capped", "before_local", "before_peer"} /\ at \in TaskPlaces /\ at # "none"
        /\ at # "capped" => q.turns < talk.turns
        /\ q.at \in Pushes /\ q.at # "none"
    BY <1>1, <1>3, <2>1, <2>2 DEF Before, TaskPlaces, Pushing, Pushes
  <2>4. PICK s : s = [q EXCEPT !.at = at]
    OBVIOUS
  <2>5. s \in Dlgs /\ s.at = at /\ s.turns = q.turns /\ s.filed = q.filed
    BY <2>3, <2>4 DEF Dlgs
  <2>6. Tells(q, s, <<TurnEvent(q.turns)>>)
    BY <2>3, <2>5 DEF Tells
  <2>7. RecordIsSound(s)
    BY <1>2, <2>3, <2>5 DEF RecordIsSound, Early
  <2>8. TaskStep(d, q, at, <<TurnEvent(q.turns)>>)
    BY <1>1, <2>1, <2>2
  <2> QED BY <1>1, <2>3, <2>4, <2>6, <2>7, <2>8, TaskStepKeeps
<1>9. CASE TaskFinishes(d)
  BY <1>9, PhaseKeeps DEF TaskFinishes, TaskPlaces, Pushes, Early
<1>10. CASE AbortEnds(d)
  <2>1. TaskStep(d, q, "dropping", <<>>) /\ Waits(q)
    BY <1>1, <1>10 DEF AbortEnds
  <2>2. q.at \in {"new", "local", "peer", "before_local", "before_peer"}
    BY <2>1 DEF Waits
  <2>3. PICK s : s = [q EXCEPT !.at = "dropping"]
    OBVIOUS
  <2>4. "dropping" \in TaskPlaces
    BY DEF TaskPlaces
  <2>5. s \in Dlgs /\ s.at = "dropping" /\ s.turns = q.turns /\ s.filed = q.filed
    BY <2>3, <2>4 DEF Dlgs
  <2>6. Tells(q, s, <<>>)
    BY <1>3, <2>2, <2>5 DEF Tells, SentOut, Pushes
  <2>7. RecordIsSound(s)
    BY <1>2, <2>5 DEF RecordIsSound, Early
  <2> QED BY <1>1, <2>1, <2>2, <2>3, <2>4, <2>6, <2>7, TaskStepKeeps
<1>11. CASE GuardDrops(d)
  <2>1. PICK r : r = IF Over(q) THEN q ELSE [q EXCEPT !.phase = "ended"]
    OBVIOUS
  <2>2. TaskStep(d, r, "archiving", <<>>) /\ q.at = "dropping"
    BY <1>1, <1>11, <2>1 DEF GuardDrops
  <2>3. r \in Dlgs /\ Over(r) /\ r.go = q.go /\ r.turns = q.turns /\ r.filed = q.filed
    BY <2>1 DEF Over, Dlgs
  <2>4. PICK s : s = [r EXCEPT !.at = "archiving"]
    OBVIOUS
  <2>5. "archiving" \in TaskPlaces
    BY DEF TaskPlaces
  <2>6. s \in Dlgs /\ s.at = "archiving" /\ s.turns = q.turns /\ s.filed = q.filed /\ Over(s)
    BY <2>3, <2>4, <2>5 DEF Dlgs, Over
  <2>7. Tells(q, s, <<>>)
    BY <1>3, <2>2, <2>6 DEF Tells, SentOut, Pushes
  <2>8. RecordIsSound(s)
    BY <1>2, <2>6 DEF RecordIsSound, Early
  <2> QED BY <1>1, <2>2, <2>3, <2>4, <2>5, <2>7, <2>8, TaskStepKeeps
<1>12. CASE GuardArchives(d)
  <2>1. PICK n : n = IF apart THEN 0 ELSE q.turns
    OBVIOUS
  <2>2. PICK r : r = [q EXCEPT !.filed = n]
    OBVIOUS
  <2>3. TaskStep(d, r, "closing", <<>>) /\ q.at = "archiving"
    BY <1>1, <1>12, <2>1, <2>2 DEF GuardArchives
  <2>4. n \in Nat /\ n <= talk.turns
    BY <1>2, <1>3, <2>1 DEF RecordIsSound
  <2>5. r \in Dlgs /\ r.go = q.go /\ r.turns = q.turns /\ r.filed = n /\ r.phase = q.phase
    BY <2>2, <2>4 DEF Dlgs
  <2>6. PICK s : s = [r EXCEPT !.at = "closing"]
    OBVIOUS
  <2>7. "closing" \in TaskPlaces
    BY DEF TaskPlaces
  <2>8. s \in Dlgs /\ s.at = "closing" /\ s.turns = q.turns /\ s.filed = n /\ s.phase = q.phase
    BY <2>5, <2>6, <2>7 DEF Dlgs
  <2>9. Tells(q, s, <<>>)
    BY <1>3, <2>3, <2>8 DEF Tells, SentOut, Pushes
  <2>10. RecordIsSound(s)
    BY <1>2, <2>3, <2>4, <2>8 DEF RecordIsSound, Early, Over
  <2>11. Over(q) => Over(r)
    BY <2>5 DEF Over
  <2> QED BY <1>1, <2>3, <2>5, <2>6, <2>7, <2>9, <2>10, <2>11, TaskStepKeeps
<1>13. CASE GuardTells(d)
  <2>1. TaskStep(d, q, "gone", <<Status, End>>) /\ q.at = "closing"
    BY <1>1, <1>13 DEF GuardTells
  <2>2. PICK s : s = [q EXCEPT !.at = "gone"]
    OBVIOUS
  <2>3. "gone" \in TaskPlaces
    BY DEF TaskPlaces
  <2>4. s \in Dlgs /\ s.at = "gone" /\ s.turns = q.turns /\ s.filed = q.filed /\ s.phase = q.phase
    BY <2>2, <2>3 DEF Dlgs
  <2>5. Tells(q, s, <<Status, End>>)
    BY <1>3, <2>1, <2>4 DEF Tells, SentOut, Pushes
  <2>6. RecordIsSound(s)
    BY <1>2, <2>1, <2>4 DEF RecordIsSound, Early, Over
  <2> QED BY <1>1, <2>1, <2>2, <2>3, <2>5, <2>6, TaskStepKeeps
<1> QED BY <1>4, <1>5, <1>6, <1>7, <1>8, <1>9, <1>10, <1>11, <1>12, <1>13 DEF TaskSteps

(* Requests to start a dialogue.                                           *)
LEMMA StartsKeep ==
  ASSUME DialogueIInv, NEW h \in CommsHandlers, StartChecks(h) \/ StartFills(h)
  PROVE  DialogueIInv'
<1>1. /\ DialogueTyped /\ DialoguesKept /\ AskersKept /\ WatchersServed
      /\ talk \in CommsConfigs /\ dlg \in [Dialogues -> Dlgs] /\ asking \in [CommsHandlers -> Askings]
      /\ current \in Nat /\ current <= talk.dialogues /\ talk.dialogues \in Nat
  BY TalkFacts DEF DialogueIInv, DialogueTyped
<1>2. /\ talk' = talk /\ watch' = watch /\ door' = door /\ crossed' = crossed
  BY DEF StartChecks, StartFills
<1>3. PICK a \in Askings : a.at \in {"idle", "starting"} /\ asking' = [asking EXCEPT ![h] = a]
  BY <1>1, TalkFacts DEF NotAsking, Askings, StartChecks, StartFills
<1>4. asking' \in [CommsHandlers -> Askings]
  BY <1>1, <1>3
<1>5. \A g \in CommsHandlers : \A d : Pausing(g, d)' <=> Pausing(g, d)
  BY <1>1, <1>3 DEF Pausing, StartChecks, StartFills
<1>6. \A g \in CommsHandlers : \A d : Pausing(g, d) => asking'[g] = asking[g]
  BY <1>1, <1>3 DEF Pausing, StartChecks, StartFills
<1>7. \A d : Quiescent(d)' <=> Quiescent(d)
  BY <1>5 DEF Quiescent, Pausing
<1>8. CASE UNCHANGED <<dlg, current>>
  <2>1. DialogueTyped' /\ WatchersServed'
    BY <1>1, <1>2, <1>4, <1>8 DEF DialogueTyped, WatchersServed, WatcherServed, Served, Fits,
         Consecutive, UpTo, Covering, EndIsLast, SentOut
  <2>2. AskersKept'
    BY <1>1, <1>5, <1>6, <1>8 DEF AskersKept, Pausing
  <2>3. DialoguesKept'
    BY <1>1, <1>2, <1>5, <1>6, <1>7, <1>8 DEF DialoguesKept, RecordIsSound, InSlot, PauseTold, Over
  <2> QED BY <2>1, <2>2, <2>3 DEF DialogueIInv
<1>9. CASE ~UNCHANGED <<dlg, current>>
  <2>1. /\ current # talk.dialogues /\ (current = 0 \/ Over(dlg[current])) /\ current' = current + 1
        /\ dlg' = [dlg EXCEPT ![current + 1].at = "new"]
    BY <1>9 DEF StartChecks, StartFills, Busy
  <2>2. PICK d \in Dialogues : d = current + 1
    BY <1>1, <2>1, TalkFacts
  <2>3. dlg[d] = NoTurnYet
    BY <1>1, <2>2 DEF DialoguesKept, InSlot
  <2>4. PICK s : s = [NoTurnYet EXCEPT !.at = "new"]
    OBVIOUS
  <2>5. /\ s \in Dlgs /\ s.at = "new" /\ s.turns = 0 /\ s.filed = 0 /\ s.phase = "local" /\ s.go
        /\ RecordIsSound(s)
    <3>1. /\ s \in Dlgs /\ s.at = "new" /\ s.turns = 0 /\ s.filed = 0 /\ s.phase = "local" /\ s.go
      BY <2>4 DEF NoTurnYet, Dlgs, Thinking, TaskPlaces
    <3>2. RecordIsSound(s)
      BY <1>1, <3>1, TalkFacts DEF RecordIsSound
    <3> QED BY <3>1, <3>2
  <2>6. dlg' = [dlg EXCEPT ![d] = s]
    BY <1>1, <2>1, <2>2, <2>3, <2>4
  <2>7. dlg' \in [Dialogues -> Dlgs] /\ dlg'[d] = s /\ \A e \in Dialogues : e # d => dlg'[e] = dlg[e]
    BY <1>1, <2>5, <2>6
  <2>8. DialogueTyped'
    BY <1>1, <1>2, <1>4, <2>1, <2>7 DEF DialogueTyped
  <2>9. AskersKept'
    <3> SUFFICES ASSUME NEW g \in CommsHandlers, asking'[g].at = "pausing" PROVE asking'[g].of \in 1..current'
      BY DEF AskersKept
    <3>1. asking'[g] = asking[g]
      BY <1>5, <1>6 DEF Pausing
    <3>2. asking[g].of \in 1..current
      BY <1>1, <3>1 DEF AskersKept
    <3> QED BY <1>1, <2>1, <3>1, <3>2
  <2>10. WatchersServed'
    <3> SUFFICES ASSUME NEW w \in CommsWatchers PROVE WatcherServed(w)'
      BY DEF WatchersServed
    <3>1. WatcherServed(w)
      BY <1>1 DEF WatchersServed
    <3>2. watch[w].of # 0 => watch[w].of \in Dialogues /\ watch[w].of # d
      BY <1>1, <2>2, <3>1, TalkFacts DEF WatcherServed
    <3>3. watch[w].of \in 0..current'
      BY <1>1, <2>1, <3>1 DEF WatcherServed
    <3>4. watch[w].of # 0 => dlg'[watch[w].of] = dlg[watch[w].of]
      BY <2>7, <3>2
    <3> QED
      BY <1>2, <3>1, <3>3, <3>4 DEF WatcherServed, Served, Fits, Consecutive, UpTo, Covering, EndIsLast, SentOut
  <2>11. DialoguesKept'
    <3> SUFFICES ASSUME NEW e \in Dialogues PROVE RecordIsSound(dlg[e])' /\ InSlot(e)' /\ PauseTold(e)'
      BY DEF DialoguesKept
    <3>1. RecordIsSound(dlg[e]) /\ InSlot(e) /\ PauseTold(e) /\ e \in Nat /\ e # 0
      BY <1>1, TalkFacts DEF DialoguesKept
    <3>2. CASE e # d
      BY <1>2, <2>7, <3>1, <3>2, <1>1, <2>1, <2>2, <1>5, <1>6, <1>7 DEF RecordIsSound, Over,
         InSlot, PauseTold
    <3>3. CASE e = d
      <4>1. RecordIsSound(dlg[e])'
        BY <1>2, <2>5, <2>7, <3>3 DEF RecordIsSound, Over
      <4>2. InSlot(e)'
        BY <1>1, <2>1, <2>2, <2>5, <2>7, <3>3 DEF InSlot
      <4>3. \A g \in CommsHandlers : ~Pausing(g, d)'
        BY <1>1, <1>5, <2>2 DEF AskersKept, Pausing
      <4>4. PauseTold(e)'
        BY <2>5, <2>7, <3>3, <4>3 DEF PauseTold
      <4> QED BY <4>1, <4>2, <4>4
    <3> QED BY <3>2, <3>3
  <2> QED BY <2>8, <2>9, <2>10, <2>11 DEF DialogueIInv
<1> QED BY <1>8, <1>9

(* A request to pause or to resume, and what it shows.                     *)
LEMMA AskPauseKeeps ==
  ASSUME DialogueIInv, NEW h \in CommsHandlers, NEW go \in BOOLEAN, AskPause(h, go)
  PROVE  DialogueIInv'
<1>1. /\ DialogueTyped /\ DialoguesKept /\ AskersKept
      /\ talk \in CommsConfigs /\ dlg \in [Dialogues -> Dlgs] /\ asking \in [CommsHandlers -> Askings]
      /\ current \in Nat /\ current <= talk.dialogues /\ crossed \subseteq Dialogues
      /\ door \in {"open", "closed", "waiting", "done"}
  BY TalkFacts DEF DialogueIInv, DialogueTyped
<1>2. PICK d \in Dialogues : d = current /\ d \in 1..current
  BY <1>1, TalkFacts DEF AskPause, Dialogues
<1>3. PICK q \in Dlgs : q = dlg[d]
  BY <1>1
<1>4. PICK s : s = [q EXCEPT !.go = go]
  OBVIOUS
<1>5. /\ s \in Dlgs /\ s.go = go /\ s.turns = q.turns /\ s.filed = q.filed /\ s.at = q.at /\ s.phase = q.phase
      /\ q.turns \in Nat
  BY <1>4 DEF Dlgs
<1>6. /\ [at |-> "pausing", of |-> d, go |-> go] \in Askings
      /\ \A a : a = [at |-> "pausing", of |-> d, go |-> go] => a.at = "pausing" /\ a.of = d /\ a.go = go
  BY DEF Askings
<1>7. PICK a \in Askings : a = [at |-> "pausing", of |-> d, go |-> go]
  BY <1>6
<1>8. a.at = "pausing" /\ a.of = d /\ a.go = go
  BY <1>6, <1>7
<1>9. /\ dlg' = [dlg EXCEPT ![d] = s] /\ asking' = [asking EXCEPT ![h] = a] /\ asking[h].at = "idle"
      /\ ~Over(q) /\ talk' = talk /\ current' = current /\ watch' = watch /\ door' = door
      /\ crossed' = IF \E g \in CommsHandlers \ {h} : asking[g].at = "pausing"
                    THEN crossed \cup {d} ELSE crossed
  BY <1>1, <1>2, <1>3, <1>4, <1>7 DEF AskPause
<1>10. RecordIsSound(q) /\ InSlot(d)
  BY <1>1, <1>3 DEF DialoguesKept
<1>11. RecordIsSound(s) /\ (Over(q) => Over(s))
  BY <1>5, <1>10 DEF RecordIsSound, Over
<1>12. q.at # "none"
  BY <1>1, <1>2, <1>3, <1>10 DEF InSlot
<1>13. Tells(q, s, <<>>)
  BY <1>5 DEF Tells, SentOut
<1>14. asking' \in [CommsHandlers -> Askings] /\ asking'[h] = a /\ \A g \in CommsHandlers : g # h => asking'[g] = asking[g]
  BY <1>1, <1>8, <1>9
<1>15. AskersKept'
  BY <1>1, <1>2, <1>8, <1>9, <1>14 DEF AskersKept
<1>16. dlg'[d] = s /\ \A e \in Dialogues : e # d => dlg'[e] = dlg[e]
  BY <1>1, <1>9
<1>17. ASSUME NEW e \in Dialogues PROVE PauseTold(e)'
  <2> SUFFICES ASSUME e \notin crossed' PROVE PauseTold(e)'
    BY DEF PauseTold
  <2>1. e \notin crossed
    BY <1>9
  <2>2. PauseTold(e)
    BY <1>1 DEF DialoguesKept
  <2>3. CASE e # d
    BY <1>8, <1>9, <1>14, <2>3, <1>16, <2>1, <2>2 DEF Pausing, Quiescent, PauseTold, Over
  <2>4. CASE e = d
    BY <1>9, <2>4, <1>14, <1>8, <1>5, <1>16 DEF Pausing, Quiescent, PauseTold
  <2> QED BY <2>3, <2>4
<1>18. door' \in {"open", "closed", "waiting", "done"} /\ crossed' \subseteq Dialogues
  BY <1>1, <1>9
<1> QED BY <1>3, <1>5, <1>9, <1>11, <1>12, <1>13, <1>14, <1>15, <1>17, <1>18, RecordStepKeeps

(* A request shows the pause or the resume it has asked for.               *)
LEMMA ShowPauseKeeps ==
  ASSUME DialogueIInv, NEW h \in CommsHandlers, ShowPause(h)
  PROVE  DialogueIInv'
<1>1. /\ DialogueTyped /\ DialoguesKept /\ AskersKept
      /\ talk \in CommsConfigs /\ dlg \in [Dialogues -> Dlgs] /\ asking \in [CommsHandlers -> Askings]
      /\ current \in Nat /\ current <= talk.dialogues /\ crossed \subseteq Dialogues
      /\ door \in {"open", "closed", "waiting", "done"}
  BY TalkFacts DEF DialogueIInv, DialogueTyped
<1>2. PICK d \in Dialogues : d = asking[h].of /\ d \in 1..current
  BY <1>1, TalkFacts DEF ShowPause, AskersKept
<1>3. PICK q \in Dlgs : q = dlg[d]
  BY <1>1
<1>4. PICK go \in BOOLEAN : go = asking[h].go
  BY <1>1 DEF Askings
<1>5. PICK s : s = PausedSet(q, go)
  OBVIOUS
<1>6. /\ s \in Dlgs /\ s.go = q.go /\ s.turns = q.turns /\ s.filed = q.filed /\ s.at = q.at
      /\ Over(q) => Over(s)
      /\ ~Over(s) => (s.phase = "paused" <=> ~go)
      /\ q.turns \in Nat
  <2>1. CASE ~Over(q) /\ ~go /\ q.phase \in Thinking
    BY <1>5, <2>1 DEF PausedSet, Dlgs, Over
  <2>2. CASE ~Over(q) /\ go /\ q.phase = "paused"
    BY <1>5, <2>2 DEF PausedSet, Thinking, Dlgs, Over
  <2>3. CASE ~(~Over(q) /\ ~go /\ q.phase \in Thinking) /\ ~(~Over(q) /\ go /\ q.phase = "paused")
    BY <1>5, <2>3 DEF PausedSet, Dlgs, Over, Thinking
  <2> QED BY <2>1, <2>2, <2>3
<1>7. NotAsking \in Askings /\ NotAsking.at = "idle"
  BY <1>1, TalkFacts DEF NotAsking, Askings
<1>8. /\ dlg' = [dlg EXCEPT ![d] = s] /\ asking' = [asking EXCEPT ![h] = NotAsking] /\ asking[h].at = "pausing"
      /\ talk' = talk /\ current' = current /\ door' = door /\ crossed' = crossed
  BY <1>1, <1>2, <1>3, <1>4, <1>5 DEF ShowPause
<1>9. PICK events : events = IF s = q THEN <<>> ELSE <<Status>>
  OBVIOUS
<1>10. watch' = Sent(d, events)
  BY <1>1, <1>8, <1>2, <1>3, <1>9 DEF ShowPause
<1>11. RecordIsSound(q) /\ InSlot(d)
  BY <1>1, <1>3 DEF DialoguesKept
<1>12. RecordIsSound(s)
  BY <1>6, <1>11 DEF RecordIsSound
<1>13. q.at # "none"
  BY <1>1, <1>2, <1>3, <1>11 DEF InSlot
<1>14. Tells(q, s, events)
  BY <1>6, <1>9 DEF Tells, SentOut
<1>15. /\ asking' \in [CommsHandlers -> Askings] /\ asking'[h] = NotAsking
       /\ \A g \in CommsHandlers : g # h => asking'[g] = asking[g]
  BY <1>1, <1>7, <1>8
<1>16. AskersKept'
  BY <1>1, <1>7, <1>8, <1>15 DEF AskersKept
<1>17. dlg'[d] = s /\ \A e \in Dialogues : e # d => dlg'[e] = dlg[e]
  BY <1>1, <1>8
<1>18. ASSUME NEW e \in Dialogues PROVE PauseTold(e)'
  <2> SUFFICES ASSUME e \notin crossed PROVE PauseTold(e)'
    BY <1>8 DEF PauseTold
  <2>1. PauseTold(e)
    BY <1>1 DEF DialoguesKept
  <2>2. CASE e # d
    BY <1>2, <1>7, <1>8, <1>15, <2>2, <1>17, <2>1 DEF Pausing, Quiescent, PauseTold, Over
  <2>3. CASE e = d
    BY <1>2, <1>8, <2>3, <1>3, <1>4, <2>1, <1>7, <1>15, <1>6, <1>17 DEF Pausing, PauseTold
  <2> QED BY <2>2, <2>3
<1>19. door' \in {"open", "closed", "waiting", "done"} /\ crossed' \subseteq Dialogues
  BY <1>1, <1>8
<1> QED BY <1>3, <1>6, <1>8, <1>10, <1>12, <1>13, <1>14, <1>15, <1>16, <1>18, <1>19, RecordStepKeeps

(* A dialogue is stopped, by a request or by the daemon's shutdown.        *)
LEMMA StopKeeps ==
  ASSUME DialogueIInv, NEW d \in Dialogues, d = current, dlg' = [dlg EXCEPT ![d] = Stopped(@)],
         UNCHANGED <<talk, current, asking, watch, crossed>>,
         door' \in {"open", "closed", "waiting", "done"}
  PROVE  DialogueIInv'
<1>1. /\ DialogueTyped /\ DialoguesKept /\ dlg \in [Dialogues -> Dlgs] /\ d \in Nat
      /\ asking \in [CommsHandlers -> Askings] /\ crossed \subseteq Dialogues /\ AskersKept
  BY TalkFacts DEF DialogueIInv, DialogueTyped
<1>2. PICK q \in Dlgs : q = dlg[d]
  BY <1>1
<1>3. PICK s : s = Stopped(q)
  OBVIOUS
<1>4. /\ s \in Dlgs /\ s.go = q.go /\ s.turns = q.turns /\ s.filed = q.filed /\ s.at = q.at /\ Over(s)
      /\ q.turns \in Nat
  BY <1>3 DEF Stopped, Over, Dlgs
<1>5. dlg' = [dlg EXCEPT ![d] = s]
  BY <1>1, <1>2, <1>3
<1>6. RecordIsSound(q) /\ InSlot(d)
  BY <1>1, <1>2 DEF DialoguesKept
<1>7. RecordIsSound(s) /\ q.at # "none"
  BY <1>1, <1>2, <1>4, <1>6 DEF RecordIsSound, InSlot
<1>8. Tells(q, s, <<>>)
  BY <1>4 DEF Tells, SentOut
<1>9. \A e \in Dialogues : PauseTold(e)'
  BY <1>2, <1>4, <1>5, <1>7, PauseStays
<1>10. asking' \in [CommsHandlers -> Askings] /\ AskersKept' /\ crossed' \subseteq Dialogues
  BY <1>1 DEF AskersKept
<1> QED BY <1>2, <1>4, <1>5, <1>7, <1>8, <1>9, <1>10, RecordStepKeeps

(* What leaves the dialogues, the requests and the watchers alone.         *)
LEMMA AloneKeeps ==
  ASSUME DialogueIInv, UNCHANGED <<talk, dlg, current, asking, watch, crossed>>,
         door' \in {"open", "closed", "waiting", "done"}
  PROVE  DialogueIInv'
<1>1. DialogueTyped'
  BY DEF DialogueIInv, DialogueTyped
<1>2. AskersKept'
  BY DEF DialogueIInv, AskersKept
<1>3. \A d \in Dialogues : Quiescent(d)' <=> Quiescent(d)
  BY DEF Quiescent
<1>4. DialoguesKept'
  BY <1>3 DEF DialogueIInv, DialoguesKept, RecordIsSound, InSlot, PauseTold, Pausing, Over
<1>5. WatchersServed'
  BY DEF DialogueIInv, WatchersServed, WatcherServed, Served, Fits, Consecutive, UpTo, Covering,
         EndIsLast, SentOut
<1> QED BY <1>1, <1>2, <1>4, <1>5 DEF DialogueIInv

(* A step of one watcher.                                                  *)
LEMMA WatcherKeeps ==
  ASSUME DialogueIInv, NEW w \in CommsWatchers, NEW u \in Watches, UNCHANGED unwatched,
         watch' = [watch EXCEPT ![w] = u], u.of \in 1..current, ~u.gap, Served(u, dlg[u.of])
  PROVE  DialogueIInv'
<1>1. /\ DialogueTyped /\ DialoguesKept /\ AskersKept /\ WatchersServed
      /\ watch \in [CommsWatchers -> Watches] /\ current \in Nat
  BY TalkFacts DEF DialogueIInv, DialogueTyped
<1>2. /\ talk' = talk /\ dlg' = dlg /\ current' = current /\ asking' = asking /\ door' = door
      /\ crossed' = crossed
  BY DEF unwatched
<1>3. watch' \in [CommsWatchers -> Watches]
  BY <1>1
<1>4. DialogueTyped'
  BY <1>1, <1>2, <1>3 DEF DialogueTyped
<1>5. AskersKept'
  BY <1>1, <1>2 DEF AskersKept
<1>6. \A d \in Dialogues : Quiescent(d)' <=> Quiescent(d)
  BY <1>2 DEF Quiescent
<1>7. DialoguesKept'
  BY <1>1, <1>2, <1>6 DEF DialoguesKept, RecordIsSound, InSlot, PauseTold, Pausing, Over
<1>8. ASSUME NEW x \in CommsWatchers PROVE WatcherServed(x)'
  <2>1. CASE x # w
    BY <1>1, <2>1, <1>2 DEF WatchersServed, WatcherServed, Served, Fits, Consecutive, UpTo,
       Covering, EndIsLast, SentOut
  <2>2. CASE x = w
    BY <1>1, <2>2, <1>2 DEF WatcherServed, Served, Fits, Consecutive, UpTo, Covering, EndIsLast,
       SentOut
  <2> QED BY <2>1, <2>2
<1>9. WatchersServed'
  BY <1>8 DEF WatchersServed
<1> QED BY <1>4, <1>5, <1>7, <1>9 DEF DialogueIInv

(* A watcher takes the turns so far and a new receiver.                    *)
LEMMA SubscribedServed ==
  ASSUME DialogueIInv, NEW d \in 1..current
  PROVE  /\ Subscribed(d, FALSE) \in Watches /\ Subscribed(d, FALSE).of = d /\ ~Subscribed(d, FALSE).gap
         /\ Served(Subscribed(d, FALSE), dlg[d])
<1>1. dlg \in [Dialogues -> Dlgs] /\ d \in Dialogues /\ d \in 0..MaxDialogues
  BY TalkFacts DEF DialogueIInv, DialogueTyped
<1>2. PICK r \in Dlgs : r = dlg[d]
  BY <1>1
<1>3. PICK e \in {"no", "replayed"} : e = IF Over(dlg[d]) THEN "replayed" ELSE "no"
  OBVIOUS
<1>4. PICK u : u = Subscribed(d, FALSE)
  OBVIOUS
<1>5. u = [[[[NotWatching EXCEPT !.of = d] EXCEPT !.last = r.turns] EXCEPT !.gap = FALSE] EXCEPT !.ended = e]
  BY <1>2, <1>3, <1>4 DEF Subscribed
<1>6. r.turns \in Nat
  BY DEF Dlgs
<1>7. Fits(<<>>, r.turns, r) /\ <<>> \in Seq(Events)
  BY EmptyFits
<1>8. /\ u \in Watches /\ u.of = d /\ u.gap = FALSE /\ u.last = r.turns /\ u.ended = e /\ u.queue = <<>>
      /\ u.lagged = FALSE
  BY <1>1, <1>5, <1>6, <1>7 DEF NotWatching, Watches
<1>9. Served(u, r)
  BY <1>6, <1>7, <1>8 DEF Served
<1> QED BY <1>2, <1>4, <1>8, <1>9

(* Watchers come, read and catch up.                                       *)
LEMMA WatchersKeep ==
  ASSUME DialogueIInv, NEW w \in CommsWatchers, Subscribe(w) \/ Receive(w) \/ CatchUp(w)
  PROVE  DialogueIInv'
<1>1. /\ WatchersServed /\ watch \in [CommsWatchers -> Watches] /\ current \in Nat
      /\ dlg \in [Dialogues -> Dlgs] /\ talk \in CommsConfigs /\ current <= talk.dialogues
  BY TalkFacts DEF DialogueIInv, DialogueTyped
<1>2. PICK v \in Watches : v = watch[w]
  BY <1>1
<1>3. v.of \in 0..current /\ ~v.gap /\ (v.of # 0 => Served(v, dlg[v.of]))
  BY <1>1, <1>2 DEF WatchersServed, WatcherServed
<1>4. CASE Subscribe(w)
  <2>1. current \in 1..current /\ watch' = [watch EXCEPT ![w] = Subscribed(current, FALSE)] /\ UNCHANGED unwatched
    BY <1>1, <1>4 DEF Subscribe
  <2>2. PICK u : u = Subscribed(current, FALSE)
    OBVIOUS
  <2>3. u \in Watches /\ u.of = current /\ ~u.gap /\ Served(u, dlg[current])
    BY <2>1, <2>2, SubscribedServed
  <2> QED BY <2>1, <2>2, <2>3, WatcherKeeps
<1>5. CASE CatchUp(w)
  <2>1. v.of \in 1..current /\ v.gap = FALSE
    BY <1>1, <1>2, <1>3, <1>5 DEF CatchUp, Following, Watches
  <2>2. PICK u : u = Subscribed(v.of, FALSE)
    OBVIOUS
  <2>3. u \in Watches /\ u.of = v.of /\ ~u.gap /\ Served(u, dlg[v.of])
    BY <2>1, <2>2, SubscribedServed
  <2>4. watch' = [watch EXCEPT ![w] = u] /\ UNCHANGED unwatched
    BY <1>2, <1>5, <2>1, <2>2 DEF CatchUp
  <2> QED BY <2>1, <2>3, <2>4, WatcherKeeps
<1>6. CASE Receive(w)
  <2>1. v.of \in 1..current /\ v.of \in Dialogues /\ v.ended = "no" /\ v.queue # <<>> /\ UNCHANGED unwatched
    BY <1>1, <1>2, <1>3, <1>6, TalkFacts DEF Receive, Following
  <2>2. PICK r \in Dlgs : r = dlg[v.of]
    BY <1>1, <2>1
  <2>3. PICK queue \in Seq(Events) : queue = v.queue
    BY DEF Watches
  <2>4. PICK event : event = Head(queue)
    OBVIOUS
  <2>5. PICK rest : rest = Tail(queue)
    OBVIOUS
  <2>6. PICK on : on = [v EXCEPT !.queue = rest]
    OBVIOUS
  <2>7. PICK last \in Nat : last = v.last
    BY DEF Watches
  <2>8. PICK upto : upto = IF event.is = "turn" /\ event.n > last THEN event.n ELSE last
    OBVIOUS
  <2>9. last <= r.turns /\ (~v.lagged => Fits(queue, last, r))
    BY <1>3, <2>1, <2>2, <2>3, <2>7 DEF Served
  <2>10. watch' = [watch EXCEPT ![w] =
             CASE event.is = "end" -> [on EXCEPT !.ended = "event"]
               [] event.is = "turn" /\ event.n > on.last ->
                    [on EXCEPT !.last = event.n, !.gap = @ \/ event.n # on.last + 1]
               [] OTHER -> on]
    BY <1>2, <1>6, <2>3, <2>4, <2>5, <2>6 DEF Receive
  <2>11. Fits(queue, last, r)
    BY <1>3, <2>1, <2>2, <2>3, <2>9 DEF Served
  <2>12. v.lagged = FALSE /\ v.gap = FALSE
    BY <1>3, <2>1 DEF Watches, Served
  <2>13. /\ rest \in Seq(Events) /\ event \in Events /\ upto \in Nat /\ Fits(rest, upto, r)
         /\ event.is = "end" => r.at = "gone" /\ last = r.turns
         /\ event.is = "turn" /\ event.n > last => event.n = last + 1 /\ event.n <= r.turns
    <3>1. queue # <<>> /\ last <= r.turns
      BY <2>1, <2>3, <2>9
    <3>2. Read(queue, last, event, rest, upto)
      BY <2>4, <2>5, <2>8 DEF Read
    <3> QED BY <2>11, <3>1, <3>2, ReadFits
  <2>14. /\ on \in Watches /\ on.of = v.of /\ on.last = last /\ on.queue = rest /\ on.gap = FALSE
         /\ on.ended = "no" /\ on.lagged = FALSE
    BY <2>1, <2>6, <2>7, <2>12, <2>13 DEF Watches
  <2>15. r.turns \in Nat
    BY DEF Dlgs
  <2>20. CASE event.is = "end"
    <3>1. PICK u : u = [on EXCEPT !.ended = "event"]
      OBVIOUS
    <3>2. /\ u \in Watches /\ u.of = v.of /\ u.gap = FALSE /\ u.last = last /\ u.ended = "event"
          /\ u.lagged = FALSE
      BY <2>14, <3>1 DEF Watches
    <3>3. Served(u, r)
      BY <2>9, <2>13, <2>20, <3>2 DEF Served
    <3>4. watch' = [watch EXCEPT ![w] = u]
      BY <2>10, <2>20, <3>1
    <3> QED BY <2>1, <2>2, <3>2, <3>3, <3>4, WatcherKeeps
  <2>21. CASE event.is = "turn" /\ event.n > last
    <3>1. PICK u : u = [on EXCEPT !.last = event.n, !.gap = @ \/ event.n # on.last + 1]
      OBVIOUS
    <3>2. event.n = last + 1 /\ event.n <= r.turns /\ upto = event.n /\ event.n \in Nat
      BY <2>8, <2>13, <2>21
    <3>3. u = [on EXCEPT !.last = event.n, !.gap = FALSE]
      BY <2>14, <3>1, <3>2
    <3>4. /\ u \in Watches /\ u.of = v.of /\ u.gap = FALSE /\ u.last = upto /\ u.ended = "no"
          /\ u.lagged = FALSE /\ u.queue = rest
      BY <2>14, <3>2, <3>3 DEF Watches
    <3>5. Served(u, r)
      BY <2>13, <3>2, <3>4 DEF Served
    <3>6. watch' = [watch EXCEPT ![w] = u]
      BY <2>10, <2>14, <2>21, <3>1
    <3> QED BY <2>1, <2>2, <3>4, <3>5, <3>6, WatcherKeeps
  <2>22. CASE event.is # "end" /\ ~(event.is = "turn" /\ event.n > last)
    BY <2>8, <2>22, <2>9, <2>13, <2>14, <2>10, <2>1, <2>2, WatcherKeeps DEF Served
  <2> QED BY <2>20, <2>21, <2>22
<1> QED BY <1>4, <1>5, <1>6

-----------------------------------------------------------------------------
(* The invariant holds of every behaviour: one step per action.            *)
THEOREM DialogueInvariance == DialogueSpec => []DialogueIInv
<1>1. DialogueInit => DialogueIInv
  BY DialogueStarts
<1>2. DialogueIInv /\ [DialogueNext]_dialogueVars => DialogueIInv'
  <2> SUFFICES ASSUME DialogueIInv, [DialogueNext]_dialogueVars PROVE DialogueIInv'
    OBVIOUS
  <2>1. /\ talk \in CommsConfigs /\ current \in Nat /\ current <= talk.dialogues
        /\ door \in {"open", "closed", "waiting", "done"}
    BY TalkFacts DEF DialogueIInv, DialogueTyped
  <2>2. current # 0 => current \in Dialogues
    BY <2>1, TalkFacts
  <2>3. ASSUME NEW d \in Dialogues, TaskSteps(d) PROVE DialogueIInv'
    BY <2>3, TaskStepsKeep
  <2>4. ASSUME NEW h \in CommsHandlers, StartChecks(h) \/ StartFills(h) PROVE DialogueIInv'
    BY <2>4, StartsKeep
  <2>5. ASSUME NEW h \in CommsHandlers, ShowPause(h) PROVE DialogueIInv'
    BY <2>5, ShowPauseKeeps
  <2>6. ASSUME NEW h \in CommsHandlers, NEW go \in BOOLEAN, AskPause(h, go) PROVE DialogueIInv'
    BY <2>6, AskPauseKeeps
  <2>7. ASSUME NEW w \in CommsWatchers, Subscribe(w) \/ Receive(w) \/ CatchUp(w) PROVE DialogueIInv'
    BY <2>7, WatchersKeep
  <2>8. ASSUME Stop PROVE DialogueIInv'
    <3>1. PICK d \in Dialogues : d = current
      BY <2>2, <2>8 DEF Stop
    <3>2. /\ dlg' = [dlg EXCEPT ![d] = Stopped(@)] /\ UNCHANGED <<talk, current, asking, watch, crossed>>
          /\ door' = door
      BY <2>8, <3>1 DEF Stop, slotAndRequests
    <3> QED BY <2>1, <3>1, <3>2, StopKeeps
  <2>9. ASSUME IsolationFlips \/ ShutdownCloses \/ ShutdownSeesEnd PROVE DialogueIInv'
    BY <2>9, <2>1, AloneKeeps DEF IsolationFlips, ShutdownCloses, ShutdownSeesEnd
  <2>10. ASSUME ShutdownStops PROVE DialogueIInv'
    <3>1. CASE current = 0 \/ Over(dlg[current])
      BY <2>10, <3>1, AloneKeeps DEF ShutdownStops
    <3>2. CASE ~(current = 0 \/ Over(dlg[current]))
      <4>1. PICK d \in Dialogues : d = current
        BY <2>2, <3>2
      <4>2. /\ dlg' = [dlg EXCEPT ![d] = Stopped(@)] /\ UNCHANGED <<talk, current, asking, watch, crossed>>
            /\ door' = "waiting"
        BY <2>10, <3>2, <4>1 DEF ShutdownStops
      <4> QED BY <4>1, <4>2, StopKeeps
    <3> QED BY <3>1, <3>2
  <2>11. ASSUME UNCHANGED dialogueVars PROVE DialogueIInv'
    BY <2>11, <2>1, AloneKeeps DEF dialogueVars
  <2> QED BY <2>3, <2>4, <2>5, <2>6, <2>7, <2>8, <2>9, <2>10, <2>11 DEF DialogueNext
<1> QED BY <1>1, <1>2, PTL DEF DialogueSpec

(* However starts, stops, endings and pauses cross: one dialogue at a      *)
(* time, every turn seen in order, and a phase that is true.               *)
THEOREM DialoguesKeepTheirPromises == DialogueSpec => []DialoguesHold
<1>1. DialogueIInv => DialoguesHold
  <2> SUFFICES ASSUME DialogueIInv PROVE DialoguesHold
    OBVIOUS
  <2>1. /\ DialogueTyped /\ DialoguesKept /\ WatchersServed /\ talk \in CommsConfigs
        /\ dlg \in [Dialogues -> Dlgs] /\ current \in 0..talk.dialogues /\ current \in Nat
        /\ watch \in [CommsWatchers -> Watches]
    BY TalkFacts DEF DialogueIInv, DialogueTyped
  <2>2. ASSUME NEW d \in Dialogues
        PROVE  dlg[d] \in Dlgs /\ RecordIsSound(dlg[d]) /\ InSlot(d) /\ PauseTold(d) /\ d \in Nat
    BY <2>1, TalkFacts DEF DialoguesKept
  <2>3. DialogueTypeOK
    <3>1. ASSUME NEW d \in Dialogues
          PROVE  /\ dlg[d].phase \in Thinking \cup {"paused", "ended", "failed"}
                 /\ dlg[d].before \in Thinking /\ dlg[d].at \in TaskPlaces
                 /\ dlg[d].turns \in 0..talk.turns /\ dlg[d].filed \in 0..talk.turns
                 /\ d > current => dlg[d].at = "none"
      <4>1. PICK r \in Dlgs : r = dlg[d]
        BY <2>2
      <4>2. /\ r.phase \in Thinking \cup {"paused", "ended", "failed"} /\ r.before \in Thinking
            /\ r.at \in TaskPlaces /\ r.turns \in Nat /\ r.filed \in Nat
        BY DEF Dlgs
      <4>3. r.turns <= talk.turns /\ r.filed <= talk.turns
        BY <2>2, <4>1 DEF RecordIsSound
      <4>4. d > current => r.at = "none"
        BY <2>1, <2>2, <4>1, FreshFacts DEF InSlot
      <4> QED BY <2>1, <4>1, <4>2, <4>3, <4>4, TalkFacts
    <3>2. ASSUME NEW w \in CommsWatchers
          PROVE  watch[w].of \in 0..current /\ watch[w].ended \in {"no", "event", "replayed"}
      BY <2>1 DEF WatchersServed, WatcherServed, Watches
    <3> QED BY <2>1, <3>1, <3>2 DEF DialogueTypeOK, DialogueTyped
  <2>4. OneAtATime
    <3>1. PICK S : S = {d \in Dialogues : dlg[d].at # "none" /\ ~Over(dlg[d])}
      OBVIOUS
    <3>2. ASSUME NEW d \in S PROVE d = current
      BY <3>1, <2>1, <2>2, FreshFacts DEF InSlot
    <3>3. S \subseteq {current}
      BY <3>2
    <3>4. IsFiniteSet({current}) /\ Cardinality({current}) = 1
      BY FS_Singleton
    <3>5. Cardinality(S) <= 1
      BY <3>3, <3>4, FS_Subset
    <3> QED BY <3>1, <3>5 DEF OneAtATime
  <2>5. NoTurnMissed
    <3> SUFFICES ASSUME NEW w \in CommsWatchers
                 PROVE  ~watch[w].gap /\ (watch[w].ended = "event" => watch[w].last = dlg[watch[w].of].turns)
      BY DEF NoTurnMissed
    <3>1. WatcherServed(w)
      BY <2>1 DEF WatchersServed
    <3> QED BY <3>1 DEF WatcherServed, Served
  <2>6. PauseIsShown
    BY <2>2 DEF PauseIsShown, PauseTold
  <2> QED BY <2>3, <2>4, <2>5, <2>6 DEF DialoguesHold
<1> QED BY <1>1, DialogueInvariance, PTL

-----------------------------------------------------------------------------
(* Farming out subtasks.                                                   *)
(*                                                                         *)
(* The argument: the tokens of a subtask's leases ascend, over its         *)
(* attempts and over the farms that share it.  So from the moment an       *)
(* attempt's fence is up every earlier child bears a token below it, and   *)
(* what the attempt's own child stored is what the controller takes.       *)

Behind == {"queueing", "watching", "releasing", "taking"}    \* the fence is up
Granted == {"fencing"} \cup Behind
Spawned == {"watching", "releasing", "taking", "done"}
CtlOf(k) == <<k[1], k[2]>>

FarmTyped ==
  /\ now \in 0..MaxNow /\ table \in LeaseTables
  /\ farm \in [Farms -> {"none", "running", "over"}] /\ startedAt \in [Farms -> 0..MaxNow]
  /\ step \in [Controllers -> CtlSteps] /\ attempt \in [Controllers -> Attempts]
  /\ token \in [Controllers -> 0..MaxToken] /\ spawned \in [Controllers -> 0..MaxNow]
  /\ child \in [Children -> ChildSteps] /\ bears \in [Children -> 0..MaxToken]
  /\ fence \in [Controllers -> 0..MaxToken] /\ stored \in [Controllers -> 0..MaxToken]
  /\ result \in [Controllers -> {"pending", "failed", "text"}]
  /\ reclaims \in [Farms -> Nat] /\ stalls \in [Farms -> Nat] /\ lateFenced \in [Farms -> Nat]

AbortedLive ==
  aborted \subseteq {c \in Controllers : LiveCtl(c)} \cup {k \in Children : LiveChild(k)}

PermitsKept ==
  \A f \in Farms : IsFiniteSet(Running(f)) /\ Cardinality(Running(f)) <= MaxConcurrency

(* Tokens ascend from what is stored over the fence and the attempt's own  *)
(* to the subtask's watermark.  A child bears its attempt's token, which   *)
(* is above every earlier attempt's, and once the attempt's fence is up    *)
(* what its child committed is what is stored.                             *)
InOrder(c) ==
  /\ stored[c] <= fence[c] /\ fence[c] <= token[c] /\ token[c] <= table.marks[c[2]]
  /\ step[c] \in Behind => fence[c] = token[c]
  /\ \A k \in Children : CtlOf(k) = c =>
       /\ bears[k] <= token[c]
       /\ child[k] # "none" => k[3] <= attempt[c]
       /\ child[k] # "none" /\ k[3] = attempt[c] => step[c] \in Spawned /\ bears[k] = token[c]
       /\ step[c] \in Granted /\ k[3] < attempt[c] => bears[k] < token[c]
       /\ child[k] = "committed" /\ k[3] = attempt[c] /\ step[c] \in Behind =>
            stored[c] = token[c]

AttemptsInOrder == \A c \in Controllers : InOrder(c)

NotYetStarted == \A c \in Controllers : farm[c[1]] = "none" => step[c] = "none"

FarmIInv ==
  /\ FarmTyped /\ AbortedLive /\ PermitsKept /\ AttemptsInOrder
  /\ NotYetStarted /\ NothingOutlivesFarm


-----------------------------------------------------------------------------
(* Constants, controllers and children.                                    *)

(* The constants, without the records they are given in.                   *)
LEMMA FarmConstantFacts ==
  /\ MaxAttempts \in Nat \ {0} /\ MaxConcurrency \in Nat \ {0} /\ MaxToken \in Nat \ {0}
  /\ SubtaskTtl \in Nat /\ WallBudget \in Nat /\ MaxNow \in Nat
  /\ NoLease \notin Lease
  /\ \A s \in Subtasks : TtlOf[s] \in 1..MaxTtl
  /\ \A f \in Farms, a \in Attempts : <<TenureOf[f], a>> \in Holders
<1>1. /\ MaxAttempts \in Nat \ {0} /\ MaxConcurrency \in Nat \ {0}
      /\ SubtaskTtl \in 1..MaxTtl /\ WallBudget \in Nat /\ MaxNow \in Nat
      /\ Holders = {TenureOf[f] : f \in Farms} \X Attempts
  BY FarmConstants
<1>2. MaxToken \in Nat \ {0} /\ MaxTtl \in Nat /\ \A s \in Subtasks : TtlOf[s] \in 1..MaxTtl
  BY LeaseConstants DEF Subtasks
<1>3. NoLease \notin Lease
  BY LeaseConstants DEF Lease
<1> QED BY <1>1, <1>2, <1>3

(* A controller is no child, and a child is named by its controller and    *)
(* the attempt it was spawned in.                                          *)
LEMMA TaskFacts ==
  /\ Controllers \cap Children = {}
  /\ \A k \in Children : /\ CtlOf(k) \in Controllers /\ k[3] \in Attempts
                         /\ k[1] = CtlOf(k)[1] /\ k[2] = CtlOf(k)[2]
                         /\ k = <<k[1], k[2], k[3]>>
  /\ \A c \in Controllers : c[1] \in Farms /\ c[2] \in Subtasks /\ c = <<c[1], c[2]>>
  /\ \A c \in Controllers, k \in Children : k \in ChildrenOf(c) <=> CtlOf(k) = c
<1>1. \A c \in Controllers : c[1] \in Farms /\ c[2] \in Subtasks /\ c = <<c[1], c[2]>>
  BY DEF Controllers
<1>2. \A k \in Children : /\ k[1] \in Farms /\ k[2] \in Subtasks /\ k[3] \in Attempts
                          /\ k = <<k[1], k[2], k[3]>>
  BY DEF Children
<1>3. \A k \in Children : CtlOf(k) \in Controllers
  BY <1>2 DEF Controllers, CtlOf
<1>4. \A k \in Children : k[1] = CtlOf(k)[1] /\ k[2] = CtlOf(k)[2]
  BY DEF CtlOf
<1>5. Controllers \cap Children = {}
  BY DEF Controllers, Children
<1>6. \A c \in Controllers, k \in Children : k \in ChildrenOf(c) <=> CtlOf(k) = c
  BY <1>1 DEF ChildrenOf, CtlOf
<1> QED BY <1>1, <1>2, <1>3, <1>4, <1>5, <1>6

(* The child of a controller's attempt is one of its children.             *)
LEMMA ChildOfFacts ==
  ASSUME attempt \in [Controllers -> Attempts], NEW c \in Controllers
  PROVE  /\ ChildOf(c) \in Children /\ CtlOf(ChildOf(c)) = c /\ ChildOf(c)[3] = attempt[c]
         /\ \A k \in Children : CtlOf(k) = c /\ k[3] = attempt[c] => k = ChildOf(c)
<1>1. c[1] \in Farms /\ c[2] \in Subtasks /\ c = <<c[1], c[2]>> /\ attempt[c] \in Attempts
  BY TaskFacts
<1>2. ChildOf(c) = <<c[1], c[2], attempt[c]>>
  BY DEF ChildOf
<1>3. ChildOf(c) \in Children /\ CtlOf(ChildOf(c)) = c /\ ChildOf(c)[3] = attempt[c]
  BY <1>1, <1>2 DEF Children, CtlOf
<1>4. ASSUME NEW k \in Children, CtlOf(k) = c, k[3] = attempt[c] PROVE k = ChildOf(c)
  BY <1>2, <1>4, TaskFacts
<1> QED BY <1>3, <1>4

(* A grant leaves a table whose watermark for the subtask is the new token *)
(* (lease.rs: acquire); a release and a sweep leave every watermark.       *)
LEMMA FarmTableFacts ==
  ASSUME table \in LeaseTables, NEW s \in Subtasks
  PROVE  /\ \A h \in Holders, t \in Nat :
              CanAcquire(table, s, t) /\ table' = Acquire(table, s, h, t) =>
                /\ table' \in LeaseTables
                /\ table'.marks[s] = table.marks[s] + 1 /\ table'.marks[s] <= MaxToken
                /\ \A r \in Subtasks : r # s => table'.marks[r] = table.marks[r]
         /\ table' = Release(table, s) => table' \in LeaseTables /\ table'.marks = table.marks
<1>1. /\ s \in Resources /\ Subtasks = Resources /\ MaxToken \in Nat /\ TtlOf[s] \in 1..MaxTtl
      /\ table.leases \in [Resources -> Lease \cup {NoLease}]
      /\ table.marks \in [Resources -> 0..MaxToken]
  BY FarmConstantFacts DEF LeaseTables, Subtasks
<1>2. ASSUME NEW h \in Holders, NEW t \in Nat,
             CanAcquire(table, s, t), table' = Acquire(table, s, h, t)
      PROVE  /\ table' \in LeaseTables
             /\ table'.marks[s] = table.marks[s] + 1 /\ table'.marks[s] <= MaxToken
             /\ \A r \in Subtasks : r # s => table'.marks[r] = table.marks[r]
  <2> DEFINE g == GrantedLease(table, s, h, t)
  <2>1. g \in Lease /\ g.token = table.marks[s] + 1 /\ g.token \in 0..MaxToken
    BY <1>1, <1>2 DEF CanAcquire, TokenAvailable, GrantedLease, NextToken, Lease
  <2>2. table' = [leases |-> [table.leases EXCEPT ![s] = g],
                  marks |-> [table.marks EXCEPT ![s] = g.token]]
    BY <1>2 DEF Acquire, WithLease
  <2> HIDE DEF g
  <2>3. table' \in LeaseTables
    BY <1>1, <2>1, <2>2 DEF LeaseTables
  <2>4. table'.marks = [table.marks EXCEPT ![s] = g.token]
    BY <2>2
  <2> QED BY <1>1, <2>1, <2>3, <2>4
<1>3. ASSUME table' = Release(table, s)
      PROVE  table' \in LeaseTables /\ table'.marks = table.marks
  BY <1>3, <1>1 DEF Release, LeaseTables
<1> QED BY <1>2, <1>3


-----------------------------------------------------------------------------
(* Types.                                                                  *)

(* No farm, no lease and no child.                                         *)
LEMMA FarmInitIInv == FarmInit => FarmIInv
<1> SUFFICES ASSUME FarmInit PROVE FarmIInv
  OBVIOUS
<1>1. \A k \in Children : ~LiveChild(k)
  BY DEF FarmInit, LiveChild
<1>2. \A c \in Controllers : ~LiveCtl(c) /\ step[c] = "none"
  BY DEF FarmInit, LiveCtl
<1>3. EmptyTable \in LeaseTables /\ \A s \in Subtasks : EmptyTable.marks[s] = 0
  BY FarmConstantFacts DEF EmptyTable, LeaseTables, Subtasks
<1>4. FarmTyped
  BY <1>3, FarmConstantFacts DEF FarmInit, FarmTyped, CtlSteps, ChildSteps, Attempts
<1>5. AbortedLive
  BY DEF FarmInit, AbortedLive
<1>6. PermitsKept
  BY <1>1, FS_EmptySet, FarmConstantFacts DEF Running, PermitsKept
<1>7. AttemptsInOrder
  BY <1>2, <1>3, TaskFacts DEF FarmInit, AttemptsInOrder, InOrder, Granted, Behind
<1>8. NotYetStarted /\ NothingOutlivesFarm
  BY <1>1, <1>2 DEF NotYetStarted, NothingOutlivesFarm
<1> QED BY <1>4, <1>5, <1>6, <1>7, <1>8 DEF FarmIInv

(* What a controller may do to its steps and its tries when an attempt is  *)
(* over: another attempt, or the end (farm.rs: subtask_controller).        *)
LEMMA AttemptOverFacts ==
  ASSUME FarmTyped, NEW c \in Controllers, NextAttempt(c)
  PROVE  /\ step' \in [Controllers -> CtlSteps] /\ attempt' \in [Controllers -> Attempts]
         /\ result' \in [Controllers -> {"pending", "failed", "text"}]
         /\ \/ /\ step' = [step EXCEPT ![c] = "checking"]
               /\ attempt' = [attempt EXCEPT ![c] = @ + 1]
               /\ UNCHANGED aborted
            \/ /\ step' = [step EXCEPT ![c] = "done"]
               /\ UNCHANGED attempt
               /\ aborted' = (aborted \ {c}) \cup {k \in ChildrenOf(c) : LiveChild(k)}
<1>1. /\ step \in [Controllers -> CtlSteps] /\ attempt \in [Controllers -> Attempts]
      /\ result \in [Controllers -> {"pending", "failed", "text"}]
      /\ MaxAttempts \in Nat /\ "checking" \in CtlSteps /\ "done" \in CtlSteps
  BY FarmConstantFacts DEF FarmTyped, CtlSteps
<1>2. CASE attempt[c] < MaxAttempts
  BY <1>1, <1>2 DEF NextAttempt, ToStep, Attempts
<1>3. CASE ~(attempt[c] < MaxAttempts)
  BY <1>1, <1>3 DEF NextAttempt, Return, ToStep
<1> QED BY <1>2, <1>3

(* Every variable keeps its type.                                          *)
LEMMA NextFarmTyped ==
  ASSUME FarmTyped, [FarmNext]_farmingVars
  PROVE  FarmTyped'
<1> DEFINE Tables == table' \in LeaseTables
           Farming == /\ farm' \in [Farms -> {"none", "running", "over"}]
                      /\ startedAt' \in [Farms -> 0..MaxNow] /\ now' \in 0..MaxNow
           Ctls == /\ step' \in [Controllers -> CtlSteps] /\ attempt' \in [Controllers -> Attempts]
                   /\ token' \in [Controllers -> 0..MaxToken]
                   /\ spawned' \in [Controllers -> 0..MaxNow]
                   /\ result' \in [Controllers -> {"pending", "failed", "text"}]
           Kids == /\ child' \in [Children -> ChildSteps] /\ bears' \in [Children -> 0..MaxToken]
           Store == /\ fence' \in [Controllers -> 0..MaxToken]
                    /\ stored' \in [Controllers -> 0..MaxToken]
           Counts == /\ reclaims' \in [Farms -> Nat] /\ stalls' \in [Farms -> Nat]
                     /\ lateFenced' \in [Farms -> Nat]
           Goal == Tables /\ Farming /\ Ctls /\ Kids /\ Store /\ Counts
<1>1. UNCHANGED table => Tables
  BY DEF FarmTyped
<1>2. UNCHANGED <<now, farmVars>> => Farming
  BY DEF FarmTyped, farmVars
<1>3. UNCHANGED <<ctlVars, result>> => Ctls
  BY DEF FarmTyped, ctlVars
<1>4. UNCHANGED <<child, bears>> => Kids
  BY DEF FarmTyped
<1>5. UNCHANGED storeVars => Store
  BY DEF FarmTyped, storeVars
<1>6. UNCHANGED counters => Counts
  BY DEF FarmTyped, counters
<1>7. /\ now \in 0..MaxNow /\ MaxNow \in Nat /\ WallBudget \in Nat /\ MaxToken \in Nat
      /\ step \in [Controllers -> CtlSteps] /\ attempt \in [Controllers -> Attempts]
      /\ token \in [Controllers -> 0..MaxToken] /\ spawned \in [Controllers -> 0..MaxNow]
      /\ result \in [Controllers -> {"pending", "failed", "text"}]
  BY FarmConstantFacts DEF FarmTyped
<1>8. /\ farm \in [Farms -> {"none", "running", "over"}] /\ startedAt \in [Farms -> 0..MaxNow]
      /\ child \in [Children -> ChildSteps] /\ bears \in [Children -> 0..MaxToken]
      /\ fence \in [Controllers -> 0..MaxToken] /\ stored \in [Controllers -> 0..MaxToken]
      /\ reclaims \in [Farms -> Nat] /\ stalls \in [Farms -> Nat] /\ lateFenced \in [Farms -> Nat]
  BY DEF FarmTyped
<1>9. CtlSteps = {"none", "checking", "acquiring", "fencing", "queueing", "watching",
                  "releasing", "taking", "done"}
      /\ ChildSteps = {"none", "running", "committing", "committed", "failed", "dropped"}
  BY DEF CtlSteps, ChildSteps
<1>10. ASSUME NEW c \in Controllers, NEW r \in {"failed", "text"}, Return(c, r),
              UNCHANGED <<attempt, token, spawned>>
       PROVE  Ctls
  BY <1>7, <1>9, <1>10 DEF Return, ToStep
<1>11. ASSUME NEW c \in Controllers, NEW s \in CtlSteps, ToStep(c, s),
              UNCHANGED <<attempt, token, spawned, result>>
       PROVE  Ctls
  BY <1>7, <1>11 DEF ToStep
<1>12. ASSUME NEW c \in Controllers, NextAttempt(c), UNCHANGED <<token, spawned>>
       PROVE  Ctls
  BY <1>7, <1>12, AttemptOverFacts
<1> HIDE DEF Tables, Farming, Ctls, Kids, Store, Counts
<1>13. ASSUME NEW f \in Farms,
              StartFarm(f) \/ FinishFarm(f) \/ EndAtBudget(f) \/ ParentDropped(f)
       PROVE  Goal
  <2>1. CASE StartFarm(f)
    BY <1>7, <1>8, <2>1, <1>9, <1>1, <1>4, <1>5, <1>6 DEF StartFarm, Farming, Ctls
  <2>2. CASE FinishFarm(f)
    BY <1>7, <1>8, <2>2, <1>1, <1>3, <1>4, <1>5, <1>6 DEF FinishFarm, Farming
  <2>3. CASE DropControllers(f)
    BY <1>7, <1>8, <2>3, <1>1, <1>4, <1>5, <1>6 DEF DropControllers, Farming, Ctls, ctlVars
  <2> QED BY <1>13, <2>1, <2>2, <2>3 DEF EndAtBudget, ParentDropped
<1>14. ASSUME NEW c \in Controllers, Controller(c) PROVE Goal
  <2> USE <1>1, <1>2, <1>4, <1>5, <1>6
  <2>1. CASE CheckIsolation(c)
    BY <1>9, <1>10, <1>11, <2>1 DEF CheckIsolation
  <2>2. CASE AcquireLease(c)
    <3>1. CASE ~CanAcquire(table, c[2], now)
      BY <1>10, <2>2, <3>1 DEF AcquireLease
    <3>2. CASE CanAcquire(table, c[2], now)
      <4>1. /\ table' = Acquire(table, c[2], AttemptHolder(c), now)
            /\ token' = [token EXCEPT ![c] = NextToken(table, c[2])]
            /\ step' = [step EXCEPT ![c] = "fencing"]
            /\ UNCHANGED <<result, aborted>>
        BY <2>2, <3>2 DEF AcquireLease, ToStep
      <4>2. AttemptHolder(c) \in Holders /\ c[2] \in Subtasks /\ now \in Nat
        BY <1>7, TaskFacts, FarmConstantFacts DEF AttemptHolder
      <4>3. table \in LeaseTables
        BY DEF FarmTyped
      <4>4. /\ table' \in LeaseTables /\ table'.marks[c[2]] = table.marks[c[2]] + 1
            /\ table'.marks[c[2]] <= MaxToken
        BY <3>2, <4>1, <4>2, <4>3, FarmTableFacts
      <4>5. table.marks[c[2]] \in Nat
        BY <4>2, <4>3, <1>7 DEF LeaseTables, Subtasks
      <4>6. Ctls
        BY <1>7, <1>9, <2>2, <4>1, <4>4, <4>5 DEF Ctls, AcquireLease, NextToken
      <4> QED BY <2>2, <4>4, <4>6 DEF AcquireLease, Tables
    <3> QED BY <3>1, <3>2
  <2>3. CASE RaiseFence(c)
    <3>1. Store
      BY <1>7, <1>8, <2>3 DEF RaiseFence, Fenced, Store
    <3>2. Counts
      BY TaskFacts, <1>8, <2>3 DEF RaiseFence, Counts
    <3>3. Ctls
      BY <1>9, <1>11, <2>3 DEF RaiseFence
    <3> QED BY <2>3, <3>1, <3>2, <3>3 DEF RaiseFence
  <2>4. CASE SpawnChild(c)
    BY <1>7, ChildOfFacts, <1>8, <1>9, <2>4 DEF SpawnChild, Kids, Ctls, ToStep
  <2>5. CASE ChildFinished(c)
    BY <1>9, <1>11, <2>5 DEF ChildFinished
  <2>6. CASE ChildStalls(c)
    BY <1>8, <2>6, TaskFacts, <1>12 DEF ChildStalls, Counts
  <2>7. CASE ReleaseLease(c)
    <3>1. Tables
      BY TaskFacts, <2>7, FarmTableFacts DEF FarmTyped, ReleaseLease, Tables
    <3>2. Ctls
      BY <1>9, <1>11, <1>12, <2>7 DEF ReleaseLease
    <3> QED BY <2>7, <3>1, <3>2 DEF ReleaseLease
  <2>8. CASE TakeResult(c)
    BY <1>7, <1>8, <2>8, <1>10, <1>12 DEF TakeResult, Store
  <2> QED BY <1>14, <2>1, <2>2, <2>3, <2>4, <2>5, <2>6, <2>7, <2>8 DEF Controller
<1>15. ASSUME NEW k \in Children, ExecutorReturns(k) \/ Commit(k) PROVE Goal
  <2>1. CASE ExecutorReturns(k)
    BY <1>8, <1>9, <2>1, <1>1, <1>2, <1>3, <1>5, <1>6 DEF ExecutorReturns, Kids
  <2>2. CASE Commit(k)
    <3>1. Kids
      BY <1>8, <1>9, <2>2 DEF Commit, Kids
    <3>2. CtlOf(k) = <<k[1], k[2]>> /\ k[1] \in Farms /\ bears[k] \in 0..MaxToken
      BY <1>8, TaskFacts DEF CtlOf
    <3>3. CtlOf(k) \in Controllers
      BY <1>8, TaskFacts DEF CtlOf
    <3>4. Store
      BY <2>2, <1>8, <3>2 DEF Commit, storeVars, CtlOf, Store
    <3>5. Counts
      BY <2>2, <1>8, <3>2 DEF Commit, Counts
    <3> QED BY <1>1, <1>2, <1>3, <2>2, <3>1, <3>4, <3>5 DEF Commit
  <2> QED BY <1>15, <2>1, <2>2
<1>16. ASSUME NEW x \in Controllers \cup Children, AbortLands(x) PROVE Goal
  BY <1>8, <1>9, <1>16, <1>7, <1>1, <1>2, <1>5, <1>6 DEF AbortLands, Kids, Ctls, ToStep
<1>17. ASSUME NEW n, SweepClaims(n) PROVE Goal
  <2>1. Tables
    BY <1>17 DEF FarmTyped, LeaseTables, SweepClaims, Tables, Subtasks
  <2> QED BY <1>2, <1>3, <1>4, <1>5, <1>6, <1>17, <2>1 DEF SweepClaims
<1>18. ASSUME FarmTick PROVE Goal
  BY <1>7, <1>8, <1>18, <1>1, <1>3, <1>4, <1>5, <1>6 DEF FarmTick, Farming, farmVars
<1>19. ASSUME UNCHANGED farmingVars PROVE Goal
  BY <1>1, <1>2, <1>3, <1>4, <1>5, <1>6, <1>19 DEF farmingVars, farmVars, ctlVars, storeVars, counters
<1>20. Goal
  BY <1>13, <1>14, <1>15, <1>16, <1>17, <1>18, <1>19 DEF FarmNext
<1> QED BY <1>20 DEF FarmTyped, Tables, Farming, Ctls, Kids, Store, Counts


-----------------------------------------------------------------------------
(* Tasks asked to stop, and permits.                                       *)

LiveKids(c) == {k \in ChildrenOf(c) : LiveChild(k)}

TasksKept == AbortedLive /\ NothingOutlivesFarm /\ NotYetStarted

(* A step of a controller keeps it alive, or ends it and asks its children *)
(* to stop (farm.rs: subtask_controller, AbortOnDrop).                     *)
LEMMA ControllerMoves ==
  ASSUME FarmTyped, NEW c \in Controllers, Controller(c)
  PROVE  /\ LiveCtl(c) /\ UNCHANGED farm
         /\ \/ /\ \E s \in CtlSteps \ {"none", "done"} : step' = [step EXCEPT ![c] = s]
               /\ aborted' \in {aborted, aborted \cup LiveKids(c)}
            \/ /\ step' = [step EXCEPT ![c] = "done"]
               /\ aborted' = (aborted \ {c}) \cup LiveKids(c)
         /\ UNCHANGED child \/ SpawnChild(c)
<1> DEFINE On == /\ \E s \in CtlSteps \ {"none", "done"} : step' = [step EXCEPT ![c] = s]
                 /\ aborted' \in {aborted, aborted \cup LiveKids(c)}
           RunsOut == /\ step' = [step EXCEPT ![c] = "done"]
                   /\ aborted' = (aborted \ {c}) \cup LiveKids(c)
           Goal == LiveCtl(c) /\ UNCHANGED farm /\ (On \/ RunsOut) /\ (UNCHANGED child \/ SpawnChild(c))
<1>1. ASSUME NEW s \in CtlSteps \ {"none", "done"}, ToStep(c, s), UNCHANGED aborted PROVE On
  BY <1>1 DEF ToStep
<1>2. ASSUME NEW r, Return(c, r) PROVE RunsOut
  BY <1>2 DEF Return, ToStep, LiveKids
<1>3. ASSUME NextAttempt(c) PROVE On \/ RunsOut
  BY <1>3, AttemptOverFacts DEF CtlSteps, LiveKids
<1>4. {"checking", "acquiring", "fencing", "queueing", "watching", "releasing", "taking"}
        = CtlSteps \ {"none", "done"}
  BY DEF CtlSteps
<1> HIDE DEF On, RunsOut
<1> USE DEF LiveCtl, farmVars
<1>5. ASSUME CheckIsolation(c) PROVE Goal
  BY <1>1, <1>2, <1>4, <1>5 DEF CheckIsolation
<1>6. ASSUME AcquireLease(c) PROVE Goal
  BY <1>1, <1>2, <1>4, <1>6 DEF AcquireLease
<1>7. ASSUME RaiseFence(c) PROVE Goal
  BY <1>4, <1>7 DEF RaiseFence, DropStalled, ToStep, On, LiveKids
<1>8. ASSUME SpawnChild(c) PROVE Goal
  BY <1>1, <1>4, <1>8 DEF SpawnChild
<1>9. ASSUME ChildFinished(c) PROVE Goal
  BY <1>1, <1>4, <1>9 DEF ChildFinished
<1>10. ASSUME ChildStalls(c) PROVE Goal
  BY <1>3, <1>10 DEF ChildStalls
<1>11. ASSUME ReleaseLease(c) PROVE Goal
  BY <1>1, <1>3, <1>4, <1>11 DEF ReleaseLease
<1>12. ASSUME TakeResult(c) PROVE Goal
  BY <1>2, <1>3, <1>12 DEF TakeResult
<1>13. Controller(c)
  OBVIOUS
<1>14. Goal
  BY <1>5, <1>6, <1>7, <1>8, <1>9, <1>10, <1>11, <1>12, <1>13 DEF Controller
<1> QED BY <1>14 DEF On, RunsOut

(* What was asked to stop is alive, and what is alive has a live owner or  *)
(* was asked to stop (farm.rs: AbortOnDrop).                               *)
LEMMA NextTasks ==
  ASSUME FarmTyped, TasksKept, [FarmNext]_farmingVars
  PROVE  TasksKept'
<1> DEFINE Ctls == {c \in Controllers : LiveCtl(c)}
           Kids == {k \in Children : LiveChild(k)}
<1>1. /\ step \in [Controllers -> CtlSteps] /\ child \in [Children -> ChildSteps]
      /\ farm \in [Farms -> {"none", "running", "over"}]
      /\ attempt \in [Controllers -> Attempts]
  BY DEF FarmTyped
<1>2. /\ aborted \subseteq Ctls \cup Kids
      /\ \A k \in Children : LiveChild(k) => k \in aborted \/ LiveCtl(CtlOf(k))
      /\ \A c \in Controllers : LiveCtl(c) => c \in aborted \/ farm[c[1]] = "running"
      /\ \A c \in Controllers : farm[c[1]] = "none" => step[c] = "none"
  BY DEF TasksKept, AbortedLive, NothingOutlivesFarm, NotYetStarted, CtlOf
<1> DEFINE Goal == /\ aborted' \subseteq Ctls' \cup Kids'
                   /\ \A k \in Children : LiveChild(k)' => k \in aborted' \/ LiveCtl(CtlOf(k))'
                   /\ \A c \in Controllers : LiveCtl(c)' => c \in aborted' \/ farm'[c[1]] = "running"
                   /\ \A c \in Controllers : farm'[c[1]] = "none" => step'[c] = "none"
<1> USE TaskFacts
<1>3. ASSUME UNCHANGED <<farm, step, child, aborted>> PROVE Goal
  BY <1>2, <1>3 DEF LiveCtl, LiveChild
<1>4. ASSUME NEW f \in Farms, StartFarm(f) PROVE Goal
  BY <1>1, <1>2, <1>4 DEF StartFarm, LiveCtl, LiveChild
<1>5. ASSUME NEW f \in Farms, FinishFarm(f) PROVE Goal
  <2>1. ASSUME NEW c \in Controllers, c[1] = f PROVE ~LiveCtl(c)
    BY <1>5, <2>1 DEF FinishFarm, LiveCtl
  <2> QED BY <1>1, <1>2, <1>5, <2>1 DEF FinishFarm, LiveCtl, LiveChild, ctlVars
<1>6. ASSUME NEW f \in Farms, farm[f] = "running", DropControllers(f) PROVE Goal
  BY <1>1, <1>2, <1>6 DEF DropControllers, LiveCtl, LiveChild, ctlVars
<1>7. ASSUME NEW c \in Controllers, Controller(c) PROVE Goal
  <2>1. /\ LiveCtl(c) /\ UNCHANGED farm
        /\ \/ /\ \E s \in CtlSteps \ {"none", "done"} : step' = [step EXCEPT ![c] = s]
              /\ aborted' \in {aborted, aborted \cup LiveKids(c)}
           \/ /\ step' = [step EXCEPT ![c] = "done"]
              /\ aborted' = (aborted \ {c}) \cup LiveKids(c)
        /\ UNCHANGED child \/ SpawnChild(c)
    BY <1>7, ControllerMoves
  <2>2. /\ \A d \in Controllers : d # c => (LiveCtl(d)' <=> LiveCtl(d)) /\ step'[d] = step[d]
        /\ step'[c] # "none"
    BY <1>1, <2>1 DEF LiveCtl
  <2>3. \A k \in Children : k \in LiveKids(c) <=> LiveChild(k) /\ CtlOf(k) = c
    BY DEF LiveKids
  <2>4. LiveKids(c) \subseteq Kids
    BY DEF LiveKids, ChildrenOf
  <2>5. farm[c[1]] = "running" \/ c \in aborted
    BY <1>2, <2>1
  <2>6. CASE UNCHANGED child
    <3>1. \A k \in Children : LiveChild(k)' <=> LiveChild(k)
      BY <2>6 DEF LiveChild
    <3>2. \/ aborted' = aborted
          \/ aborted' = aborted \cup LiveKids(c)
          \/ ~LiveCtl(c)' /\ aborted' = (aborted \ {c}) \cup LiveKids(c)
      BY <1>1, <2>1 DEF LiveCtl
    <3>3. aborted' \subseteq Ctls' \cup Kids'
      <4>1. ASSUME NEW x \in aborted', x \notin LiveKids(c) PROVE x \in Ctls' \cup Kids'
        BY <1>1, <2>1, <4>1, <2>2, <3>1, <1>2 DEF LiveCtl
      <4>2. LiveKids(c) \subseteq Kids'
        BY <2>4, <3>1
      <4> QED BY <4>1, <4>2
    <3>4. ASSUME NEW k \in Children, LiveChild(k)' PROVE k \in aborted' \/ LiveCtl(CtlOf(k))'
      <4>1. k \in aborted => k \in aborted' /\ k # c
        BY <3>2
      <4>2. CASE CtlOf(k) # c
        BY <1>2, <2>2, <3>1, <3>4, <4>1, <4>2
      <4>3. CASE CtlOf(k) = c
        BY <1>1, <2>1, <2>3, <3>1, <3>4, <4>3 DEF LiveCtl
      <4> QED BY <4>2, <4>3
    <3>5. ASSUME NEW d \in Controllers, LiveCtl(d)' PROVE d \in aborted' \/ farm'[d[1]] = "running"
      BY <1>2, <2>1, <2>2, <3>2, <3>5, <2>5
    <3>6. \A d \in Controllers : farm'[d[1]] = "none" => step'[d] = "none"
      BY <1>2, <2>1, <2>2 DEF LiveCtl
    <3> QED BY <3>3, <3>4, <3>5, <3>6
  <2>7. CASE SpawnChild(c)
    <3>1. PICK n \in Children : n = ChildOf(c) /\ CtlOf(n) = c
      BY <1>1, ChildOfFacts
    <3>2. child' = [child EXCEPT ![n] = "running"] /\ UNCHANGED aborted /\ LiveCtl(c)'
      BY <1>1, <2>7, <3>1 DEF SpawnChild, ToStep, LiveCtl
    <3>3. LiveChild(n)' /\ \A k \in Children : k # n => (LiveChild(k)' <=> LiveChild(k))
      BY <1>1, <3>1, <3>2 DEF LiveChild
    <3>4. aborted' \subseteq Ctls' \cup Kids'
      BY <2>2, <3>2, <3>3, <1>2
    <3>5. \A k \in Children : LiveChild(k)' => k \in aborted' \/ LiveCtl(CtlOf(k))'
      BY <2>2, <3>2, <1>2, <3>1, <3>3
    <3>6. \A d \in Controllers : LiveCtl(d)' => d \in aborted' \/ farm'[d[1]] = "running"
      BY <1>2, <2>1, <2>2, <3>2
    <3>7. \A d \in Controllers : farm'[d[1]] = "none" => step'[d] = "none"
      BY <1>2, <2>1, <2>2 DEF LiveCtl
    <3> QED BY <3>4, <3>5, <3>6, <3>7
  <2> QED BY <2>1, <2>6, <2>7
<1>8. ASSUME NEW k \in Children, ExecutorReturns(k) \/ Commit(k) PROVE Goal
  <2>1. /\ UNCHANGED <<farm, step>> /\ LiveChild(k)
        /\ \/ LiveChild(k)' /\ UNCHANGED aborted
           \/ ~LiveChild(k)' /\ aborted' = aborted \ {k}
        /\ \A l \in Children : l # k => (LiveChild(l)' <=> LiveChild(l))
    BY <1>1, <1>8 DEF ExecutorReturns, LiveChild, farmVars, ctlVars, Commit
  <2>2. \A c \in Controllers : (LiveCtl(c)' <=> LiveCtl(c)) /\ c # k
    BY <2>1 DEF LiveCtl
  <2> QED BY <1>2, <2>1, <2>2
<1>9. ASSUME NEW x \in Controllers \cup Children, AbortLands(x) PROVE Goal
  <2>1. CASE x \in Children
    BY <1>1, <1>9, <2>1, <1>2 DEF AbortLands, LiveChild, farmVars, LiveCtl
  <2>2. CASE x \notin Children
    <3>1. /\ x \in Controllers /\ UNCHANGED <<farm, child>> /\ step' = [step EXCEPT ![x] = "done"]
          /\ aborted' = (aborted \ {x}) \cup LiveKids(x)
      BY <1>9, <2>2 DEF AbortLands, ToStep, LiveKids, farmVars
    <3>2. /\ \A d \in Controllers : d # x => (LiveCtl(d)' <=> LiveCtl(d)) /\ step'[d] = step[d]
          /\ step'[x] = "done" /\ ~LiveCtl(x)'
      BY <1>1, <3>1 DEF LiveCtl
    <3>3. \A k \in Children : k \in LiveKids(x) <=> LiveChild(k) /\ CtlOf(k) = x
      BY <3>1 DEF LiveKids
    <3>4. LiveKids(x) \subseteq Kids
      BY DEF LiveKids, ChildrenOf
    <3>5. \A k \in Children : LiveChild(k)' <=> LiveChild(k)
      BY <3>1 DEF LiveChild
    <3>6. x \in aborted /\ LiveCtl(x)
      BY <1>2, <1>9, <2>2 DEF AbortLands
    <3>7. farm[x[1]] # "none"
      BY <1>2, <3>1, <3>6 DEF LiveCtl
    <3> QED BY <1>2, <3>1, <3>2, <3>3, <3>4, <3>5, <3>7
  <2> QED BY <2>1, <2>2
<1>10. ASSUME NEW n, SweepClaims(n) PROVE Goal
  BY <1>3, <1>10 DEF SweepClaims, farmVars, ctlVars
<1>11. ASSUME FarmTick PROVE Goal
  BY <1>3, <1>11 DEF FarmTick, farmVars, ctlVars
<1>12. ASSUME UNCHANGED farmingVars PROVE Goal
  BY <1>3, <1>12 DEF farmingVars
<1>13. Goal
  BY <1>4, <1>5, <1>6, <1>7, <1>8, <1>9, <1>10, <1>11, <1>12
     DEF FarmNext, EndAtBudget, ParentDropped
<1> QED BY <1>13 DEF TasksKept, AbortedLive, NothingOutlivesFarm, NotYetStarted, CtlOf


(* At most the permits of the farm are out: a child that runs holds one,   *)
(* and only SpawnChild starts one (farm.rs: FarmCaps::max_concurrency).    *)
LEMMA NextPermits ==
  ASSUME FarmTyped, TasksKept, PermitsKept, [FarmNext]_farmingVars
  PROVE  PermitsKept'
<1>1. child \in [Children -> ChildSteps] /\ attempt \in [Controllers -> Attempts]
  BY DEF FarmTyped
<1>2. \A f \in Farms : IsFiniteSet(Running(f)) /\ Cardinality(Running(f)) <= MaxConcurrency
  BY DEF PermitsKept
<1>3. MaxConcurrency \in Nat
  BY FarmConstantFacts
<1>4. ASSUME NEW f \in Farms, Running(f)' \subseteq Running(f)
      PROVE  IsFiniteSet(Running(f)') /\ Cardinality(Running(f)') <= MaxConcurrency
  BY <1>2, <1>4, FS_Subset, FS_CardinalityType, <1>3
<1>5. ASSUME \A k \in Children : LiveChild(k)' => LiveChild(k) PROVE PermitsKept'
  BY <1>5, <1>4 DEF Running, PermitsKept
<1>6. ASSUME NEW c \in Controllers, SpawnChild(c) PROVE PermitsKept'
  <2>1. PICK n \in Children : n = ChildOf(c) /\ CtlOf(n) = c
    BY <1>1, ChildOfFacts
  <2>2. child' = [child EXCEPT ![n] = "running"] /\ PermitFree(c[1])
    BY <1>6, <2>1 DEF SpawnChild
  <2>3. \A k \in Children : k # n => (LiveChild(k)' <=> LiveChild(k))
    BY <1>1, <2>1, <2>2 DEF LiveChild
  <2>4. n[1] = c[1] /\ c[1] \in Farms
    BY <2>1, TaskFacts
  <2>5. ASSUME NEW f \in Farms
        PROVE  IsFiniteSet(Running(f)') /\ Cardinality(Running(f)') <= MaxConcurrency
    <3>1. CASE f # c[1]
      BY <2>3, <2>4, <3>1, <1>4 DEF Running
    <3>2. CASE f = c[1]
      <4>1. Running(f)' \subseteq Running(f) \cup {n}
        BY <2>3 DEF Running
      <4>2. Cardinality(Running(f)) < MaxConcurrency
        BY <2>2, <3>2 DEF PermitFree
      <4>3. IsFiniteSet(Running(f) \cup {n})
            /\ Cardinality(Running(f) \cup {n}) <= Cardinality(Running(f)) + 1
        <5>1. IsFiniteSet(Running(f) \cup {n})
              /\ Cardinality(Running(f) \cup {n}) =
                   IF n \in Running(f) THEN Cardinality(Running(f)) ELSE Cardinality(Running(f)) + 1
          BY <1>2, FS_AddElement
        <5>2. Cardinality(Running(f)) \in Nat
          BY <1>2, FS_CardinalityType
        <5> QED BY <5>1, <5>2
      <4>4. IsFiniteSet(Running(f)')
            /\ Cardinality(Running(f)') <= Cardinality(Running(f) \cup {n})
        BY <4>1, <4>3, FS_Subset
      <4>5. /\ Cardinality(Running(f)) \in Nat /\ Cardinality(Running(f)') \in Nat
            /\ Cardinality(Running(f) \cup {n}) \in Nat
        BY <1>2, <4>3, <4>4, FS_CardinalityType
      <4> QED BY <1>3, <4>2, <4>3, <4>4, <4>5
    <3> QED BY <3>1, <3>2
  <2> QED BY <2>5 DEF PermitsKept
<1>7. ASSUME UNCHANGED child PROVE PermitsKept'
  BY <1>5, <1>7 DEF LiveChild
<1>8. ASSUME NEW f \in Farms,
             StartFarm(f) \/ FinishFarm(f) \/ EndAtBudget(f) \/ ParentDropped(f)
      PROVE  PermitsKept'
  BY <1>7, <1>8 DEF StartFarm, FinishFarm, EndAtBudget, ParentDropped, DropControllers
<1>9. ASSUME NEW c \in Controllers, Controller(c) PROVE PermitsKept'
  BY <1>6, <1>7, <1>9, ControllerMoves
<1>10. ASSUME NEW k \in Children, ExecutorReturns(k) \/ Commit(k) PROVE PermitsKept'
  BY <1>1, <1>10, <1>5 DEF ExecutorReturns, Commit, LiveChild
<1>11. ASSUME NEW x \in Controllers \cup Children, AbortLands(x) PROVE PermitsKept'
  BY <1>1, <1>11, <1>5 DEF AbortLands, LiveChild
<1>12. ASSUME (\E n \in {TenureOf[f] : f \in Farms} : SweepClaims(n)) \/ FarmTick
                \/ UNCHANGED farmingVars
       PROVE  PermitsKept'
  BY <1>7, <1>12 DEF SweepClaims, FarmTick, farmingVars
<1> QED BY <1>8, <1>9, <1>10, <1>11, <1>12 DEF FarmNext

-----------------------------------------------------------------------------
(* Attempts, tokens and fences.                                            *)

(* A controller whose own state a step leaves alone keeps its order, since *)
(* no watermark falls.                                                     *)
LEMMA OrderStays ==
  ASSUME FarmTyped, FarmTyped', NEW c \in Controllers, InOrder(c),
         step'[c] = step[c], attempt'[c] = attempt[c], token'[c] = token[c],
         fence'[c] = fence[c], stored'[c] = stored[c],
         table'.marks[c[2]] >= table.marks[c[2]],
         \A k \in Children : CtlOf(k) = c => child'[k] = child[k] /\ bears'[k] = bears[k]
  PROVE  InOrder(c)'
<1>1. /\ token[c] \in Nat /\ table.marks[c[2]] \in Nat /\ table'.marks[c[2]] \in Nat
  BY TaskFacts, FarmConstantFacts DEF FarmTyped, LeaseTables, Subtasks
<1> QED BY <1>1 DEF InOrder

(* No step lowers a watermark (lease.rs: acquire, release, reclaim).       *)
LEMMA MarksAscend ==
  ASSUME FarmTyped, FarmTyped', [FarmNext]_farmingVars, NEW s \in Subtasks
  PROVE  table'.marks[s] >= table.marks[s]
<1>1. table \in LeaseTables /\ table' \in LeaseTables /\ now \in Nat /\ MaxToken \in Nat
  BY FarmConstantFacts DEF FarmTyped
<1>2. table.marks[s] \in Nat /\ table'.marks[s] \in Nat
  BY <1>1 DEF LeaseTables, Subtasks
<1>3. ASSUME UNCHANGED table \/ table'.marks = table.marks PROVE table'.marks[s] >= table.marks[s]
  BY <1>2, <1>3
<1>4. ASSUME NEW c \in Controllers, AcquireLease(c)
      PROVE  table'.marks[s] >= table.marks[s]
  <2>1. CASE UNCHANGED table
    BY <1>3, <2>1
  <2>2. CASE /\ CanAcquire(table, c[2], now)
             /\ table' = Acquire(table, c[2], AttemptHolder(c), now)
    <3>1. c[2] \in Subtasks /\ AttemptHolder(c) \in Holders
      BY TaskFacts, FarmConstantFacts DEF AttemptHolder, FarmTyped
    <3>2. /\ table'.marks[c[2]] = table.marks[c[2]] + 1
          /\ \A r \in Subtasks : r # c[2] => table'.marks[r] = table.marks[r]
      BY <1>1, <2>2, <3>1, FarmTableFacts
    <3> QED BY <1>2, <3>2
  <2> QED BY <1>4, <2>1, <2>2 DEF AcquireLease
<1>5. ASSUME NEW c \in Controllers, ReleaseLease(c) PROVE table'.marks[s] >= table.marks[s]
  BY TaskFacts, <1>1, <1>3, <1>5, FarmTableFacts DEF ReleaseLease
<1>6. ASSUME NEW n, SweepClaims(n) PROVE table'.marks[s] >= table.marks[s]
  BY <1>1, <1>6, <1>3 DEF SweepClaims, LeaseTables
<1>7. ASSUME NEW c \in Controllers, Controller(c) PROVE table'.marks[s] >= table.marks[s]
  BY <1>3, <1>4, <1>5, <1>7
     DEF Controller, CheckIsolation, RaiseFence, SpawnChild, ChildFinished, ChildStalls, TakeResult
<1> QED
  BY <1>3, <1>6, <1>7 DEF FarmNext, StartFarm, FinishFarm, EndAtBudget, ParentDropped,
     DropControllers, ExecutorReturns, Commit, AbortLands, FarmTick, farmingVars


(* Every step of a controller keeps its own attempt in order: a new token  *)
(* is above the watermark, a raised fence is the token, and a new child    *)
(* bears it (farm.rs: subtask_controller, raise_fence).                    *)
LEMMA ControllerOrder ==
  ASSUME FarmTyped, FarmTyped', NEW c \in Controllers, InOrder(c), Controller(c)
  PROVE  InOrder(c)'
<1>1. /\ step \in [Controllers -> CtlSteps] /\ attempt \in [Controllers -> Attempts]
      /\ token \in [Controllers -> 0..MaxToken] /\ MaxToken \in Nat
      /\ child \in [Children -> ChildSteps] /\ bears \in [Children -> 0..MaxToken]
      /\ fence \in [Controllers -> 0..MaxToken] /\ stored \in [Controllers -> 0..MaxToken]
      /\ table \in LeaseTables /\ table' \in LeaseTables /\ now \in Nat
  BY FarmConstantFacts DEF FarmTyped
<1>2. /\ c[1] \in Farms /\ c[2] \in Subtasks
      /\ table.marks[c[2]] \in Nat /\ table'.marks[c[2]] \in Nat
  BY <1>1, TaskFacts DEF LeaseTables, Subtasks
<1>3. \A k \in Children : k[3] \in Attempts
  BY TaskFacts
<1>4. /\ stored[c] <= fence[c] /\ fence[c] <= token[c] /\ token[c] <= table.marks[c[2]]
      /\ step[c] \in Behind => fence[c] = token[c]
  BY DEF InOrder
<1>5. ASSUME NEW k \in Children, CtlOf(k) = c
      PROVE  /\ bears[k] <= token[c]
             /\ child[k] # "none" => k[3] <= attempt[c]
             /\ child[k] # "none" /\ k[3] = attempt[c] => step[c] \in Spawned /\ bears[k] = token[c]
             /\ step[c] \in Granted /\ k[3] < attempt[c] => bears[k] < token[c]
             /\ child[k] = "committed" /\ k[3] = attempt[c] /\ step[c] \in Behind =>
                  stored[c] = token[c]
  BY <1>5 DEF InOrder
<1>6. ASSUME table'.marks = table.marks, UNCHANGED <<token, child, bears, storeVars>>,
             \/ /\ step'[c] \notin Granted /\ attempt'[c] = attempt[c]
                /\ step[c] \in Spawned => step'[c] \in Spawned
             \/ step'[c] = "checking" /\ attempt'[c] = attempt[c] + 1
             \/ /\ step[c] \in Behind /\ step'[c] \in Behind /\ attempt'[c] = attempt[c]
                /\ step[c] \in Spawned => step'[c] \in Spawned
      PROVE  InOrder(c)'
  BY <1>1, <1>2, <1>3, <1>4, <1>5, <1>6
     DEF InOrder, Granted, Behind, Spawned, Attempts, storeVars
<1>7. ASSUME NextAttempt(c), table'.marks = table.marks, UNCHANGED <<token, child, bears, storeVars>>
      PROVE  InOrder(c)'
  BY <1>1, <1>7, AttemptOverFacts, <1>6 DEF Granted, Behind, Spawned
<1>8. ASSUME NEW r, Return(c, r), table'.marks = table.marks,
             UNCHANGED <<attempt, token, child, bears, storeVars>>
      PROVE  InOrder(c)'
  BY <1>1, <1>8, <1>6 DEF Return, ToStep, Granted, Behind, Spawned
<1>9. CASE CheckIsolation(c)
  BY <1>1, <1>9, <1>6 DEF CheckIsolation, Return, ToStep, Granted, Behind, Spawned
<1>10. CASE AcquireLease(c)
  <2>1. CASE ~CanAcquire(table, c[2], now)
    BY <1>8, <1>10, <2>1 DEF AcquireLease
  <2>2. CASE CanAcquire(table, c[2], now)
    <3>1. /\ table' = Acquire(table, c[2], AttemptHolder(c), now)
          /\ token' = [token EXCEPT ![c] = NextToken(table, c[2])]
          /\ step' = [step EXCEPT ![c] = "fencing"] /\ step[c] = "acquiring"
          /\ UNCHANGED <<attempt, child, bears, fence, stored>>
      BY <1>10, <2>2 DEF AcquireLease, ToStep, storeVars
    <3>2. AttemptHolder(c) \in Holders
      BY <1>1, <1>2, FarmConstantFacts DEF AttemptHolder
    <3>3. token'[c] = table.marks[c[2]] + 1 /\ table'.marks[c[2]] = token'[c] /\ step'[c] = "fencing"
      BY <1>1, <1>2, <2>2, <3>1, <3>2, FarmTableFacts DEF NextToken
    <3>4. ASSUME NEW k \in Children, CtlOf(k) = c PROVE bears[k] < token'[c]
      BY <1>1, <1>5, <3>4, <1>2, <1>4, <3>3
    <3>5. \A k \in Children : CtlOf(k) = c /\ child[k] # "none" =>
            k[3] <= attempt[c] /\ k[3] # attempt[c]
      BY <1>5, <3>1 DEF Spawned
    <3>6. \A k \in Children : bears[k] \in Nat
      BY <1>1
    <3>7. "fencing" \notin Behind
      BY DEF Behind
    <3>8. stored'[c] <= fence'[c] /\ fence'[c] <= token'[c] /\ token'[c] <= table'.marks[c[2]]
      BY <1>1, <1>2, <1>4, <3>1, <3>3
    <3>9. \A k \in Children : CtlOf(k) = c =>
            /\ bears'[k] <= token'[c] /\ bears'[k] < token'[c]
            /\ child'[k] # "none" => k[3] <= attempt'[c] /\ k[3] # attempt'[c]
      BY <1>2, <3>1, <3>3, <3>4, <3>5, <3>6
    <3> QED BY <3>3, <3>7, <3>8, <3>9 DEF InOrder
  <2> QED BY <2>1, <2>2
<1>11. CASE RaiseFence(c)
  BY <1>1, <1>4, <1>11, <1>5 DEF RaiseFence, Fenced, ToStep, Granted, Spawned, InOrder
<1>12. CASE SpawnChild(c)
  <2>1. PICK n \in Children : n = ChildOf(c) /\ CtlOf(n) = c /\ n[3] = attempt[c]
    BY <1>1, ChildOfFacts
  <2>2. \A k \in Children : CtlOf(k) = c /\ k[3] = attempt[c] => k = n
    BY <1>1, <2>1, ChildOfFacts
  <2>3. /\ step[c] = "queueing" /\ step'[c] = "watching"
        /\ child' = [child EXCEPT ![n] = "running"] /\ bears' = [bears EXCEPT ![n] = token[c]]
        /\ UNCHANGED <<table, attempt, token, fence, stored>>
    BY <1>1, <1>12, <2>1 DEF SpawnChild, ToStep, storeVars
  <2>4. "queueing" \in Behind /\ "queueing" \in Granted /\ "watching" \in Spawned
    BY DEF Behind, Granted, Spawned
  <2>5. /\ child'[n] = "running" /\ bears'[n] = token'[c]
        /\ \A k \in Children : k # n => child'[k] = child[k] /\ bears'[k] = bears[k]
    BY <1>1, <2>1, <2>3
  <2>6. stored'[c] <= fence'[c] /\ fence'[c] <= token'[c] /\ token'[c] <= table'.marks[c[2]]
        /\ fence'[c] = token'[c]
    BY <1>4, <2>3, <2>4
  <2>7. ASSUME NEW k \in Children, CtlOf(k) = c, k # n
        PROVE  /\ bears'[k] <= token'[c] /\ k[3] # attempt'[c]
               /\ child'[k] # "none" => k[3] <= attempt'[c]
               /\ k[3] < attempt'[c] => bears'[k] < token'[c]
    BY <1>5, <2>2, <2>3, <2>4, <2>5, <2>7
  <2>8. n[3] <= attempt'[c] /\ ~(n[3] < attempt'[c]) /\ bears'[n] <= token'[c]
    BY <1>1, <2>1, <2>3, <2>5 DEF Attempts
  <2> QED BY <2>1, <2>3, <2>4, <2>5, <2>6, <2>7, <2>8 DEF InOrder
<1>13. CASE ChildFinished(c)
  BY <1>1, <1>13, <1>6 DEF ChildFinished, ToStep, Behind, Spawned
<1>14. CASE ChildStalls(c)
  BY <1>7, <1>14 DEF ChildStalls
<1>15. CASE ReleaseLease(c)
  <2>1. table'.marks = table.marks
    BY <1>1, <1>2, <1>15, FarmTableFacts DEF ReleaseLease
  <2>2. CASE ToStep(c, "taking") /\ UNCHANGED attempt
    BY <1>1, <1>15, <2>2, <1>6, <2>1 DEF ReleaseLease, ToStep, Behind, Spawned
  <2> QED BY <1>7, <1>15, <2>1, <2>2 DEF ReleaseLease
<1>16. CASE TakeResult(c)
  <2>1. CASE stored[c] = token[c]
    BY <1>1, <1>16, <2>1, <1>4, <1>5 DEF TakeResult, Return, ToStep, Behind, Granted, Spawned,
       InOrder
  <2>2. CASE stored[c] # token[c]
    BY <1>7, <1>16, <2>2 DEF TakeResult, storeVars
  <2> QED BY <2>1, <2>2
<1> QED BY <1>9, <1>10, <1>11, <1>12, <1>13, <1>14, <1>15, <1>16 DEF Controller


(* A child's answer is stored only with a token at its fence or above, and *)
(* behind the fence that is the attempt's own (fenced.rs: accept).         *)
LEMMA CommitOrder ==
  ASSUME FarmTyped, AttemptsInOrder, NEW k \in Children, Commit(k)
  PROVE  InOrder(CtlOf(k))'
<1>1. PICK c \in Controllers : c = CtlOf(k) /\ c = <<k[1], k[2]>> /\ k[3] \in Attempts
  BY TaskFacts DEF CtlOf
<1>2. /\ token[c] \in Nat /\ fence[c] \in Nat /\ stored[c] \in Nat /\ bears[k] \in Nat
      /\ attempt[c] \in Nat /\ k[3] \in Nat
      /\ child \in [Children -> ChildSteps]
      /\ fence \in [Controllers -> 0..MaxToken] /\ stored \in [Controllers -> 0..MaxToken]
      /\ \A l \in Children : l[3] \in Nat /\ bears[l] \in Nat
  BY <1>1, TaskFacts, FarmConstantFacts DEF FarmTyped, Attempts
<1>3. InOrder(c)
  BY <1>1 DEF AttemptsInOrder
<1>4. /\ child[k] = "committing" /\ UNCHANGED <<table, step, attempt, token, bears>>
      /\ \/ /\ bears[k] >= fence[c] /\ child' = [child EXCEPT ![k] = "committed"]
            /\ fence' = [fence EXCEPT ![c] = bears[k]] /\ stored' = [stored EXCEPT ![c] = bears[k]]
         \/ child' = [child EXCEPT ![k] = "failed"] /\ UNCHANGED <<fence, stored>>
  BY <1>1 DEF Commit, Accepts, ctlVars, storeVars
<1>5. /\ stored[c] <= fence[c] /\ fence[c] <= token[c] /\ token[c] <= table.marks[c[2]]
      /\ step[c] \in Behind => fence[c] = token[c]
      /\ bears[k] <= token[c] /\ k[3] <= attempt[c]
      /\ step[c] \in Granted /\ k[3] < attempt[c] => bears[k] < token[c]
  BY <1>1, <1>3, <1>4 DEF InOrder
<1>6. ASSUME child' = [child EXCEPT ![k] = "failed"], UNCHANGED <<fence, stored>>
      PROVE  InOrder(c)'
  BY <1>2, <1>3, <1>4, <1>6 DEF InOrder
<1>7. ASSUME bears[k] >= fence[c], child' = [child EXCEPT ![k] = "committed"],
             fence' = [fence EXCEPT ![c] = bears[k]], stored' = [stored EXCEPT ![c] = bears[k]]
      PROVE  InOrder(c)'
  <2>1. /\ stored'[c] = bears[k] /\ fence'[c] = bears[k] /\ child'[k] = "committed"
        /\ \A l \in Children : l # k => child'[l] = child[l]
    BY <1>1, <1>2, <1>7
  <2>2. step[c] \in Behind => bears[k] = token[c]
    BY <1>2, <1>5, <1>7
  <2>3. /\ stored'[c] <= fence'[c] /\ fence'[c] <= token'[c] /\ token'[c] <= table'.marks[c[2]]
        /\ step'[c] \in Behind => fence'[c] = token'[c] /\ stored'[c] = token'[c]
    BY <1>2, <1>4, <1>5, <2>1, <2>2
  <2>4. ASSUME NEW l \in Children, CtlOf(l) = c
        PROVE  /\ bears'[l] <= token'[c]
               /\ child'[l] # "none" => l[3] <= attempt'[c]
               /\ child'[l] # "none" => child[l] # "none"
    BY <1>4, <1>5, <2>1, <1>3, <2>4 DEF InOrder
  <2> QED BY <1>3, <1>4, <2>3, <2>4 DEF InOrder
<1> QED BY <1>1, <1>4, <1>6, <1>7

(* Every step keeps every attempt in order.                                *)
LEMMA NextOrder ==
  ASSUME FarmTyped, FarmTyped', TasksKept, AttemptsInOrder, [FarmNext]_farmingVars
  PROVE  AttemptsInOrder'
<1> SUFFICES ASSUME NEW c \in Controllers PROVE InOrder(c)'
  BY DEF AttemptsInOrder
<1>1. InOrder(c) /\ c[2] \in Subtasks
  BY TaskFacts DEF AttemptsInOrder
<1>2. /\ step \in [Controllers -> CtlSteps] /\ attempt \in [Controllers -> Attempts]
      /\ token \in [Controllers -> 0..MaxToken]
      /\ child \in [Children -> ChildSteps] /\ bears \in [Children -> 0..MaxToken]
      /\ fence \in [Controllers -> 0..MaxToken] /\ stored \in [Controllers -> 0..MaxToken]
      /\ table \in LeaseTables /\ table' \in LeaseTables /\ MaxToken \in Nat
  BY FarmConstantFacts DEF FarmTyped
<1>3. table'.marks[c[2]] >= table.marks[c[2]]
  BY <1>1, MarksAscend
<1>4. table.marks[c[2]] \in Nat /\ table'.marks[c[2]] \in Nat
  BY <1>1, <1>2 DEF LeaseTables, Subtasks
<1>5. ASSUME step'[c] = step[c], attempt'[c] = attempt[c], token'[c] = token[c],
             fence'[c] = fence[c], stored'[c] = stored[c],
             \A k \in Children : CtlOf(k) = c => child'[k] = child[k] /\ bears'[k] = bears[k]
      PROVE  InOrder(c)'
  BY <1>1, <1>3, <1>5, OrderStays
<1>6. ASSUME UNCHANGED <<step, attempt, token, fence, stored, child, bears>> PROVE InOrder(c)'
  BY <1>5, <1>6
<1>7. ASSUME NEW f \in Farms, StartFarm(f) PROVE InOrder(c)'
  <2>1. UNCHANGED <<table, attempt, token, fence, stored, child, bears>>
    BY <1>7 DEF StartFarm, storeVars
  <2>2. CASE c[1] # f
    BY <1>2, <1>7, <2>2, <1>5, <2>1 DEF StartFarm
  <2>3. CASE c[1] = f
    BY <1>2, <1>7, <2>3, <1>1, <2>1 DEF StartFarm, TasksKept, NotYetStarted, Behind, Granted,
       Spawned, InOrder
  <2> QED BY <2>2, <2>3
<1>8. ASSUME NEW f \in Farms, FinishFarm(f) \/ DropControllers(f) PROVE InOrder(c)'
  BY <1>6, <1>8 DEF FinishFarm, DropControllers, ctlVars, storeVars
<1>9. ASSUME NEW d \in Controllers, Controller(d) PROVE InOrder(c)'
  <2>1. CASE d = c
    BY <1>1, <1>9, <2>1, ControllerOrder
  <2>2. CASE d # c
    <3>1. step'[c] = step[c]
      BY <1>2, <1>9, <2>2, ControllerMoves
    <3>2. attempt'[c] = attempt[c]
      <4>1. ASSUME NextAttempt(d) PROVE attempt'[c] = attempt[c]
        BY <1>2, <2>2, <4>1, AttemptOverFacts
      <4> QED
        BY <1>9, <4>1 DEF Controller, CheckIsolation, AcquireLease, RaiseFence, SpawnChild,
           ChildFinished, ChildStalls, ReleaseLease, TakeResult
    <3>3. token'[c] = token[c] /\ fence'[c] = fence[c] /\ stored'[c] = stored[c]
      BY <1>2, <1>9, <2>2 DEF Controller, CheckIsolation, AcquireLease, RaiseFence, Fenced,
         SpawnChild, ChildFinished, ChildStalls, ReleaseLease, TakeResult, storeVars
    <3>4. ASSUME NEW k \in Children, CtlOf(k) = c PROVE child'[k] = child[k] /\ bears'[k] = bears[k]
      <4>1. CASE SpawnChild(d)
        <5>1. PICK n \in Children : n = ChildOf(d) /\ CtlOf(n) = d
          BY <1>2, ChildOfFacts
        <5>2. child' = [child EXCEPT ![n] = "running"] /\ bears' = [bears EXCEPT ![n] = token[d]]
          BY <4>1, <5>1 DEF SpawnChild
        <5>3. k # n
          BY <2>2, <3>4, <5>1
        <5> QED BY <1>2, <5>1, <5>2, <5>3
      <4>2. CASE ~SpawnChild(d)
        BY <1>9, <4>2 DEF Controller, CheckIsolation, AcquireLease, RaiseFence,
           ChildFinished, ChildStalls, ReleaseLease, TakeResult
      <4> QED BY <4>1, <4>2
    <3> QED BY <1>5, <3>1, <3>2, <3>3, <3>4
  <2> QED BY <2>1, <2>2
<1>10. ASSUME NEW k \in Children, ExecutorReturns(k) PROVE InOrder(c)'
  BY <1>2, <1>10, <1>1 DEF ExecutorReturns, ctlVars, storeVars, InOrder
<1>11. ASSUME NEW k \in Children, Commit(k) PROVE InOrder(c)'
  <2>1. CASE CtlOf(k) = c
    BY <1>11, <2>1, CommitOrder
  <2>2. CASE CtlOf(k) # c
    BY TaskFacts, <1>2, <1>11, <2>2, <1>5 DEF CtlOf, Commit, ctlVars, storeVars
  <2> QED BY <2>1, <2>2
<1>12. ASSUME NEW x \in Controllers \cup Children, AbortLands(x) PROVE InOrder(c)'
  <2>1. UNCHANGED <<table, attempt, token, fence, stored, bears>>
    BY <1>12 DEF AbortLands, storeVars
  <2>2. CASE x \in Children
    BY <1>12, <2>2, TaskFacts, <1>2, <1>1, <2>1 DEF AbortLands, TasksKept, AbortedLive, LiveChild,
       InOrder
  <2>3. CASE x \notin Children
    BY <1>2, <1>12, <2>3, <1>1, <2>1 DEF AbortLands, ToStep, Behind, Granted, Spawned, InOrder
  <2> QED BY <2>2, <2>3
<1>13. ASSUME (\E n \in {TenureOf[f] : f \in Farms} : SweepClaims(n)) \/ FarmTick
                \/ UNCHANGED farmingVars
       PROVE  InOrder(c)'
  BY <1>6, <1>13 DEF SweepClaims, FarmTick, farmingVars, ctlVars, storeVars
<1> QED BY <1>7, <1>8, <1>9, <1>10, <1>11, <1>12, <1>13 DEF FarmNext, EndAtBudget, ParentDropped

-----------------------------------------------------------------------------
(* The theorems a reader should know of.                                   *)

(* The inductive invariant of a farm (farm.rs, fenced.rs).                 *)
THEOREM FarmInvariance == FarmSpec => []FarmIInv
<1>1. FarmIInv /\ [FarmNext]_farmingVars => FarmIInv'
  <2> SUFFICES ASSUME FarmIInv, [FarmNext]_farmingVars PROVE FarmIInv'
    OBVIOUS
  <2>1. FarmTyped /\ PermitsKept /\ AttemptsInOrder /\ TasksKept
    BY DEF FarmIInv, TasksKept
  <2>2. FarmTyped'
    BY <2>1, NextFarmTyped
  <2>3. TasksKept' /\ PermitsKept' /\ AttemptsInOrder'
    BY <2>1, <2>2, NextTasks, NextPermits, NextOrder
  <2> QED BY <2>2, <2>3 DEF FarmIInv, TasksKept
<1> QED BY <1>1, FarmInitIInv, PTL DEF FarmSpec

(* What a farm promises who calls it: what the controller takes is what    *)
(* its own attempt's child committed, a child whose retry is past the      *)
(* fence is refused, the permits are kept to, and nothing outlives the     *)
(* farm (farm.rs: run_farm, raise_fence, AbortOnDrop).                     *)
THEOREM FarmKeepsItsPromises == FarmSpec => FarmHolds
<1>1. FarmIInv => FarmTypeOK /\ CommittedIsReturned /\ NothingOutlivesFarm
  <2> SUFFICES ASSUME FarmIInv PROVE FarmTypeOK /\ CommittedIsReturned /\ NothingOutlivesFarm
    OBVIOUS
  <2>1. FarmTyped /\ AbortedLive /\ PermitsKept /\ AttemptsInOrder /\ NothingOutlivesFarm
    BY DEF FarmIInv
  <2>2. \A c \in Controllers : stored[c] \in 0..fence[c]
    BY <2>1 DEF AttemptsInOrder, InOrder, FarmTyped
  <2>3. FarmTypeOK
    BY <2>1, <2>2 DEF FarmTypeOK, FarmTyped, AbortedLive, PermitsKept
  <2>4. CommittedIsReturned
    BY <2>1, ChildOfFacts DEF FarmTyped, CommittedIsReturned, AttemptsInOrder, InOrder, Behind
  <2> QED BY <2>1, <2>3, <2>4
<1>2. FarmIInv /\ [FarmNext]_farmingVars =>
        \A k \in Children :
          child[k] = "committing" /\ child'[k] = "committed" /\ Stalled(k)
          => step[CtlOf(k)] \notin Behind
  <2> SUFFICES ASSUME FarmIInv, [FarmNext]_farmingVars, NEW k \in Children,
                      child[k] = "committing", child'[k] = "committed", Stalled(k),
                      step[CtlOf(k)] \in Behind
               PROVE  FALSE
    OBVIOUS
  <2> DEFINE c == CtlOf(k)
  <2>1. /\ child \in [Children -> ChildSteps] /\ attempt \in [Controllers -> Attempts]
        /\ bears[k] \in Nat /\ token[c] \in Nat /\ fence[c] \in Nat
        /\ c \in Controllers /\ c = <<k[1], k[2]>> /\ k[3] \in Nat /\ attempt[c] \in Nat
    BY TaskFacts, FarmConstantFacts DEF FarmIInv, FarmTyped, CtlOf, Attempts
  <2>2. attempt[c] > k[3] /\ InOrder(c)
    BY <2>1 DEF Stalled, FarmIInv, AttemptsInOrder
  <2>3. bears[k] < token[c] /\ fence[c] = token[c]
    BY <2>1, <2>2 DEF InOrder, Granted, Behind
  <2>4. ~Accepts(c, bears[k])
    BY <2>1, <2>3 DEF Accepts
  <2>5. ~Commit(k)
    BY <2>1, <2>4 DEF Commit
  <2>6. child'[k] # child[k]
    OBVIOUS
  <2>7. PICK l \in Children : child'[l] # child[l] /\ l = k
    BY <2>6
  <2>8. CASE \E d \in Controllers : SpawnChild(d)
    <3>1. PICK d \in Controllers : SpawnChild(d)
      BY <2>8
    <3>2. child' = [child EXCEPT ![ChildOf(d)] = "running"]
      BY <3>1 DEF SpawnChild
    <3> QED BY <2>1, <3>2
  <2>9. CASE \E m \in Children : ExecutorReturns(m) \/ Commit(m)
    BY <2>1, <2>5, <2>9 DEF ExecutorReturns, Commit
  <2>10. CASE \E x \in Controllers \cup Children : AbortLands(x)
    BY <2>1, <2>10 DEF AbortLands
  <2>11. \A d \in Controllers : Controller(d) => UNCHANGED child \/ SpawnChild(d)
    BY ControllerMoves DEF FarmIInv
  <2> QED
    BY <2>6, <2>8, <2>9, <2>10, <2>11 DEF FarmNext, StartFarm, FinishFarm, EndAtBudget,
       ParentDropped, DropControllers, SweepClaims, FarmTick, farmingVars
<1>3. FarmIInv /\ [FarmNext]_farmingVars =>
        [\A k \in Children :
           /\ child[k] = "committing" /\ child'[k] = "committed" /\ Stalled(k)
           => step[<<k[1], k[2]>>] \notin {"queueing", "watching", "releasing", "taking"}]_farmingVars
  BY <1>2 DEF CtlOf, Behind
<1> QED BY <1>1, <1>3, FarmInvariance, PTL DEF FarmSpec, FarmHolds, RetryFencesStalled
=============================================================================
