----------------------------- MODULE GuestBudget -----------------------------
(***************************************************************************)
(* What the guests of one plugin, or of the HTTP voice credential, may     *)
(* cost (server/guest_budget.rs): the turns of a day, the turns of a call, *)
(* and a token bucket for each sender, taken at admission                  *)
(* (server/admission.rs).                                                  *)
(*                                                                         *)
(* A request reads the clock, then takes the ledger's lock: two requests   *)
(* may take it in the other order than they read the clock.  A tick of the *)
(* clock is the time a bucket needs for one token, and a day is some of    *)
(* them.  Requests that are refused before they are counted are left out.  *)
(***************************************************************************)
EXTENDS Naturals, FiniteSets

CONSTANTS
    GuestRequests,    \* requests, side by side
    Guests,           \* session keys
    BudgetConfigs     \* the configurations explored

ASSUME GuestBudgetAssumption ==
    BudgetConfigs \subseteq
        [kind : {"call", "sender"},
         daily : Nat,             \* daily_turns; 0 is no cap
         perCall : Nat,           \* voice_turns_per_call; 0 is no cap
         burst : Nat,             \* guest_burst; 0 is no bucket
         tracked : Nat \ {0},     \* MAX_TRACKED
         ticks : Nat,             \* bound: the clock
         day : Nat \ {0},         \* ticks of a day
         guests : SUBSET Guests,
         turns : Nat]             \* bound: requests ever made

VARIABLES
    caps,        \* the configuration, fixed
    tick,        \* the clock
    request,     \* request[q]: the clock it has read, and whose it is
    guests,      \* GuestLedger
    asked,       \* bound
    counted,     \* history: admissions
    past         \* history: when each guest was last seen, who was forgotten,
                 \* and whether the clock was ever taken in the other order

budgetVars == <<caps, tick, request, guests, asked, counted, past>>

DayOf(t) == 1 + t \div caps.day
NoRequest == [at |-> "idle", who |-> CHOOSE g \in Guests : TRUE, read |-> 0]

BudgetInit ==
    /\ caps \in BudgetConfigs
    /\ tick = 0 /\ asked = 0
    /\ request = [q \in GuestRequests |-> NoRequest]
    /\ guests = [day |-> 0, turns |-> 0, seen |-> [g \in {} |-> 0], used |-> [g \in {} |-> 0]]
    /\ counted = {}
    /\ past = [seen |-> [g \in Guests |-> 0], lost |-> {}, latest |-> 0, crossed |-> FALSE]

TimePasses ==
    /\ tick < caps.ticks /\ tick' = tick + 1
    /\ UNCHANGED <<caps, request, guests, asked, counted, past>>

\* count_guest: the clock is read before the lock is taken.
Arrives(q, g) ==
    /\ request[q].at = "idle" /\ g \in caps.guests /\ asked < caps.turns
    /\ request' = [request EXCEPT ![q] = [at |-> "counting", who |-> g, read |-> tick]]
    /\ asked' = asked + 1
    /\ UNCHANGED <<caps, tick, guests, counted, past>>

-----------------------------------------------------------------------------
(* admit, under the lock.                                                  *)

\* A new day starts the count again.
OfDay(d) == IF guests.day = d THEN guests ELSE [guests EXCEPT !.day = d, !.turns = 0]

Tracked(l) == DOMAIN l.seen
\* forget_oldest: one of the least recently seen makes room.
Oldest(l) == {g \in Tracked(l) : \A h \in Tracked(l) : l.seen[g] <= l.seen[h]}
Forgets_Newest(l, who) ==       \* mutant: the most recently seen is forgotten
    IF who \in Tracked(l) \/ Cardinality(Tracked(l)) < caps.tracked THEN {{}}
    ELSE {{g} : g \in {h \in Tracked(l) : \A k \in Tracked(l) : l.seen[k] <= l.seen[h]}}
Forgets(l, who) ==
    IF who \in Tracked(l) \/ Cardinality(Tracked(l)) < caps.tracked THEN {{}}
    ELSE {{g} : g \in Oldest(l)}

Entry(l, who, gone, now, used) ==
    LET kept == (Tracked(l) \ gone) \cup {who}
    IN  [l EXCEPT !.seen = [g \in kept |-> IF g = who THEN now ELSE l.seen[g]],
                  !.used = [g \in kept |-> IF g = who THEN used ELSE l.used[g]]]

\* Turns a call has taken, or tokens a bucket has left once it is refilled.
\* A clock that reads earlier than the last refills nothing.
Had(l, who) == IF who \in Tracked(l) THEN l.used[who] ELSE IF caps.kind = "call" THEN 0 ELSE caps.burst
Refilled(l, who, now) ==
    LET more == Had(l, who) + (IF who \in Tracked(l) /\ now > l.seen[who] THEN now - l.seen[who] ELSE 0)
    IN  IF more > caps.burst THEN caps.burst ELSE more

\* The ledgers a call or a sender may leave, and whether it is admitted.
TakeCallTurn(l, who, now) ==
    LET admits == caps.perCall = 0 \/ Had(l, who) < caps.perCall
    IN  {[after |-> Entry(l, who, gone, now, IF admits THEN Had(l, who) + 1 ELSE Had(l, who)),
          gone |-> gone, admits |-> admits] : gone \in Forgets(l, who)}

TakeSenderToken(l, who, now) ==
    IF caps.burst = 0 THEN {[after |-> l, gone |-> {}, admits |-> TRUE]}
    ELSE LET tokens == Refilled(l, who, now)
         IN  {[after |-> Entry(l, who, gone, now, IF tokens > 0 THEN tokens - 1 ELSE 0),
               gone |-> gone, admits |-> tokens > 0] : gone \in Forgets(l, who)}

Taken(l, who, now) ==
    IF caps.kind = "call" THEN TakeCallTurn(l, who, now) ELSE TakeSenderToken(l, who, now)

\* The day's cap first, then the guest's; only an admitted turn is counted,
\* and for good.
DaySpent(l) == caps.daily > 0 /\ l.turns >= caps.daily
Passed(p, now) == [p EXCEPT !.crossed = @ \/ now < p.latest, !.latest = IF now > @ THEN now ELSE @]
AdmitGuest(q) ==
    LET who == request[q].who
        now == request[q].read
        l == OfDay(DayOf(now))
    IN  /\ request[q].at = "counting"
        /\ request' = [request EXCEPT ![q] = NoRequest]
        /\ IF DaySpent(l)
           THEN /\ guests' = l /\ UNCHANGED counted
                /\ past' = Passed(past, now)
           ELSE \E taken \in Taken(l, who, now) :
                  /\ guests' = IF taken.admits THEN [taken.after EXCEPT !.turns = @ + 1] ELSE taken.after
                  /\ counted' = IF taken.admits
                                THEN counted \cup {[who |-> who, n |-> Cardinality(counted), tick |-> now]}
                                ELSE counted
                  /\ past' = [Passed(past, now) EXCEPT !.seen[who] = now + 1, !.lost = @ \cup taken.gone]
        /\ UNCHANGED <<caps, tick, asked>>

BudgetNext ==
    \/ TimePasses
    \/ \E q \in GuestRequests : AdmitGuest(q) \/ \E g \in Guests : Arrives(q, g)

BudgetSpec == BudgetInit /\ [][BudgetNext]_budgetVars
-----------------------------------------------------------------------------
(* Properties.                                                             *)

TurnsOf(g, from, to) == Cardinality({c \in counted : c.who = g /\ c.tick \in from..to})
DayTurns(d) == Cardinality({c \in counted : DayOf(c.tick) = d})

\* Types; no more calls or senders are tracked than there is room for.
BudgetTypeOK ==
    /\ guests.turns \in 0..caps.turns /\ guests.day \in 0..DayOf(tick)
    /\ Tracked(guests) \subseteq Guests /\ DOMAIN guests.used = Tracked(guests)
    /\ Cardinality(Tracked(guests)) <= caps.tracked

\* No day has more turns than its cap, wherever requests meet midnight;
\* unless one that read the clock before another took the lock after it
\* (admit).
DayIsCapped ==
    caps.daily > 0 /\ ~past.crossed => \A d \in 1..DayOf(tick) : DayTurns(d) <= caps.daily

\* A call that was not forgotten has no more turns than its cap, however
\* many it asked for (take_call_turn).
CallIsCapped ==
    caps.kind = "call" /\ caps.perCall > 0 =>
        \A g \in Guests \ past.lost : TurnsOf(g, 0, caps.ticks) <= caps.perCall

\* In any stretch of time a sender that was not forgotten has its burst and
\* what refills meanwhile (take_sender_token).
SenderIsLimited ==
    caps.kind = "sender" /\ caps.burst > 0 /\ ~past.crossed =>
        \A g \in Guests \ past.lost : \A from \in 0..tick : \A to \in from..tick :
            TurnsOf(g, from, to) <= caps.burst + (to - from)

\* Whoever was forgotten was seen no later than those that are tracked, so
\* a guest cannot shed its count by asking (forget_oldest).
RecentAreTracked ==
    (~past.crossed /\ (caps.kind = "call" \/ caps.burst > 0)) =>
        \A g \in Guests \ Tracked(guests), h \in Tracked(guests) :
            past.seen[g] <= guests.seen[h] + 1

\* What the caps promise, with callers side by side and only so many of them
\* remembered: no day, no call and no sender has more than its turns, and
\* asking does not make the count forget one (take_daily_turn,
\* take_call_turn, take_sender_token).
BudgetHolds ==
    BudgetTypeOK /\ DayIsCapped /\ CallIsCapped /\ SenderIsLimited /\ RecentAreTracked

-----------------------------------------------------------------------------
(* What the source says and the code does not do.                          *)

\* "daily_turns: every guest turn of the plugin, per UTC day": a request
\* that read the clock before midnight and takes the lock after another day
\* has begun starts the count of both days again.
EveryDayIsCapped == caps.daily > 0 => \A d \in 1..DayOf(tick) : DayTurns(d) <= caps.daily
=============================================================================
