-------------------------- MODULE IntentQueue_proofs --------------------------
(***************************************************************************)
(* Proofs about the queue of one-shot intents, for any writers, intents,   *)
(* capacities and bounds.                                                  *)
(*                                                                         *)
(* The argument: every copy of the queue, however old, holds intents that  *)
(* were accepted, and every save is made to the file as it is; an intent   *)
(* is taken out of it by a drain only after its execution ended.  A drain  *)
(* has a live claim on the intent it has in hand, and on no other but      *)
(* those whose release failed to be logged.                                *)
(***************************************************************************)
EXTENDS IntentQueue, SequenceTheorems, FiniteSetTheorems, TLAPS

AllWriters == Writers \cup Tenures \cup {Reconcile}
InHand == {"deferring", "executing", "adding", "proving", "removing", "refreshing", "releasing"}
Ended == {"proving", "removing", "refreshing", "releasing"}
Idle == {"sleeping", "gating", "reading", "claiming"}
Run == [intent : Intents, at : 0..MaxNow, tenure : Tenures]

(* What the queue may be, in the file or in a copy of any age.             *)
Queues ==
  {q \in Seq(Intents) : /\ Len(q) <= MaxQueue
                        /\ \A i \in Intents : Queued(q, i) => i \in accepted}

QueuesKnown ==
  /\ accepted \subseteq Intents /\ withdrawn \subseteq accepted /\ done \subseteq accepted
  /\ disk \in Queues /\ mem \in Queues
  /\ copy \in [AllWriters -> Queues \cup {Unsaved}]
  /\ seen \in [Tenures -> Queues]

(* No id is twice in the file.                                             *)
IdsUnique == \A k, l \in DOMAIN disk : disk[k] = disk[l] => k = l

DrainsInOrder ==
  /\ step \in [Tenures -> DrainSteps]
  /\ current \in [Tenures -> Intents \cup {NoIntent}]
  /\ \A n \in Tenures : /\ step[n] \in InHand <=> current[n] # NoIntent
                        /\ current[n] # NoIntent => current[n] \in accepted
                        /\ step[n] \in Ended => current[n] \in done
  /\ slept \in [Tenures -> 0..MaxNow] /\ aborted \subseteq Tenures

LeadInOrder ==
  /\ now \in 0..MaxNow /\ tenure \in 0..MaxTenure
  /\ lead \in {"down", "follower", "reconciling", "leading"}
  /\ lead \in {"reconciling", "leading"} => tenure \in Tenures
  /\ lead = "reconciling" => step[tenure] = "none"
  /\ \A n \in Tenures : n > tenure => step[n] = "none"

(* A claim is of a tenure that has begun, and but for the intent its drain *)
(* has in hand, or could not give back, it has expired.                    *)
Spent(i) == i \in unreleased \/ IsExpired(table.leases[i], now)

ClaimsInHand ==
  /\ table \in LeaseTables /\ unreleased \subseteq accepted
  /\ \A n \in Tenures, i \in Intents : HeldBy(table, i, n) =>
       /\ n <= tenure
       /\ ~(lead = "reconciling" /\ n = tenure)
       /\ step[n] \in Idle => Spent(i)
       /\ step[n] \in InHand => i = current[n] \/ Spent(i)

RunsInRate == runs \in Seq(Run) /\ CapWithinTenure

IInv ==
  /\ QueuesKnown /\ IdsUnique /\ NothingLost
  /\ DrainsInOrder /\ LeadInOrder /\ ClaimsInHand /\ RunsInRate


-----------------------------------------------------------------------------
(* Constants, queues and claims.                                           *)

(* Every holder is a tenure, and no intent or queue stands for none.       *)
LEMMA ConstantFacts ==
  /\ Holders = Tenures /\ Tenures \subseteq Nat \ {0}
  /\ MaxTenure \in Nat /\ MaxNow \in Nat /\ MaxQueue \in Nat /\ MaxPerHour \in Nat /\ Hour \in Nat
  /\ Unsaved \notin Seq(Intents) /\ NoIntent \notin Intents
  /\ MaxToken \in Nat /\ NoLease \notin Lease
  /\ \A i \in Intents : TtlOf[i] \in 1..MaxTtl /\ TtlOf[i] \in Nat
<1>1. /\ Holders = Tenures /\ MaxTenure \in Nat /\ MaxNow \in Nat /\ MaxQueue \in Nat
      /\ MaxPerHour \in Nat /\ Hour \in Nat
      /\ Unsaved \notin Seq(Intents) /\ NoIntent \notin Intents
  BY IntentConstants
<1>2. Tenures \subseteq Nat \ {0}
  BY <1>1 DEF Tenures
<1>3. /\ MaxToken \in Nat /\ NoLease \notin Lease
      /\ \A i \in Intents : TtlOf[i] \in 1..MaxTtl /\ TtlOf[i] \in Nat
  BY LeaseConstants DEF Lease, Intents
<1> QED BY <1>1, <1>2, <1>3

(* push adds the intent or nothing, within the capacity (intent.rs: push). *)
LEMMA PushedFacts ==
  ASSUME NEW q \in Seq(Intents), Len(q) <= MaxQueue, NEW i \in Intents
  PROVE  /\ Pushed(q, i) \in Seq(Intents) /\ Len(Pushed(q, i)) <= MaxQueue
         /\ \A j : Queued(Pushed(q, i), j) <=> Queued(q, j) \/ (CanPush(q, i) /\ j = i)
<1>1. MaxQueue \in Nat
  BY ConstantFacts
<1>2. CASE CanPush(q, i)
  <2>1. Len(q) < MaxQueue /\ Pushed(q, i) = Append(q, i)
    BY <1>2 DEF CanPush, Pushed
  <2>2. /\ Append(q, i) \in Seq(Intents) /\ Len(Append(q, i)) = Len(q) + 1
        /\ \A k \in 1..Len(q) : Append(q, i)[k] = q[k]
        /\ Append(q, i)[Len(q) + 1] = i
        /\ Len(q) \in Nat /\ DOMAIN q = 1..Len(q) /\ DOMAIN Append(q, i) = 1..(Len(q) + 1)
    OBVIOUS
  <2>3. ASSUME NEW j PROVE Queued(Append(q, i), j) <=> Queued(q, j) \/ j = i
    <3>1. Queued(Append(q, i), j) => Queued(q, j) \/ j = i
      <4> SUFFICES ASSUME NEW k \in 1..(Len(q) + 1), Append(q, i)[k] = j, j # i
                   PROVE  Queued(q, j)
        BY <2>2 DEF Queued
      <4>1. k \in 1..Len(q)
        BY <2>2
      <4> QED BY <4>1, <2>2 DEF Queued
    <3>2. Queued(q, j) => Queued(Append(q, i), j)
      BY <2>2 DEF Queued
    <3>3. Queued(Append(q, i), i)
      BY <2>2 DEF Queued
    <3> QED BY <3>1, <3>2, <3>3
  <2> QED BY <1>1, <1>2, <2>1, <2>2, <2>3
<1>3. CASE ~CanPush(q, i)
  BY <1>3 DEF Pushed
<1> QED BY <1>2, <1>3

(* remove takes nothing out but the intent (intent.rs: remove_by_id).      *)
LEMMA WithoutFacts ==
  ASSUME NEW q \in Seq(Intents), NEW i
  PROVE  /\ Without(q, i) \in Seq(Intents) /\ Len(Without(q, i)) <= Len(q)
         /\ \A j : Queued(Without(q, i), j) => Queued(q, j)
         /\ \A j : Queued(q, j) /\ j # i => Queued(Without(q, i), j)
         /\ (\A k, l \in DOMAIN q : q[k] = q[l] => k = l)
              => \A k, l \in DOMAIN Without(q, i) : Without(q, i)[k] = Without(q, i)[l] => k = l
<1>1. CASE ~Queued(q, i)
  BY <1>1 DEF Without
<1>2. CASE Queued(q, i)
  <2> DEFINE p == CHOOSE k \in DOMAIN q : q[k] = i
             w == Without(q, i)
             n == Len(q)
  <2>1. p \in 1..n /\ q[p] = i /\ n \in Nat /\ DOMAIN q = 1..n /\ Len(q) = n
    BY <1>2 DEF Queued
  <2>2. w = SubSeq(q, 1, p - 1) \o SubSeq(q, p + 1, n)
    BY <1>2 DEF Without
  <2> HIDE DEF p, n
  <2>3. PICK s1 : /\ s1 = SubSeq(q, 1, p - 1)
                  /\ s1 \in Seq(Intents) /\ Len(s1) = p - 1
                  /\ \A k \in 1..(p - 1) : s1[k] = q[k]
    <3>1. 1 \in Int /\ p - 1 \in Int /\ \A k \in 1..(p - 1) : q[k] \in Intents
      BY <2>1
    <3>2. PICK t : t = SubSeq(q, 1, p - 1)
      OBVIOUS
    <3>3. /\ t \in Seq(Intents) /\ Len(t) = IF 1 <= p - 1 THEN (p - 1) - 1 + 1 ELSE 0
          /\ \A k \in 1..((p - 1) - 1 + 1) : t[k] = q[1 + k - 1]
      BY <3>1, <3>2, SubSeqProperties
    <3>4. Len(t) = p - 1 /\ \A k \in 1..(p - 1) : t[k] = q[k]
      BY <3>3, <2>1
    <3> QED BY <3>2, <3>3, <3>4
  <2>4. PICK s2 : /\ s2 = SubSeq(q, p + 1, n)
                  /\ s2 \in Seq(Intents) /\ Len(s2) = n - p
                  /\ \A k \in 1..(n - p) : s2[k] = q[p + k]
    <3>1. p + 1 \in Int /\ n \in Int /\ \A k \in (p + 1)..n : q[k] \in Intents
      BY <2>1
    <3>2. PICK t : t = SubSeq(q, p + 1, n)
      OBVIOUS
    <3>3. /\ t \in Seq(Intents) /\ Len(t) = IF p + 1 <= n THEN n - (p + 1) + 1 ELSE 0
          /\ \A k \in 1..(n - (p + 1) + 1) : t[k] = q[(p + 1) + k - 1]
      BY <3>1, <3>2, SubSeqProperties
    <3>4. Len(t) = n - p /\ \A k \in 1..(n - p) : t[k] = q[p + k]
      BY <3>3, <2>1
    <3> QED BY <3>2, <3>3, <3>4
  <2>5. /\ w \in Seq(Intents) /\ Len(w) = n - 1 /\ DOMAIN w = 1..(n - 1)
        /\ \A k \in 1..(n - 1) : w[k] = IF k < p THEN q[k] ELSE q[k + 1]
    <3> HIDE DEF w
    <3>1. /\ w = s1 \o s2 /\ w \in Seq(Intents) /\ Len(w) = Len(s1) + Len(s2)
          /\ \A k \in 1..(Len(s1) + Len(s2)) :
                w[k] = IF k <= Len(s1) THEN s1[k] ELSE s2[k - Len(s1)]
      BY <2>2, <2>3, <2>4, ConcatProperties
    <3>2. Len(w) = n - 1 /\ DOMAIN w = 1..(n - 1)
      BY <3>1, <2>1, <2>3, <2>4
    <3>3. ASSUME NEW k \in 1..(n - 1) PROVE w[k] = IF k < p THEN q[k] ELSE q[k + 1]
      <4>1. CASE k < p
        BY <4>1, <3>1, <2>1, <2>3, <2>4
      <4>2. CASE ~(k < p)
        BY <4>2, <2>1, <2>3, <2>4, <3>1
      <4> QED BY <4>1, <4>2
    <3> QED BY <3>1, <3>2, <3>3
  <2> HIDE DEF w
  <2>6. ASSUME NEW j, Queued(w, j) PROVE Queued(q, j)
    <3>1. PICK k \in 1..(n - 1) : w[k] = j
      BY <2>5, <2>6 DEF Queued
    <3> QED BY <3>1, <2>1, <2>5, SMTT(30) DEF Queued
  <2>7. ASSUME NEW j, Queued(q, j), j # i PROVE Queued(w, j)
    <3>1. PICK k \in 1..n : q[k] = j
      BY <2>1, <2>7 DEF Queued
    <3>2. k # p
      BY <3>1, <2>1, <2>7
    <3>3. CASE k < p
      BY <3>1, <3>3, <2>1, <2>5 DEF Queued
    <3>4. CASE k > p
      <4>1. k - 1 \in 1..(n - 1) /\ ~(k - 1 < p) /\ (k - 1) + 1 = k
        BY <3>4, <2>1
      <4>2. w[k - 1] = q[k]
        BY <4>1, <2>5
      <4> QED BY <4>1, <4>2, <3>1, <2>5 DEF Queued
    <3> QED BY <3>2, <3>3, <3>4, <2>1
  <2>8. ASSUME \A k, l \in DOMAIN q : q[k] = q[l] => k = l,
               NEW k \in DOMAIN w, NEW l \in DOMAIN w, w[k] = w[l]
        PROVE  k = l
    <3>1. k \in 1..(n - 1) /\ l \in 1..(n - 1) /\ DOMAIN q = 1..n
      BY <2>5, <2>1
    <3> DEFINE from(m) == IF m < p THEN m ELSE m + 1
    <3>2. from(k) \in 1..n /\ from(l) \in 1..n
      BY <3>1, <2>1
    <3>3. q[from(k)] = q[from(l)]
      BY <3>1, <2>5, <2>8
    <3>4. from(k) = from(l)
      BY <3>1, <3>2, <3>3, <2>8
    <3> QED BY <3>1, <3>4, <2>1
  <2>9. Len(w) <= Len(q)
    BY <2>1, <2>5
  <2> QED BY <2>5, <2>6, <2>7, <2>8, <2>9 DEF w
<1> QED BY <1>1, <1>2


(* A claim is one lease more, of this drain and of now (lease.rs:          *)
(* acquire); giving it back or proving it changes that lease and no other. *)
LEMMA ClaimFacts ==
  ASSUME NEW i \in Intents, NEW n \in Tenures, table \in LeaseTables, now \in 0..MaxNow
  PROVE  /\ CanAcquire(table, i, now) /\ table' = Acquire(table, i, n, now) =>
              /\ table' \in LeaseTables /\ table'.leases[i].holder = n
              /\ \A j \in Intents : j # i => table'.leases[j] = table.leases[j]
         /\ CanRenew(table, i, n, now) /\ table' = Renew(table, i, now) =>
              /\ table' \in LeaseTables /\ table'.leases[i].holder = n
              /\ \A j \in Intents : j # i => table'.leases[j] = table.leases[j]
         /\ CanRelease(table, i, n) /\ table' = Release(table, i) =>
              /\ table' \in LeaseTables /\ table'.leases[i] = NoLease
              /\ \A j \in Intents : j # i => table'.leases[j] = table.leases[j]
<1>1. /\ now \in Nat /\ n \in Holders /\ i \in Resources /\ NoLease \notin Lease
      /\ TtlOf[i] \in 1..MaxTtl /\ MaxToken \in Nat /\ Intents = Resources
      /\ table.leases \in [Resources -> Lease \cup {NoLease}]
      /\ table.marks \in [Resources -> 0..MaxToken]
  BY ConstantFacts DEF LeaseTables, Intents
<1>2. ASSUME CanAcquire(table, i, now), table' = Acquire(table, i, n, now)
      PROVE  /\ table' \in LeaseTables /\ table'.leases[i].holder = n
             /\ \A j \in Intents : j # i => table'.leases[j] = table.leases[j]
  <2> DEFINE g == GrantedLease(table, i, n, now)
  <2>1. g \in Lease /\ g.holder = n
    BY <1>1, <1>2 DEF CanAcquire, TokenAvailable, GrantedLease, NextToken, Lease
  <2>2. table' = [leases |-> [table.leases EXCEPT ![i] = g],
                  marks |-> [table.marks EXCEPT ![i] = g.token]]
    BY <1>2 DEF Acquire, WithLease
  <2>3. g.token \in 0..MaxToken
    BY <2>1, <1>1 DEF Lease
  <2> HIDE DEF g
  <2> QED BY <1>1, <2>1, <2>2, <2>3 DEF LeaseTables
<1>3. ASSUME CanRenew(table, i, n, now), table' = Renew(table, i, now)
      PROVE  /\ table' \in LeaseTables /\ table'.leases[i].holder = n
             /\ \A j \in Intents : j # i => table'.leases[j] = table.leases[j]
  <2>1. table.leases[i] \in Lease /\ table.leases[i].holder = n
    BY <1>1, <1>3 DEF CanRenew, HeldBy, Held
  <2> DEFINE g == RenewedLease(table.leases[i], i, now)
  <2>2. g \in Lease /\ g.holder = n
    BY <2>1, <1>1 DEF RenewedLease, Lease
  <2>3. table' = [table EXCEPT !.leases = [table.leases EXCEPT ![i] = g]]
    BY <1>3 DEF Renew
  <2> HIDE DEF g
  <2> QED BY <1>1, <2>2, <2>3 DEF LeaseTables
<1>4. ASSUME table' = Release(table, i)
      PROVE  /\ table' \in LeaseTables /\ table'.leases[i] = NoLease
             /\ \A j \in Intents : j # i => table'.leases[j] = table.leases[j]
  BY <1>4, <1>1 DEF Release, LeaseTables
<1> QED BY <1>2, <1>3, <1>4

-----------------------------------------------------------------------------
(* The drains, the leadership loop and the clock.                          *)

(* At boot the queue is empty and nothing is claimed.                      *)
LEMMA InitIInv == Init => IInv
<1> SUFFICES ASSUME Init PROVE IInv
  OBVIOUS
<1>1. <<>> \in Queues /\ \A i : ~Queued(<<>>, i)
  BY ConstantFacts DEF Queues, Queued
<1>2. QueuesKnown /\ IdsUnique /\ NothingLost
  BY <1>1 DEF Init, QueuesKnown, IdsUnique, NothingLost, AllWriters
<1>3. DrainsInOrder /\ LeadInOrder
  BY ConstantFacts DEF Init, DrainsInOrder, DrainSteps, InHand, Ended, LeadInOrder
<1>4. ClaimsInHand
  BY ConstantFacts DEF Init, ClaimsInHand, EmptyTable, LeaseTables, HeldBy, Held, Intents
<1>5. RunsInRate
  <2>1. \A n \in Tenures : RecentRuns(n) = {}
    BY DEF Init, RecentRuns
  <2>2. Cardinality({}) = 0
    BY FS_EmptySet
  <2>3. 0 <= MaxPerHour
    BY ConstantFacts
  <2>4. CapWithinTenure
    BY <2>1, <2>2, <2>3 DEF CapWithinTenure
  <2>5. runs \in Seq(Run)
    BY DEF Init
  <2> QED BY <2>4, <2>5 DEF RunsInRate
<1> QED BY <1>2, <1>3, <1>4, <1>5 DEF IInv

(* A drain has an intent in hand from its claim to its release, whichever  *)
(* step it takes.                                                          *)
LEMMA DrainStepKeeps ==
  ASSUME DrainsInOrder, accepted \subseteq accepted', done \subseteq done',
         NEW n \in Tenures, NEW s \in DrainSteps, NEW c \in Intents \cup {NoIntent},
         step' = [step EXCEPT ![n] = s],
         current' = [current EXCEPT ![n] = c] \/ (current' = current /\ c = current[n]),
         slept' \in [Tenures -> 0..MaxNow], aborted' \subseteq Tenures,
         s \in InHand <=> c # NoIntent,
         c # NoIntent => c \in accepted',
         s \in Ended => c \in done'
  PROVE  DrainsInOrder'
<1>1. /\ step \in [Tenures -> DrainSteps] /\ current \in [Tenures -> Intents \cup {NoIntent}]
      /\ \A m \in Tenures : /\ step[m] \in InHand <=> current[m] # NoIntent
                            /\ current[m] # NoIntent => current[m] \in accepted
                            /\ step[m] \in Ended => current[m] \in done
  BY DEF DrainsInOrder
<1>2. /\ step' \in [Tenures -> DrainSteps] /\ current' \in [Tenures -> Intents \cup {NoIntent}]
      /\ step'[n] = s /\ current'[n] = c
      /\ \A m \in Tenures \ {n} : step'[m] = step[m] /\ current'[m] = current[m]
  BY <1>1
<1>3. ASSUME NEW m \in Tenures
      PROVE  /\ step'[m] \in InHand <=> current'[m] # NoIntent
             /\ current'[m] # NoIntent => current'[m] \in accepted'
             /\ step'[m] \in Ended => current'[m] \in done'
  BY <1>2, <1>1
<1> QED BY <1>2, <1>3 DEF DrainsInOrder, InHand, Ended

(* What was accepted or executed once stays so.                            *)
LEMMA HistoryGrows ==
  ASSUME [Next]_vars PROVE accepted \subseteq accepted' /\ done \subseteq done'
<1>1. ASSUME NEW n \in Tenures, Drain(n) PROVE accepted \subseteq accepted' /\ done \subseteq done'
  BY <1>1 DEF Poll, Gate, ReadQueue, ClaimNext, Defer, EndExecution, ChildStored, ProveClaim,
     history, RemoveIntent, RemovalStored, FinishIntent, AbortLands, AddChild, Accepts, Drain
<1>2. CASE (\E w \in Writers, i \in Intents : PushIntent(w, i)) \/ \E i \in Intents : CliAdd(i)
  BY <1>2 DEF PushIntent, CliAdd, Accepts
<1>3. CASE \/ \E w \in Writers : WriterStores(w)
           \/ \E i \in Intents : CliRemove(i)
           \/ CliClear \/ Boot \/ BeginTenure \/ StartDrain \/ EndTenure \/ Crash \/ Tick
           \/ UNCHANGED vars
  BY <1>3 DEF WriterStores, CliRemove, CliClear, Boot, BeginTenure, StartDrain, EndTenure, Crash,
     Tick, vars, history
<1> QED BY <1>1, <1>2, <1>3 DEF Next

(* The steps of a drain.                                                   *)
LEMMA DrainKeepsDrains ==
  ASSUME IInv, [Next]_vars, NEW n \in Tenures, Drain(n)
  PROVE  DrainsInOrder'
<1>1. /\ DrainsInOrder /\ accepted \subseteq accepted' /\ done \subseteq done'
      /\ NoIntent \notin Intents /\ now \in 0..MaxNow
  BY HistoryGrows, ConstantFacts DEF IInv, LeadInOrder
<1>2. /\ step[n] \in DrainSteps /\ current[n] \in Intents \cup {NoIntent}
      /\ step[n] \in InHand <=> current[n] # NoIntent
      /\ current[n] # NoIntent => current[n] \in accepted'
      /\ step[n] \in Ended => current[n] \in done'
      /\ slept \in [Tenures -> 0..MaxNow] /\ aborted \subseteq Tenures
  BY <1>1 DEF DrainsInOrder
<1>3. CASE Sleep(n) /\ UNCHANGED aborted
  BY <1>1, <1>2, <1>3, DrainStepKeeps DEF Sleep, Goto, DrainSteps, InHand, Ended
<1>4. ASSUME NEW s \in DrainSteps, Goto(n, s), UNCHANGED <<current, slept>>, aborted' \subseteq aborted,
             s \in InHand <=> step[n] \in InHand,
             s \in Ended => step[n] \in Ended \/ current[n] \in done'
      PROVE  DrainsInOrder'
  BY <1>2, <1>4, <1>1, DrainStepKeeps DEF Goto
<1> USE DEF history
<1>5. CASE Poll(n)
  BY <1>4, <1>5 DEF Poll, DrainSteps, InHand, Ended
<1>6. CASE Gate(n)
  BY <1>4, <1>6 DEF Gate, DrainSteps, InHand, Ended
<1>7. CASE ReadQueue(n)
  BY <1>3, <1>4, <1>7 DEF ReadQueue, DrainSteps, InHand, Ended
<1>8. CASE ClaimNext(n)
  <2>1. CASE Sleep(n)
    BY <1>3, <1>8, <2>1 DEF ClaimNext
  <2>2. ASSUME NEW k \in NextCandidate(n), NEW s \in {"executing", "deferring"},
               current' = [current EXCEPT ![n] = seen[n][k]], UNCHANGED <<slept, aborted>>, Goto(n, s)
        PROVE  DrainsInOrder'
    <3>1. k \in DOMAIN seen[n] /\ seen[n] \in Queues
      BY <2>2 DEF NextCandidate, IInv, QueuesKnown
    <3>2. seen[n][k] \in Intents /\ seen[n][k] \in accepted'
      BY <1>1, <3>1 DEF Queues, Queued
    <3>3. s \in DrainSteps /\ s \in InHand /\ s \notin Ended
      BY <2>2 DEF DrainSteps, InHand, Ended
    <3> QED BY <1>1, <1>2, <2>2, <3>2, <3>3, DrainStepKeeps DEF Goto
  <2> QED BY <1>8, <2>1, <2>2 DEF ClaimNext
<1>9. CASE Defer(n) \/ FinishIntent(n)
  BY <1>3, <1>9 DEF Defer, FinishIntent
<1>10. CASE EndExecution(n)
  BY <1>10, <1>4 DEF EndExecution, DrainSteps, InHand, Ended
<1>11. CASE (\E i \in Intents : AddChild(n, i)) \/ ChildStored(n)
  BY <1>4, <1>11 DEF AddChild, ChildStored, DrainSteps, InHand, Ended
<1>12. CASE ProveClaim(n)
  BY <1>3, <1>4, <1>12 DEF ProveClaim, DrainSteps, InHand, Ended
<1>13. CASE RemoveIntent(n)
  BY <1>4, <1>13 DEF RemoveIntent, DrainSteps, InHand, Ended
<1>14. CASE RemovalStored(n)
  BY <1>4, <1>14 DEF RemovalStored, DrainSteps, InHand, Ended
<1>15. CASE AbortLands(n)
  BY <1>1, <1>2, <1>15, DrainStepKeeps DEF DrainSteps, InHand, Ended, AbortLands, Goto
<1> QED BY <1>5, <1>6, <1>7, <1>8, <1>9, <1>10, <1>11, <1>12, <1>13, <1>14, <1>15 DEF Drain

(* The others move a drain only where a tenure begins or all is lost.      *)
LEMMA NextDrains ==
  ASSUME IInv, [Next]_vars
  PROVE  DrainsInOrder'
<1>1. /\ DrainsInOrder /\ accepted \subseteq accepted' /\ done \subseteq done' /\ now \in 0..MaxNow
  BY HistoryGrows DEF IInv, LeadInOrder
<1>2. ASSUME NEW n \in Tenures, Drain(n) PROVE DrainsInOrder'
  BY <1>2, DrainKeepsDrains
<1>3. CASE UNCHANGED <<step, current, slept>> /\ aborted' \subseteq Tenures
  BY <1>1, <1>3 DEF DrainsInOrder
<1>4. CASE StartDrain
  BY <1>4, <1>1, DrainStepKeeps DEF StartDrain, IInv, LeadInOrder, DrainsInOrder, InHand,
     DrainSteps, Ended
<1>5. CASE EndTenure
  BY <1>5, <1>1, <1>3 DEF EndTenure, IInv, LeadInOrder, DrainsInOrder
<1>6. CASE Crash
  BY <1>1, <1>6 DEF Crash, DrainsInOrder, DrainSteps, InHand, Ended
<1>7. CASE \/ \E w \in Writers, i \in Intents : PushIntent(w, i)
           \/ \E w \in Writers : WriterStores(w)
           \/ \E i \in Intents : CliAdd(i) \/ CliRemove(i)
           \/ CliClear \/ Boot \/ BeginTenure \/ Tick \/ UNCHANGED vars
  BY <1>7, <1>1, <1>3 DEF PushIntent, WriterStores, CliAdd, CliRemove, CliClear, Boot,
     BeginTenure, Tick, vars, drainVars, DrainsInOrder
<1> QED BY <1>2, <1>4, <1>5, <1>6, <1>7 DEF Next


(* Tenures begin one after the other, and a drain no earlier than its      *)
(* tenure (control.rs).                                                    *)
LEMMA NextLead ==
  ASSUME IInv, [Next]_vars
  PROVE  LeadInOrder'
<1>1. /\ LeadInOrder /\ MaxNow \in Nat /\ MaxTenure \in Nat /\ Tenures \subseteq Nat
      /\ step \in [Tenures -> DrainSteps] /\ tenure \in Nat
  BY ConstantFacts DEF IInv, DrainsInOrder, LeadInOrder
<1>2. ASSUME NEW n \in Tenures, Drain(n) PROVE LeadInOrder'
  <2>1. step[n] # "none" \/ n \in aborted
    BY <1>2 DEF Drain, Poll, Gate, ReadQueue, ClaimNext, Defer, EndExecution, AddChild, ChildStored,
       ProveClaim, RemoveIntent, RemovalStored, FinishIntent, AbortLands
  <2>2. PICK s : step' = [step EXCEPT ![n] = s] /\ (step[n] = "none" => s = "none")
    BY <1>2 DEF Poll, Gate, EndExecution, ChildStored, RemovalStored, AbortLands, Goto, ReadQueue,
       ProveClaim, Defer, FinishIntent, Sleep, ClaimNext, RemoveIntent, AddChild, Drain
  <2>3. UNCHANGED <<now, leadVars>>
    BY <1>2 DEF Drain, Poll, Gate, ReadQueue, ClaimNext, Defer, EndExecution, AddChild, ChildStored,
       ProveClaim, RemoveIntent, RemovalStored, FinishIntent, AbortLands
  <2>4. \A m \in Tenures : step[m] = "none" => step'[m] = "none"
    BY <1>1, <2>2
  <2> QED BY <1>1, <2>3, <2>4 DEF LeadInOrder, leadVars
<1>3. CASE BeginTenure
  BY <1>1, <1>3 DEF BeginTenure, LeadInOrder, Tenures, drainVars
<1>4. CASE StartDrain
  BY <1>1, <1>4 DEF StartDrain, LeadInOrder
<1>5. CASE Boot \/ EndTenure
  BY <1>1, <1>5 DEF Boot, EndTenure, LeadInOrder, drainVars
<1>6. CASE Crash
  BY <1>1, <1>6 DEF Crash, LeadInOrder
<1>7. CASE Tick
  BY <1>1, <1>7 DEF Tick, LeadInOrder, leadVars, drainVars
<1>8. CASE \/ \E w \in Writers, i \in Intents : PushIntent(w, i)
           \/ \E w \in Writers : WriterStores(w)
           \/ \E i \in Intents : CliAdd(i) \/ CliRemove(i)
           \/ CliClear \/ UNCHANGED vars
  BY <1>8, <1>1 DEF PushIntent, WriterStores, CliAdd, CliRemove, CliClear, vars, drainVars,
     leadVars, LeadInOrder
<1> QED BY <1>2, <1>3, <1>4, <1>5, <1>6, <1>7, <1>8 DEF Next

-----------------------------------------------------------------------------
(* The claims.                                                             *)

(* Where no claim is added and no drain goes idle, claims stay in hand.    *)
LEMMA ClaimsStay ==
  ASSUME IInv, UNCHANGED <<now, table, tenure, unreleased>>, accepted \subseteq accepted',
         lead' = "reconciling" => lead = "reconciling",
         \A n \in Tenures :
            \/ step'[n] = "none"
            \/ /\ step'[n] \in Idle => step[n] \in Idle
               /\ step'[n] \in InHand => step[n] \in InHand /\ current'[n] = current[n]
  PROVE  ClaimsInHand'
<1>1. "none" \notin Idle /\ "none" \notin InHand
  BY DEF Idle, InHand
<1> QED BY <1>1 DEF IInv, ClaimsInHand, Spent, HeldBy, Held, IsExpired, ExpiresAt

(* A drain gives its claim back before it sleeps, or the claim is no more  *)
(* its own, has expired or failed to be given back (intent.rs: defer_intent,                       *)
(* commit_intent_completion).                                              *)
LEMMA DrainKeepsClaims ==
  ASSUME IInv, [Next]_vars, NEW n \in Tenures, Drain(n)
  PROVE  ClaimsInHand'
<1>1. /\ table \in LeaseTables /\ now \in 0..MaxNow /\ MaxNow \in Nat
      /\ step \in [Tenures -> DrainSteps] /\ current \in [Tenures -> Intents \cup {NoIntent}]
      /\ tenure \in Nat /\ Tenures \subseteq Nat /\ NoIntent \notin Intents
      /\ step[n] \in InHand <=> current[n] # NoIntent
      /\ \A m \in Tenures : m > tenure => step[m] = "none"
      /\ lead = "reconciling" => step[tenure] = "none"
      /\ unreleased \subseteq accepted /\ accepted \subseteq accepted'
      /\ current[n] # NoIntent => current[n] \in accepted
  BY HistoryGrows, ConstantFacts DEF IInv, ClaimsInHand, LeadInOrder, DrainsInOrder
<1>2. UNCHANGED <<now, tenure, lead>>
  BY DEF Drain, Poll, Gate, ReadQueue, ClaimNext, Defer, EndExecution, AddChild, ChildStored,
     ProveClaim, RemoveIntent, RemovalStored, FinishIntent, AbortLands, leadVars
<1> USE DEF Goto, history
<1>3. CASE Poll(n) \/ Gate(n)
  BY <1>1, <1>2, <1>3, ClaimsStay DEF Poll, Gate, Idle, InHand
<1>4. CASE ReadQueue(n)
  BY <1>1, <1>2, <1>4, ClaimsStay DEF ReadQueue, Sleep, Idle, InHand
<1>5. CASE EndExecution(n) \/ ChildStored(n) \/ RemovalStored(n) \/ RemoveIntent(n)
  BY <1>1, <1>2, <1>5, ClaimsStay DEF EndExecution, ChildStored, RemovalStored, RemoveIntent, Idle, InHand
<1>6. CASE \E i \in Intents : AddChild(n, i)
  BY <1>1, <1>2, <1>6, ClaimsStay DEF AddChild, Idle, InHand
<1>7. CASE AbortLands(n)
  BY <1>1, <1>2, <1>7, ClaimsStay DEF AbortLands, Idle, InHand
<1>8. CASE Sleep(n) /\ ReleaseClaim(n) /\ step[n] \in InHand
  <2>1. current[n] \in Intents
    BY <1>1, <1>8
  <2>2. /\ table' \in LeaseTables /\ unreleased \subseteq unreleased'
        /\ unreleased' \subseteq accepted
        /\ \A i \in Intents : i # current[n] => table'.leases[i] = table.leases[i]
        /\ HeldBy(table', current[n], n) => current[n] \in unreleased'
        /\ \/ table'.leases[current[n]] = table.leases[current[n]]
           \/ table'.leases[current[n]] = NoLease
    BY <1>1, <1>8, <2>1, ClaimFacts DEF ReleaseClaim, CanRelease, HeldBy, Held
  <2>3. /\ step'[n] = "sleeping" /\ \A m \in Tenures : m # n => step'[m] = step[m] /\ current'[m] = current[m]
    BY <1>1, <1>8 DEF Sleep
  <2>4. ASSUME NEW m \in Tenures, NEW i \in Intents, HeldBy(table', i, m)
        PROVE  /\ HeldBy(table, i, m) /\ table'.leases[i] = table.leases[i]
               /\ m = n => i # current[n] \/ i \in unreleased'
               /\ Spent(i) => Spent(i)'
    BY <1>2, <2>2, <2>4 DEF HeldBy, Held, Spent, IsExpired, ExpiresAt
  <2>5. "sleeping" \notin InHand
    BY DEF InHand
  <2>6. ASSUME NEW m \in Tenures, NEW i \in Intents, HeldBy(table', i, m)
        PROVE  /\ m <= tenure /\ ~(lead = "reconciling" /\ m = tenure)
               /\ step'[m] \in Idle => Spent(i)'
               /\ step'[m] \in InHand => i = current'[m] \/ Spent(i)'
    BY <2>4, <2>6, <1>8, <2>3, <2>5 DEF IInv, ClaimsInHand, Spent
  <2> QED BY <1>1, <1>2, <2>2, <2>6 DEF ClaimsInHand, HeldBy, Held
<1>9. CASE Defer(n) \/ FinishIntent(n)
  BY <1>8, <1>9 DEF Defer, FinishIntent, InHand
<1> DEFINE Takes(i) ==
      /\ table' \in LeaseTables /\ table'.leases[i].holder = n
      /\ unreleased' \in {unreleased, unreleased \ {i}}
      /\ \A j \in Intents : j # i => table'.leases[j] = table.leases[j]
      /\ \E s \in InHand : step' = [step EXCEPT ![n] = s]
      /\ current'[n] = i /\ \A m \in Tenures : m # n => current'[m] = current[m]
<1>10. ASSUME NEW i \in Intents, Takes(i), step[n] \in Idle \/ current[n] = i, step[n] # "none"
       PROVE  ClaimsInHand'
  <2>1. /\ step'[n] \in InHand /\ \A m \in Tenures : m # n => step'[m] = step[m]
    BY <1>1, <1>10
  <2>2. n <= tenure /\ ~(lead = "reconciling" /\ n = tenure)
    BY <1>1, <1>10
  <2>3. \A s \in InHand : s \notin Idle
    BY DEF InHand, Idle
  <2>4. ASSUME NEW m \in Tenures, NEW j \in Intents, HeldBy(table', j, m)
        PROVE  /\ m <= tenure /\ ~(lead = "reconciling" /\ m = tenure)
               /\ step'[m] \in Idle => Spent(j)'
               /\ step'[m] \in InHand => j = current'[m] \/ Spent(j)'
    <3>1. CASE j = i
      BY <3>1, <2>4, <1>10, <2>1, <2>2, <2>3 DEF HeldBy
    <3>2. CASE j # i
      <4>1. /\ table'.leases[j] = table.leases[j] /\ HeldBy(table, j, m)
            /\ Spent(j) => Spent(j)'
        BY <3>2, <2>4, <1>2, <1>10 DEF HeldBy, Held, Spent, IsExpired, ExpiresAt
      <4>2. /\ m <= tenure /\ ~(lead = "reconciling" /\ m = tenure)
            /\ step[m] \in Idle => Spent(j)
            /\ step[m] \in InHand => j = current[m] \/ Spent(j)
        BY <4>1 DEF IInv, ClaimsInHand
      <4>3. current[n] = i => step[n] \in InHand
        BY <1>1
      <4>4. CASE m = n
        BY <3>2, <4>2, <4>3, <4>4, <1>10, <4>1
      <4>5. CASE m # n
        BY <4>1, <4>2, <4>5, <2>1, <1>10
      <4> QED BY <4>4, <4>5
    <3> QED BY <3>1, <3>2
  <2> QED BY <1>1, <1>2, <1>10, <2>4 DEF ClaimsInHand, HeldBy, Held
<1>11. CASE ClaimNext(n)
  <2>1. CASE Sleep(n) /\ UNCHANGED <<table, unreleased>>
    BY <1>1, <1>2, <1>11, <2>1, ClaimsStay DEF ClaimNext, Sleep, Idle, InHand
  <2>2. ASSUME NEW k \in NextCandidate(n), table' = Acquire(table, seen[n][k], n, now),
               unreleased' = unreleased \ {seen[n][k]},
               current' = [current EXCEPT ![n] = seen[n][k]],
               NEW s \in {"executing", "deferring"}, Goto(n, s)
        PROVE  ClaimsInHand'
    <3>1. PICK i : i = seen[n][k]
      OBVIOUS
    <3>2. i \in Intents /\ CanAcquire(table, i, now)
      BY <2>2, <3>1 DEF NextCandidate, IInv, QueuesKnown, Queues
    <3>3. s \in InHand /\ step[n] \in Idle /\ step[n] # "none"
      BY <1>11, <2>2 DEF InHand, Idle, ClaimNext
    <3>4. /\ table' \in LeaseTables /\ table'.leases[i].holder = n
          /\ \A j \in Intents : j # i => table'.leases[j] = table.leases[j]
      BY <1>1, <2>2, <3>1, <3>2, ClaimFacts
    <3>5. Takes(i)
      BY <1>1, <2>2, <3>1, <3>3, <3>4
    <3> QED BY <1>10, <3>2, <3>3, <3>5
  <2> QED BY <1>11, <2>1, <2>2 DEF ClaimNext
<1>12. CASE ProveClaim(n)
  <2>1. current[n] \in Intents /\ step[n] \in InHand /\ step[n] # "none"
    BY <1>1, <1>12 DEF ProveClaim, InHand
  <2>2. CASE CanRenew(table, current[n], n, now)
    <3>1. /\ table' = Renew(table, current[n], now) /\ UNCHANGED <<current, unreleased>>
          /\ step' = [step EXCEPT ![n] = "removing"] /\ "removing" \in InHand
      BY <1>12, <2>2 DEF ProveClaim, InHand
    <3>2. PICK i : i = current[n]
      OBVIOUS
    <3>3. Takes(i)
      BY <1>1, <2>1, <2>2, <3>1, <3>2, ClaimFacts
    <3> QED BY <1>10, <2>1, <3>2, <3>3
  <2>3. CASE ~CanRenew(table, current[n], n, now)
    <3>1. Sleep(n) /\ UNCHANGED table
      BY <1>12, <2>3 DEF ProveClaim
    <3>2. HeldBy(table, current[n], n) => Spent(current[n])
      BY <2>1, ConstantFacts, LeaseConstants, <2>3 DEF ValidTtl, CanRenew, Spent
    <3>3. /\ step'[n] = "sleeping" /\ "sleeping" \notin InHand
          /\ \A m \in Tenures : m # n => step'[m] = step[m] /\ current'[m] = current[m]
      BY <1>1, <3>1 DEF Sleep, InHand
    <3>4. ASSUME NEW m \in Tenures, NEW i \in Intents, HeldBy(table, i, m)
          PROVE  /\ m <= tenure /\ ~(lead = "reconciling" /\ m = tenure)
                 /\ step'[m] \in Idle => Spent(i)
                 /\ step'[m] \in InHand => i = current'[m] \/ Spent(i)
      BY <2>1, <3>2, <3>3, <3>4 DEF IInv, ClaimsInHand
    <3> QED BY <1>1, <1>2, <1>12, <3>1, <3>4 DEF ProveClaim, ClaimsInHand, Spent, HeldBy, Held, IsExpired,
               ExpiresAt
  <2> QED BY <2>2, <2>3
<1> QED BY <1>3, <1>4, <1>5, <1>6, <1>7, <1>9, <1>11, <1>12 DEF Drain


(* A new tenure begins with no claim of its own, and time only ends        *)
(* claims (control.rs: sweep_stale_claims).                                *)
LEMMA NextClaims ==
  ASSUME IInv, [Next]_vars
  PROVE  ClaimsInHand'
<1>1. /\ table \in LeaseTables /\ now \in 0..MaxNow /\ MaxNow \in Nat
      /\ step \in [Tenures -> DrainSteps] /\ tenure \in Nat /\ Tenures \subseteq Nat
      /\ lead \in {"reconciling", "leading"} => tenure \in Tenures
      /\ lead = "reconciling" => step[tenure] = "none"
      /\ "none" \notin Idle /\ "none" \notin InHand
      /\ unreleased \subseteq accepted /\ accepted \subseteq accepted'
  BY HistoryGrows, ConstantFacts DEF IInv, ClaimsInHand, LeadInOrder, DrainsInOrder, Idle, InHand
<1>2. ASSUME NEW n \in Tenures, Drain(n) PROVE ClaimsInHand'
  BY <1>2, DrainKeepsClaims
<1>3. CASE BeginTenure
  <2>1. /\ tenure' = tenure + 1 /\ UNCHANGED <<now, step, current, unreleased>>
        /\ table' \in LeaseTables
        /\ \A i \in Intents : table'.leases[i] \in {table.leases[i], NoLease}
    BY <1>1, <1>3 DEF BeginTenure, LeaseTables, Intents, drainVars, history
  <2>2. ASSUME NEW n \in Tenures, NEW i \in Intents, HeldBy(table', i, n)
        PROVE  /\ HeldBy(table, i, n) /\ n <= tenure
               /\ step[n] \in Idle => Spent(i)
               /\ step[n] \in InHand => i = current[n] \/ Spent(i)
               /\ Spent(i) => Spent(i)'
    BY <2>1, <2>2 DEF HeldBy, Held, IInv, ClaimsInHand, Spent, IsExpired, ExpiresAt
  <2>3. ASSUME NEW n \in Tenures, n <= tenure PROVE n <= tenure' /\ n # tenure'
    BY <1>1, <2>1, <2>3
  <2> QED BY <1>1, <2>1, <2>2, <2>3 DEF ClaimsInHand, HeldBy, Held
<1>4. CASE StartDrain
  BY <1>1, <1>4 DEF StartDrain, IInv, ClaimsInHand, Spent, history, HeldBy, Held, IsExpired, ExpiresAt
<1>5. CASE Crash
  BY <1>1, <1>5, ClaimsStay DEF Crash, history
<1>6. CASE Tick
  <2>1. now' = now + 1 /\ UNCHANGED <<table, tenure, lead, step, current, unreleased>>
    BY <1>6 DEF Tick, leadVars, drainVars, history
  <2>2. \A i \in Intents : Held(table, i) => table.leases[i].grantedAt \in Nat /\ table.leases[i].ttl \in Nat
    BY <1>1 DEF LeaseTables, Held, Intents, Lease
  <2>3. \A i \in Intents : Held(table, i) /\ IsExpired(table.leases[i], now) => IsExpired(table.leases[i], now + 1)
    BY <2>2, <1>1 DEF IsExpired, ExpiresAt
  <2>4. ASSUME NEW n \in Tenures, NEW i \in Intents, HeldBy(table, i, n)
        PROVE  /\ n <= tenure /\ ~(lead = "reconciling" /\ n = tenure)
               /\ step[n] \in Idle => i \in unreleased \/ IsExpired(table.leases[i], now + 1)
               /\ step[n] \in InHand =>
                    i = current[n] \/ i \in unreleased \/ IsExpired(table.leases[i], now + 1)
    BY <2>3, <2>4 DEF IInv, ClaimsInHand, Spent, HeldBy
  <2> QED BY <1>1, <2>1, <2>4 DEF ClaimsInHand, Spent, HeldBy, Held, IsExpired, ExpiresAt
<1>7. CASE \/ \E w \in Writers, i \in Intents : PushIntent(w, i)
           \/ \E w \in Writers : WriterStores(w)
           \/ \E i \in Intents : CliAdd(i) \/ CliRemove(i)
           \/ CliClear \/ Boot \/ EndTenure \/ UNCHANGED vars
  BY <1>1, <1>7, ClaimsStay DEF history, PushIntent, WriterStores, CliAdd, CliRemove, CliClear, Boot, EndTenure,
     vars, drainVars, leadVars
<1> QED BY <1>2, <1>3, <1>4, <1>5, <1>6, <1>7 DEF Next

-----------------------------------------------------------------------------
(* The rate.                                                               *)

(* Only a claim within the rate starts a run, and time only makes room.    *)
LEMMA NextRuns ==
  ASSUME IInv, [Next]_vars
  PROVE  RunsInRate'
<1>1. /\ runs \in Seq(Run) /\ CapWithinTenure /\ now \in 0..MaxNow
      /\ MaxNow \in Nat /\ MaxPerHour \in Nat /\ Hour \in Nat
  BY ConstantFacts DEF IInv, RunsInRate, LeadInOrder
<1>2. \A n \in Tenures : IsFiniteSet(RecentRuns(n)) /\ RecentRuns(n) \subseteq 1..Len(runs)
  <2>1. IsFiniteSet(1..Len(runs)) /\ DOMAIN runs = 1..Len(runs)
    BY <1>1, FS_Interval, LenProperties
  <2>2. \A n : RecentRuns(n) \subseteq 1..Len(runs)
    BY <2>1 DEF RecentRuns
  <2> QED BY <2>1, <2>2, FS_Subset
<1>3. CASE UNCHANGED <<runs, now>>
  BY <1>1, <1>3 DEF RunsInRate, CapWithinTenure, RecentRuns
<1>4. CASE Tick
  <2>1. runs' = runs /\ now' = now + 1
    BY <1>4 DEF Tick, history
  <2>2. ASSUME NEW n \in Tenures PROVE Cardinality(RecentRuns(n)') <= MaxPerHour
    <3>1. RecentRuns(n)' \subseteq RecentRuns(n)
      <4>1. \A k \in DOMAIN runs : runs[k].at \in Nat
        <5>1. \A k \in DOMAIN runs : runs[k] \in Run
          BY <1>1
        <5>2. \A r \in Run : r.at \in 0..MaxNow
          BY DEF Run
        <5> QED BY <5>1, <5>2, <1>1
      <4> QED BY <1>1, <2>1, <4>1 DEF RecentRuns
    <3>2. /\ Cardinality(RecentRuns(n)') <= Cardinality(RecentRuns(n))
          /\ Cardinality(RecentRuns(n)') \in Nat /\ Cardinality(RecentRuns(n)) \in Nat
      BY <3>1, <1>2, FS_Subset, FS_CardinalityType
    <3>3. Cardinality(RecentRuns(n)) <= MaxPerHour
      BY <1>1 DEF CapWithinTenure
    <3> QED BY <3>2, <3>3, <1>1
  <2> QED BY <1>1, <2>1, <2>2 DEF RunsInRate, CapWithinTenure
<1>5. ASSUME NEW n \in Tenures, NEW i \in Intents, WithinRate(n), now' = now,
             runs' = Append(runs, [intent |-> i, at |-> now, tenure |-> n])
      PROVE  RunsInRate'
  <2> DEFINE run == [intent |-> i, at |-> now, tenure |-> n]
             new == Len(runs) + 1
  <2>1. run \in Run /\ run.tenure = n
    BY <1>1 DEF Run
  <2>2. /\ runs' \in Seq(Run) /\ Len(runs) \in Nat /\ DOMAIN runs = 1..Len(runs)
        /\ DOMAIN runs' = 1..new /\ runs'[new] = run
        /\ \A k \in 1..Len(runs) : runs'[k] = runs[k]
    BY <1>1, <1>5, <2>1, AppendProperties
  <2>3. ASSUME NEW m \in Tenures PROVE Cardinality(RecentRuns(m)') <= MaxPerHour
    <3>1. CASE m # n
      <4>1. RecentRuns(m)' = RecentRuns(m)
        <5>1. ASSUME NEW k \in 1..new
              PROVE  runs'[k].tenure = m /\ runs'[k].at + Hour > now
                       <=> k \in 1..Len(runs) /\ runs[k].tenure = m /\ runs[k].at + Hour > now
          BY <2>2, <2>1, <3>1
        <5>2. 1..Len(runs) \subseteq 1..new
          BY <2>2
        <5> QED BY <1>5, <2>2, <5>1, <5>2 DEF RecentRuns
      <4> QED BY <4>1, <1>1 DEF CapWithinTenure
    <3>2. CASE m = n
      <4>1. RecentRuns(m)' \subseteq RecentRuns(m) \cup {new}
        <5>1. ASSUME NEW k \in 1..new, runs'[k].tenure = m, runs'[k].at + Hour > now, k # new
              PROVE  k \in 1..Len(runs) /\ runs[k].tenure = m /\ runs[k].at + Hour > now
          BY <2>2, <5>1
        <5> QED BY <1>5, <2>2, <5>1 DEF RecentRuns
      <4>2. /\ IsFiniteSet(RecentRuns(m) \cup {new})
            /\ Cardinality(RecentRuns(m) \cup {new}) <= Cardinality(RecentRuns(m)) + 1
            /\ Cardinality(RecentRuns(m)) \in Nat
        <5>1. IsFiniteSet(RecentRuns(m)) /\ Cardinality(RecentRuns(m)) \in Nat
          BY <1>2, FS_CardinalityType
        <5>2. /\ IsFiniteSet(RecentRuns(m) \cup {new})
              /\ \/ Cardinality(RecentRuns(m) \cup {new}) = Cardinality(RecentRuns(m))
                 \/ Cardinality(RecentRuns(m) \cup {new}) = Cardinality(RecentRuns(m)) + 1
          BY <5>1, FS_AddElement
        <5> QED BY <5>1, <5>2
      <4>3. /\ Cardinality(RecentRuns(m)') <= Cardinality(RecentRuns(m) \cup {new})
            /\ Cardinality(RecentRuns(m)') \in Nat /\ Cardinality(RecentRuns(m) \cup {new}) \in Nat
        BY <4>1, <4>2, FS_Subset, FS_CardinalityType
      <4>4. Cardinality(RecentRuns(m)) < MaxPerHour
        BY <3>2, <1>5 DEF WithinRate
      <4> QED BY <4>2, <4>3, <4>4, <1>1
    <3> QED BY <3>1, <3>2
  <2> QED BY <2>2, <2>3 DEF RunsInRate, CapWithinTenure
<1>6. ASSUME NEW n \in Tenures, Drain(n) PROVE RunsInRate'
  <2> USE DEF history
  <2>1. CASE \/ Poll(n) \/ Gate(n) \/ ReadQueue(n) \/ Defer(n) \/ EndExecution(n) \/ ChildStored(n)
             \/ ProveClaim(n) \/ RemoveIntent(n) \/ RemovalStored(n) \/ FinishIntent(n) \/ AbortLands(n)
    BY <1>3, <2>1 DEF Poll, Gate, ReadQueue, Defer, EndExecution, ChildStored, ProveClaim, RemoveIntent,
       RemovalStored, FinishIntent, AbortLands
  <2>2. CASE \E i \in Intents : AddChild(n, i)
    BY <1>3, <2>2 DEF AddChild
  <2>3. CASE ClaimNext(n)
    <3>1. now' = now
      BY <2>3 DEF ClaimNext
    <3>2. ASSUME NEW k \in NextCandidate(n)
          PROVE  seen[n][k] \in Intents
      BY DEF NextCandidate, IInv, QueuesKnown, Queues
    <3> QED BY <1>3, <1>5, <2>3, <3>1, <3>2 DEF ClaimNext
  <2> QED BY <1>6, <2>1, <2>2, <2>3 DEF Drain
<1>7. CASE \/ \E w \in Writers, i \in Intents : PushIntent(w, i)
           \/ \E w \in Writers : WriterStores(w)
           \/ \E i \in Intents : CliAdd(i) \/ CliRemove(i)
           \/ CliClear \/ Boot \/ BeginTenure \/ StartDrain \/ EndTenure \/ Crash \/ UNCHANGED vars
  BY <1>3, <1>7 DEF PushIntent, WriterStores, CliAdd, CliRemove, CliClear, Boot, BeginTenure, StartDrain,
     EndTenure, Crash, vars, history
<1> QED BY <1>4, <1>6, <1>7 DEF Next


-----------------------------------------------------------------------------
(* The file and the copies of it.                                          *)

(* A queue of intents once accepted is one for good.                       *)
LEMMA QueuesGrow ==
  ASSUME accepted \subseteq accepted' PROVE Queues \subseteq Queues' /\ <<>> \in Queues'
<1>1. Len(<<>>) <= MaxQueue /\ <<>> \in Seq(Intents) /\ \A i : ~Queued(<<>>, i)
  BY ConstantFacts DEF Queued
<1> QED BY <1>1 DEF Queues

(* A push to the file (intent.rs: save_delta, push).                       *)
LEMMA PushKeepsFile ==
  ASSUME IInv, NEW i \in Intents, Fresh(i), disk' = Pushed(disk, i), Accepts(i),
         UNCHANGED <<withdrawn, done>>
  PROVE  /\ disk' \in Queues' /\ accepted' \subseteq Intents
         /\ withdrawn' \subseteq accepted' /\ done' \subseteq accepted'
         /\ IdsUnique' /\ NothingLost'
<1>1. /\ disk \in Seq(Intents) /\ Len(disk) <= MaxQueue
      /\ \A j \in Intents : Queued(disk, j) => j \in accepted
      /\ accepted \subseteq Intents /\ withdrawn \subseteq accepted /\ done \subseteq accepted
      /\ IdsUnique /\ NothingLost
  BY DEF IInv, QueuesKnown, Queues
<1>2. /\ disk' \in Seq(Intents) /\ Len(disk') <= MaxQueue
      /\ \A j : Queued(disk', j) <=> Queued(disk, j) \/ (CanPush(disk, i) /\ j = i)
  BY <1>1, PushedFacts
<1>3. accepted' = IF CanPush(disk, i) THEN accepted \cup {i} ELSE accepted
  BY DEF Accepts
<1>4. disk' \in Queues' /\ NothingLost'
  BY <1>1, <1>2, <1>3 DEF Queues, NothingLost
<1>5. IdsUnique'
  BY <1>1 DEF Pushed, Fresh, Queued, IdsUnique
<1> QED BY <1>1, <1>3, <1>4, <1>5

(* Taking an intent out: one that is done, or that the owner withdraws     *)
(* (intent.rs: commit_intent_completion; cli/intent.rs).                   *)
LEMMA TakeKeepsFile ==
  ASSUME IInv, NEW i \in Intents, disk' = Without(disk, i), UNCHANGED <<accepted, done>>,
         withdrawn \subseteq withdrawn', withdrawn' \subseteq accepted, i \in withdrawn' \cup done
  PROVE  /\ disk' \in Queues' /\ accepted' \subseteq Intents
         /\ withdrawn' \subseteq accepted' /\ done' \subseteq accepted'
         /\ IdsUnique' /\ NothingLost'
<1>1. /\ disk \in Seq(Intents) /\ Len(disk) <= MaxQueue /\ MaxQueue \in Nat
      /\ \A j \in Intents : Queued(disk, j) => j \in accepted
      /\ accepted \subseteq Intents /\ done \subseteq accepted
      /\ IdsUnique /\ NothingLost
  BY ConstantFacts DEF IInv, QueuesKnown, Queues
<1>2. /\ disk' \in Seq(Intents) /\ Len(disk') <= Len(disk)
      /\ \A j : Queued(disk', j) => Queued(disk, j)
      /\ \A j : Queued(disk, j) /\ j # i => Queued(disk', j)
      /\ IdsUnique'
  BY <1>1, WithoutFacts DEF IdsUnique
<1>3. Len(disk') <= MaxQueue
  BY <1>1, <1>2
<1>4. disk' \in Queues'
  BY <1>1, <1>2, <1>3 DEF Queues
<1>5. NothingLost'
  BY <1>1, <1>2 DEF NothingLost
<1> QED BY <1>1, <1>2, <1>4, <1>5

(* No save, and no other step, loses an intent from the file.              *)
LEMMA NextFile ==
  ASSUME IInv, [Next]_vars
  PROVE  /\ disk' \in Queues' /\ accepted' \subseteq Intents
         /\ withdrawn' \subseteq accepted' /\ done' \subseteq accepted'
         /\ IdsUnique' /\ NothingLost'
<1> DEFINE Goal == /\ disk' \in Queues' /\ accepted' \subseteq Intents
                   /\ withdrawn' \subseteq accepted' /\ done' \subseteq accepted'
                   /\ IdsUnique' /\ NothingLost'
<1>1. /\ disk \in Queues /\ disk \in Seq(Intents)
      /\ accepted \subseteq Intents /\ withdrawn \subseteq accepted /\ done \subseteq accepted
      /\ IdsUnique /\ NothingLost
  BY DEF IInv, QueuesKnown, Queues
<1>2. CASE /\ UNCHANGED <<disk, accepted, withdrawn>> /\ done \subseteq done' /\ done' \subseteq accepted
  BY <1>1, <1>2 DEF Queues, IdsUnique, NothingLost
<1>3. ASSUME NEW w \in Writers, NEW i \in Intents, PushIntent(w, i) PROVE Goal
  BY <1>3, PushKeepsFile DEF PushIntent, SaveDelta
<1>4. ASSUME NEW i \in Intents, CliAdd(i) PROVE Goal
  BY <1>4, PushKeepsFile DEF CliAdd
<1>5. ASSUME NEW i \in Intents, CliRemove(i) PROVE Goal
  BY <1>1, <1>5, TakeKeepsFile DEF CliRemove, Queues
<1>6. CASE CliClear
  <2>1. /\ disk' = <<>> /\ UNCHANGED <<accepted, done>>
        /\ withdrawn' = withdrawn \cup {i \in Intents : Queued(disk, i)}
    BY <1>6 DEF CliClear
  <2>2. {i \in Intents : Queued(disk, i)} \subseteq accepted
    BY <1>1 DEF Queues
  <2>3. disk' \in Queues'
    BY <2>1, QueuesGrow
  <2>4. IdsUnique'
    BY <2>1 DEF IdsUnique
  <2>5. NothingLost'
    BY <1>1, <2>1, <2>2 DEF NothingLost
  <2> QED BY <1>1, <2>1, <2>2, <2>3, <2>4, <2>5
<1>7. ASSUME NEW n \in Tenures, Drain(n) PROVE Goal
  <2> USE DEF history
  <2>1. CASE \/ Poll(n) \/ Gate(n) \/ ReadQueue(n) \/ ClaimNext(n) \/ Defer(n) \/ ChildStored(n)
             \/ ProveClaim(n) \/ RemovalStored(n) \/ FinishIntent(n) \/ AbortLands(n)
    BY <1>1, <1>2, <2>1 DEF Poll, Gate, ReadQueue, ClaimNext, Defer, ChildStored, ProveClaim,
       RemovalStored, FinishIntent, AbortLands
  <2>2. CASE EndExecution(n)
    BY <2>2, <1>1, <1>2 DEF EndExecution, IInv, DrainsInOrder, InHand
  <2>3. ASSUME NEW i \in Intents, AddChild(n, i) PROVE Goal
    BY <2>3, PushKeepsFile DEF AddChild, SaveDelta
  <2>4. CASE RemoveIntent(n)
    BY <2>4, <1>1, TakeKeepsFile, <1>2 DEF IInv, DrainsInOrder, RemoveIntent, InHand, Ended,
       SaveDelta
  <2> QED BY <1>7, <2>1, <2>2, <2>3, <2>4 DEF Drain
<1>8. CASE \/ \E w \in Writers : WriterStores(w)
           \/ Boot \/ BeginTenure \/ StartDrain \/ EndTenure \/ Crash \/ Tick \/ UNCHANGED vars
  BY <1>1, <1>2, <1>8 DEF WriterStores, Boot, BeginTenure, StartDrain, EndTenure, Crash, Tick, vars, history
<1> QED BY <1>3, <1>4, <1>5, <1>6, <1>7, <1>8 DEF Next

(* Every copy is of the file as it was at some time.                       *)
LEMMA NextCopies ==
  ASSUME IInv, [Next]_vars
  PROVE  /\ mem' \in Queues'
         /\ copy' \in [AllWriters -> Queues' \cup {Unsaved}]
         /\ seen' \in [Tenures -> Queues']
<1> DEFINE Goal == /\ mem' \in Queues'
                   /\ copy' \in [AllWriters -> Queues' \cup {Unsaved}]
                   /\ seen' \in [Tenures -> Queues']
<1>1. Queues \subseteq Queues' /\ <<>> \in Queues' /\ disk' \in Queues'
  BY HistoryGrows, QueuesGrow, NextFile
<1>2. /\ mem \in Queues' /\ copy \in [AllWriters -> Queues' \cup {Unsaved}]
      /\ seen \in [Tenures -> Queues'] /\ disk \in Queues'
      /\ \A w \in AllWriters : copy[w] # Unsaved => copy[w] \in Queues'
  BY <1>1 DEF IInv, QueuesKnown
<1>3. Writers \subseteq AllWriters /\ Tenures \subseteq AllWriters /\ Reconcile \in AllWriters
  BY DEF AllWriters
<1>4. ASSUME NEW w \in AllWriters, NEW q \in Queues' \cup {Unsaved}, copy' = [copy EXCEPT ![w] = q]
      PROVE  copy' \in [AllWriters -> Queues' \cup {Unsaved}]
  BY <1>2, <1>4
<1>5. ASSUME NEW w \in AllWriters, StoreCopy(w), UNCHANGED seen PROVE Goal
  BY <1>2, <1>4, <1>5 DEF StoreCopy
<1>6. ASSUME NEW w \in AllWriters, NEW q, SaveDelta(w, q), UNCHANGED <<mem, seen>> PROVE Goal
  BY <1>1, <1>2, <1>4, <1>6 DEF SaveDelta
<1>7. CASE UNCHANGED <<mem, copy, seen>>
  BY <1>2, <1>7
<1>8. ASSUME NEW n \in Tenures, Drain(n) PROVE Goal
  <2>1. CASE \/ Poll(n) \/ Gate(n) \/ Defer(n) \/ EndExecution(n) \/ ProveClaim(n) \/ FinishIntent(n)
    BY <1>7, <2>1 DEF Poll, Gate, Defer, EndExecution, ProveClaim, FinishIntent
  <2>2. CASE ReadQueue(n)
    BY <1>2, <2>2 DEF ReadQueue
  <2>3. CASE ClaimNext(n)
    BY <1>1, <1>2, <2>3 DEF ClaimNext
  <2>4. CASE \E i \in Intents : AddChild(n, i)
    BY <1>3, <1>6, <2>4 DEF AddChild
  <2>5. CASE ChildStored(n) \/ RemovalStored(n)
    BY <1>3, <1>5, <2>5 DEF ChildStored, RemovalStored
  <2>6. CASE RemoveIntent(n)
    BY <1>3, <1>6, <1>7, <2>6 DEF RemoveIntent
  <2>7. CASE AbortLands(n)
    BY <1>1, <1>2, <1>3, <1>4, <2>7 DEF AbortLands
  <2> QED BY <1>8, <2>1, <2>2, <2>3, <2>4, <2>5, <2>6, <2>7 DEF Drain
<1> USE DEF history, drainVars
<1>9. CASE \E w \in Writers, i \in Intents : PushIntent(w, i)
  BY <1>3, <1>6, <1>9 DEF PushIntent
<1>10. CASE (\E w \in Writers : WriterStores(w)) \/ StartDrain
  BY <1>3, <1>5, <1>10 DEF WriterStores, StartDrain
<1>11. CASE Boot
  BY <1>2, <1>11 DEF Boot
<1>12. CASE BeginTenure
  BY <1>2, <1>3, <1>4, <1>12 DEF BeginTenure
<1>13. CASE Crash
  BY <1>1, <1>2, <1>13 DEF Crash
<1>14. CASE \/ \E i \in Intents : CliAdd(i) \/ CliRemove(i)
            \/ CliClear \/ EndTenure \/ Tick \/ UNCHANGED vars
  BY <1>7, <1>14 DEF CliAdd, CliRemove, CliClear, EndTenure, Tick, vars
<1> QED BY <1>8, <1>9, <1>10, <1>11, <1>12, <1>13, <1>14 DEF Next

-----------------------------------------------------------------------------
(* The theorems a reader should know of.                                   *)

(* The inductive invariant of the queue and its drains (intent.rs,         *)
(* runner.rs, cli/intent.rs).                                              *)
THEOREM Invariance == Spec => []IInv
<1>1. IInv /\ [Next]_vars => IInv'
  <2> SUFFICES ASSUME IInv, [Next]_vars PROVE IInv'
    OBVIOUS
  <2>1. QueuesKnown'
    BY NextFile, NextCopies DEF QueuesKnown
  <2> QED BY <2>1, NextFile, NextDrains, NextLead, NextClaims, NextRuns DEF IInv
<1> QED BY <1>1, InitIInv, PTL DEF Spec

(* What the queue promises: no intent is lost to another writer's save, an *)
(* abort, a crash or a fenced completion, a tenure keeps to its rate, and  *)
(* a drain that sleeps keeps an intent from the next poll only by a claim  *)
(* whose release failed to be logged (intent.rs: save_delta, RateTracker,  *)
(* defer_intent, commit_intent_completion).                                *)
THEOREM QueueKeepsItsPromises == Spec => []QueueHolds
<1>1. IInv => QueueHolds
  <2> SUFFICES ASSUME IInv PROVE QueueHolds
    OBVIOUS
  <2>1. /\ disk \in Seq(Intents) /\ Len(disk) <= MaxQueue
        /\ mem \in Seq(Intents) /\ Len(mem) <= MaxQueue
        /\ \A w \in DOMAIN copy : copy[w] # Unsaved => copy[w] \in Seq(Intents)
        /\ \A n \in Tenures : seen[n] \in Seq(Intents)
        /\ accepted \subseteq Intents /\ withdrawn \cup done \subseteq accepted
    BY DEF IInv, QueuesKnown, Queues
  <2>2. /\ step \in [Tenures -> DrainSteps] /\ current \in [Tenures -> Intents \cup {NoIntent}]
        /\ \A n \in Tenures : step[n] \in {"deferring", "executing", "adding", "proving",
             "removing", "refreshing", "releasing"} <=> current[n] # NoIntent
        /\ slept \in [Tenures -> 0..MaxNow] /\ aborted \subseteq Tenures
    BY DEF IInv, DrainsInOrder, InHand
  <2>3. /\ now \in 0..MaxNow /\ tenure \in 0..MaxTenure
        /\ lead \in {"down", "follower", "reconciling", "leading"}
    BY DEF IInv, LeadInOrder
  <2>4. /\ table \in LeaseTables /\ unreleased \subseteq accepted /\ OnlyUnreleasedStay
    BY DEF IInv, ClaimsInHand, Spent, OnlyUnreleasedStay, Idle
  <2>5. /\ \A k \in DOMAIN runs : runs[k] \in [intent: Intents, at: 0..MaxNow, tenure: Tenures]
        /\ CapWithinTenure
    <3>1. \A k \in DOMAIN runs : runs[k] \in Run
      BY DEF IInv, RunsInRate
    <3> QED BY <3>1 DEF Run, IInv, RunsInRate
  <2>6. TypeOK
    BY <2>1, <2>2, <2>3, <2>4, <2>5 DEF TypeOK
  <2> QED BY <2>4, <2>5, <2>6 DEF IInv, QueueHolds
<1> QED BY <1>1, Invariance, PTL
==================================================
