--------------------------- MODULE Streams_proofs ---------------------------
(***************************************************************************)
(* Proofs about the components that stand between the daemon and those who *)
(* listen to it, for any number of clients, rows, messages and workers.    *)
(*                                                                         *)
(* The feed of rows (LedgerFeed).  The ring, what a replay has in hand and *)
(* what a client's channel holds are runs of consecutive ids (EndsAt), so  *)
(* what a client misses is where one run ends and the next begins          *)
(* (GapHand, GapLive).  Accounted says that what a client has missed and   *)
(* what it is bound to miss it has been told of, or is owed the telling:   *)
(* by the lag of its channel, or by the ring, which has let go of the row  *)
(* after its cursor.                                                       *)
(*                                                                         *)
(* Refused markers (MarkerRefusals).  The entries of the file ascend, so   *)
(* what an acknowledgement clears is a prefix, and Covers says that the    *)
(* turn has shown all of it, unless the numbering began again.             *)
(*                                                                         *)
(* Background extraction (Extraction).  ExtRight says that the right to    *)
(* drain the queue is with one at a time, and that the queue says so;      *)
(* ExtLedger relates what was spent and what was lost of each day to the   *)
(* ledger; ExtKnown says where every archive below the watermark is.       *)
(***************************************************************************)
EXTENDS LedgerFeed, ChannelLanes, MarkerRefusals, Extraction, SequenceTheorems, FiniteSetTheorems,
        WellFoundedInduction, TLAPS

(* A run of consecutive ids up to top.                                     *)
EndsAt(s, top) ==
  /\ s \in Seq(Nat) /\ Len(s) <= top
  /\ \A i \in 1..Len(s) : s[i] = (top - Len(s)) + i

ClientStates == {"off", "opened", "clamped", "replayed", "following"}
FeedClient ==
  [at : ClientStates, cursor : Nat, after : Nat, live : Seq(Nat), lag : Nat, hand : Seq(Nat),
   last : Nat, owed : Nat, missed : Nat, told : Nat, ascending : BOOLEAN, stale : BOOLEAN]

(* The newest row in the ring, the newest one broadcast, and the oldest    *)
(* one kept.                                                               *)
RingTop == IF projecting.at = "numbered" THEN (ids - 1) - 1 ELSE ids - 1
AirTop   == IF projecting.at = "idle" THEN ids - 1 ELSE (ids - 1) - 1
RingFloor   == (RingTop - Len(ring)) + 1

(* The rows a client has not been written yet and will not be: those       *)
(* before the ones in hand, those between them and the channel, and those  *)
(* it is about to be told of.                                              *)
GapHand(r, top) == IF r.hand # <<>> /\ r.owed > 0 THEN ((top - Len(r.hand)) + 1) - r.owed ELSE 0
HandEnd(r, top) == IF r.hand # <<>> THEN top ELSE r.last
GapLive(r, top, sent) ==
  IF sent - Len(r.live) > HandEnd(r, top) THEN (sent - Len(r.live)) - HandEnd(r, top) ELSE 0
GapSaid(r, kept) == IF r.cursor > 0 /\ kept > r.after + 1 THEN (kept - r.after) - 1 ELSE 0

(* What a client that reads has in hand follows what it was written.       *)
Reading(r, top, stored, sent) ==
  /\ r \in FeedClient /\ top \in 0..stored
  /\ EndsAt(r.hand, top) /\ EndsAt(r.live, sent) /\ Len(r.live) <= feed.live
  /\ r.ascending
  /\ r.owed <= r.last + 1 /\ r.owed <= r.cursor + 1 /\ r.owed <= stored + 1
  /\ r.at \notin {"replayed", "following"} => r.hand = <<>>
  /\ r.at = "off" => r.live = <<>>
  /\ r.at = "clamped" => r.owed <= r.after + 1
  /\ r.hand # <<>> => r.last <= top - Len(r.hand)

(* A client whose cursor is of this process: what it has missed, and what  *)
(* it will, it has been told or is about to be.                            *)
Accounted(r, top, stored, sent, kept) ==
  /\ r.missed <= r.told /\ r.cursor <= stored
  /\ \/ r.owed = 0 /\ r.cursor = 0
     \/ r.owed = r.cursor + 1 /\ r.cursor > 0
  /\ r.at \in {"clamped", "replayed"} => r.after = r.cursor
  /\ r.at \in {"replayed", "following"} => r.last = r.cursor
  /\ r.at = "following" =>
       /\ r.missed + GapHand(r, top) <= r.told
       /\ r.missed + GapHand(r, top) + GapLive(r, top, sent) <= r.told + r.lag
  /\ r.at = "replayed" =>
       /\ r.missed + GapHand(r, top) <= r.told + GapSaid(r, kept)
       /\ r.missed + GapHand(r, top) + GapLive(r, top, sent) <= r.told + r.lag + GapSaid(r, kept)

Served(r, top, stored, sent, kept) ==
  /\ Reading(r, top, stored, sent)
  /\ ~r.stale => Accounted(r, top, stored, sent, kept)

FeedTyped ==
  /\ feed \in FeedConfigs
  /\ bus \in [pending : Nat, lost : Nat]
  /\ ids \in Nat \ {0}
  /\ projecting \in [at : {"idle", "numbered", "stored"}, id : Nat]
  /\ client \in [FeedClients -> FeedClient]
  /\ fed \in [events : Nat, drops : Nat, boots : Nat]

(* No event becomes two rows, and the bus is not over its capacity.        *)
RowsComeFromEvents ==
  /\ (ids - 1) + bus.pending + bus.lost <= fed.events
  /\ fed.events <= feed.events /\ bus.pending <= feed.bus

(* The row in hand is the newest, and the ring ends at the last one stored.*)
RingEnds ==
  /\ projecting.at # "idle" => projecting.id = ids - 1 /\ ids > 1
  /\ EndsAt(ring, RingTop)
  /\ Len(ring) <= feed.ring
  /\ Len(ring) = RingTop \/ Len(ring) = feed.ring

FeedIInv ==
  /\ FeedTyped /\ RowsComeFromEvents /\ RingEnds
  /\ \A c \in FeedClients : \E top \in 0..RingTop : Served(client[c], top, RingTop, AirTop, RingFloor)

-----------------------------------------------------------------------------

(* The constants mean what the code's types mean.                          *)
LEMMA FeedConstants ==
  ASSUME feed \in FeedConfigs
  PROVE  /\ feed.ring \in Nat \ {0} /\ feed.live \in Nat \ {0} /\ feed.bus \in Nat \ {0}
         /\ feed.events \in Nat
BY LedgerFeedAssumption

(* What a client and what it has in hand consist of.                       *)
LEMMA ClientParts ==
  ASSUME NEW r \in FeedClient
  PROVE  /\ r.cursor \in Nat /\ r.after \in Nat /\ r.live \in Seq(Nat) /\ r.lag \in Nat
         /\ r.hand \in Seq(Nat) /\ r.last \in Nat /\ r.owed \in Nat /\ r.missed \in Nat
         /\ r.told \in Nat /\ Len(r.live) \in Nat /\ Len(r.hand) \in Nat
<1>1. /\ r.cursor \in Nat /\ r.after \in Nat /\ r.live \in Seq(Nat) /\ r.lag \in Nat
      /\ r.hand \in Seq(Nat) /\ r.last \in Nat /\ r.owed \in Nat /\ r.missed \in Nat
      /\ r.told \in Nat
  BY DEF FeedClient
<1>2. \A q \in Seq(Nat) : Len(q) \in Nat
  OBVIOUS
<1> QED BY <1>1, <1>2, Zenon

(* What is known of a client that is served.                               *)
LEMMA ReadingParts ==
  ASSUME NEW r, NEW top, NEW stored, NEW sent, NEW kept, Served(r, top, stored, sent, kept)
  PROVE  /\ r \in FeedClient /\ top \in 0..stored
         /\ EndsAt(r.hand, top) /\ EndsAt(r.live, sent) /\ Len(r.live) <= feed.live
         /\ Len(r.hand) <= top /\ Len(r.live) <= sent /\ r.ascending
         /\ r.owed <= r.last + 1 /\ r.owed <= r.cursor + 1 /\ r.owed <= stored + 1
         /\ r.hand # <<>> => r.last <= top - Len(r.hand)
<1>1. Reading(r, top, stored, sent)
  BY Zenon DEF Served
<1>2. /\ r \in FeedClient /\ top \in 0..stored
      /\ EndsAt(r.hand, top) /\ EndsAt(r.live, sent) /\ Len(r.live) <= feed.live
      /\ r.ascending
      /\ r.owed <= r.last + 1 /\ r.owed <= r.cursor + 1 /\ r.owed <= stored + 1
      /\ r.hand # <<>> => r.last <= top - Len(r.hand)
  BY <1>1, Zenon DEF Reading
<1>3. Len(r.hand) <= top /\ Len(r.live) <= sent
  BY <1>2, Zenon DEF EndsAt
<1> QED BY <1>2, <1>3, Zenon

(* No id at all is a run.                                                  *)
LEMMA EmptyEnds ==
  ASSUME NEW top \in Nat
  PROVE  EndsAt(<<>>, top) /\ Len(<<>>) = 0
BY DEF EndsAt

(* The next id goes on with a run.                                         *)
LEMMA NextEnds ==
  ASSUME NEW s, NEW top \in Nat, EndsAt(s, top)
  PROVE  EndsAt(Append(s, top + 1), top + 1) /\ Len(Append(s, top + 1)) = Len(s) + 1
<1>1. s \in Seq(Nat) /\ Len(s) \in Nat /\ top + 1 \in Nat
  BY DEF EndsAt
<1>2. PICK q \in Seq(Nat) : q = Append(s, top + 1)
  <2>1. Append(s, top + 1) \in Seq(Nat)
    BY <1>1
  <2> QED BY <2>1
<1>3. Len(q) = Len(s) + 1 /\ q[Len(s) + 1] = top + 1 /\ \A i \in 1..Len(s) : q[i] = s[i]
  BY <1>1, <1>2
<1>4. ASSUME NEW i \in 1..Len(q) PROVE q[i] = ((top + 1) - Len(q)) + i
  <2>1. CASE i = Len(s) + 1
    BY <2>1, <1>1, <1>3
  <2>2. CASE i \in 1..Len(s)
    BY <2>2, <1>1, <1>3 DEF EndsAt
  <2> QED BY <2>1, <2>2, <1>1, <1>3
<1> QED BY <1>1, <1>2, <1>3, <1>4 DEF EndsAt

(* What is left of a run when its first id is taken.                       *)
LEMMA RestEnds ==
  ASSUME NEW s, NEW top \in Nat, EndsAt(s, top), s # <<>>
  PROVE  /\ EndsAt(Tail(s), top) /\ Len(Tail(s)) = Len(s) - 1 /\ Len(s) \in Nat \ {0}
         /\ Head(s) = (top - Len(s)) + 1
<1>1. s \in Seq(Nat) /\ Len(s) \in Nat \ {0}
  BY DEF EndsAt
<1>2. PICK q \in Seq(Nat) : q = Tail(s)
  <2>1. Tail(s) \in Seq(Nat)
    BY <1>1
  <2> QED BY <2>1
<1>3. Len(q) = Len(s) - 1 /\ \A i \in 1..Len(q) : q[i] = s[i + 1]
  BY <1>1, <1>2
<1>4. ASSUME NEW i \in 1..Len(q) PROVE q[i] = (top - Len(q)) + i
  BY <1>1, <1>3 DEF EndsAt
<1>5. Head(s) = s[1] /\ 1 \in 1..Len(s)
  BY <1>1
<1> QED BY <1>1, <1>2, <1>3, <1>4, <1>5 DEF EndsAt

(* A full queue of ids forgets the oldest for the next one.                *)
LEMMA SlideEnds ==
  ASSUME NEW s, NEW top \in Nat, EndsAt(s, top), s # <<>>
  PROVE  EndsAt(Append(Tail(s), top + 1), top + 1) /\ Len(Append(Tail(s), top + 1)) = Len(s)
<1>1. EndsAt(Tail(s), top) /\ Len(Tail(s)) = Len(s) - 1 /\ Len(s) \in Nat \ {0}
  BY RestEnds
<1> QED BY <1>1, NextEnds

(* What a replay hands over is the filter of the ring (LedgerRing::replay):*)
(* the rows after the cursor, in their order.                              *)
LEMMA ReplayIsTheFilter ==
  ASSUME NEW after \in Nat, NEW top \in Nat, EndsAt(ring, top)
  PROVE  /\ EndsAt(Since(after), top)
         /\ Len(Since(after)) = IF after <= top - Len(ring) THEN Len(ring)
                                ELSE IF after >= top THEN 0 ELSE top - after
         /\ \A i \in 1..Len(Since(after)) : Since(after)[i] > after
         /\ \A i \in 1..Len(ring) : ring[i] > after =>
              \E j \in 1..Len(Since(after)) : Since(after)[j] = ring[i]
<1>1. ring \in Seq(Nat) /\ Len(ring) \in 0..top /\ Len(ring) \in Nat
  BY DEF EndsAt
<1>2. PICK m \in 0..top : m = Len(ring)
  BY <1>1
<1>3. PICK k \in 0..m : k = IF after <= top - m THEN 0 ELSE IF after >= top THEN m ELSE after - (top - m)
  OBVIOUS
<1>4. \A i \in 1..m : ring[i] = (top - m) + i
  BY <1>2 DEF EndsAt
<1>5. \A i \in 1..m : (ring[i] > after) <=> (i > k)
  BY <1>3, <1>4
<1>6. PICK gone : gone = CHOOSE n \in 0..Len(ring) : \A i \in 1..Len(ring) : ring[i] > after <=> i > n
  OBVIOUS
<1>7. gone \in 0..m /\ \A i \in 1..m : (ring[i] > after) <=> (i > gone)
  BY <1>2, <1>3, <1>5, <1>6
<1>8. gone = k
  BY <1>7, <1>5
<1>9. Since(after) = SubSeq(ring, k + 1, m)
  BY <1>2, <1>6, <1>8 DEF Since
<1>10. PICK q \in Seq(Nat) : q = SubSeq(ring, k + 1, m)
  <2>1. SubSeq(ring, k + 1, m) \in Seq(Nat)
    BY <1>1, <1>2
  <2> QED BY <2>1
<1>11. Len(q) = m - k /\ \A i \in 1..(m - k) : q[i] = ring[k + i]
  BY <1>1, <1>2, <1>10
<1>12. \A i \in 1..(m - k) : q[i] = ((top - m) + k) + i
  BY <1>4, <1>11
<1>13. EndsAt(q, top)
  BY <1>11, <1>12 DEF EndsAt
<1>14. ASSUME NEW i \in 1..(m - k) PROVE q[i] > after
  <2>1. k + i \in 1..m /\ k + i > k
    OBVIOUS
  <2> QED BY <2>1, <1>5, <1>11
<1>15. ASSUME NEW i \in 1..m, ring[i] > after PROVE \E j \in 1..Len(q) : q[j] = ring[i]
  <2>1. i - k \in 1..(m - k) /\ k + (i - k) = i
    BY <1>5, <1>15
  <2> QED BY <2>1, <1>11
<1>16. Len(q) = IF after <= top - m THEN m ELSE IF after >= top THEN 0 ELSE top - after
  BY <1>3, <1>11
<1>17. Since(after) = q /\ Len(ring) = m
  BY <1>2, <1>9, <1>10
<1>18. Len(q) \in Nat /\ Len(q) = m - k
  BY <1>11
<1>19. \A i \in 1..Len(q) : q[i] > after
  BY <1>14, <1>18
<1>20. \A i \in 1..m : ring[i] > after => \E j \in 1..Len(q) : q[j] = ring[i]
  BY <1>15
<1> QED BY <1>13, <1>16, <1>17, <1>19, <1>20, Zenon

-----------------------------------------------------------------------------
(* What each step of a stream does to its client.                          *)

(* A subscription begins with an empty channel and nothing in hand.        *)
LEMMA OpenServes ==
  ASSUME NEW r, NEW top, NEW stored \in Nat, NEW sent \in Nat, NEW kept \in Nat,
         Served(r, top, stored, sent, kept), r.at = "off"
  PROVE  Served([r EXCEPT !.at = "opened", !.live = <<>>, !.lag = 0, !.hand = <<>>],
                top, stored, sent, kept)
<1>1. r \in FeedClient /\ top \in 0..stored /\ feed.live >= Len(r.live) /\ EndsAt(r.live, sent) /\ r.live = <<>>
  BY DEF Served, Reading
<1>2. PICK s : s = [r EXCEPT !.at = "opened", !.live = <<>>, !.lag = 0, !.hand = <<>>]
  OBVIOUS
<1>3. /\ s \in FeedClient /\ s.at = "opened" /\ s.live = <<>> /\ s.hand = <<>>
      /\ s.cursor = r.cursor /\ s.after = r.after /\ s.last = r.last /\ s.owed = r.owed
      /\ s.missed = r.missed /\ s.told = r.told /\ s.ascending = r.ascending /\ s.stale = r.stale
  BY <1>1, <1>2 DEF FeedClient, ClientStates
<1>4. EndsAt(s.hand, top) /\ EndsAt(s.live, sent)
  BY <1>1, <1>3, EmptyEnds
<1>5. Reading(s, top, stored, sent)
  BY <1>1, <1>3, <1>4 DEF Served, Reading
<1>6. ~s.stale => Accounted(s, top, stored, sent, kept)
  BY <1>3 DEF Served, Accounted
<1> QED BY <1>2, <1>5, <1>6 DEF Served

(* The cursor of a client of this process is not clamped.                  *)
LEMMA ClampServes ==
  ASSUME NEW r, NEW top, NEW stored \in Nat, NEW sent \in Nat, NEW kept \in Nat, NEW newest \in Nat,
         Served(r, top, stored, sent, kept), r.at = "opened", stored <= newest
  PROVE  Served([r EXCEPT !.at = "clamped", !.after = Least(r.cursor, newest)],
                top, stored, sent, kept)
<1>1. r \in FeedClient /\ top \in 0..stored /\ r.owed <= r.cursor + 1 /\ r.owed <= newest + 1 /\ r.cursor \in Nat
  BY DEF Served, Reading, FeedClient
<1>2. PICK a \in Nat : a = Least(r.cursor, newest)
  BY <1>1 DEF Least
<1>3. PICK s : s = [r EXCEPT !.at = "clamped", !.after = a]
  OBVIOUS
<1>4. /\ s \in FeedClient /\ s.at = "clamped" /\ s.live = r.live /\ s.hand = r.hand /\ s.after = a
      /\ s.cursor = r.cursor /\ s.last = r.last /\ s.owed = r.owed
      /\ s.missed = r.missed /\ s.told = r.told /\ s.ascending = r.ascending /\ s.stale = r.stale
  BY <1>1, <1>3 DEF FeedClient, ClientStates
<1>5. r.owed <= a + 1 /\ (r.cursor <= stored => a = r.cursor)
  BY <1>1, <1>2 DEF Least
<1>6. Reading(s, top, stored, sent)
  BY <1>1, <1>4, <1>5 DEF Served, Reading
<1>7. ~s.stale => Accounted(s, top, stored, sent, kept)
  BY <1>4, <1>5 DEF Served, Accounted
<1> QED BY <1>2, <1>3, <1>6, <1>7 DEF Served

(* A replay ends at the newest row stored; what it does not hand over is   *)
(* what the ring has forgotten.                                            *)
LEMMA ReplayServes ==
  ASSUME NEW r, NEW top, NEW stored \in Nat, NEW sent \in Nat, NEW n \in Nat, NEW hand,
         Served(r, top, stored, sent, (stored - n) + 1), r.at = "clamped",
         n <= stored, n = 0 => stored = 0, sent <= stored, EndsAt(hand, stored),
         Len(hand) = IF r.after <= stored - n THEN n ELSE IF r.after >= stored THEN 0 ELSE stored - r.after
  PROVE  Served([r EXCEPT !.at = "replayed", !.last = r.after, !.hand = hand],
                stored, stored, sent, (stored - n) + 1)
<1>1. /\ r \in FeedClient /\ r.after \in Nat /\ r.owed \in Nat /\ r.cursor \in Nat /\ r.missed \in Nat
      /\ r.told \in Nat /\ r.lag \in Nat /\ r.live \in Seq(Nat) /\ Len(r.live) \in Nat
      /\ r.owed <= r.after + 1 /\ r.owed <= r.cursor + 1 /\ r.owed <= stored + 1
  BY DEF Served, Reading, FeedClient
<1>2. hand \in Seq(Nat) /\ Len(hand) \in Nat /\ (hand = <<>> <=> Len(hand) = 0)
  BY DEF EndsAt
<1>3. PICK s : s = [r EXCEPT !.at = "replayed", !.last = r.after, !.hand = hand]
  OBVIOUS
<1>4. /\ s \in FeedClient /\ s.at = "replayed" /\ s.live = r.live /\ s.hand = hand /\ s.after = r.after
      /\ s.cursor = r.cursor /\ s.last = r.after /\ s.owed = r.owed /\ s.lag = r.lag
      /\ s.missed = r.missed /\ s.told = r.told /\ s.ascending = r.ascending /\ s.stale = r.stale
  BY <1>1, <1>2, <1>3 DEF FeedClient, ClientStates
<1>5. hand # <<>> => r.after <= stored - Len(hand)
  BY SMTT(40), <1>1, <1>2
<1>6. Reading(s, stored, stored, sent)
  BY <1>4, <1>1, <1>5 DEF Served, Reading
<1>7. ASSUME ~s.stale PROVE Accounted(s, stored, stored, sent, (stored - n) + 1)
  <2>1. /\ r.missed <= r.told /\ r.cursor <= stored /\ r.after = r.cursor
        /\ \/ r.owed = 0 /\ r.cursor = 0
           \/ r.owed = r.cursor + 1 /\ r.cursor > 0
    BY <1>4, <1>7 DEF Served, Accounted
  <2>2. PICK g \in Nat : g = GapHand(s, stored)
    <3>1. CASE hand = <<>> \/ r.owed = 0
      BY <3>1, <1>1, <1>4 DEF GapHand
    <3>2. CASE hand # <<>> /\ r.owed > 0
      <4>1. GapHand(s, stored) = ((stored - Len(hand)) + 1) - r.owed
        BY <3>2, <1>4 DEF GapHand
      <4>2. ((stored - Len(hand)) + 1) - r.owed \in Nat
        <5>1. PICK h \in Nat : h = Len(hand)
          BY <1>2
        <5>2. r.after <= stored - h /\ r.owed = r.after + 1 /\ r.after \in Nat
          BY <5>1, <3>2, <1>1, <1>5, <2>1
        <5>3. PICK a \in Nat : a = r.after
          BY <5>2
        <5>4. PICK o \in Nat : o = r.owed
          BY <5>2, <5>3
        <5>5. a <= stored - h /\ o = a + 1
          BY <5>2, <5>3, <5>4
        <5>6. ((stored - h) + 1) - o \in Nat
          BY <5>5
        <5> QED BY <5>1, <5>4, <5>6
      <4> QED BY <4>1, <4>2
    <3> QED BY <3>1, <3>2, <1>1
  <2>3. PICK e \in Nat : e = GapSaid(s, (stored - n) + 1)
    BY <1>1, <1>4, <2>1 DEF GapSaid
  <2>4. g <= e
    <3>1. CASE hand = <<>> \/ r.owed = 0
      BY <3>1, <1>4, <2>2, <2>3 DEF GapHand
    <3>2. CASE hand # <<>> /\ r.owed > 0
      <4>1. r.owed = r.after + 1 /\ r.cursor > 0
        BY <3>2, <1>1, <2>1
      <4>2. g = ((stored - Len(hand)) + 1) - (r.after + 1)
        BY <3>2, <4>1, <1>4, <2>2 DEF GapHand
      <4>3. e = IF (stored - n) + 1 > r.after + 1 THEN (((stored - n) + 1) - r.after) - 1 ELSE 0
        BY <4>1, <1>4, <2>3 DEF GapSaid
      <4>4. Len(hand) > 0
        BY <3>2, <1>2
      <4>5. PICK h \in Nat : h = Len(hand)
        BY <1>2
      <4>6. h = IF r.after <= stored - n THEN n ELSE IF r.after >= stored THEN 0 ELSE stored - r.after
        BY <4>5
      <4>7. CASE r.after <= stored - n
        <5>1. r.after \in Nat /\ h = n
          BY <4>6, <4>7, <1>1
        <5>2. g = ((stored - n) + 1) - (r.after + 1)
          BY <4>2, <4>5, <5>1
        <5> QED BY <4>3, <4>7, <5>1, <5>2
      <4>8. CASE ~(r.after <= stored - n)
        <5>1. r.after \in Nat /\ r.after < stored /\ h = stored - r.after
          BY <4>4, <4>5, <4>6, <4>8, <1>1
        <5>2. g = 0
          BY <4>2, <4>5, <5>1
        <5> QED BY <5>2
      <4> QED BY <4>7, <4>8
    <3> QED BY <3>1, <3>2, <1>1
  <2>5. GapLive(s, stored, sent) = 0
    <3>1. CASE hand # <<>>
      BY <3>1, <1>1, <1>4 DEF GapLive, HandEnd
    <3>2. CASE hand = <<>>
      BY <3>2, <1>1, <1>2, <1>4 DEF GapLive, HandEnd
    <3> QED BY <3>1, <3>2
  <2>6. /\ r.missed + g <= r.told + e
        /\ r.missed + g + 0 <= r.told + r.lag + e
    BY SMTT(40), <1>1, <2>1, <2>2, <2>3, <2>4
  <2> QED BY <1>4, <2>1, <2>2, <2>3, <2>5, <2>6 DEF Accounted
<1> QED BY <1>3, <1>6, <1>7 DEF Served

(* What the ring has forgotten is told before the rows.                    *)
LEMMA SayExpiredServes ==
  ASSUME NEW r, NEW top, NEW stored \in Nat, NEW sent \in Nat, NEW kept \in Nat, NEW e \in Nat,
         Served(r, top, stored, sent, kept), r.at = "replayed",
         ~r.stale => (IF r.cursor > 0 THEN e ELSE 0) = GapSaid(r, kept)
  PROVE  LET on == [r EXCEPT !.at = "following"]
         IN  Served(IF r.cursor > 0 /\ e > 0 THEN Told(on, e) ELSE on, top, stored, sent, kept)
<1>1. /\ r \in FeedClient /\ r.cursor \in Nat /\ r.told \in Nat /\ r.missed \in Nat /\ r.lag \in Nat
      /\ r.last \in Nat /\ r.owed \in Nat
      /\ r.owed <= r.last + 1 /\ r.owed <= r.cursor + 1 /\ r.owed <= stored + 1
  BY DEF Served, Reading, FeedClient
<1>2. PICK said \in BOOLEAN : said <=> (r.cursor > 0 /\ e > 0)
  OBVIOUS
<1>3. PICK s : s = IF said THEN Told([r EXCEPT !.at = "following"], e) ELSE [r EXCEPT !.at = "following"]
  OBVIOUS
<1>4. /\ s \in FeedClient /\ s.at = "following" /\ s.live = r.live /\ s.hand = r.hand /\ s.after = r.after
      /\ s.cursor = (IF said THEN r.last ELSE r.cursor) /\ s.last = r.last /\ s.owed = r.owed
      /\ s.lag = r.lag /\ s.missed = r.missed /\ s.told = (IF said THEN r.told + e ELSE r.told)
      /\ s.ascending = r.ascending /\ s.stale = r.stale
  <2>1. PICK on \in FeedClient : on = [r EXCEPT !.at = "following"]
    BY <1>1 DEF FeedClient, ClientStates
  <2>2. /\ on.at = "following" /\ on.live = r.live /\ on.hand = r.hand /\ on.after = r.after
        /\ on.cursor = r.cursor /\ on.last = r.last /\ on.owed = r.owed
        /\ on.lag = r.lag /\ on.missed = r.missed /\ on.told = r.told
        /\ on.ascending = r.ascending /\ on.stale = r.stale
    BY <1>1, <2>1 DEF FeedClient
  <2>3. CASE said
    <3>1. PICK a \in Nat, b \in Nat : a = r.told + e /\ b = r.last
      BY <1>1
    <3>2. s = [on EXCEPT !.told = a, !.cursor = b]
      BY <1>3, <2>1, <2>2, <2>3, <3>1 DEF Told
    <3>3. /\ s \in FeedClient /\ s.at = on.at /\ s.live = on.live /\ s.hand = on.hand /\ s.after = on.after
          /\ s.cursor = b /\ s.last = on.last /\ s.owed = on.owed
          /\ s.lag = on.lag /\ s.missed = on.missed /\ s.told = a
          /\ s.ascending = on.ascending /\ s.stale = on.stale
      BY <3>2, <2>1 DEF FeedClient
    <3> QED BY <3>1, <3>3, <2>2, <2>3
  <2>4. CASE ~said
    BY <2>4, <2>1, <2>2, <1>3
  <2> QED BY <2>3, <2>4
<1>5. Reading(s, top, stored, sent)
  BY <1>1, <1>4 DEF Served, Reading
<1>6. ASSUME ~s.stale PROVE Accounted(s, top, stored, sent, kept)
  <2>1. /\ Accounted(r, top, stored, sent, kept) /\ r.last = r.cursor
        /\ (IF r.cursor > 0 THEN e ELSE 0) = GapSaid(r, kept)
    BY <1>4, <1>6 DEF Served, Accounted
  <2>2. PICK d \in Nat : d = GapSaid(r, kept)
    BY <2>1
  <2>3. s.told = r.told + d
    BY <1>1, <1>2, <1>4, <2>1, <2>2
  <2>4. GapHand(s, top) = GapHand(r, top) /\ GapLive(s, top, sent) = GapLive(r, top, sent)
    BY <1>4 DEF GapHand, GapLive, HandEnd
  <2>5. /\ r.missed + GapHand(r, top) <= r.told + d
        /\ r.missed + GapHand(r, top) + GapLive(r, top, sent) <= r.told + r.lag + d
        /\ r.missed <= r.told /\ r.cursor <= stored
        /\ \/ r.owed = 0 /\ r.cursor = 0
           \/ r.owed = r.cursor + 1 /\ r.cursor > 0
    BY <2>1, <2>2 DEF Accounted
  <2>6. r.told + r.lag + d = (r.told + d) + r.lag /\ r.told <= r.told + d
    BY <1>1
  <2> QED BY <1>1, <1>4, <2>3, <2>5, <2>1, <2>4, <2>6 DEF Accounted
<1> QED BY <1>2, <1>3, <1>5, <1>6 DEF Served

(* How far an id is ahead of the one a client is owed.                     *)
LEMMA ExcessIsNat ==
  ASSUME NEW owed \in Nat, NEW id \in Nat
  PROVE  (IF owed > 0 /\ id > owed THEN id - owed ELSE 0) \in Nat
OBVIOUS

\* What a row makes of a client.
IsRow(s, r, id) ==
  /\ s \in FeedClient /\ s.at = r.at /\ s.cursor = id /\ s.after = r.after
  /\ s.live = r.live /\ s.lag = r.lag /\ s.hand = r.hand /\ s.last = id /\ s.owed = id + 1
  /\ s.missed = r.missed + (IF r.owed > 0 /\ id > r.owed THEN id - r.owed ELSE 0)
  /\ s.told = r.told /\ s.stale = r.stale
  /\ s.ascending = (r.ascending /\ id >= r.owed)

(* What a client knows once a row is written to it.                        *)
LEMMA RowFacts ==
  ASSUME NEW r \in FeedClient, NEW id \in Nat
  PROVE  LET s == Row(r, id) IN
         /\ s \in FeedClient /\ s.at = r.at /\ s.cursor = id /\ s.after = r.after
         /\ s.live = r.live /\ s.lag = r.lag /\ s.hand = r.hand /\ s.last = id /\ s.owed = id + 1
         /\ s.missed = r.missed + (IF r.owed > 0 /\ id > r.owed THEN id - r.owed ELSE 0)
         /\ s.told = r.told /\ s.stale = r.stale
         /\ s.ascending = (r.ascending /\ id >= r.owed)
<1>1. r.missed \in Nat /\ r.owed \in Nat /\ r.ascending \in BOOLEAN
  BY DEF FeedClient
<1>2. PICK m \in Nat : m = r.missed + (IF r.owed > 0 /\ id > r.owed THEN id - r.owed ELSE 0)
  BY <1>1, ExcessIsNat
<1>3. PICK b \in BOOLEAN : b = (r.ascending /\ id >= r.owed)
  OBVIOUS
<1>4. m = IF r.owed > 0 /\ id > r.owed THEN r.missed + (id - r.owed) ELSE r.missed
  BY <1>1, <1>2
<1> DEFINE s == Row(r, id)
<1>5. s = [r EXCEPT !.last = id, !.cursor = id, !.owed = id + 1, !.ascending = b, !.missed = m]
  BY <1>3, <1>4 DEF Row, FeedClient
<1>6. PICK o \in Nat : o = id + 1
  OBVIOUS
<1>7. s = [r EXCEPT !.last = id, !.cursor = id, !.owed = o, !.ascending = b, !.missed = m]
  BY <1>5, <1>6
<1> HIDE DEF s
<1>8. /\ s \in FeedClient /\ s.at = r.at /\ s.cursor = id /\ s.after = r.after
      /\ s.live = r.live /\ s.lag = r.lag /\ s.hand = r.hand /\ s.last = id /\ s.owed = o
      /\ s.missed = m /\ s.told = r.told /\ s.stale = r.stale /\ s.ascending = b
  BY <1>7 DEF FeedClient
<1> QED BY <1>2, <1>3, <1>6, <1>8 DEF s

\* The same, of a row's outcome that has a name.
LEMMA RowIs ==
  ASSUME NEW r \in FeedClient, NEW id \in Nat, NEW s, s = Row(r, id)
  PROVE  IsRow(s, r, id)
BY RowFacts DEF IsRow

(* The rows between the hand and the channel are a number of rows.         *)
LEMMA GapLiveNat ==
  ASSUME NEW r \in FeedClient, NEW top \in Nat, NEW sent \in Nat
  PROVE  GapLive(r, top, sent) \in Nat
<1>1. r.last \in Nat /\ r.live \in Seq(Nat)
  BY DEF FeedClient
<1>2. PICK l \in Nat : l = Len(r.live)
  BY <1>1
<1>3. PICK e \in Nat : e = HandEnd(r, top)
  BY <1>1 DEF HandEnd
<1>4. GapLive(r, top, sent) = IF sent - l > e THEN (sent - l) - e ELSE 0
  BY <1>2, <1>3 DEF GapLive
<1> QED BY <1>4

(* The rows before those in hand are a number of rows.                     *)
LEMMA GapHandNat ==
  ASSUME NEW r, NEW top, NEW stored \in Nat, NEW sent, Reading(r, top, stored, sent)
  PROVE  GapHand(r, top) \in Nat
<1>1. /\ r.hand # <<>> => r.last <= top - Len(r.hand)
      /\ r.owed <= r.last + 1 /\ r.hand \in Seq(Nat) /\ r.last \in Nat /\ Len(r.hand) \in Nat
      /\ r.owed \in Nat /\ top \in Nat
  BY DEF Reading, FeedClient
<1>2. CASE r.hand # <<>> /\ r.owed > 0
  <2>1. GapHand(r, top) = ((top - Len(r.hand)) + 1) - r.owed
    BY <1>2 DEF GapHand
  <2>2. /\ r.last <= top - Len(r.hand) /\ r.owed <= r.last + 1
        /\ Len(r.hand) \in Nat /\ r.owed \in Nat /\ r.last \in Nat /\ top \in Nat
    BY <1>1, <1>2
  <2>3. ((top - Len(r.hand)) + 1) - r.owed \in Nat
    <3>1. PICK h \in Nat, l \in Nat, o \in Nat : h = Len(r.hand) /\ l = r.last /\ o = r.owed
      BY <2>2
    <3>2. l <= top - h /\ o <= l + 1 /\ top \in Nat
      BY <2>2, <3>1
    <3>3. ((top - h) + 1) - o >= 0
      BY <3>2
    <3>4. ((top - h) + 1) - o \in Nat
      BY <3>2, <3>3
    <3> QED BY <3>1, <3>4
  <2> QED BY <2>1, <2>3
<1>3. CASE ~(r.hand # <<>> /\ r.owed > 0)
  BY <1>3 DEF GapHand
<1> QED BY <1>2, <1>3

(* So are those the client is about to be told of.                         *)
LEMMA GapSaidNat ==
  ASSUME NEW r \in FeedClient, NEW kept \in Nat
  PROVE  GapSaid(r, kept) \in Nat
<1>1. r.cursor \in Nat /\ r.after \in Nat
  BY DEF FeedClient
<1> QED BY <1>1 DEF GapSaid

(* A row of the replay is written: the rows it skips were told of.         *)
LEMMA WriteReplayedServes ==
  ASSUME NEW r, NEW top, NEW stored \in Nat, NEW sent \in Nat, NEW kept \in Nat,
         Served(r, top, stored, sent, kept), r.at = "following", r.hand # <<>>
  PROVE  Served(Row([r EXCEPT !.hand = Tail(r.hand)], Head(r.hand)), top, stored, sent, kept)
<1>1. /\ r \in FeedClient /\ r.cursor \in Nat /\ r.told \in Nat /\ r.missed \in Nat /\ r.lag \in Nat
      /\ r.last \in Nat /\ r.owed \in Nat /\ r.hand \in Seq(Nat) /\ Len(r.live) \in Nat
      /\ r.owed <= r.last + 1 /\ r.owed <= r.cursor + 1 /\ r.owed <= stored + 1
      /\ EndsAt(r.hand, top) /\ EndsAt(r.live, sent) /\ top \in 0..stored /\ r.ascending
      /\ Len(r.hand) <= top /\ r.last <= top - Len(r.hand) /\ Len(r.live) <= feed.live
  BY Zenon, ReadingParts, ClientParts
<1>20. top \in Nat /\ top <= stored
  BY <1>1
<1>2. PICK h \in Nat \ {0} : h = Len(r.hand)
  BY <1>1
<1>3. PICK q \in Seq(Nat) : q = Tail(r.hand)
  <2>1. Tail(r.hand) \in Seq(Nat)
    BY <1>1
  <2> QED BY <2>1
<1>4. EndsAt(q, top) /\ Len(q) = h - 1 /\ Head(r.hand) = (top - h) + 1
  BY <1>1, <1>20, <1>2, <1>3, RestEnds
<1>5. PICK id \in Nat : id = (top - h) + 1
  <2>1. (top - h) + 1 \in Nat
    BY <1>1, <1>20, <1>2
  <2> QED BY <2>1
<1>6. PICK on \in FeedClient : on = [r EXCEPT !.hand = q]
  BY <1>1 DEF FeedClient
<1>7. /\ on.at = "following" /\ on.live = r.live /\ on.hand = q /\ on.after = r.after
      /\ on.cursor = r.cursor /\ on.last = r.last /\ on.owed = r.owed
      /\ on.lag = r.lag /\ on.missed = r.missed /\ on.told = r.told
      /\ on.ascending = r.ascending /\ on.stale = r.stale
  BY <1>1, <1>6 DEF FeedClient
<1>8. PICK s : s = Row(on, id)
  OBVIOUS
<1>9. /\ s \in FeedClient /\ s.at = "following" /\ s.cursor = id /\ s.after = r.after
      /\ s.live = r.live /\ s.lag = r.lag /\ s.hand = q /\ s.last = id /\ s.owed = id + 1
      /\ s.missed = r.missed + (IF r.owed > 0 /\ id > r.owed THEN id - r.owed ELSE 0)
      /\ s.told = r.told /\ s.stale = r.stale /\ s.ascending = (r.ascending /\ id >= r.owed)
  <2>1. IsRow(s, on, id)
    BY <1>8, RowIs
  <2> QED BY <1>7, <2>1 DEF IsRow
<1>10. id >= r.owed /\ id <= stored /\ id > 0 /\ id = top - (h - 1) /\ h <= top
  <2>1. /\ r.last <= top - h /\ h <= top /\ r.owed <= r.last + 1
        /\ r.last \in Nat /\ r.owed \in Nat
    BY <1>1, <1>2
  <2>2. id = (top - h) + 1 /\ id \in Nat /\ h \in Nat \ {0} /\ top \in Nat /\ stored \in Nat /\ top <= stored
    BY <1>5, <1>20
  <2>3. id >= r.owed
    BY <2>1, <2>2
  <2>4. id <= stored
    BY <2>1, <2>2
  <2>5. id = top - (h - 1)
    BY <2>1, <2>2
  <2>6. id > 0
    BY <2>1, <2>2
  <2> QED BY <2>1, <2>3, <2>4, <2>5, <2>6
<1>11. Reading(s, top, stored, sent)
  <2>1. id <= top - (h - 1) /\ id + 1 <= id + 1 /\ id + 1 <= stored + 1
    BY <1>10
  <2> QED BY <1>1, <1>4, <1>9, <1>10, <2>1 DEF Reading
<1>12. ASSUME ~s.stale PROVE Accounted(s, top, stored, sent, kept)
  <2>1. /\ Accounted(r, top, stored, sent, kept) /\ r.last = r.cursor
        /\ r.missed + GapHand(r, top) <= r.told
        /\ r.missed + GapHand(r, top) + GapLive(r, top, sent) <= r.told + r.lag
    BY <1>9, <1>12 DEF Served, Accounted
  <2>2. PICK g \in Nat : g = IF r.owed > 0 /\ id > r.owed THEN id - r.owed ELSE 0
    BY <1>1, ExcessIsNat
  <2>3. GapHand(r, top) = g
    <3>1. GapHand(r, top) = IF r.owed > 0 THEN id - r.owed ELSE 0
      BY <1>1, <1>2, <1>5 DEF GapHand
    <3>2. r.owed \in Nat
      BY <1>1
    <3> QED BY <3>1, <3>2, <2>2, <1>10
  <2>4. GapHand(s, top) = 0
    <3>1. ((top - Len(q)) + 1) - (id + 1) = 0
      BY <1>4, <1>5, <1>20, <1>2
    <3> QED BY <3>1, <1>9 DEF GapHand
  <2>5. GapLive(s, top, sent) = GapLive(r, top, sent)
    <3>1. HandEnd(s, top) = top /\ HandEnd(r, top) = top
      BY <1>4, <1>20, <1>5, <1>9 DEF HandEnd
    <3> QED BY <3>1, <1>9 DEF GapLive
  <2>6. PICK l \in Nat : l = GapLive(r, top, sent)
    BY <1>1, <1>20, GapLiveNat
  <2>7. /\ s.missed <= s.told /\ s.missed + 0 <= s.told /\ s.missed + 0 + l <= s.told + s.lag
    <3>1. /\ s.missed = r.missed + g /\ s.told = r.told /\ s.lag = r.lag
          /\ r.missed \in Nat /\ r.told \in Nat /\ r.lag \in Nat
      BY <1>1, <1>9, <2>2
    <3>2. r.missed + g <= r.told /\ r.missed + g + l <= r.told + r.lag
      BY <2>1, <2>3, <2>6
    <3> QED BY <3>1, <3>2
  <2> QED BY <1>9, <1>10, <2>4, <2>5, <2>6, <2>7 DEF Accounted
<1> QED BY <1>3, <1>4, <1>5, <1>6, <1>8, <1>11, <1>12 DEF Served

(* A row of the channel the replay had is dropped: nothing is missed.      *)
LEMMA DropServes ==
  ASSUME NEW r, NEW top, NEW stored \in Nat, NEW sent \in Nat, NEW kept \in Nat,
         Served(r, top, stored, sent, kept), r.at = "following", r.live # <<>>,
         r.hand = <<>>, Head(r.live) <= r.last, feed.live \in Nat
  PROVE  Served([r EXCEPT !.live = Tail(r.live)], top, stored, sent, kept)
<1>1. /\ r \in FeedClient /\ r.last \in Nat /\ r.live \in Seq(Nat) /\ Len(r.live) \in Nat
      /\ EndsAt(r.live, sent) /\ Len(r.live) <= feed.live /\ Len(r.live) <= sent
  BY Zenon, ReadingParts, ClientParts
<1>2. PICK l \in Nat \ {0} : l = Len(r.live)
  BY <1>1
<1>3. PICK q \in Seq(Nat) : q = Tail(r.live)
  <2>1. Tail(r.live) \in Seq(Nat)
    BY <1>1
  <2> QED BY <2>1
<1>4. EndsAt(q, sent) /\ Len(q) = l - 1 /\ Head(r.live) = (sent - l) + 1
  BY <1>1, <1>2, <1>3, RestEnds
<1>5. PICK s : s = [r EXCEPT !.live = q]
  OBVIOUS
<1>6. /\ s \in FeedClient /\ s.at = r.at /\ s.cursor = r.cursor /\ s.after = r.after
      /\ s.live = q /\ s.lag = r.lag /\ s.hand = r.hand /\ s.last = r.last /\ s.owed = r.owed
      /\ s.missed = r.missed /\ s.told = r.told /\ s.stale = r.stale /\ s.ascending = r.ascending
  BY <1>1, <1>5 DEF FeedClient
<1>7. Len(q) <= feed.live
  BY <1>1, <1>2, <1>4
<1>8. Reading(s, top, stored, sent)
  BY <1>4, <1>6, <1>7 DEF Served, Reading
<1>9. GapLive(s, top, sent) = 0 /\ GapLive(r, top, sent) = 0 /\ GapHand(s, top) = GapHand(r, top)
  <2>1. (sent - l) + 1 <= r.last /\ sent - (l - 1) <= r.last
    BY <1>1, <1>4
  <2>2. ~(sent - (l - 1) > r.last) /\ ~(sent - l > r.last)
    BY <2>1, <1>1
  <2>3. ~(sent - Len(q) > r.last) /\ ~(sent - Len(r.live) > r.last)
    BY <2>2, <1>2, <1>4
  <2> QED BY <2>3, <1>6 DEF GapLive, GapHand, HandEnd
<1>10. ~s.stale => Accounted(s, top, stored, sent, kept)
  BY <1>6, <1>9 DEF Served, Accounted
<1> QED BY <1>3, <1>5, <1>8, <1>10 DEF Served

(* A new row of the channel is written: the rows between it and the last   *)
(* one were told of, for nothing is left to tell.                          *)
LEMMA WriteLiveServes ==
  ASSUME NEW r, NEW top, NEW stored \in Nat, NEW sent \in Nat, NEW kept \in Nat,
         Served(r, top, stored, sent, kept), r.at = "following", r.live # <<>>,
         r.hand = <<>>, r.lag = 0, ~(Head(r.live) <= r.last),
         sent <= stored, feed.live \in Nat
  PROVE  Served(Row([r EXCEPT !.live = Tail(r.live)], Head(r.live)), top, stored, sent, kept)
<1>1. /\ r \in FeedClient /\ r.cursor \in Nat /\ r.told \in Nat /\ r.missed \in Nat
      /\ r.last \in Nat /\ r.owed \in Nat /\ r.live \in Seq(Nat) /\ Len(r.live) \in Nat
      /\ r.owed <= r.last + 1 /\ EndsAt(r.hand, top) /\ top \in 0..stored /\ r.ascending
      /\ EndsAt(r.live, sent) /\ Len(r.live) <= feed.live /\ Len(r.live) <= sent
  BY Zenon, ReadingParts, ClientParts
<1>2. PICK l \in Nat \ {0} : l = Len(r.live)
  <2>1. Len(r.live) \in Nat \ {0}
    BY <1>1
  <2> QED BY <2>1
<1>3. PICK q \in Seq(Nat) : q = Tail(r.live)
  <2>1. Tail(r.live) \in Seq(Nat)
    BY <1>1
  <2> QED BY <2>1
<1>4. EndsAt(q, sent) /\ Len(q) = l - 1 /\ Head(r.live) = (sent - l) + 1
  BY <1>1, <1>2, <1>3, RestEnds
<1>5. PICK id \in Nat : id = (sent - l) + 1
  <2>1. l <= sent
    BY <1>1, <1>2
  <2>2. (sent - l) + 1 \in Nat
    BY <2>1
  <2> QED BY <2>2
<1>6. PICK on \in FeedClient : on = [r EXCEPT !.live = q]
  BY <1>1 DEF FeedClient
<1>7. /\ on.at = "following" /\ on.live = q /\ on.hand = <<>> /\ on.after = r.after
      /\ on.cursor = r.cursor /\ on.last = r.last /\ on.owed = r.owed
      /\ on.lag = 0 /\ on.missed = r.missed /\ on.told = r.told
      /\ on.ascending = r.ascending /\ on.stale = r.stale
  BY <1>1, <1>6 DEF FeedClient
<1>8. PICK s : s = Row(on, id)
  OBVIOUS
<1>9. /\ s \in FeedClient /\ s.at = "following" /\ s.cursor = id /\ s.after = r.after
      /\ s.live = q /\ s.lag = 0 /\ s.hand = <<>> /\ s.last = id /\ s.owed = id + 1
      /\ s.missed = r.missed + (IF r.owed > 0 /\ id > r.owed THEN id - r.owed ELSE 0)
      /\ s.told = r.told /\ s.stale = r.stale /\ s.ascending = (r.ascending /\ id >= r.owed)
  <2>1. IsRow(s, on, id)
    BY <1>8, RowIs
  <2> QED BY <1>7, <2>1 DEF IsRow
<1>10. id > r.last /\ id >= r.owed /\ id <= sent /\ id > 0 /\ id <= stored
  <2>1. id > r.last
    <3>1. ~(id <= r.last)
      BY <1>4, <1>5
    <3>2. PICK last \in Nat : last = r.last
      BY <1>1
    <3>3. id > last
      BY <3>1, <3>2
    <3> QED BY <3>2, <3>3
  <2>2. id >= r.owed /\ id > 0
    BY <2>1, <1>1
  <2>3. id = (sent - l) + 1 /\ l \in Nat \ {0}
    BY <1>5
  <2> QED BY <2>1, <2>2, <2>3
<1>11. Len(q) <= feed.live
  <2>1. feed.live >= l /\ Len(q) = l - 1
    BY <1>1, <1>2, <1>4
  <2> QED BY <2>1
<1>12. Reading(s, top, stored, sent)
  <2>1. id + 1 <= id + 1 /\ id + 1 <= stored + 1
    BY <1>10
  <2> QED BY <1>1, <1>4, <1>9, <1>10, <1>11, <2>1 DEF Reading
<1>13. ASSUME ~s.stale PROVE Accounted(s, top, stored, sent, kept)
  <2>1. /\ r.missed <= r.told
        /\ r.missed + GapHand(r, top) + GapLive(r, top, sent) <= r.told + 0
        /\ \/ r.owed = 0 /\ r.cursor = 0
           \/ r.owed = r.cursor + 1 /\ r.cursor > 0
        /\ r.last = r.cursor
    BY <1>9, <1>13 DEF Served, Accounted
  <2>2. PICK g \in Nat : g = IF r.owed > 0 /\ id > r.owed THEN id - r.owed ELSE 0
    <3>1. r.owed \in Nat
      BY <1>1
    <3>2. (IF r.owed > 0 /\ id > r.owed THEN id - r.owed ELSE 0) \in Nat
      BY <3>1
    <3> QED BY <3>2
  <2>3. GapHand(r, top) = 0 /\ GapHand(s, top) = 0
    BY <1>9 DEF GapHand
  <2>4. PICK d \in Nat : d = GapLive(r, top, sent)
    <3>1. top \in Nat
      BY <1>1
    <3> QED BY <3>1, <1>1, GapLiveNat
  <2>5. d = (sent - l) - r.last
    <3>1. d = IF sent - l > r.last THEN (sent - l) - r.last ELSE 0
      BY <1>2, <2>4 DEF GapLive, HandEnd
    <3>2. (sent - l) + 1 > r.last /\ r.last \in Nat
      BY <1>1, <1>5, <1>10
    <3> QED BY <3>1, <3>2
  <2>6. g <= d
    BY SMTT(40), <1>1, <1>5, <1>10, <2>1, <2>2, <2>5
  <2>7. GapLive(s, top, sent) = 0
    BY <1>4, <1>5, <1>9 DEF GapLive, HandEnd
  <2>8. s.missed <= s.told /\ s.missed + 0 <= s.told /\ s.missed + 0 + 0 <= s.told + 0
    <3>1. s.missed = r.missed + g /\ s.told = r.told /\ r.missed \in Nat /\ r.told \in Nat
      BY <1>1, <1>9, <2>2
    <3>2. r.missed + 0 + d <= r.told + 0
      BY <2>1, <2>3, <2>4
    <3> QED BY SMTT(40), <3>1, <3>2, <2>6
  <2> QED BY <1>9, <1>10, <2>3, <2>7, <2>8 DEF Accounted
<1> QED BY <1>3, <1>4, <1>5, <1>6, <1>8, <1>12, <1>13 DEF Served

(* What the channel dropped is told once the rows before it are written.   *)
LEMMA SayLaggedServes ==
  ASSUME NEW r, NEW top, NEW stored \in Nat, NEW sent \in Nat, NEW kept \in Nat,
         Served(r, top, stored, sent, kept), r.at = "following", r.hand = <<>>
  PROVE  Served(Told([r EXCEPT !.lag = 0], r.lag), top, stored, sent, kept)
<1>1. /\ r \in FeedClient /\ r.told \in Nat /\ r.missed \in Nat /\ r.lag \in Nat /\ r.last \in Nat
      /\ r.owed <= r.last + 1 /\ top \in Nat
  BY DEF Served, Reading, FeedClient
<1>2. PICK a \in Nat, b \in Nat : a = r.told + r.lag /\ b = r.last
  BY <1>1
<1>3. PICK on \in FeedClient : on = [r EXCEPT !.lag = 0]
  BY <1>1 DEF FeedClient
<1>4. /\ on.at = r.at /\ on.cursor = r.cursor /\ on.after = r.after /\ on.live = r.live /\ on.lag = 0
      /\ on.hand = r.hand /\ on.last = r.last /\ on.owed = r.owed /\ on.missed = r.missed
      /\ on.told = r.told /\ on.ascending = r.ascending /\ on.stale = r.stale
  BY <1>1, <1>3 DEF FeedClient
<1>5. PICK s : s = Told(on, r.lag)
  OBVIOUS
<1>6. s = [on EXCEPT !.told = a, !.cursor = b]
  BY <1>2, <1>4, <1>5 DEF Told
<1>7. /\ s \in FeedClient /\ s.at = on.at /\ s.cursor = b /\ s.after = on.after /\ s.live = on.live
      /\ s.lag = on.lag /\ s.hand = on.hand /\ s.last = on.last /\ s.owed = on.owed
      /\ s.missed = on.missed /\ s.told = a /\ s.ascending = on.ascending /\ s.stale = on.stale
  BY <1>3, <1>6 DEF FeedClient
<1>8. /\ s \in FeedClient /\ s.at = r.at /\ s.cursor = r.last /\ s.after = r.after /\ s.live = r.live
      /\ s.lag = 0 /\ s.hand = r.hand /\ s.last = r.last /\ s.owed = r.owed
      /\ s.missed = r.missed /\ s.told = a /\ s.ascending = r.ascending /\ s.stale = r.stale
  BY <1>2, <1>4, <1>7
<1>9. Reading(s, top, stored, sent)
  BY <1>1, <1>8 DEF Served, Reading
<1>10. ASSUME ~s.stale PROVE Accounted(s, top, stored, sent, kept)
  <2>1. /\ Accounted(r, top, stored, sent, kept) /\ r.last = r.cursor /\ r.missed <= r.told
        /\ r.missed + GapHand(r, top) + GapLive(r, top, sent) <= r.told + r.lag
    BY <1>8, <1>10 DEF Served, Accounted
  <2>2. PICK d \in Nat : d = GapLive(r, top, sent)
    BY <1>1, GapLiveNat
  <2>3. /\ GapHand(s, top) = 0 /\ GapHand(r, top) = 0 /\ GapLive(s, top, sent) = d
    BY <1>8, <2>2 DEF GapHand, GapLive, HandEnd
  <2>4. r.missed + 0 + d <= a + 0 /\ r.missed + 0 <= a /\ r.missed <= a
    BY <1>1, <1>2, <2>1, <2>2, <2>3
  <2> QED BY <1>8, <2>1, <2>3, <2>4 DEF Accounted
<1> QED BY <1>3, <1>5, <1>9, <1>10 DEF Served

(* A client whose connection broke keeps its cursor.                       *)
LEMMA BreakServes ==
  ASSUME NEW r, NEW top, NEW stored \in Nat, NEW sent \in Nat, NEW kept \in Nat,
         Served(r, top, stored, sent, kept), feed.live \in Nat
  PROVE  Served([r EXCEPT !.at = "off", !.live = <<>>, !.lag = 0, !.hand = <<>>],
                top, stored, sent, kept)
<1>1. r \in FeedClient /\ top \in 0..stored
  BY DEF Served, Reading
<1>2. PICK s : s = [r EXCEPT !.at = "off", !.live = <<>>, !.lag = 0, !.hand = <<>>]
  OBVIOUS
<1>3. /\ s \in FeedClient /\ s.at = "off" /\ s.live = <<>> /\ s.hand = <<>>
      /\ s.cursor = r.cursor /\ s.after = r.after /\ s.last = r.last /\ s.owed = r.owed
      /\ s.missed = r.missed /\ s.told = r.told /\ s.ascending = r.ascending /\ s.stale = r.stale
  <2>1. s \in FeedClient
    <3>1. "off" \in ClientStates /\ <<>> \in Seq(Nat) /\ 0 \in Nat
      BY DEF ClientStates
    <3> QED BY <1>1, <1>2, <3>1 DEF FeedClient
  <2> QED BY <1>1, <1>2, <2>1 DEF FeedClient
<1>4. EndsAt(s.hand, top) /\ EndsAt(s.live, sent) /\ Len(s.live) <= feed.live
  BY <1>1, EmptyEnds, <1>3
<1>5. Reading(s, top, stored, sent)
  BY <1>1, <1>3, <1>4 DEF Served, Reading
<1>6. ~s.stale => Accounted(s, top, stored, sent, kept)
  BY <1>3 DEF Served, Accounted
<1> QED BY <1>2, <1>5, <1>6 DEF Served

(* What the ring forgets meanwhile is told too.                            *)
LEMMA StoreServes ==
  ASSUME NEW r, NEW top, NEW stored \in Nat, NEW sent \in Nat, NEW kept \in Nat, NEW later \in Nat,
         Served(r, top, stored, sent, kept), kept <= later
  PROVE  Served(r, top, stored + 1, sent, later)
<1>1. /\ r \in FeedClient /\ r.after \in Nat /\ r.cursor \in Nat /\ r.told \in Nat /\ r.missed \in Nat
      /\ r.lag \in Nat /\ r.owed \in Nat /\ top \in Nat /\ top <= stored /\ r.owed <= stored + 1
  BY DEF Served, Reading, FeedClient
<1>2. Reading(r, top, stored + 1, sent)
  BY <1>1 DEF Served, Reading
<1>3. ASSUME ~r.stale PROVE Accounted(r, top, stored + 1, sent, later)
  <2>1. Accounted(r, top, stored, sent, kept)
    BY <1>3 DEF Served
  <2>2. PICK d \in Nat : d = GapSaid(r, kept)
    BY <1>1, GapSaidNat
  <2>3. PICK e \in Nat : e = GapSaid(r, later)
    BY <1>1, GapSaidNat
  <2>4. d <= e
    BY <1>1, <2>2, <2>3 DEF GapSaid
  <2>5. PICK l \in Nat : l = GapLive(r, top, sent)
    BY <1>1, GapLiveNat
  <2>6. r.cursor <= stored + 1
    BY <1>1, <2>1 DEF Accounted
  <2>7. ASSUME r.at = "replayed"
        PROVE  /\ r.missed + GapHand(r, top) <= r.told + e
               /\ r.missed + GapHand(r, top) + l <= r.told + r.lag + e
    <3>1. PICK g \in Nat : g = GapHand(r, top)
      BY GapHandNat DEF Served
    <3>2. r.missed + g <= r.told + d /\ r.missed + g + l <= r.told + r.lag + d
      BY <2>1, <2>2, <2>5, <2>7, <3>1 DEF Accounted
    <3> QED BY <3>1, <3>2, <1>1, <2>4
  <2> QED BY <2>1, <2>3, <2>5, <2>6, <2>7 DEF Accounted
<1> QED BY <1>2, <1>3 DEF Served

(* A row comes into the channel of a stream, and the oldest one goes when  *)
(* the channel is full.                                                    *)
LEMMA BroadcastServes ==
  ASSUME NEW r, NEW top, NEW stored \in Nat, NEW sent \in Nat, NEW kept \in Nat,
         Served(r, top, stored, sent, kept), feed.live \in Nat \ {0}
  PROVE  Served(IF r.at = "off" THEN r
                ELSE IF Len(r.live) < feed.live
                THEN [r EXCEPT !.live = Append(r.live, sent + 1)]
                ELSE [r EXCEPT !.live = Append(Tail(r.live), sent + 1), !.lag = r.lag + 1],
                top, stored, sent + 1, kept)
<1>1. /\ r \in FeedClient /\ r.told \in Nat /\ r.missed \in Nat
      /\ r.lag \in Nat /\ r.live \in Seq(Nat) /\ Len(r.live) \in Nat /\ top \in Nat /\ r.owed \in Nat
      /\ EndsAt(r.live, sent) /\ Len(r.live) <= feed.live
  BY DEF Served, Reading, FeedClient
<1>2. CASE r.at = "off"
  BY <1>2, EmptyEnds DEF Served, Reading, Accounted
<1>6. PICK a \in Nat : a = Len(r.live)
  BY <1>1
<1>3. ASSUME NEW q, NEW n \in Nat, NEW k \in {0, 1}, EndsAt(q, sent + 1), Len(q) = (a + 1) - k,
             Len(q) <= feed.live, n = r.lag + k, r.at # "off"
      PROVE  Served([r EXCEPT !.live = q, !.lag = n], top, stored, sent + 1, kept)
  <2>1. q \in Seq(Nat) /\ Len(q) \in Nat
    BY <1>3 DEF EndsAt
  <2>2. PICK s : s = [r EXCEPT !.live = q, !.lag = n]
    OBVIOUS
  <2>3. /\ s \in FeedClient /\ s.at = r.at /\ s.cursor = r.cursor /\ s.after = r.after /\ s.live = q
        /\ s.lag = n /\ s.hand = r.hand /\ s.last = r.last /\ s.owed = r.owed /\ s.missed = r.missed
        /\ s.told = r.told /\ s.ascending = r.ascending /\ s.stale = r.stale
    BY <1>1, <2>1, <2>2 DEF FeedClient
  <2>4. Reading(s, top, stored, sent + 1)
    BY <1>3, <2>3 DEF Served, Reading
  <2>5. ASSUME ~s.stale PROVE Accounted(s, top, stored, sent + 1, kept)
    <3>1. Accounted(r, top, stored, sent, kept)
      BY <2>3, <2>5 DEF Served
    <3>2. GapHand(s, top) = GapHand(r, top) /\ HandEnd(s, top) = HandEnd(r, top)
          /\ GapSaid(s, kept) = GapSaid(r, kept)
      BY <2>3 DEF GapHand, HandEnd, GapSaid
    <3>3. PICK l \in Nat : l = GapLive(r, top, sent)
      BY <1>1, GapLiveNat
    <3>4. PICK m \in Nat : m = GapLive(s, top, sent + 1)
      BY <1>1, <2>3, GapLiveNat
    <3>5. PICK e \in Nat : e = HandEnd(r, top)
      BY <1>1 DEF HandEnd, FeedClient
    <3>6. m + r.lag <= l + n
      <4>1. l = IF sent - a > e THEN (sent - a) - e ELSE 0
        BY <1>6, <3>3, <3>5 DEF GapLive
      <4>2. m = IF (sent + 1) - ((a + 1) - k) > e THEN ((sent + 1) - ((a + 1) - k)) - e ELSE 0
        BY <1>3, <2>3, <3>2, <3>4, <3>5 DEF GapLive
      <4>3. m <= l + k
        BY <4>1, <4>2
      <4>4. n = r.lag + k /\ r.lag \in Nat /\ k \in Nat
        BY <1>3, <1>1
      <4> QED BY <4>3, <4>4
    <3>7. PICK g \in Nat : g = GapHand(r, top)
      BY <1>1, GapHandNat DEF Served
    <3>8. ASSUME r.at = "following" PROVE r.missed + g <= r.told /\ r.missed + g + m <= r.told + n
      <4>1. r.missed + g <= r.told /\ r.missed + g + l <= r.told + r.lag
        BY <3>1, <3>3, <3>7, <3>8 DEF Accounted
      <4>2. r.missed \in Nat /\ r.told \in Nat /\ r.lag \in Nat
        BY <1>1
      <4> QED BY <4>1, <4>2, <3>6
    <3>9. ASSUME r.at = "replayed"
          PROVE  /\ r.missed + g <= r.told + GapSaid(r, kept)
                 /\ r.missed + g + m <= r.told + n + GapSaid(r, kept)
      <4>1. PICK d \in Nat : d = GapSaid(r, kept)
        BY <1>1, GapSaidNat
      <4>2. r.missed + g <= r.told + d /\ r.missed + g + l <= r.told + r.lag + d
        BY <3>1, <3>3, <3>7, <3>9, <4>1 DEF Accounted
      <4>3. r.missed \in Nat /\ r.told \in Nat /\ r.lag \in Nat
        BY <1>1
      <4>4. r.missed + g <= r.told + d /\ r.missed + g + m <= r.told + n + d
        BY <4>2, <4>3, <3>6
      <4> QED BY <4>1, <4>4
    <3> QED BY <2>3, <3>1, <3>2, <3>4, <3>7, <3>8, <3>9 DEF Accounted
  <2> QED BY <2>2, <2>4, <2>5 DEF Served
<1>4. CASE r.at # "off" /\ Len(r.live) < feed.live
  <2>1. EndsAt(Append(r.live, sent + 1), sent + 1) /\ Len(Append(r.live, sent + 1)) = Len(r.live) + 1
    BY <1>1, NextEnds
  <2>2. PICK q : q = Append(r.live, sent + 1)
    OBVIOUS
  <2>3. Len(q) <= feed.live /\ Len(q) = (a + 1) - 0 /\ r.lag \in Nat /\ r.lag = r.lag + 0
    BY <1>1, <1>4, <1>6, <2>1, <2>2
  <2>6. EndsAt(q, sent + 1)
    BY <2>1, <2>2
  <2>4. Served([r EXCEPT !.live = q, !.lag = r.lag], top, stored, sent + 1, kept)
    BY <1>3, <1>4, <2>3, <2>6
  <2>5. [r EXCEPT !.live = q, !.lag = r.lag] = [r EXCEPT !.live = q]
    BY <1>1 DEF FeedClient
  <2> QED BY <1>4, <2>2, <2>4, <2>5
<1>5. CASE r.at # "off" /\ ~(Len(r.live) < feed.live)
  <2>1. r.live # <<>>
    BY <1>1, <1>5
  <2>2. /\ EndsAt(Append(Tail(r.live), sent + 1), sent + 1)
        /\ Len(Append(Tail(r.live), sent + 1)) = Len(r.live)
    BY <1>1, <2>1, SlideEnds
  <2>3. PICK n \in Nat : n = r.lag + 1
    BY <1>1
  <2>6. PICK q : q = Append(Tail(r.live), sent + 1)
    OBVIOUS
  <2>4. Len(q) <= feed.live /\ Len(q) = (a + 1) - 1 /\ EndsAt(q, sent + 1)
    BY <1>1, <1>6, <2>2, <2>6
  <2>5. Served([r EXCEPT !.live = q, !.lag = n], top, stored, sent + 1, kept)
    BY <1>3, <1>5, <2>3, <2>4
  <2> QED BY <1>5, <2>3, <2>5, <2>6
<1> QED BY <1>2, <1>4, <1>5

-----------------------------------------------------------------------------
(* The steps of the feed.                                                  *)

(* The numbers the invariant speaks of, and how they are ordered.          *)
LEMMA FeedNumbers ==
  ASSUME FeedIInv
  PROVE  /\ RingTop \in Nat /\ AirTop \in Nat /\ RingFloor \in Nat /\ Newest \in Nat
         /\ AirTop <= RingTop /\ RingTop <= Newest
         /\ Len(ring) \in Nat /\ Len(ring) <= RingTop /\ (Len(ring) = 0 => RingTop = 0)
         /\ feed.ring \in Nat \ {0} /\ feed.live \in Nat \ {0} /\ feed.bus \in Nat \ {0}
         /\ feed.events \in Nat
<1>1. /\ ids \in Nat \ {0} /\ (projecting.at # "idle" => ids > 1) /\ EndsAt(ring, RingTop)
      /\ (Len(ring) = RingTop \/ Len(ring) = feed.ring) /\ feed \in FeedConfigs
  BY DEF FeedIInv, FeedTyped, RingEnds
<1>2. /\ feed.ring \in Nat \ {0} /\ feed.live \in Nat \ {0} /\ feed.bus \in Nat \ {0}
      /\ feed.events \in Nat
  BY <1>1, FeedConstants
<1>3. RingTop \in Nat /\ AirTop \in Nat /\ AirTop <= RingTop /\ RingTop <= Newest /\ Newest \in Nat
  BY <1>1 DEF RingTop, AirTop, Newest
<1>4. Len(ring) \in Nat /\ Len(ring) <= RingTop
  BY <1>1 DEF EndsAt
<1>5. RingFloor \in Nat
  BY <1>3, <1>4 DEF RingFloor
<1>6. Len(ring) = 0 => RingTop = 0
  BY <1>1, <1>2
<1> QED BY <1>2, <1>3, <1>4, <1>5, <1>6

(* A step that moves one client.                                           *)
LEMMA OneClientMoves ==
  ASSUME FeedIInv, NEW c \in FeedClients, NEW s, NEW top \in 0..RingTop,
         Served(s, top, RingTop, AirTop, RingFloor), client' = [client EXCEPT ![c] = s],
         UNCHANGED <<feed, bus, ids, ring, projecting>>,
         fed' \in [events : Nat, drops : Nat, boots : Nat], fed'.events = fed.events
  PROVE  FeedIInv'
<1>1. FeedTyped /\ RowsComeFromEvents /\ RingEnds
  BY DEF FeedIInv
<1>2. s \in FeedClient /\ client \in [FeedClients -> FeedClient]
  BY <1>1 DEF Served, Reading, FeedTyped
<1>3. FeedTyped'
  BY <1>1, <1>2 DEF FeedTyped
<1>4. RowsComeFromEvents'
  BY <1>1 DEF RowsComeFromEvents
<1>5. RingTop' = RingTop /\ AirTop' = AirTop /\ RingFloor' = RingFloor
  BY DEF RingTop, AirTop, RingFloor
<1>6. RingEnds'
  BY <1>1, <1>5 DEF RingEnds
<1>7. ASSUME NEW d \in FeedClients
      PROVE  \E t \in 0..RingTop : Served(client'[d], t, RingTop, AirTop, RingFloor)
  BY <1>2 DEF FeedIInv
<1> QED
  <2>1. ASSUME NEW d \in FeedClients
        PROVE  (\E t \in 0..RingTop : Served(client[d], t, RingTop, AirTop, RingFloor))'
    <3>1. PICK t \in 0..RingTop : Served(client'[d], t, RingTop, AirTop, RingFloor)
      BY <1>7
    <3>2. Served(client[d], t, RingTop, AirTop, RingFloor)'
      BY <3>1, <1>5 DEF Served, Reading, Accounted
    <3> QED BY <3>1, <3>2, <1>5
  <2> QED BY <1>3, <1>4, <1>6, <2>1 DEF FeedIInv

(* The steps of a stream, and a connection that breaks.                    *)
LEMMA StreamsKeep ==
  ASSUME FeedIInv, NEW c \in FeedClients, Open(c) \/ StreamSteps(c) \/ ConnectionBreaks(c)
  PROVE  FeedIInv'
<1> DEFINE r == client[c]
<1>1. /\ r \in FeedClient /\ client \in [FeedClients -> FeedClient]
      /\ fed \in [events : Nat, drops : Nat, boots : Nat]
  BY DEF FeedIInv, FeedTyped
<1>2. PICK top \in 0..RingTop : Served(r, top, RingTop, AirTop, RingFloor)
  BY DEF FeedIInv
<1>3. /\ RingTop \in Nat /\ AirTop \in Nat /\ RingFloor \in Nat /\ Newest \in Nat
      /\ AirTop <= RingTop /\ RingTop <= Newest /\ top \in Nat
      /\ Len(ring) \in Nat /\ Len(ring) <= RingTop /\ (Len(ring) = 0 => RingTop = 0)
      /\ feed.live \in Nat \ {0} /\ RingTop \in 0..RingTop
  BY FeedNumbers
<1>4. CASE Open(c)
  <2>1. client' = [client EXCEPT ![c] = [r EXCEPT !.at = "opened", !.live = <<>>, !.lag = 0, !.hand = <<>>]]
    BY <1>4, <1>1 DEF Open
  <2>2. r.at = "off" /\ UNCHANGED feedRest
    BY <1>4 DEF Open
  <2>3. Served([r EXCEPT !.at = "opened", !.live = <<>>, !.lag = 0, !.hand = <<>>], top, RingTop, AirTop, RingFloor)
    BY <1>2, <1>3, <2>2, OpenServes
  <2> QED BY <1>1, <2>1, <2>2, <2>3, OneClientMoves DEF feedRest
<1>5. CASE Clamp(c)
  <2>1. client' = [client EXCEPT ![c] = [r EXCEPT !.at = "clamped", !.after = Least(r.cursor, Newest)]]
    BY <1>5, <1>1 DEF Clamp
  <2>2. r.at = "opened" /\ UNCHANGED feedRest
    BY <1>5 DEF Clamp
  <2>3. Served([r EXCEPT !.at = "clamped", !.after = Least(r.cursor, Newest)], top, RingTop, AirTop, RingFloor)
    BY <1>2, <1>3, <2>2, ClampServes
  <2> QED BY <1>1, <2>1, <2>2, <2>3, OneClientMoves DEF feedRest
<1>6. CASE Replay(c)
  <2>1. client' = [client EXCEPT ![c] = [r EXCEPT !.at = "replayed", !.last = r.after, !.hand = Since(r.after)]]
    BY <1>6, <1>1 DEF Replay
  <2>2. r.at = "clamped" /\ UNCHANGED feedRest /\ r.after \in Nat
    BY <1>6, <1>1 DEF Replay, FeedClient
  <2>3. /\ EndsAt(Since(r.after), RingTop)
        /\ Len(Since(r.after)) = IF r.after <= RingTop - Len(ring) THEN Len(ring)
                                 ELSE IF r.after >= RingTop THEN 0 ELSE RingTop - r.after
    BY <2>2, <1>3, ReplayIsTheFilter DEF FeedIInv, RingEnds
  <2>4. Served([r EXCEPT !.at = "replayed", !.last = r.after, !.hand = Since(r.after)], RingTop, RingTop, AirTop, RingFloor)
    <3>1. PICK n \in Nat : n = Len(ring)
      BY <1>3
    <3>2. RingFloor = (RingTop - n) + 1
      BY <3>1 DEF RingFloor
    <3>3. Served(r, top, RingTop, AirTop, (RingTop - n) + 1)
      BY <3>2, <1>2
    <3>4. PICK hand : hand = Since(r.after)
      OBVIOUS
    <3>5. /\ EndsAt(hand, RingTop) /\ n <= RingTop /\ (n = 0 => RingTop = 0)
          /\ Len(hand) = IF r.after <= RingTop - n THEN n ELSE IF r.after >= RingTop THEN 0 ELSE RingTop - r.after
      BY <3>1, <3>4, <2>3, <1>3
    <3>6. Served([r EXCEPT !.at = "replayed", !.last = r.after, !.hand = hand], RingTop, RingTop, AirTop, (RingTop - n) + 1)
      BY <3>3, <3>5, <2>2, <1>3, ReplayServes
    <3> QED BY <3>2, <3>4, <3>6
  <2> QED BY <1>1, <1>3, <2>1, <2>2, <2>4, OneClientMoves DEF feedRest
<1>7. CASE SayExpired(c)
  <2>1. r.at = "replayed" /\ UNCHANGED feedRest /\ r.after \in Nat
    BY <1>7, <1>1 DEF SayExpired, FeedClient
  <2>2. PICK e : e = Expired(r.after)
    OBVIOUS
  <2>3. FirstKept \in Nat /\ (ring # <<>> => FirstKept = RingFloor)
    <3>1. EndsAt(ring, RingTop) /\ ring \in Seq(Nat)
      BY DEF FeedIInv, RingEnds, EndsAt
    <3>2. CASE ring = <<>>
      BY <3>2, <1>3 DEF FirstKept
    <3>3. CASE ring # <<>>
      BY <3>1, <3>3, <1>3, RestEnds DEF FirstKept, RingFloor
    <3> QED BY <3>2, <3>3
  <2>4. e \in Nat
    BY <2>1, <2>2, <2>3 DEF Expired
  <2>5. ~r.stale => (IF r.cursor > 0 THEN e ELSE 0) = GapSaid(r, RingFloor)
    <3> SUFFICES ASSUME ~r.stale PROVE (IF r.cursor > 0 THEN e ELSE 0) = GapSaid(r, RingFloor)
      OBVIOUS
    <3>1. CASE r.cursor > 0
      <4>1. r.cursor <= RingTop /\ r.cursor \in Nat
        BY <1>1, <1>2 DEF Served, Accounted, FeedClient
      <4>2. ring # <<>>
        BY <3>1, <4>1, <1>3
      <4> QED BY <3>1, <4>2, <2>2, <2>3 DEF Expired, GapSaid
    <3>2. CASE ~(r.cursor > 0)
      BY <3>2 DEF GapSaid
    <3> QED BY <3>1, <3>2
  <2>6. client' = [client EXCEPT ![c] = LET on == [r EXCEPT !.at = "following"]
                                        IN  IF r.cursor > 0 /\ e > 0 THEN Told(on, e) ELSE on]
    BY <1>7, <1>1, <2>2 DEF SayExpired
  <2>7. Served(LET on == [r EXCEPT !.at = "following"]
               IN  IF r.cursor > 0 /\ e > 0 THEN Told(on, e) ELSE on, top, RingTop, AirTop, RingFloor)
    BY <1>2, <1>3, <2>1, <2>4, <2>5, SayExpiredServes
  <2> QED BY <1>1, <2>1, <2>6, <2>7, OneClientMoves DEF feedRest
<1>8. CASE WriteReplayed(c)
  BY <1>8, <1>2, <1>3, WriteReplayedServes, <1>1, OneClientMoves DEF WriteReplayed, feedRest
<1>9. CASE WriteLive(c)
  BY <1>9, <1>2, <1>3, DropServes, <1>1, OneClientMoves, WriteLiveServes DEF WriteLive,
     StreamLive, feedRest
<1>10. CASE SayLagged(c)
  BY <1>10, <1>1, <1>2, <1>3, SayLaggedServes, OneClientMoves DEF SayLagged, StreamLive, feedRest
<1>11. CASE ConnectionBreaks(c)
  <2>1. client' = [client EXCEPT ![c] = [r EXCEPT !.at = "off", !.live = <<>>, !.lag = 0, !.hand = <<>>]]
    BY <1>11, <1>1 DEF ConnectionBreaks
  <2>2. /\ UNCHANGED <<feed, bus, ids, ring, projecting>> /\ fed' = [fed EXCEPT !.drops = fed.drops + 1]
    BY <1>11 DEF ConnectionBreaks
  <2>3. fed' \in [events : Nat, drops : Nat, boots : Nat] /\ fed'.events = fed.events
    BY <1>1, <2>2
  <2>4. Served([r EXCEPT !.at = "off", !.live = <<>>, !.lag = 0, !.hand = <<>>], top, RingTop, AirTop, RingFloor)
    BY <1>2, <1>3, BreakServes
  <2> QED BY <1>1, <2>1, <2>2, <2>3, <2>4, OneClientMoves
<1> QED BY <1>4, <1>5, <1>6, <1>7, <1>8, <1>9, <1>10, <1>11 DEF StreamSteps

(* A step that touches neither the clients nor what the ring and the       *)
(* channels hold.                                                          *)
LEMMA BusMoves ==
  ASSUME FeedIInv, UNCHANGED <<feed, client>>, RingTop' = RingTop, AirTop' = AirTop, RingFloor' = RingFloor,
         FeedTyped', RowsComeFromEvents', RingEnds'
  PROVE  FeedIInv'
<1>1. ASSUME NEW d \in FeedClients
      PROVE  (\E t \in 0..RingTop : Served(client[d], t, RingTop, AirTop, RingFloor))'
  <2>1. PICK t \in 0..RingTop : Served(client[d], t, RingTop, AirTop, RingFloor)
    BY DEF FeedIInv
  <2>2. Served(client[d], t, RingTop, AirTop, RingFloor)'
    BY <2>1 DEF Served, Reading, Accounted
  <2> QED BY <2>1, <2>2
<1> QED BY <1>1 DEF FeedIInv

(* An event comes onto the bus.                                            *)
LEMMA EmitKeeps ==
  ASSUME FeedIInv, Emit
  PROVE  FeedIInv'
<1>1. /\ bus \in [pending : Nat, lost : Nat] /\ fed \in [events : Nat, drops : Nat, boots : Nat]
      /\ (ids - 1) + bus.pending + bus.lost <= fed.events /\ fed.events < feed.events
      /\ bus.pending <= feed.bus /\ ids \in Nat \ {0} /\ feed.bus \in Nat
      /\ bus.pending \in Nat /\ bus.lost \in Nat /\ fed.events \in Nat /\ feed.events \in Nat
  BY FeedNumbers DEF FeedIInv, FeedTyped, RowsComeFromEvents, Emit
<1>2. UNCHANGED <<feed, ids, ring, projecting, client>>
  BY DEF Emit
<1>3. fed' \in [events : Nat, drops : Nat, boots : Nat] /\ fed'.events = fed.events + 1
  BY <1>1 DEF Emit
<1>4. /\ bus' \in [pending : Nat, lost : Nat] /\ bus'.pending + bus'.lost = bus.pending + bus.lost + 1
      /\ bus'.pending <= feed.bus
  BY <1>1 DEF Emit
<1>5. RingTop' = RingTop /\ AirTop' = AirTop /\ RingFloor' = RingFloor
  BY <1>2 DEF RingTop, AirTop, RingFloor
<1>6. FeedTyped' /\ RingEnds'
  BY <1>2, <1>3, <1>4, <1>5 DEF FeedIInv, FeedTyped, RingEnds
<1>7. RowsComeFromEvents'
  BY <1>4, <1>1, <1>2, <1>3 DEF RowsComeFromEvents
<1> QED BY <1>2, <1>5, <1>6, <1>7, BusMoves

(* An event, or what was lost before it, is numbered.                      *)
LEMMA ProjectKeeps ==
  ASSUME FeedIInv, Project
  PROVE  FeedIInv'
<1>1. /\ bus \in [pending : Nat, lost : Nat] /\ ids \in Nat \ {0}
      /\ (ids - 1) + bus.pending + bus.lost <= fed.events /\ fed.events <= feed.events
      /\ bus.pending <= feed.bus /\ feed.bus \in Nat /\ fed.events \in Nat
      /\ bus.pending \in Nat /\ bus.lost \in Nat /\ projecting.at = "idle"
      /\ bus.lost > 0 \/ bus.pending > 0
  BY FeedNumbers DEF FeedIInv, FeedTyped, RowsComeFromEvents, Project
<1>2. /\ UNCHANGED <<feed, ring, client, fed>> /\ ids' = ids + 1
      /\ projecting' = [at |-> "numbered", id |-> ids]
  BY DEF Project
<1>3. /\ bus' \in [pending : Nat, lost : Nat] /\ bus'.pending + bus'.lost + 1 <= bus.pending + bus.lost
      /\ bus'.pending <= feed.bus
  BY <1>1 DEF Project
<1>4. projecting'.at = "numbered" /\ projecting'.id = ids
      /\ projecting' \in [at : {"idle", "numbered", "stored"}, id : Nat]
  BY <1>1, <1>2
<1>5. RingTop' = RingTop /\ AirTop' = AirTop
  BY <1>1, <1>4, <1>2 DEF RingTop, AirTop
<1>6. RingFloor' = RingFloor
  BY <1>2, <1>5 DEF RingFloor
<1>7. FeedTyped'
  BY <1>1, <1>2, <1>3, <1>4 DEF FeedIInv, FeedTyped
<1>8. RingEnds'
  BY <1>1, <1>2, <1>4, <1>5 DEF FeedIInv, RingEnds
<1>9. RowsComeFromEvents'
  BY <1>3, <1>1, <1>2 DEF RowsComeFromEvents
<1> QED BY <1>2, <1>5, <1>6, <1>7, <1>8, <1>9, BusMoves

(* The row comes into the ring, which forgets its oldest when it is full.  *)
LEMMA StoreKeeps ==
  ASSUME FeedIInv, Store
  PROVE  FeedIInv'
<1>1. /\ projecting.at = "numbered" /\ projecting.id = ids - 1 /\ ids > 1 /\ ids \in Nat \ {0}
      /\ projecting \in [at : {"idle", "numbered", "stored"}, id : Nat]
      /\ EndsAt(ring, RingTop) /\ Len(ring) <= feed.ring
      /\ Len(ring) = RingTop \/ Len(ring) = feed.ring
  BY DEF FeedIInv, FeedTyped, RingEnds, Store
<1>2. /\ UNCHANGED <<feed, bus, ids, client, fed>> /\ projecting' = [projecting EXCEPT !.at = "stored"]
  BY DEF Store
<1>3. /\ RingTop \in Nat /\ AirTop \in Nat /\ RingFloor \in Nat /\ Len(ring) \in Nat /\ Len(ring) <= RingTop
      /\ feed.ring \in Nat \ {0}
  BY FeedNumbers
<1>4. /\ projecting' \in [at : {"idle", "numbered", "stored"}, id : Nat]
      /\ projecting'.at = "stored" /\ projecting'.id = projecting.id
  BY <1>1, <1>2
<1>5. RingTop' = RingTop + 1 /\ AirTop' = AirTop /\ projecting.id = RingTop + 1
  BY <1>1, <1>2, <1>4 DEF RingTop, AirTop
<1>6. /\ EndsAt(ring', RingTop + 1) /\ Len(ring') <= feed.ring
      /\ Len(ring') = RingTop + 1 \/ Len(ring') = feed.ring
      /\ Len(ring') = Len(ring) + 1 \/ Len(ring') = Len(ring)
  <2>1. CASE Len(ring) = feed.ring
    BY <2>1, <1>5, <1>3, <1>1, SlideEnds DEF Store
  <2>2. CASE Len(ring) # feed.ring
    BY <2>2, <1>5, <1>1, <1>3, NextEnds DEF Store
  <2> QED BY <2>1, <2>2
<1>7. FeedTyped' /\ RowsComeFromEvents' /\ RingEnds'
  BY <1>2, <1>4, <1>1, <1>5, <1>6 DEF FeedIInv, FeedTyped, RowsComeFromEvents, RingEnds
<1>8. RingFloor' \in Nat /\ RingFloor <= RingFloor'
  BY <1>5, <1>3, <1>6 DEF RingFloor
<1>9. ASSUME NEW d \in FeedClients
      PROVE  (\E t \in 0..RingTop : Served(client[d], t, RingTop, AirTop, RingFloor))'
  <2>1. PICK t \in 0..RingTop : Served(client[d], t, RingTop, AirTop, RingFloor)
    BY DEF FeedIInv
  <2>2. PICK k \in Nat : k = RingFloor'
    BY <1>8
  <2>3. Served(client[d], t, RingTop + 1, AirTop, k)
    BY <2>1, <2>2, <1>3, <1>8, StoreServes
  <2>4. Served(client[d], t, RingTop, AirTop, RingFloor)'
    BY <2>2, <2>3, <1>2, <1>5 DEF Served, Reading, Accounted
  <2>5. t \in 0..(RingTop + 1)
    BY <2>1, <1>3
  <2> QED BY <2>4, <2>5, <1>5
<1> QED BY <1>7, <1>9 DEF FeedIInv

(* The row comes into every channel.                                       *)
LEMMA BroadcastKeeps ==
  ASSUME FeedIInv, Broadcast
  PROVE  FeedIInv'
<1>1. /\ projecting.at = "stored" /\ projecting.id = ids - 1 /\ ids > 1 /\ ids \in Nat \ {0}
      /\ projecting \in [at : {"idle", "numbered", "stored"}, id : Nat]
      /\ client \in [FeedClients -> FeedClient]
  BY DEF FeedIInv, FeedTyped, RingEnds, Broadcast
<1>2. UNCHANGED <<feed, bus, ids, ring, fed>> /\ projecting' = [projecting EXCEPT !.at = "idle"]
  BY DEF Broadcast
<1>3. RingTop \in Nat /\ AirTop \in Nat /\ RingFloor \in Nat /\ feed.live \in Nat \ {0}
  BY FeedNumbers
<1>4. /\ projecting' \in [at : {"idle", "numbered", "stored"}, id : Nat] /\ projecting'.at = "idle"
  BY <1>1, <1>2
<1>5. RingTop' = RingTop /\ AirTop' = AirTop + 1 /\ projecting.id = AirTop + 1
  BY <1>1, <1>2, <1>4 DEF RingTop, AirTop
<1>6. RingFloor' = RingFloor
  BY <1>2, <1>5 DEF RingFloor
<1>7. ASSUME NEW d \in FeedClients
      PROVE  \E t \in 0..RingTop : Served(client'[d], t, RingTop, AirTop + 1, RingFloor)
  <2>1. PICK t \in 0..RingTop : Served(client[d], t, RingTop, AirTop, RingFloor)
    BY DEF FeedIInv
  <2>2. client'[d] = IF client[d].at = "off" THEN client[d]
                     ELSE IF Len(client[d].live) < feed.live
                     THEN [client[d] EXCEPT !.live = Append(client[d].live, AirTop + 1)]
                     ELSE [client[d] EXCEPT !.live = Append(Tail(client[d].live), AirTop + 1),
                                            !.lag = client[d].lag + 1]
    BY <1>5 DEF Broadcast
  <2>3. Served(client'[d], t, RingTop, AirTop + 1, RingFloor)
    <3>1. PICK r : r = client[d]
      OBVIOUS
    <3>2. Served(r, t, RingTop, AirTop, RingFloor)
      BY <2>1, <3>1
    <3>3. Served(IF r.at = "off" THEN r
                 ELSE IF Len(r.live) < feed.live
                 THEN [r EXCEPT !.live = Append(r.live, AirTop + 1)]
                 ELSE [r EXCEPT !.live = Append(Tail(r.live), AirTop + 1), !.lag = r.lag + 1],
                 t, RingTop, AirTop + 1, RingFloor)
      BY <3>2, <1>3, BroadcastServes
    <3> QED BY <2>2, <3>1, <3>3, Zenon
  <2> QED BY <2>3
<1>8. client' \in [FeedClients -> FeedClient]
  BY <1>7 DEF Served, Reading, Broadcast
<1>9. FeedTyped' /\ RowsComeFromEvents' /\ RingEnds'
  BY <1>2, <1>4, <1>5, <1>8 DEF FeedIInv, FeedTyped, RowsComeFromEvents, RingEnds
<1>10. ASSUME NEW d \in FeedClients
       PROVE  (\E t \in 0..RingTop : Served(client[d], t, RingTop, AirTop, RingFloor))'
  <2>1. PICK t \in 0..RingTop : Served(client'[d], t, RingTop, AirTop + 1, RingFloor)
    BY <1>7
  <2>2. Served(client[d], t, RingTop, AirTop, RingFloor)'
    BY <2>1, <1>2, <1>5, <1>6 DEF Served, Reading, Accounted
  <2> QED BY <2>1, <2>2, <1>5
<1> QED BY <1>9, <1>10 DEF FeedIInv

(* A client no stream serves yet: a cursor it has is from a process that   *)
(* is gone.                                                                *)
Unserved(r) ==
  /\ r \in FeedClient
  /\ r.at = "off" /\ r.live = <<>> /\ r.hand = <<>> /\ r.last = 0 /\ r.missed = 0 /\ r.told = 0
  /\ r.ascending /\ r.owed = (IF r.cursor > 0 THEN 1 ELSE 0)
  /\ ~r.stale => r.cursor = 0

(* A process begins: nothing is numbered and nobody is served.             *)
Begins ==
  /\ feed \in FeedConfigs /\ ids = 1 /\ ring = <<>> /\ projecting = [at |-> "idle", id |-> 0]
  /\ bus = [pending |-> 0, lost |-> 0]
  /\ fed \in [events : Nat, drops : Nat, boots : Nat] /\ fed.events = 0
  /\ client \in [FeedClients -> FeedClient] /\ \A c \in FeedClients : Unserved(client[c])

(* The invariant holds when a process begins.                              *)
LEMMA BeginningServes ==
  ASSUME Begins
  PROVE  FeedIInv
<1>1. feed.live \in Nat \ {0} /\ feed.bus \in Nat \ {0} /\ feed.ring \in Nat \ {0} /\ feed.events \in Nat
  BY FeedConstants DEF Begins
<1>2. RingTop = 0 /\ AirTop = 0 /\ RingFloor = 1
  BY DEF RingTop, AirTop, Begins, RingFloor
<1>3. EndsAt(<<>>, 0) /\ Len(<<>>) = 0
  BY EmptyEnds
<1>4. FeedTyped
  BY DEF FeedTyped, Begins
<1>5. RowsComeFromEvents
  BY <1>1 DEF RowsComeFromEvents, Begins
<1>6. RingEnds
  BY <1>1, <1>2, <1>3 DEF RingEnds, Begins
<1>7. ASSUME NEW c \in FeedClients PROVE Served(client[c], 0, RingTop, AirTop, RingFloor)
  <2>1. PICK r \in FeedClient : r = client[c] /\ Unserved(r)
    BY DEF Begins
  <2>2. r.cursor \in Nat
    BY DEF FeedClient
  <2>3. Reading(r, 0, 0, 0)
    BY <2>1, <2>2, <1>1, <1>3 DEF Unserved, Reading
  <2>4. ~r.stale => Accounted(r, 0, 0, 0, 1)
    BY <2>1 DEF Accounted, Unserved
  <2> QED BY <2>1, <2>3, <2>4, <1>2 DEF Served
<1>8. 0 \in 0..RingTop
  BY <1>2
<1> QED BY <1>4, <1>5, <1>6, <1>7, <1>8 DEF FeedIInv

(* At the start nobody has a cursor.                                       *)
LEMMA FeedStart ==
  ASSUME FeedInit
  PROVE  FeedIInv
<1>1. NotFollowing \in FeedClient /\ Unserved(NotFollowing)
  BY DEF NotFollowing, FeedClient, ClientStates, Unserved
<1>2. Begins
  BY <1>1 DEF FeedInit, Begins
<1> QED BY <1>2, BeginningServes

(* A new process: the cursors of the clients are of the old one.           *)
LEMMA RestartKeeps ==
  ASSUME FeedIInv, DaemonRestarts
  PROVE  FeedIInv'
<1>1. feed \in FeedConfigs /\ client \in [FeedClients -> FeedClient]
      /\ fed \in [events : Nat, drops : Nat, boots : Nat]
  BY DEF FeedIInv, FeedTyped
<1>2. ASSUME NEW c \in FeedClients PROVE client'[c] \in FeedClient /\ Unserved(client'[c])
  <2>1. PICK n \in Nat : n = client[c].cursor
    BY <1>1 DEF FeedClient
  <2>2. PICK o \in Nat : o = IF n > 0 THEN 1 ELSE 0
    OBVIOUS
  <2>3. PICK b \in BOOLEAN : b = (n > 0)
    <3>1. (n > 0) \in BOOLEAN
      OBVIOUS
    <3> QED BY <3>1, Zenon
  <2>9. ~b => n = 0
    <3>1. b <=> (n > 0)
      BY <2>3, Zenon
    <3> QED BY <3>1
  <2>4. client'[c] = [NotFollowing EXCEPT !.cursor = n, !.owed = o, !.stale = b]
    BY <2>1, <2>2, <2>3 DEF DaemonRestarts
  <2>5. PICK r : r = client'[c]
    OBVIOUS
  <2>6. r = [at |-> "off", cursor |-> n, after |-> 0, live |-> <<>>, lag |-> 0, hand |-> <<>>, last |-> 0,
             owed |-> o, missed |-> 0, told |-> 0, ascending |-> TRUE, stale |-> b]
    BY <2>4, <2>5 DEF NotFollowing
  <2>7. r \in FeedClient
    BY <2>6 DEF FeedClient, ClientStates
  <2>8. Unserved(r)
    BY <2>6, <2>2, <2>7, <2>9 DEF Unserved
  <2> QED BY <2>5, <2>7, <2>8
<1>3. client' \in [FeedClients -> FeedClient]
  BY <1>2 DEF DaemonRestarts
<1>4. fed' \in [events : Nat, drops : Nat, boots : Nat] /\ fed'.events = 0
  <2>1. PICK boots \in Nat : boots = fed.boots + 1
    BY <1>1
  <2>2. fed' = [fed EXCEPT !.boots = boots, !.events = 0]
    BY <2>1 DEF DaemonRestarts
  <2> QED BY <2>2, <1>1
<1>5. Begins'
  BY <1>1, <1>2, <1>3, <1>4 DEF Begins, DaemonRestarts, Unserved
<1> QED BY <1>5, BeginningServes, PTL

(* The invariant is kept by every step of the feed.                        *)
LEMMA FeedStepKeeps ==
  ASSUME FeedIInv, [FeedNext]_feedVars
  PROVE  FeedIInv'
<1>1. CASE Emit
  BY <1>1, EmitKeeps
<1>2. CASE ProjectorSteps
  BY <1>2, ProjectKeeps, StoreKeeps, BroadcastKeeps DEF ProjectorSteps
<1>3. CASE DaemonRestarts
  BY <1>3, RestartKeeps
<1>4. ASSUME NEW c \in FeedClients, Open(c) \/ StreamSteps(c) \/ ConnectionBreaks(c)
      PROVE  FeedIInv'
  BY <1>4, StreamsKeep
<1>5. CASE UNCHANGED feedVars
  BY <1>5, BusMoves DEF feedVars, RingTop, AirTop, RingFloor, FeedIInv, FeedTyped,
     RowsComeFromEvents, RingEnds
<1> QED BY <1>1, <1>2, <1>3, <1>4, <1>5 DEF FeedNext

(* The numbers, the ring and every client's account are kept.              *)
THEOREM FeedInvariance == FeedSpec => []FeedIInv
<1>1. FeedInit => FeedIInv
  BY FeedStart
<1>2. FeedIInv /\ [FeedNext]_feedVars => FeedIInv'
  BY FeedStepKeeps
<1> QED BY <1>1, <1>2, PTL DEF FeedSpec

(* Rows reach a client in order and once, and no row of this process is    *)
(* passed over in silence, however often the client comes and goes         *)
(* (LedgerRing::push, ledger_stream).                                      *)
THEOREM FeedKeepsItsPromises == FeedSpec => []FeedHolds
<1>1. ASSUME FeedIInv PROVE FeedHolds
  <2>1. FeedTypeOK
    <3>1. /\ ids \in Nat \ {0} /\ bus.pending \in Nat /\ bus.lost \in Nat /\ fed.events \in Nat
          /\ (ids - 1) + bus.pending + bus.lost <= fed.events /\ fed.events <= feed.events
          /\ bus.pending <= feed.bus /\ feed.bus \in Nat /\ feed.events \in Nat
      BY <1>1, FeedNumbers DEF FeedIInv, FeedTyped, RowsComeFromEvents
    <3>2. ids \in 1..(feed.events + 1) /\ bus.pending \in 0..feed.bus
      BY <3>1
    <3>3. Len(ring) <= feed.ring /\ projecting.at \in {"idle", "numbered", "stored"}
      BY <1>1 DEF FeedIInv, FeedTyped, RingEnds
    <3>4. ASSUME NEW c \in FeedClients
          PROVE  /\ client[c].at \in {"off", "opened", "clamped", "replayed", "following"}
                 /\ Len(client[c].live) <= feed.live
      BY <1>1 DEF FeedIInv, Served, Reading, FeedClient, ClientStates
    <3> QED BY <3>1, <3>2, <3>3, <3>4 DEF FeedTypeOK
  <2>2. RowsAscend
    BY <1>1 DEF RowsAscend, FeedIInv, Served, Reading
  <2>3. MissedIsTold
    BY <1>1 DEF MissedIsTold, FeedIInv, Served, Accounted
  <2> QED BY <2>1, <2>2, <2>3 DEF FeedHolds
<1> QED BY <1>1, FeedInvariance, PTL

-----------------------------------------------------------------------------
(***************************************************************************)
(* The Discord messages (ChannelLanes).  An admitted message has a number  *)
(* of its own and is with one worker, in hand or queued, in the order of   *)
(* admission (InLine, OneWorker), until it is posted.  Over one link a     *)
(* channel has one worker that has not ended (LanesOwned), so a reply is   *)
(* behind all that the channel got before it (BehindPosts); and a worker   *)
(* that may still record what it posts is its channel's own, so nobody     *)
(* else puts its message on record meanwhile (AnswersMarked).              *)
(***************************************************************************)
LaneWorker ==
  [channel : Channels, link : Nat, queue : Seq(Jobs), at : AtWork \cup {"waits", "dead"},
   job : Jobs \cup {NoJob}, asked : BOOLEAN]
LanePost == [job : Jobs, link : Nat, recorded : BOOLEAN]

LanesTyped ==
  /\ chatLaw \in LaneConfigs
  /\ link \in [number : Nat, is : {"down", "up", "ending"}, stopped : BOOLEAN, closing : BOOLEAN,
               panics : Nat]
  /\ dedup \in [seen : Seq(ChatMessages), responded : SUBSET ChatMessages]
  /\ Len(dedup.seen) <= chatLaw.window
  /\ senders \in [Channels -> 0..Len(workers)]
  /\ workers \in Seq(LaneWorker)
  /\ posts \in Seq(LanePost)
  /\ admissions \in Nat

(* The turns hold a slot each.                                             *)
InTurn == {i \in 1..Len(workers) : workers[i].at = "turn"}
SlotsCover == IsFiniteSet(InTurn) /\ Cardinality(InTurn) <= chatLaw.slots

(* A worker has its lane's messages in the order of their admission.       *)
InLine(w, last) ==
  /\ \A q \in 1..Len(w.queue) : w.queue[q][1][1] = w.channel /\ w.queue[q][2] \in 1..last
  /\ \A q, s \in 1..Len(w.queue) : q < s => w.queue[q][2] < w.queue[s][2]
  /\ w.at \in AtWork =>
       /\ w.job \in Jobs /\ w.job[1][1] = w.channel /\ w.job[2] \in 1..last
       /\ \A q \in 1..Len(w.queue) : w.job[2] < w.queue[q][2]
  /\ w.at = "dead" => w.queue = <<>>
  /\ Len(w.queue) <= LaneDepth

(* The sender of a channel is of the link that is, and a worker that still *)
(* runs and was not asked to end is the one of its channel's sender.       *)
LanesOwned ==
  /\ link.number > 0
  /\ \A i \in 1..Len(workers) :
       /\ workers[i].link \in 1..link.number
       /\ workers[i].at # "dead" /\ ~workers[i].asked => senders[workers[i].channel] = i
       /\ workers[i].at # "dead" /\ workers[i].link = link.number /\ link.is = "up"
            => senders[workers[i].channel] = i
  /\ \A ch \in Channels : senders[ch] # 0 => workers[senders[ch]].channel = ch /\ link.is # "down"
  /\ \A i, j \in 1..Len(workers) :
       workers[i].at # "dead" /\ workers[j].at # "dead"
       /\ workers[i].channel = workers[j].channel /\ workers[i].link = workers[j].link
         => i = j

(* The number n is of a message the worker has in hand or queued.          *)
Carries(w, n) ==
  \/ w.at \in AtWork /\ w.job[2] = n
  \/ \E q \in 1..Len(w.queue) : w.queue[q][2] = n

(* An admitted message is with one worker, and is posted once.             *)
OneWorker ==
  \A i, j \in 1..Len(workers) : \A n \in Nat :
    Carries(workers[i], n) /\ Carries(workers[j], n) => i = j

PostedOnce ==
  /\ \A k \in 1..Len(posts) :
       /\ posts[k].job[2] \in 1..admissions
       /\ \A i \in 1..Len(workers) : Carries(workers[i], posts[k].job[2]) =>
            workers[i].at = "landed" /\ workers[i].job = posts[k].job
  /\ \A j, k \in 1..Len(posts) : posts[j].job[2] = posts[k].job[2] => j = k

(* A reply is behind what its channel got over the link before.            *)
BehindPosts ==
  \A k \in 1..Len(posts), i \in 1..Len(workers) :
    posts[k].link = workers[i].link /\ posts[k].job[1][1] = workers[i].channel =>
      \A n \in Nat : Carries(workers[i], n) => posts[k].job[2] <= n

(* What is answered on record is so marked, and a worker about to record a *)
(* reply knows that the message was not.                                   *)
AnswersMarked ==
  /\ \A k \in 1..Len(posts) : posts[k].recorded => posts[k].job[1] \in dedup.responded
  /\ \A i \in 1..Len(workers) :
       workers[i].at \in {"posting", "landed"} /\ ~workers[i].asked
         => workers[i].job[1] \notin dedup.responded
  /\ \A j, k \in 1..Len(posts) :
       posts[j].recorded /\ posts[k].recorded /\ posts[j].job[1] = posts[k].job[1] => j = k

LanesIInv ==
  /\ LanesTyped /\ SlotsCover /\ \A i \in 1..Len(workers) : InLine(workers[i], admissions)
  /\ LanesOwned /\ OneWorker /\ PostedOnce /\ BehindPosts /\ AnswersMarked /\ RepliesInOrder

-----------------------------------------------------------------------------
(* What the code's types say of the bounds.                                *)
LEMMA LaneConstants ==
  ASSUME chatLaw \in LaneConfigs
  PROVE  chatLaw.window \in Nat \ {0} /\ chatLaw.slots \in Nat \ {0} /\ LaneDepth \in Nat \ {0}
BY ChannelLanesAssumption

(* w is what a step of the worker v makes of it: it takes its next message *)
(* or lets go of what it has.                                              *)
Becoming(v, w) ==
  /\ w \in LaneWorker /\ w.channel = v.channel /\ w.link = v.link /\ w.asked = v.asked
  /\ v.at # "dead" /\ InLine(w, admissions)
  /\ \A n \in Nat : Carries(w, n) => Carries(v, n)

(* Every worker has its fields.                                            *)
LEMMA WorkerTyped ==
  ASSUME LanesIInv, NEW i \in 1..Len(workers)
  PROVE  /\ workers[i] \in LaneWorker /\ InLine(workers[i], admissions)
         /\ workers[i].channel \in Channels /\ workers[i].queue \in Seq(Jobs)
         /\ workers[i].at \in AtWork \cup {"waits", "dead"} /\ workers[i].asked \in BOOLEAN
         /\ workers[i].link \in 1..link.number /\ Len(workers[i].queue) <= LaneDepth
<1>1. workers[i] \in LaneWorker /\ InLine(workers[i], admissions) /\ workers[i].link \in 1..link.number
  BY DEF LanesIInv, LanesTyped, LanesOwned
<1>2. Len(workers[i].queue) <= LaneDepth
  BY <1>1 DEF InLine
<1> QED BY <1>1, <1>2 DEF LaneWorker

(* A worker that carries a message has not ended.                          *)
LEMMA CarriersLive ==
  ASSUME NEW w, NEW last, InLine(w, last), NEW n, Carries(w, n)
  PROVE  w.at # "dead"
<1>1. CASE w.at \in AtWork
  BY <1>1 DEF AtWork
<1>2. CASE w.at \notin AtWork
  BY <1>2 DEF Carries, InLine
<1> QED BY <1>1, <1>2

(* What a step of one worker leaves as it was.                             *)
LEMMA WorkerMoves ==
  ASSUME LanesIInv, NEW i \in 1..Len(workers), NEW w, Becoming(workers[i], w), Becomes(i, w),
         w.at = "turn" => Cardinality(InTurn) < chatLaw.slots,
         UNCHANGED <<chatLaw, senders, admissions>>, link'.number = link.number, link'.is = link.is
  PROVE  /\ workers' \in Seq(LaneWorker) /\ Len(workers') = Len(workers)
         /\ workers'[i] = w /\ \A j \in 1..Len(workers) : j # i => workers'[j] = workers[j]
         /\ SlotsCover' /\ LanesOwned' /\ OneWorker'
         /\ \A j \in 1..Len(workers) : InLine(workers[j], admissions)'
<1>1. workers \in Seq(LaneWorker) /\ w \in LaneWorker /\ chatLaw \in LaneConfigs /\ admissions \in Nat
  BY DEF LanesIInv, LanesTyped, Becoming
<1>2. /\ workers' \in Seq(LaneWorker) /\ Len(workers') = Len(workers) /\ workers'[i] = w
      /\ \A j \in 1..Len(workers) : j # i => workers'[j] = workers[j]
  BY <1>1 DEF Becomes
<1>3. SlotsCover'
  <2>1. IsFiniteSet(InTurn) /\ Cardinality(InTurn) <= chatLaw.slots /\ chatLaw.slots \in Nat
    BY <1>1, LaneConstants DEF LanesIInv, SlotsCover
  <2>2. Cardinality(InTurn) \in Nat
    BY <2>1, FS_CardinalityType
  <2>3. CASE w.at = "turn"
    <3>1. InTurn' = InTurn \cup {i}
      BY <1>2, <2>3 DEF InTurn
    <3>2. /\ IsFiniteSet(InTurn \cup {i})
          /\ Cardinality(InTurn \cup {i}) = IF i \in InTurn THEN Cardinality(InTurn) ELSE Cardinality(InTurn) + 1
      BY <2>1, FS_AddElement, Zenon
    <3>3. PICK m \in Nat : m = Cardinality(InTurn)
      BY <2>2
    <3>4. PICK s \in Nat : s = chatLaw.slots
      BY <2>1
    <3>5. m <= s /\ m < s
      BY <2>1, <2>3, <3>3, <3>4
    <3>6. Cardinality(InTurn \cup {i}) <= s
      BY <3>2, <3>3, <3>5
    <3> QED BY <3>1, <3>2, <3>4, <3>6 DEF SlotsCover
  <2>4. CASE w.at # "turn"
    BY <1>2, <2>4, <2>1, FS_Subset, FS_CardinalityType, <2>2 DEF InTurn, SlotsCover
  <2> QED BY <2>3, <2>4
<1>4. ASSUME NEW j \in 1..Len(workers) PROVE InLine(workers[j], admissions)'
  <2>1. CASE j = i
    BY <2>1, <1>2 DEF Becoming, InLine
  <2>2. CASE j # i
    BY WorkerTyped, <2>2, <1>2 DEF InLine
  <2> QED BY <2>1, <2>2
<1>5. LanesOwned'
  <2>1. ASSUME NEW j \in 1..Len(workers)
        PROVE  /\ workers'[j].channel = workers[j].channel /\ workers'[j].link = workers[j].link
               /\ workers'[j].asked = workers[j].asked
               /\ workers'[j].at # "dead" => workers[j].at # "dead"
    BY <1>2 DEF Becoming
  <2>2. link.number > 0 /\ \A ch \in Channels : senders[ch] \in 0..Len(workers)
    BY DEF LanesIInv, LanesOwned, LanesTyped
  <2>3. \A ch \in Channels : senders[ch] # 0 => workers[senders[ch]].channel = ch /\ link.is # "down"
    BY DEF LanesIInv, LanesOwned
  <2>4. \A ch \in Channels : senders[ch] # 0 => workers'[senders[ch]].channel = ch /\ link'.is # "down"
    BY <2>1, <2>2, <2>3
  <2>5. ASSUME NEW j \in 1..Len(workers)
        PROVE  /\ workers'[j].link \in 1..link'.number
               /\ workers'[j].at # "dead" /\ ~workers'[j].asked => senders[workers'[j].channel] = j
               /\ workers'[j].at # "dead" /\ workers'[j].link = link'.number /\ link'.is = "up"
                    => senders[workers'[j].channel] = j
    BY <2>1 DEF LanesIInv, LanesOwned
  <2>6. ASSUME NEW j \in 1..Len(workers), NEW k \in 1..Len(workers),
               workers'[j].at # "dead" /\ workers'[k].at # "dead",
               workers'[j].channel = workers'[k].channel /\ workers'[j].link = workers'[k].link
        PROVE  j = k
    BY <2>1, <2>6 DEF LanesIInv, LanesOwned
  <2> QED BY <1>2, <2>2, <2>4, <2>5, <2>6 DEF LanesOwned
<1>6. OneWorker'
  <2>1. ASSUME NEW j \in 1..Len(workers), NEW n \in Nat, Carries(workers'[j], n)
        PROVE  Carries(workers[j], n)
    BY <2>1, <1>2 DEF Becoming
  <2> QED BY <1>2, <2>1 DEF LanesIInv, OneWorker
<1> QED BY <1>2, <1>3, <1>4, <1>5, <1>6

(* Where the messages are, when a worker lets go of some and nothing is    *)
(* posted.                                                                 *)
LEMMA PlacesKept ==
  ASSUME LanesIInv, NEW i \in 1..Len(workers), NEW w, Becoming(workers[i], w),
         Len(workers') = Len(workers), workers'[i] = w,
         \A j \in 1..Len(workers) : j # i => workers'[j] = workers[j],
         workers[i].at = "landed" =>
           w.at \notin AtWork /\ (w.queue = workers[i].queue \/ w.queue = <<>>),
         admissions' = admissions, Len(posts') = Len(posts),
         \A k \in 1..Len(posts) : posts'[k].job = posts[k].job /\ posts'[k].link = posts[k].link
  PROVE  PostedOnce' /\ BehindPosts'
<1>1. ASSUME NEW j \in 1..Len(workers), NEW n \in Nat, Carries(workers'[j], n)
      PROVE  Carries(workers[j], n)
  BY <1>1 DEF Becoming
<1>2. \A k \in 1..Len(posts) : posts[k].job[2] \in 1..admissions /\ posts[k].job[2] \in Nat
  BY DEF LanesIInv, PostedOnce
<1>3. PostedOnce'
  <2>1. ASSUME NEW k \in 1..Len(posts), NEW j \in 1..Len(workers),
               Carries(workers'[j], posts[k].job[2])
        PROVE  workers'[j].at = "landed" /\ workers'[j].job = posts[k].job
    <3>1. Carries(workers[j], posts[k].job[2])
      BY <2>1, <1>1, <1>2
    <3>2. workers[j].at = "landed" /\ workers[j].job = posts[k].job
      BY <3>1 DEF LanesIInv, PostedOnce
    <3>3. j # i
      <4>1. SUFFICES ASSUME j = i PROVE FALSE
        OBVIOUS
      <4>2. w.at \notin AtWork /\ (w.queue = workers[i].queue \/ w.queue = <<>>)
        BY <3>2, <4>1
      <4>3. PICK q \in 1..Len(w.queue) : w.queue[q][2] = posts[k].job[2]
        BY <2>1, <4>1, <4>2 DEF Carries
      <4>4. w.queue = workers[i].queue
        BY <4>2, <4>3
      <4>5. workers[i].at \in AtWork /\ workers[i].job[2] = posts[k].job[2] /\ InLine(workers[i], admissions)
        BY <3>2, <4>1, WorkerTyped DEF AtWork
      <4>6. workers[i].job[2] < workers[i].queue[q][2] /\ workers[i].job[2] \in 1..admissions
        BY <4>3, <4>4, <4>5 DEF InLine
      <4> QED BY <4>3, <4>4, <4>5, <4>6, <1>2
    <3> QED BY <3>2, <3>3
  <2>2. \A j, k \in 1..Len(posts) : posts[j].job[2] = posts[k].job[2] => j = k
    BY DEF LanesIInv, PostedOnce
  <2> QED BY <1>2, <2>1, <2>2 DEF PostedOnce
<1>4. BehindPosts'
  <2>1. ASSUME NEW j \in 1..Len(workers)
        PROVE  workers'[j].channel = workers[j].channel /\ workers'[j].link = workers[j].link
    BY DEF Becoming
  <2> QED BY <1>1, <2>1 DEF LanesIInv, BehindPosts
<1> QED BY <1>3, <1>4

(* A step of one worker that posts and records nothing.                    *)
LEMMA QuietMoves ==
  ASSUME LanesIInv, NEW i \in 1..Len(workers), NEW w, Becoming(workers[i], w), Becomes(i, w),
         w.at = "turn" => Cardinality(InTurn) < chatLaw.slots,
         workers[i].at = "landed" =>
           w.at \notin AtWork /\ (w.queue = workers[i].queue \/ w.queue = <<>>),
         w.at \in {"posting", "landed"} /\ ~w.asked => w.job[1] \notin dedup.responded,
         UNCHANGED <<chatLaw, senders, admissions, dedup, posts>>,
         link' \in [number : Nat, is : {"down", "up", "ending"}, stopped : BOOLEAN, closing : BOOLEAN,
                    panics : Nat],
         link'.number = link.number, link'.is = link.is
  PROVE  LanesIInv'
<1>1. /\ workers' \in Seq(LaneWorker) /\ Len(workers') = Len(workers)
      /\ workers'[i] = w /\ \A j \in 1..Len(workers) : j # i => workers'[j] = workers[j]
      /\ SlotsCover' /\ LanesOwned' /\ OneWorker'
      /\ \A j \in 1..Len(workers) : InLine(workers[j], admissions)'
  BY WorkerMoves
<1>2. LanesTyped'
  BY <1>1 DEF LanesIInv, LanesTyped
<1>3. PostedOnce' /\ BehindPosts'
  BY <1>1, PlacesKept
<1>4. AnswersMarked'
  BY <1>1 DEF LanesIInv, AnswersMarked
<1>5. RepliesInOrder'
  BY DEF LanesIInv, RepliesInOrder
<1> QED BY <1>1, <1>2, <1>3, <1>4, <1>5 DEF LanesIInv

(* A worker that is done with its message, or at its end.                  *)
LEMMA RestsBecoming ==
  ASSUME NEW v \in LaneWorker, InLine(v, admissions), v.at # "dead",
         NEW a \in {"waits", "dead"}, NEW q \in {v.queue, <<>>}, a = "dead" => q = <<>>
  PROVE  LET w == [v EXCEPT !.at = a, !.queue = q, !.job = NoJob] IN
         Becoming(v, w) /\ w.at = a /\ w.queue = q
<1>1. PICK w : w = [v EXCEPT !.at = a, !.queue = q, !.job = NoJob]
  OBVIOUS
<1>2. /\ w \in LaneWorker /\ w.channel = v.channel /\ w.link = v.link /\ w.asked = v.asked
      /\ w.at = a /\ w.queue = q /\ w.at \notin AtWork
  <2>1. q \in Seq(Jobs) /\ a \in AtWork \cup {"waits", "dead"} /\ NoJob \in Jobs \cup {NoJob}
    <3>1. v.queue \in Seq(Jobs)
      BY DEF LaneWorker
    <3>2. <<>> \in Seq(Jobs)
      OBVIOUS
    <3> QED BY <3>1, <3>2, Zenon
  <2>2. w \in LaneWorker /\ w.channel = v.channel /\ w.link = v.link /\ w.asked = v.asked /\ w.at = a /\ w.queue = q
    BY <1>1, <2>1 DEF LaneWorker
  <2>3. a \notin AtWork
    BY DEF AtWork
  <2> QED BY <2>2, <2>3
<1>3. InLine(w, admissions)
  BY <1>2, ChannelLanesAssumption DEF InLine
<1>4. ASSUME NEW n \in Nat, Carries(w, n) PROVE Carries(v, n)
  <2>1. PICK k \in 1..Len(w.queue) : w.queue[k][2] = n
    BY <1>2, <1>4 DEF Carries
  <2>2. w.queue = v.queue
    BY <2>1, <1>2
  <2> QED BY <2>1, <2>2 DEF Carries
<1>5. Becoming(v, w)
  BY <1>2, <1>3, <1>4 DEF Becoming
<1> QED BY <1>1, <1>2, <1>5

(* A worker that goes on with its message.                                 *)
LEMMA WorksBecoming ==
  ASSUME NEW v \in LaneWorker, InLine(v, admissions), v.at \in AtWork, NEW a \in AtWork
  PROVE  LET w == [v EXCEPT !.at = a] IN
         Becoming(v, w) /\ w.at = a /\ w.queue = v.queue /\ w.job = v.job
<1>1. PICK w : w = [v EXCEPT !.at = a]
  OBVIOUS
<1>2. /\ w \in LaneWorker /\ w.channel = v.channel /\ w.link = v.link /\ w.asked = v.asked
      /\ w.at = a /\ w.queue = v.queue /\ w.job = v.job
  BY <1>1 DEF LaneWorker
<1>3. v.at # "dead" /\ w.at # "dead"
  BY <1>2 DEF AtWork
<1>4. InLine(w, admissions)
  BY <1>2, <1>3 DEF InLine
<1>5. \A n \in Nat : Carries(w, n) => Carries(v, n)
  BY <1>2 DEF Carries
<1>6. Becoming(v, w)
  BY <1>2, <1>3, <1>4, <1>5 DEF Becoming
<1> QED BY <1>1, <1>2, <1>6

(* The rest of a queue.                                                    *)
LEMMA QueueRest ==
  ASSUME NEW v \in LaneWorker, InLine(v, admissions), v.queue # <<>>
  PROVE  /\ Tail(v.queue) \in Seq(Jobs) /\ Len(Tail(v.queue)) = Len(v.queue) - 1
         /\ Len(v.queue) \in Nat \ {0} /\ Head(v.queue) = v.queue[1] /\ Head(v.queue) \in Jobs
         /\ \A k \in 1..Len(Tail(v.queue)) : Tail(v.queue)[k] = v.queue[k + 1] /\ k + 1 \in 1..Len(v.queue)
BY DEF LaneWorker

(* A worker that passes over its next message, or takes it in hand.        *)
LEMMA TakesBecoming ==
  ASSUME NEW v \in LaneWorker, InLine(v, admissions), v.at = "waits", v.queue # <<>>,
         NEW takes \in BOOLEAN
  PROVE  LET w == IF takes THEN [v EXCEPT !.at = "slot", !.job = Head(v.queue), !.queue = Tail(v.queue)]
                  ELSE [v EXCEPT !.queue = Tail(v.queue)] IN
         Becoming(v, w) /\ w.at \in {"slot", "waits"}
<1>1. PICK h \in Jobs, t \in Seq(Jobs) : h = Head(v.queue) /\ t = Tail(v.queue)
  BY QueueRest
<1>2. PICK m \in Nat \ {0} : m = Len(v.queue)
  BY QueueRest
<1>3. /\ Len(t) = m - 1 /\ h = v.queue[1]
      /\ \A k \in 1..Len(t) : t[k] = v.queue[k + 1] /\ k + 1 \in 1..m
  BY <1>1, <1>2, QueueRest
<1>4. PICK w : w = IF takes THEN [v EXCEPT !.at = "slot", !.job = h, !.queue = t] ELSE [v EXCEPT !.queue = t]
  OBVIOUS
<1>5. /\ w \in LaneWorker /\ w.channel = v.channel /\ w.link = v.link /\ w.asked = v.asked
      /\ w.queue = t /\ w.at = (IF takes THEN "slot" ELSE "waits") /\ (takes => w.job = h)
  BY <1>4 DEF LaneWorker, AtWork
<1>6. InLine(w, admissions)
  <2>1. \A k \in 1..Len(t) : t[k][1][1] = v.channel /\ t[k][2] \in 1..admissions
    BY <1>2, <1>3 DEF InLine
  <2>2. ASSUME NEW j \in 1..Len(t), NEW k \in 1..Len(t), j < k PROVE t[j][2] < t[k][2]
    BY <2>2, <1>3, <1>2 DEF InLine
  <2>3. ASSUME takes
        PROVE  /\ w.job \in Jobs /\ w.job[1][1] = w.channel /\ w.job[2] \in 1..admissions
               /\ \A k \in 1..Len(t) : w.job[2] < t[k][2]
    <3>1. 1 \in 1..m
      OBVIOUS
    <3>2. h[1][1] = v.channel /\ h[2] \in 1..admissions
      BY <3>1, <1>2, <1>3 DEF InLine
    <3>3. ASSUME NEW k \in 1..Len(t) PROVE h[2] < t[k][2]
      BY <1>3, <3>1, <1>2 DEF InLine
    <3> QED BY <2>3, <3>2, <3>3, <1>5
  <2>4. w.at \in AtWork => takes
    BY <1>5 DEF AtWork
  <2>5. Len(w.queue) <= LaneDepth
    BY <1>2, ChannelLanesAssumption, <1>3, <1>5 DEF InLine
  <2>6. w.at # "dead"
    BY <1>5
  <2> QED BY <1>5, <2>1, <2>2, <2>3, <2>4, <2>5, <2>6 DEF InLine
<1>7. ASSUME NEW n \in Nat, Carries(w, n) PROVE Carries(v, n)
  <2>1. CASE takes /\ w.job[2] = n
    BY <2>1, <1>2, <1>3, <1>5 DEF Carries
  <2>2. CASE \E k \in 1..Len(w.queue) : w.queue[k][2] = n
    <3>1. PICK k \in 1..Len(t) : t[k][2] = n
      BY <2>2, <1>5
    <3>2. k + 1 \in 1..Len(v.queue) /\ v.queue[k + 1][2] = n
      BY <3>1, <1>2, <1>3
    <3> QED BY <3>2 DEF Carries
  <2>3. w.at \in AtWork => takes
    BY <1>5 DEF AtWork
  <2> QED BY <2>1, <2>2, <2>3, <1>7 DEF Carries
<1>8. Becoming(v, w) /\ w.at \in {"slot", "waits"}
  BY <1>5, <1>6, <1>7 DEF Becoming
<1> QED BY <1>1, <1>4, <1>8

-----------------------------------------------------------------------------
(* The steps of a worker that post nothing.                                *)

(* A worker ends, or is done with its message.                             *)
LEMMA LettingGoKeeps ==
  ASSUME LanesIInv, NEW i \in 1..Len(workers), workers[i].at # "dead", Gone(i) \/ PutsDown(i),
         UNCHANGED <<chatLaw, senders, admissions, dedup, posts>>,
         link' \in [number : Nat, is : {"down", "up", "ending"}, stopped : BOOLEAN, closing : BOOLEAN,
                    panics : Nat],
         link'.number = link.number, link'.is = link.is
  PROVE  LanesIInv'
<1>1. PICK v \in LaneWorker : v = workers[i] /\ InLine(v, admissions) /\ v.at # "dead"
  BY WorkerTyped
<1>2. PICK a \in {"waits", "dead"}, q \in {v.queue, <<>>} :
        /\ a = "dead" => q = <<>>
        /\ Becomes(i, [v EXCEPT !.at = a, !.queue = q, !.job = NoJob])
  <2>1. CASE Gone(i)
    BY <2>1, <1>1 DEF Gone
  <2>2. CASE PutsDown(i)
    BY <2>2, <1>1 DEF LaneWorker, PutsDown
  <2> QED BY <2>1, <2>2
<1>3. PICK w : w = [v EXCEPT !.at = a, !.queue = q, !.job = NoJob]
  OBVIOUS
<1>4. Becoming(v, w) /\ w.at = a /\ w.queue = q
  <2>1. a = "dead" => q = <<>>
    BY <1>2
  <2>2. InLine(v, admissions) /\ v.at # "dead"
    BY <1>1
  <2>3. /\ Becoming(v, [v EXCEPT !.at = a, !.queue = q, !.job = NoJob])
        /\ [v EXCEPT !.at = a, !.queue = q, !.job = NoJob].at = a
        /\ [v EXCEPT !.at = a, !.queue = q, !.job = NoJob].queue = q
    BY <2>1, <2>2, RestsBecoming, ZenonT(60)
  <2> QED BY <1>3, <2>3, Zenon
<1>5. w.at \notin AtWork
  BY <1>4 DEF AtWork
<1>6. Becomes(i, w) /\ Becoming(workers[i], w)
  BY <1>1, <1>2, <1>3, <1>4
<1>7. w.at # "turn" /\ w.at \notin {"posting", "landed"} /\ (w.queue = workers[i].queue \/ w.queue = <<>>)
  BY <1>1, <1>4
<1> QED BY <1>5, <1>6, <1>7, QuietMoves

(* A worker goes on with its message.                                      *)
LEMMA GoingOnKeeps ==
  ASSUME LanesIInv, NEW i \in 1..Len(workers), NEW a \in AtWork,
         workers[i].at \in AtWork \ {"landed"}, Becomes(i, [workers[i] EXCEPT !.at = a]),
         a = "turn" => Cardinality(InTurn) < chatLaw.slots, a # "landed",
         a = "posting" => workers[i].job[1] \notin dedup.responded,
         LaneRest, UNCHANGED <<dedup, posts>>
  PROVE  LanesIInv'
<1>1. PICK v \in LaneWorker : v = workers[i] /\ InLine(v, admissions) /\ v.at \in AtWork
  BY WorkerTyped
<1>2. PICK w : w = [v EXCEPT !.at = a]
  OBVIOUS
<1>3. Becoming(v, w) /\ w.at = a /\ w.queue = v.queue /\ w.job = v.job
  BY <1>1, <1>2, WorksBecoming
<1>4. Becomes(i, w) /\ Becoming(workers[i], w)
  BY <1>1, <1>2, <1>3
<1>5. w.at \in {"posting", "landed"} => w.job[1] \notin dedup.responded
  BY <1>1, <1>3
<1>6. UNCHANGED <<chatLaw, link, senders, admissions>>
  BY DEF LaneRest
<1>7. link' \in [number : Nat, is : {"down", "up", "ending"}, stopped : BOOLEAN, closing : BOOLEAN,
                 panics : Nat]
  BY <1>6 DEF LanesIInv, LanesTyped
<1>8. workers[i].at # "landed" /\ (w.at = "turn" => Cardinality(InTurn) < chatLaw.slots)
  BY <1>3
<1> QED BY <1>4, <1>5, <1>6, <1>7, <1>8, QuietMoves

(* Every step of a worker but the post and its record, and a panic.        *)
LEMMA QuietStepsKeep ==
  ASSUME LanesIInv, NEW i \in 1..Len(workers),
         \/ TakeNext(i) \/ LaneEnds(i) \/ StartTurn(i) \/ (\E answers \in BOOLEAN : TurnEnds(i, answers))
         \/ LookAgain(i) \/ PostFails(i) \/ Aborted(i) \/ Panic(i)
  PROVE  LanesIInv'
<1>1. /\ link \in [number : Nat, is : {"down", "up", "ending"}, stopped : BOOLEAN, closing : BOOLEAN,
                   panics : Nat]
      /\ chatLaw \in LaneConfigs
  BY DEF LanesIInv, LanesTyped
<1>2. ASSUME workers[i].at # "dead", Gone(i) \/ PutsDown(i), LaneRest, UNCHANGED <<dedup, posts>>
      PROVE  LanesIInv'
  BY <1>1, <1>2, LettingGoKeeps DEF LaneRest
<1>3. CASE TakeNext(i)
  <2>1. CASE Gone(i)
    BY <1>2, <1>3, <2>1 DEF TakeNext
  <2>2. CASE ~Gone(i)
    <3>1. PICK v \in LaneWorker : v = workers[i] /\ InLine(v, admissions)
      BY WorkerTyped
    <3>2. PICK takes \in BOOLEAN :
            Becomes(i, IF takes THEN [v EXCEPT !.at = "slot", !.job = Head(v.queue), !.queue = Tail(v.queue)]
                       ELSE [v EXCEPT !.queue = Tail(v.queue)])
      BY <1>3, <2>2, <3>1 DEF TakeNext
    <3>3. PICK w : w = IF takes THEN [v EXCEPT !.at = "slot", !.job = Head(v.queue), !.queue = Tail(v.queue)]
                       ELSE [v EXCEPT !.queue = Tail(v.queue)]
      OBVIOUS
    <3>4. v.at = "waits" /\ v.queue # <<>>
      BY <1>3, <3>1 DEF TakeNext
    <3>5. Becoming(v, w) /\ w.at \in {"slot", "waits"}
      BY <3>1, <3>3, <3>4, TakesBecoming
    <3>6. Becomes(i, w) /\ Becoming(workers[i], w)
      BY <3>1, <3>2, <3>3, <3>5
    <3>7. w.at # "turn" /\ w.at \notin {"posting", "landed"} /\ workers[i].at # "landed"
      BY <3>1, <3>4, <3>5
    <3>8. UNCHANGED <<chatLaw, link, senders, admissions, dedup, posts>>
      BY <1>3 DEF TakeNext, LaneRest
    <3> QED BY <1>1, <3>6, <3>7, <3>8, QuietMoves
  <2> QED BY <2>1, <2>2
<1>4. CASE LaneEnds(i)
  BY <1>2, <1>4 DEF LaneEnds
<1>5. CASE StartTurn(i)
  <2>1. CASE PutsDown(i)
    BY <1>2, <1>5, <2>1 DEF StartTurn
  <2>2. CASE ~PutsDown(i)
    <3>1. /\ workers[i].at \in AtWork \ {"landed"} /\ Becomes(i, [workers[i] EXCEPT !.at = "turn"])
          /\ LaneRest /\ UNCHANGED <<dedup, posts>>
      BY <1>5, <2>2 DEF StartTurn, AtWork
    <3>2. InTurn = {j \in DOMAIN workers : workers[j].at = "turn"}
      BY DEF InTurn, LanesIInv, LanesTyped
    <3>3. Cardinality(InTurn) < chatLaw.slots
      BY <1>5, <2>2, <3>2 DEF StartTurn
    <3>4. "turn" \in AtWork
      BY DEF AtWork
    <3> QED BY <3>1, <3>3, <3>4, GoingOnKeeps
  <2> QED BY <2>1, <2>2
<1>6. ASSUME NEW answers \in BOOLEAN, TurnEnds(i, answers) PROVE LanesIInv'
  BY <1>6, GoingOnKeeps, <1>2 DEF TurnEnds, AtWork
<1>7. CASE LookAgain(i)
  <2>1. CASE workers[i].job[1] \in dedup.responded
    BY <1>2, <1>7, <2>1 DEF LookAgain
  <2>2. CASE workers[i].job[1] \notin dedup.responded
    BY <1>7, <2>2, GoingOnKeeps DEF LookAgain, AtWork
  <2> QED BY <2>1, <2>2
<1>8. CASE PostFails(i)
  BY <1>2, <1>8 DEF PostFails
<1>9. CASE Aborted(i)
  BY <1>2, <1>9 DEF Aborted
<1>10. CASE Panic(i)
  <2>1. PICK p \in Nat : p = link.panics + 1
    BY <1>1
  <2>2. link' = [link EXCEPT !.panics = p]
    BY <1>10, <2>1 DEF Panic
  <2>3. /\ link' \in [number : Nat, is : {"down", "up", "ending"}, stopped : BOOLEAN, closing : BOOLEAN,
                      panics : Nat]
        /\ link'.number = link.number /\ link'.is = link.is
    BY <1>1, <2>2
  <2>4. workers[i].at # "dead" /\ Gone(i) /\ UNCHANGED <<chatLaw, senders, admissions, dedup, posts>>
    BY <1>10 DEF Panic, AtWork
  <2> QED BY <2>3, <2>4, LettingGoKeeps
<1> QED BY <1>3, <1>4, <1>5, <1>6, <1>7, <1>8, <1>9, <1>10

-----------------------------------------------------------------------------
(* The post and its record.                                                *)

(* Discord takes the reply.                                                *)
LEMMA PostLandsKeeps ==
  ASSUME LanesIInv, NEW i \in 1..Len(workers), PostLands(i)
  PROVE  LanesIInv'
<1>1. PICK v \in LaneWorker : v = workers[i] /\ InLine(v, admissions) /\ v.at = "posting"
  BY WorkerTyped DEF PostLands
<1>2. PICK w : w = [v EXCEPT !.at = "landed"]
  OBVIOUS
<1>3. Becoming(v, w) /\ w.at = "landed" /\ w.queue = v.queue /\ w.job = v.job
  BY <1>1, <1>2, WorksBecoming DEF AtWork
<1>4. /\ Becomes(i, w) /\ Becoming(workers[i], w) /\ UNCHANGED <<chatLaw, link, senders, admissions, dedup>>
      /\ posts' = Append(posts, [job |-> v.job, link |-> v.link, recorded |-> FALSE])
  BY <1>1, <1>2, <1>3 DEF PostLands, LaneRest
<1>5. /\ workers' \in Seq(LaneWorker) /\ Len(workers') = Len(workers)
      /\ workers'[i] = w /\ \A j \in 1..Len(workers) : j # i => workers'[j] = workers[j]
      /\ SlotsCover' /\ LanesOwned' /\ OneWorker'
      /\ \A j \in 1..Len(workers) : InLine(workers[j], admissions)'
  BY <1>3, <1>4, WorkerMoves
<1>6. v.job \in Jobs /\ v.job[2] \in 1..admissions /\ v.job[1][1] = v.channel /\ v.link \in Nat
  BY <1>1 DEF InLine, AtWork, LaneWorker
<1>7. posts \in Seq(LanePost) /\ admissions \in Nat
  BY DEF LanesIInv, LanesTyped
<1>8. PICK n \in Nat : n = v.job[2]
  BY <1>6, <1>7
<1>9. PICK l \in Nat : l = Len(posts)
  BY <1>7
<1>10. PICK p \in LanePost : p = [job |-> v.job, link |-> v.link, recorded |-> FALSE]
  BY <1>6 DEF LanePost
<1>11. /\ posts' \in Seq(LanePost) /\ Len(posts') = l + 1 /\ posts'[l + 1] = p
       /\ \A k \in 1..l : posts'[k] = posts[k]
  BY <1>4, <1>7, <1>9, <1>10
<1>12. p.job = v.job /\ p.link = v.link /\ ~p.recorded
  BY <1>10
<1>13. Carries(workers[i], n) /\ workers[i].at # "dead"
  BY <1>1, <1>8 DEF Carries, AtWork
<1>14. ASSUME NEW k \in 1..l
       PROVE  /\ posts[k].job[2] \in 1..admissions /\ posts[k].job[2] # n /\ posts[k].job[2] \in Nat
              /\ posts[k].link = v.link /\ posts[k].job[1][1] = v.channel => posts[k].job[2] < n
  <2>1. posts[k].job[2] \in 1..admissions /\ posts[k].job[2] \in Nat
    BY <1>7, <1>9 DEF LanesIInv, PostedOnce
  <2>2. posts[k].job[2] # n
    <3>1. SUFFICES ASSUME posts[k].job[2] = n PROVE FALSE
      OBVIOUS
    <3>2. workers[i].at = "landed"
      BY <3>1, <1>9, <1>13 DEF LanesIInv, PostedOnce
    <3> QED BY <3>2, <1>1
  <2>3. posts[k].link = v.link /\ posts[k].job[1][1] = v.channel => posts[k].job[2] <= n
    BY <1>1, <1>9, <1>13 DEF LanesIInv, BehindPosts
  <2> QED BY <2>1, <2>2, <2>3
<1>15. ASSUME NEW j \in 1..Len(workers), NEW m \in Nat, Carries(workers'[j], m)
       PROVE  Carries(workers[j], m)
  BY <1>4, <1>5, <1>15 DEF Becoming
<1>16. LanesTyped'
  BY <1>4, <1>5, <1>11 DEF LanesIInv, LanesTyped
<1>17. PostedOnce'
  <2>1. ASSUME NEW k \in 1..(l + 1), NEW j \in 1..Len(workers), Carries(workers'[j], posts'[k].job[2])
        PROVE  workers'[j].at = "landed" /\ workers'[j].job = posts'[k].job
    <3>1. CASE k = l + 1
      BY <2>1, <3>1, <1>8, <1>11, <1>12, <1>13, <1>15, <1>3, <1>5 DEF LanesIInv, OneWorker
    <3>2. CASE k # l + 1
      <4>1. k \in 1..l /\ posts'[k] = posts[k]
        BY <3>2, <1>11
      <4>2. Carries(workers[j], posts[k].job[2])
        BY <2>1, <4>1, <1>14, <1>15
      <4>3. workers[j].at = "landed" /\ workers[j].job = posts[k].job
        BY <4>1, <4>2, <1>9 DEF LanesIInv, PostedOnce
      <4>4. j # i
        BY <4>3, <1>1
      <4> QED BY <4>1, <4>3, <4>4, <1>5
    <3> QED BY <3>1, <3>2
  <2>2. ASSUME NEW k \in 1..(l + 1) PROVE posts'[k].job[2] \in 1..admissions
    BY <1>6, <1>11, <1>12, <1>14
  <2>3. ASSUME NEW j \in 1..(l + 1), NEW k \in 1..(l + 1), posts'[j].job[2] = posts'[k].job[2]
        PROVE  j = k
    <3>1. CASE j \in 1..l /\ k \in 1..l
      BY <2>3, <3>1, <1>9, <1>11 DEF LanesIInv, PostedOnce
    <3>2. CASE j = l + 1 /\ k \in 1..l
      BY <2>3, <3>2, <1>8, <1>11, <1>12, <1>14
    <3>3. CASE k = l + 1 /\ j \in 1..l
      BY <2>3, <3>3, <1>8, <1>11, <1>12, <1>14
    <3> QED BY <3>1, <3>2, <3>3
  <2> QED BY <1>4, <1>5, <1>11, <2>1, <2>2, <2>3 DEF PostedOnce
<1>18. BehindPosts'
  <2>1. ASSUME NEW k \in 1..(l + 1), NEW j \in 1..Len(workers),
               posts'[k].link = workers'[j].link, posts'[k].job[1][1] = workers'[j].channel,
               NEW m \in Nat, Carries(workers'[j], m)
        PROVE  posts'[k].job[2] <= m
    <3>1. workers'[j].link = workers[j].link /\ workers'[j].channel = workers[j].channel
      BY <1>4, <1>5 DEF Becoming
    <3>2. Carries(workers[j], m)
      BY <2>1, <1>15
    <3>3. CASE k = l + 1
      <4>1. workers[j].at # "dead"
        BY <3>2, WorkerTyped, CarriersLive
      <4>2. workers[j].link = workers[i].link /\ workers[j].channel = workers[i].channel
        BY <2>1, <3>1, <3>3, <1>1, <1>6, <1>11, <1>12
      <4>3. j = i
        BY <4>1, <4>2, <1>13 DEF LanesIInv, LanesOwned
      <4>4. n <= m
        BY <1>8, <1>1, <3>2, <4>3 DEF InLine, AtWork, Carries
      <4> QED BY <3>3, <4>4, <1>8, <1>11, <1>12
    <3>4. CASE k # l + 1
      <4>1. k \in 1..l /\ posts'[k] = posts[k]
        BY <3>4, <1>11
      <4> QED BY <2>1, <3>1, <3>2, <4>1, <1>9 DEF LanesIInv, BehindPosts
    <3> QED BY <3>3, <3>4
  <2> QED BY <1>5, <1>11, <2>1 DEF BehindPosts
<1>19. AnswersMarked'
  <2>1. ASSUME NEW k \in 1..(l + 1), posts'[k].recorded
        PROVE  k \in 1..l /\ posts'[k] = posts[k] /\ posts[k].recorded
    BY <2>1, <1>11, <1>12
  <2>2. ASSUME NEW j \in 1..Len(workers), workers'[j].at \in {"posting", "landed"}, ~workers'[j].asked
        PROVE  workers'[j].job[1] \notin dedup.responded
    BY <2>2, <1>1, <1>3, <1>4, <1>5 DEF LanesIInv, AnswersMarked, Becoming
  <2> QED BY <1>4, <1>5, <1>9, <1>11, <2>1, <2>2 DEF LanesIInv, AnswersMarked
<1>20. RepliesInOrder'
  <2>1. DOMAIN posts = 1..l /\ DOMAIN posts' = 1..(l + 1)
    BY <1>7, <1>9, <1>11
  <2>2. ASSUME NEW j \in 1..(l + 1), NEW k \in 1..(l + 1), j < k,
               posts'[j].job[1][1] = posts'[k].job[1][1], posts'[j].link = posts'[k].link
        PROVE  posts'[j].job[2] < posts'[k].job[2]
    <3>1. j \in 1..l /\ posts'[j] = posts[j]
      BY <2>2, <1>11
    <3>2. CASE k = l + 1
      BY <2>2, <3>1, <3>2, <1>6, <1>8, <1>11, <1>12, <1>14
    <3>3. CASE k # l + 1
      <4>1. k \in 1..l /\ posts'[k] = posts[k]
        BY <3>3, <1>11
      <4> QED BY <2>1, <2>2, <3>1, <4>1 DEF LanesIInv, RepliesInOrder
    <3> QED BY <3>2, <3>3
  <2> QED BY <2>1, <2>2 DEF RepliesInOrder
<1> QED BY <1>5, <1>16, <1>17, <1>18, <1>19, <1>20 DEF LanesIInv

(* The reply is put on record.                                             *)
LEMMA RecordPostKeeps ==
  ASSUME LanesIInv, NEW i \in 1..Len(workers), RecordPost(i)
  PROVE  LanesIInv'
<1>1. PICK v \in LaneWorker : v = workers[i] /\ InLine(v, admissions) /\ v.at = "landed" /\ ~v.asked
  BY WorkerTyped DEF RecordPost
<1>2. PICK w : w = [v EXCEPT !.at = "waits", !.queue = v.queue, !.job = NoJob]
  BY ZenonT(40)
<1>3. Becoming(v, w) /\ w.at = "waits" /\ w.queue = v.queue
  BY <1>1, <1>2, RestsBecoming
<1>4. w = [v EXCEPT !.at = "waits", !.job = NoJob]
  BY <1>2 DEF LaneWorker
<1>5. /\ Becomes(i, w) /\ Becoming(workers[i], w) /\ UNCHANGED <<chatLaw, link, senders, admissions>>
      /\ dedup' = [dedup EXCEPT !.responded = @ \cup {v.job[1]}]
      /\ posts' = [k \in DOMAIN posts |->
                     IF posts[k].job = v.job THEN [posts[k] EXCEPT !.recorded = TRUE] ELSE posts[k]]
  BY <1>1, <1>3, <1>4 DEF RecordPost, LaneRest, PutsDown
<1>6. /\ workers' \in Seq(LaneWorker) /\ Len(workers') = Len(workers)
      /\ workers'[i] = w /\ \A j \in 1..Len(workers) : j # i => workers'[j] = workers[j]
      /\ SlotsCover' /\ LanesOwned' /\ OneWorker'
      /\ \A j \in 1..Len(workers) : InLine(workers[j], admissions)'
  BY <1>3, <1>5, WorkerMoves
<1>7. v.job \in Jobs /\ v.job[1] \in ChatMessages /\ v.job[1][1] = v.channel /\ v.channel \in Channels
  BY <1>1 DEF InLine, AtWork, LaneWorker, Jobs
<1>8. /\ posts \in Seq(LanePost) /\ dedup \in [seen : Seq(ChatMessages), responded : SUBSET ChatMessages]
      /\ Len(dedup.seen) <= chatLaw.window
  BY DEF LanesIInv, LanesTyped
<1>9. PICK l \in Nat : l = Len(posts) /\ DOMAIN posts = 1..l
  BY <1>8
<1>10. ASSUME NEW k \in 1..l
       PROVE  /\ posts'[k] \in LanePost /\ posts'[k].job = posts[k].job /\ posts'[k].link = posts[k].link
              /\ posts'[k].recorded = (posts[k].recorded \/ posts[k].job = v.job)
  <2>1. posts[k] \in LanePost
    BY <1>8, <1>9
  <2>2. posts'[k] = IF posts[k].job = v.job THEN [posts[k] EXCEPT !.recorded = TRUE] ELSE posts[k]
    BY <1>5, <1>9
  <2> QED BY <2>1, <2>2 DEF LanePost
<1>11. posts' \in Seq(LanePost) /\ Len(posts') = l
  <2>1. posts' = [k \in 1..l |-> posts'[k]]
    BY <1>5, <1>9
  <2>2. [k \in 1..l |-> posts'[k]] \in [1..l -> LanePost]
    BY <1>10
  <2> QED BY <2>1, <2>2
<1>12. /\ dedup' \in [seen : Seq(ChatMessages), responded : SUBSET ChatMessages]
       /\ dedup'.seen = dedup.seen /\ dedup'.responded = dedup.responded \cup {v.job[1]}
  BY <1>5, <1>7, <1>8
<1>13. LanesTyped'
  BY <1>5, <1>6, <1>8, <1>11, <1>12 DEF LanesIInv, LanesTyped
<1>14. PostedOnce' /\ BehindPosts'
  BY <1>3, <1>5, <1>9, <1>11, <1>10, <1>1, <1>6, PlacesKept DEF AtWork
<1>15. AnswersMarked'
  <2>1. v.job[1] \notin dedup.responded
    BY <1>1 DEF LanesIInv, AnswersMarked
  <2>2. ASSUME NEW k \in 1..l, posts'[k].recorded
        PROVE  /\ posts'[k].job[1] \in dedup'.responded
               /\ posts'[k].job[1] = v.job[1] => posts[k].job = v.job
    <3>1. CASE posts[k].recorded
      BY <2>1, <3>1, <1>9, <1>10, <1>12 DEF LanesIInv, AnswersMarked
    <3>2. CASE posts[k].job = v.job
      BY <3>2, <1>10, <1>12
    <3> QED BY <2>2, <3>1, <3>2, <1>10
  <2>3. ASSUME NEW j \in 1..l, NEW k \in 1..l, posts'[j].recorded, posts'[k].recorded,
               posts'[j].job[1] = posts'[k].job[1]
        PROVE  j = k
    <3>1. CASE posts'[j].job[1] = v.job[1]
      <4>1. posts[j].job = v.job /\ posts[k].job = v.job
        BY <2>2, <2>3, <3>1
      <4> QED BY <4>1, <1>9 DEF LanesIInv, PostedOnce
    <3>2. CASE posts'[j].job[1] # v.job[1]
      BY <2>3, <3>2, <1>10, <1>9 DEF LanesIInv, AnswersMarked
    <3> QED BY <3>1, <3>2
  <2>4. ASSUME NEW j \in 1..Len(workers), workers'[j].at \in {"posting", "landed"}, ~workers'[j].asked
        PROVE  workers'[j].job[1] \notin dedup'.responded
    <3>1. j # i /\ workers'[j] = workers[j]
      BY <2>4, <1>3, <1>6
    <3>2. workers[j].job[1] \notin dedup.responded /\ workers[j].at \in AtWork /\ workers[j].at # "dead"
      BY <2>4, <3>1 DEF LanesIInv, AnswersMarked, AtWork
    <3>3. workers[j].job[1] # v.job[1]
      <4>1. SUFFICES ASSUME workers[j].job[1] = v.job[1] PROVE FALSE
        OBVIOUS
      <4>2. InLine(workers[j], admissions)
        BY WorkerTyped
      <4>3. workers[j].channel = v.channel
        BY <3>2, <4>1, <4>2, <1>7 DEF InLine
      <4>4. senders[workers[j].channel] = j /\ senders[v.channel] = i
        BY <2>4, <3>1, <3>2, <1>1 DEF LanesIInv, LanesOwned
      <4> QED BY <3>1, <4>3, <4>4
    <3> QED BY <3>1, <3>2, <3>3, <1>12
  <2> QED BY <1>6, <1>11, <2>2, <2>3, <2>4 DEF AnswersMarked
<1>16. RepliesInOrder'
  <2>1. DOMAIN posts' = 1..l
    BY <1>11
  <2> QED BY <2>1, <1>9, <1>10 DEF LanesIInv, RepliesInOrder
<1> QED BY <1>6, <1>13, <1>14, <1>15, <1>16 DEF LanesIInv

-----------------------------------------------------------------------------
(* A message arrives.                                                      *)

(* What a message with a number of its own leaves as it was.               *)
LEMMA FreshKeeps ==
  ASSUME LanesIInv, admissions' = admissions + 1, UNCHANGED <<chatLaw, link, posts>>,
         dedup' \in [seen : Seq(ChatMessages), responded : SUBSET ChatMessages],
         Len(dedup'.seen) <= chatLaw.window, dedup'.responded = dedup.responded,
         workers' \in Seq(LaneWorker), NEW l \in Nat, l = Len(workers), l <= Len(workers'),
         senders' \in [Channels -> 0..Len(workers')],
         NEW s \in 1..Len(workers'),
         \A j \in 1..l : /\ workers'[j].at = workers[j].at /\ workers'[j].job = workers[j].job
                         /\ workers'[j].channel = workers[j].channel /\ workers'[j].link = workers[j].link
                         /\ workers'[j].asked = workers[j].asked,
         \A j \in 1..Len(workers') : j \notin 1..l => workers'[j].at = "waits",
         \A j \in 1..Len(workers') : InLine(workers'[j], admissions + 1),
         \A j \in 1..Len(workers'), n \in Nat : Carries(workers'[j], n) =>
           (j \in 1..l /\ Carries(workers[j], n)) \/ (n = admissions + 1 /\ j = s),
         LanesOwned'
  PROVE  LanesIInv'
<1>1. PICK a \in Nat : a = admissions /\ admissions' = a + 1
  BY DEF LanesIInv, LanesTyped
<1>2. LanesTyped'
  BY <1>1 DEF LanesIInv, LanesTyped
<1>3. SlotsCover'
  <2>1. InTurn' = InTurn
    BY DEF InTurn
  <2> QED BY <2>1 DEF LanesIInv, SlotsCover
<1>4. ASSUME NEW j \in 1..l, NEW n \in Nat, Carries(workers[j], n) PROVE n \in 1..a
  <2>1. InLine(workers[j], a)
    BY <1>1, WorkerTyped
  <2> QED BY ZenonT(40), <1>4, <2>1 DEF Carries, InLine
<1>5. OneWorker'
  <2>1. ASSUME NEW j \in 1..Len(workers'), NEW k \in 1..Len(workers'), NEW n \in Nat,
               Carries(workers'[j], n), Carries(workers'[k], n)
        PROVE  j = k
    BY <2>1, <1>1, <1>4 DEF LanesIInv, OneWorker
  <2> QED BY <2>1 DEF OneWorker
<1>6. ASSUME NEW k \in 1..Len(posts) PROVE posts[k].job[2] \in 1..a /\ posts[k].job[2] \in 1..(a + 1)
  BY <1>1 DEF LanesIInv, PostedOnce
<1>7. PostedOnce'
  <2>1. ASSUME NEW k \in 1..Len(posts), NEW j \in 1..Len(workers'), Carries(workers'[j], posts[k].job[2])
        PROVE  workers'[j].at = "landed" /\ workers'[j].job = posts[k].job
    <3>1. posts[k].job[2] \in Nat /\ posts[k].job[2] # a + 1
      BY <1>6
    <3>2. j \in 1..l /\ Carries(workers[j], posts[k].job[2])
      BY <2>1, <3>1, <1>1
    <3>3. workers[j].at = "landed" /\ workers[j].job = posts[k].job
      BY <3>2 DEF LanesIInv, PostedOnce
    <3> QED BY <3>2, <3>3
  <2>2. \A j, k \in 1..Len(posts) : posts[j].job[2] = posts[k].job[2] => j = k
    BY DEF LanesIInv, PostedOnce
  <2> QED BY <2>1, <2>2, <1>1, <1>6 DEF PostedOnce
<1>8. BehindPosts'
  <2>1. ASSUME NEW k \in 1..Len(posts), NEW j \in 1..Len(workers'),
               posts[k].link = workers'[j].link, posts[k].job[1][1] = workers'[j].channel,
               NEW n \in Nat, Carries(workers'[j], n)
        PROVE  posts[k].job[2] <= n
    <3>1. CASE n = a + 1
      BY <3>1, <1>6
    <3>2. CASE n # a + 1
      BY <2>1, <3>2, <1>1 DEF LanesIInv, BehindPosts
    <3> QED BY <3>1, <3>2
  <2> QED BY <2>1 DEF BehindPosts
<1>9. AnswersMarked'
  BY ZenonT(40) DEF LanesIInv, AnswersMarked
<1>10. RepliesInOrder'
  BY DEF LanesIInv, RepliesInOrder
<1> QED BY <1>1, <1>2, <1>3, <1>5, <1>7, <1>8, <1>9, <1>10 DEF LanesIInv

(* The memory of ids keeps to its window.                                  *)
LEMMA RecordKeeps ==
  ASSUME LanesIInv, NEW m \in ChatMessages, Record(m)
  PROVE  /\ dedup' \in [seen : Seq(ChatMessages), responded : SUBSET ChatMessages]
         /\ Len(dedup'.seen) <= chatLaw.window /\ dedup'.responded = dedup.responded
<1>1. /\ dedup \in [seen : Seq(ChatMessages), responded : SUBSET ChatMessages]
      /\ Len(dedup.seen) <= chatLaw.window /\ chatLaw.window \in Nat \ {0}
  BY LaneConstants DEF LanesIInv, LanesTyped
<1>2. PICK w \in Nat \ {0}, s \in Seq(ChatMessages) : w = chatLaw.window /\ s = dedup.seen /\ Len(s) <= w
  BY <1>1
<1>3. PICK t : t = IF Len(s) = w THEN Tail(s) ELSE s
  OBVIOUS
<1>4. t \in Seq(ChatMessages) /\ Len(t) \in Nat /\ Len(t) < w
  BY <1>2, <1>3
<1>5. Append(t, m) \in Seq(ChatMessages) /\ Len(Append(t, m)) <= w
  BY <1>4
<1>6. dedup' = [dedup EXCEPT !.seen = Append(t, m)]
  BY <1>2, <1>3 DEF Record
<1> QED BY <1>1, <1>2, <1>5, <1>6

(* The message goes to the lane of its channel, or to a new one.           *)
LEMMA ArriveKeeps ==
  ASSUME LanesIInv, NEW m \in ChatMessages, Arrive(m)
  PROVE  LanesIInv'
<1>1. PICK a \in Nat : a = admissions /\ admissions' = a + 1
  BY DEF LanesIInv, LanesTyped, Arrive
<1>2. PICK job \in Jobs : job = <<m, a + 1>>
  <2>1. <<m, a + 1>> \in Jobs
    BY DEF Jobs
  <2> QED BY <2>1
<1>3. job[1] = m /\ job[2] = a + 1
  BY <1>2
<1>4. PICK ch \in Channels : ch = m[1]
  BY DEF Channels
<1>5. Queue(ch, job) /\ UNCHANGED <<chatLaw, link, posts>> /\ link.is = "up" /\ Record(m)
  BY <1>1, <1>2, <1>4 DEF Arrive
<1>6. PICK l \in Nat : l = Len(workers)
  BY DEF LanesIInv, LanesTyped
<1>7. /\ workers \in Seq(LaneWorker) /\ senders \in [Channels -> 0..l] /\ chatLaw \in LaneConfigs
      /\ link.number \in Nat /\ link.number > 0
  BY <1>6 DEF LanesIInv, LanesTyped, LanesOwned
<1>8. /\ dedup' \in [seen : Seq(ChatMessages), responded : SUBSET ChatMessages]
      /\ Len(dedup'.seen) <= chatLaw.window /\ dedup'.responded = dedup.responded
  BY <1>5, RecordKeeps
<1>9. ASSUME NEW j \in 1..l
      PROVE  /\ InLine(workers[j], a) /\ InLine(workers[j], a + 1)
             /\ workers[j] \in LaneWorker /\ workers[j].queue \in Seq(Jobs) /\ workers[j].link \in 1..link.number
             /\ Len(workers[j].queue) <= LaneDepth
  <2>1. InLine(workers[j], a)
    BY <1>1, <1>6, WorkerTyped
  <2>2. \A n : n \in 1..a => n \in 1..(a + 1)
    OBVIOUS
  <2>3. InLine(workers[j], a + 1)
    BY <2>1, <2>2 DEF InLine
  <2> QED BY <2>1, <2>3, <1>6, WorkerTyped
<1>10. LaneDepth \in Nat \ {0}
  BY ChannelLanesAssumption
<1>11. CASE Alive(ch)
  <2>1. PICK s \in 1..l : s = senders[ch] /\ workers[s].at # "dead" /\ workers[s].channel = ch
    BY <1>7, <1>11 DEF Alive, LanesIInv, LanesOwned
  <2>2. PICK v \in LaneWorker : v = workers[s] /\ v.queue \in Seq(Jobs) /\ InLine(v, a) /\ InLine(v, a + 1)
    BY <1>9
  <2>3. PICK q : q = IF Len(v.queue) < LaneDepth THEN Append(v.queue, job) ELSE v.queue
    OBVIOUS
  <2>4. q \in Seq(Jobs)
    BY <2>2, <2>3
  <2>5. PICK w : w = [v EXCEPT !.queue = q]
    OBVIOUS
  <2>6. /\ w \in LaneWorker /\ w.queue = q /\ w.at = v.at /\ w.job = v.job /\ w.channel = v.channel
        /\ w.link = v.link /\ w.asked = v.asked
    BY <2>4, <2>5 DEF LaneWorker
  <2>7. workers' = [workers EXCEPT ![s] = w] /\ senders' = senders
    BY <1>5, <1>11, <2>1, <2>2, <2>3, <2>5 DEF Queue
  <2>8. /\ workers' \in Seq(LaneWorker) /\ Len(workers') = l /\ workers'[s] = w
        /\ \A j \in 1..l : j # s => workers'[j] = workers[j]
    BY <2>6, <2>7, <1>6, <1>7
  <2>9. InLine(w, a + 1) /\ \A n \in Nat : Carries(w, n) => Carries(v, n) \/ n = a + 1
    <3>1. CASE q = v.queue
      BY <3>1, <2>6, <2>2 DEF InLine, Carries
    <3>2. CASE q # v.queue
      <4>1. PICK k \in Nat : k = Len(v.queue)
        BY <2>2
      <4>2. /\ Len(q) = k + 1 /\ q[k + 1] = job /\ k < LaneDepth
            /\ \A i \in 1..k : q[i] = v.queue[i]
        BY <2>2, <2>3, <3>2, <4>1
      <4>3. /\ \A i \in 1..k : q[i][1][1] = ch /\ q[i][2] \in 1..a
            /\ \A i, j \in 1..k : i < j => q[i][2] < q[j][2]
        <5>1. /\ \A i \in 1..k : v.queue[i][1][1] = ch /\ v.queue[i][2] \in 1..a
              /\ \A i, j \in 1..k : i < j => v.queue[i][2] < v.queue[j][2]
          BY <2>1, <2>2, <4>1 DEF InLine
        <5> QED BY <5>1, <4>2
      <4>4. q[k + 1][1][1] = ch /\ q[k + 1][2] = a + 1
        BY <4>2, <1>3, <1>4
      <4>5. ASSUME NEW i \in 1..(k + 1) PROVE q[i][1][1] = w.channel /\ q[i][2] \in 1..(a + 1)
        BY <4>4, <2>1, <2>2, <2>6, <4>3
      <4>6. ASSUME NEW i \in 1..(k + 1), NEW j \in 1..(k + 1), i < j PROVE q[i][2] < q[j][2]
        BY <4>6, <4>3, <4>4
      <4>7. ASSUME w.at \in AtWork
            PROVE  /\ w.job \in Jobs /\ w.job[1][1] = w.channel /\ w.job[2] \in 1..(a + 1)
                   /\ \A i \in 1..(k + 1) : w.job[2] < q[i][2]
        <5>1. /\ v.job \in Jobs /\ v.job[1][1] = v.channel /\ v.job[2] \in 1..a
              /\ \A i \in 1..k : v.job[2] < q[i][2]
          BY SMTT(40), <4>1, <4>2, <4>7, <2>2, <2>6 DEF InLine
        <5>2. v.job[2] < a + 1
          BY <5>1
        <5>3. ASSUME NEW i \in 1..(k + 1) PROVE v.job[2] < q[i][2]
          BY <4>4, <5>2, <5>1
        <5> QED BY <5>1, <5>3, <2>6
      <4>8. w.at # "dead" /\ Len(q) <= LaneDepth
        BY <2>1, <2>2, <2>6, <4>2, <1>10
      <4>9. InLine(w, a + 1)
        BY <4>2, <4>5, <4>6, <4>7, <4>8, <2>6 DEF InLine
      <4>10. ASSUME NEW n \in Nat, Carries(w, n) PROVE Carries(v, n) \/ n = a + 1
        <5>1. CASE w.at \in AtWork /\ w.job[2] = n
          BY <5>1, <2>6 DEF Carries
        <5>2. CASE \E i \in 1..Len(q) : q[i][2] = n
          <6>1. PICK i \in 1..(k + 1) : q[i][2] = n
            BY <5>2, <4>2
          <6>2. CASE i = k + 1
            BY <6>1, <6>2, <4>4
          <6>3. CASE i # k + 1
            BY <6>1, <6>3, <4>1, <4>2 DEF Carries
          <6> QED BY <6>2, <6>3
        <5> QED BY <5>1, <5>2, <4>10, <2>6 DEF Carries
      <4> QED BY <4>9, <4>10
    <3> QED BY <3>1, <3>2
  <2>10. LanesOwned'
    BY SMTT(40), <2>2, <2>6, <2>7, <2>8, <1>5, <1>6 DEF LanesIInv, LanesOwned
  <2>11. \A j \in 1..l : /\ workers'[j].at = workers[j].at /\ workers'[j].job = workers[j].job
                         /\ workers'[j].channel = workers[j].channel /\ workers'[j].link = workers[j].link
                         /\ workers'[j].asked = workers[j].asked
    BY <2>2, <2>6, <2>8
  <2>12. \A j \in 1..l : InLine(workers'[j], a + 1)
    BY <2>8, <2>9, <1>9
  <2>13. \A j \in 1..l, n \in Nat : Carries(workers'[j], n) =>
           (j \in 1..l /\ Carries(workers[j], n)) \/ (n = a + 1 /\ j = s)
    BY <2>2, <2>8, <2>9
  <2>14. senders' \in [Channels -> 0..Len(workers')] /\ s \in 1..Len(workers')
    BY <2>7, <2>8, <1>7
  <2>15. \A j \in 1..Len(workers') : j \notin 1..l => workers'[j].at = "waits"
    BY <2>8
  <2>16. /\ \A j \in 1..Len(workers') : InLine(workers'[j], admissions + 1)
         /\ \A j \in 1..Len(workers'), n \in Nat : Carries(workers'[j], n) =>
              (j \in 1..l /\ Carries(workers[j], n)) \/ (n = admissions + 1 /\ j = s)
         /\ l <= Len(workers') /\ workers' \in Seq(LaneWorker)
    BY <2>8, <2>12, <2>13, <1>1
  <2>17. admissions' = admissions + 1 /\ UNCHANGED <<chatLaw, link, posts>>
    BY <1>1, <1>5
  <2> QED BY <2>10, <2>11, <2>14, <2>15, <2>16, <2>17, <1>6, <1>8, FreshKeeps
<1>12. CASE ~Alive(ch)
  <2>1. PICK w : w = NewWorker(ch, job)
    OBVIOUS
  <2>2. /\ w \in LaneWorker /\ w.channel = ch /\ w.link = link.number /\ w.queue = <<job>> /\ w.at = "waits"
        /\ ~w.asked
    BY <2>1, <1>7 DEF NewWorker, LaneWorker
  <2>3. workers' = Append(workers, w) /\ senders' = [senders EXCEPT ![ch] = l + 1]
    BY <1>5, <1>6, <1>12, <2>1 DEF Queue
  <2>4. /\ workers' \in Seq(LaneWorker) /\ Len(workers') = l + 1 /\ workers'[l + 1] = w
        /\ \A j \in 1..l : workers'[j] = workers[j]
    BY <2>2, <2>3, <1>6, <1>7
  <2>5. Len(w.queue) = 1 /\ w.queue[1] = job /\ \A i \in 1..Len(w.queue) : i = 1
    BY <2>2
  <2>6. InLine(w, a + 1)
    BY <2>2, <2>5, <1>3, <1>4, <1>10 DEF AtWork, InLine
  <2>7. \A n \in Nat : Carries(w, n) => n = a + 1
    BY <2>2, <2>5, <1>3 DEF Carries, AtWork
  <2>8. ASSUME NEW j \in 1..l, workers[j].channel = ch, workers[j].at # "dead"
        PROVE  workers[j].asked /\ workers[j].link # link.number
    BY <2>8, <1>12, <1>5, <1>6 DEF Alive, LanesIInv, LanesOwned
  <2>9. LanesOwned'
    <3>1. ASSUME NEW j \in 1..(l + 1)
          PROVE  /\ workers'[j].link \in 1..link.number
                 /\ workers'[j].at # "dead" /\ ~workers'[j].asked => senders'[workers'[j].channel] = j
                 /\ workers'[j].at # "dead" /\ workers'[j].link = link.number
                      => senders'[workers'[j].channel] = j
      <4>1. CASE j = l + 1
        BY <4>1, <2>2, <2>3, <2>4, <1>7
      <4>2. CASE j # l + 1
        <5>1. j \in 1..l /\ workers'[j] = workers[j] /\ workers[j].link \in 1..link.number
          BY <4>2, <2>4, <1>9
        <5>2. CASE workers[j].channel = ch
          BY <5>1, <5>2, <2>8
        <5>3. CASE workers[j].channel # ch
          <6>1. senders'[workers[j].channel] = senders[workers[j].channel]
            BY <5>1, <5>3, <2>3, <1>7, <1>9 DEF LaneWorker
          <6> QED BY <5>1, <6>1, <1>5, <1>6 DEF LanesIInv, LanesOwned
        <5> QED BY <5>2, <5>3
      <4> QED BY <4>1, <4>2
    <3>2. ASSUME NEW c \in Channels, senders'[c] # 0
          PROVE  workers'[senders'[c]].channel = c
      BY <2>2, <2>3, <2>4, <1>7, <3>2 DEF LanesIInv, LanesOwned
    <3>3. ASSUME NEW j \in 1..(l + 1), NEW k \in 1..(l + 1), workers'[j].at # "dead", workers'[k].at # "dead",
                 workers'[j].channel = workers'[k].channel, workers'[j].link = workers'[k].link
          PROVE  j = k
      <4>1. CASE j \in 1..l /\ k \in 1..l
        BY SMTT(40), <3>3, <4>1, <2>4, <1>6 DEF LanesIInv, LanesOwned
      <4>2. CASE j = l + 1 /\ k \in 1..l
        BY <3>3, <4>2, <2>2, <2>4, <2>8
      <4>3. CASE k = l + 1 /\ j \in 1..l
        BY <3>3, <4>3, <2>2, <2>4, <2>8
      <4> QED BY <4>1, <4>2, <4>3
    <3> QED BY <3>1, <3>2, <3>3, <2>4, <1>5, <1>7 DEF LanesOwned
  <2>10. \A j \in 1..(l + 1) : InLine(workers'[j], a + 1)
    <3>1. ASSUME NEW j \in 1..(l + 1) PROVE InLine(workers'[j], a + 1)
      BY <2>4, <2>6, <1>9
    <3> QED BY <3>1
  <2>11. \A j \in 1..(l + 1), n \in Nat : Carries(workers'[j], n) =>
           (j \in 1..l /\ Carries(workers[j], n)) \/ (n = a + 1 /\ j = l + 1)
    <3>1. ASSUME NEW j \in 1..(l + 1), NEW n \in Nat, Carries(workers'[j], n)
          PROVE  (j \in 1..l /\ Carries(workers[j], n)) \/ (n = a + 1 /\ j = l + 1)
      BY <3>1, <2>4, <2>7
    <3> QED BY <3>1
  <2>12. senders' \in [Channels -> 0..Len(workers')] /\ l + 1 \in 1..Len(workers') /\ l <= Len(workers')
    BY <2>3, <2>4, <1>7
  <2>13. \A j \in 1..Len(workers') : j \notin 1..l => workers'[j].at = "waits"
    BY <2>2, <2>4
  <2>14. /\ \A j \in 1..Len(workers') : InLine(workers'[j], admissions + 1)
         /\ \A j \in 1..Len(workers'), n \in Nat : Carries(workers'[j], n) =>
              (j \in 1..l /\ Carries(workers[j], n)) \/ (n = admissions + 1 /\ j = l + 1)
    BY <2>4, <2>10, <2>11, <1>1
  <2>15. admissions' = admissions + 1 /\ UNCHANGED <<chatLaw, link, posts>>
    BY <1>1, <1>5
  <2>16. \A j \in 1..l : /\ workers'[j].at = workers[j].at /\ workers'[j].job = workers[j].job
                         /\ workers'[j].channel = workers[j].channel /\ workers'[j].link = workers[j].link
                         /\ workers'[j].asked = workers[j].asked
    BY <2>4
  <2>17. workers' \in Seq(LaneWorker)
    BY <2>4
  <2> QED BY <2>9, <2>12, <2>13, <2>14, <2>15, <2>16, <2>17, <1>6, <1>8, FreshKeeps
<1> QED BY <1>11, <1>12

-----------------------------------------------------------------------------
(* The link.                                                               *)

(* A step of the link that asks no worker to end.                          *)
LEMMA LinkKeeps ==
  ASSUME LanesIInv, RefuseTurns \/ GatewayEnds \/ StopLink \/ StartLink
  PROVE  LanesIInv'
<1>1. UNCHANGED <<chatLaw, dedup, senders, workers, posts, admissions>>
  BY DEF RefuseTurns, GatewayEnds, StopLink, StartLink
<1>2. link \in [number : Nat, is : {"down", "up", "ending"}, stopped : BOOLEAN, closing : BOOLEAN,
                panics : Nat]
  BY DEF LanesIInv, LanesTyped
<1>3. /\ link' \in [number : Nat, is : {"down", "up", "ending"}, stopped : BOOLEAN, closing : BOOLEAN,
                    panics : Nat]
      /\ \/ link'.number = link.number /\ (link'.is = "up" => link.is = "up")
            /\ (link'.is = "down" => link.is = "down")
         \/ link'.number = link.number + 1 /\ link.is = "down" /\ link'.is = "up"
  <2>1. CASE RefuseTurns
    BY <2>1, <1>2 DEF RefuseTurns
  <2>2. CASE GatewayEnds
    BY <2>2, <1>2 DEF GatewayEnds
  <2>3. CASE StopLink
    BY <2>3, <1>2 DEF StopLink
  <2>4. CASE StartLink
    <3>1. PICK n \in Nat : n = link.number + 1
      BY <1>2
    <3>2. link' = [link EXCEPT !.is = "up", !.stopped = FALSE, !.number = n] /\ link.is = "down"
      BY <2>4, <3>1 DEF StartLink
    <3> QED BY <3>1, <3>2, <1>2
  <2> QED BY <2>1, <2>2, <2>3, <2>4
<1>4. LanesOwned'
  <2>1. CASE link'.number = link.number /\ (link'.is = "up" => link.is = "up")
             /\ (link'.is = "down" => link.is = "down")
    BY <2>1, <1>1 DEF LanesIInv, LanesOwned
  <2>2. CASE link'.number = link.number + 1 /\ link.is = "down" /\ link'.is = "up"
    <3>1. PICK n \in Nat : n = link.number /\ n > 0
      BY <1>2 DEF LanesIInv, LanesOwned
    <3>2. ASSUME NEW i \in 1..Len(workers)
          PROVE  workers[i].link \in 1..(n + 1) /\ workers[i].link # n + 1
      BY <3>1 DEF LanesIInv, LanesOwned
    <3>3. \A i \in 1..Len(workers) :
            workers[i].at # "dead" /\ ~workers[i].asked => senders[workers[i].channel] = i
      BY DEF LanesIInv, LanesOwned
    <3>4. \A ch \in Channels : senders[ch] = 0
      BY <2>2 DEF LanesIInv, LanesOwned
    <3>5. \A i, j \in 1..Len(workers) :
            workers[i].at # "dead" /\ workers[j].at # "dead"
            /\ workers[i].channel = workers[j].channel /\ workers[i].link = workers[j].link
              => i = j
      BY DEF LanesIInv, LanesOwned
    <3>6. link'.number = n + 1 /\ n + 1 > 0
      BY <2>2, <3>1
    <3> QED BY SMTT(40), <1>1, <3>2, <3>3, <3>4, <3>5, <3>6 DEF LanesOwned
  <2> QED BY <1>3, <2>1, <2>2
<1>5. LanesTyped' /\ SlotsCover' /\ \A i \in 1..Len(workers') : InLine(workers[i], admissions)'
  BY <1>1, <1>3 DEF LanesIInv, LanesTyped, SlotsCover, InTurn
<1>6. OneWorker' /\ PostedOnce' /\ BehindPosts' /\ AnswersMarked' /\ RepliesInOrder'
  BY SMTT(40), <1>1 DEF LanesIInv, OneWorker, PostedOnce, BehindPosts, AnswersMarked, RepliesInOrder
<1> QED BY <1>4, <1>5, <1>6 DEF LanesIInv

(* The grace is over: whoever still runs is asked to end.                  *)
LEMMA FinishKeeps ==
  ASSUME LanesIInv, FinishLanes
  PROVE  LanesIInv'
<1>1. PICK l \in Nat : l = Len(workers) /\ DOMAIN workers = 1..l
  BY DEF LanesIInv, LanesTyped
<1>2. UNCHANGED <<chatLaw, dedup, posts, admissions>> /\ senders' = [ch \in Channels |-> 0]
  BY DEF FinishLanes
<1>3. ASSUME NEW i \in 1..l
      PROVE  /\ workers'[i] \in LaneWorker
             /\ workers'[i].channel = workers[i].channel /\ workers'[i].link = workers[i].link
             /\ workers'[i].queue = workers[i].queue /\ workers'[i].at = workers[i].at
             /\ workers'[i].job = workers[i].job
             /\ workers'[i].at # "dead" => workers'[i].asked
  <2>1. workers[i] \in LaneWorker
    BY <1>1, WorkerTyped
  <2>2. workers'[i] = IF workers[i].at # "dead" THEN [workers[i] EXCEPT !.asked = TRUE] ELSE workers[i]
    BY <1>1 DEF FinishLanes
  <2> QED BY ZenonT(40), <2>1, <2>2 DEF LaneWorker
<1>4. workers' \in Seq(LaneWorker) /\ Len(workers') = l
  BY <1>1, <1>3 DEF FinishLanes
<1>5. /\ link' \in [number : Nat, is : {"down", "up", "ending"}, stopped : BOOLEAN, closing : BOOLEAN,
                    panics : Nat]
      /\ link'.number = link.number /\ link'.is = "down"
  BY DEF LanesIInv, LanesTyped, FinishLanes
<1>6. senders' \in [Channels -> 0..Len(workers')]
  BY <1>2, <1>4
<1>7. LanesTyped'
  BY <1>2, <1>4, <1>5, <1>6 DEF LanesIInv, LanesTyped
<1>8. SlotsCover'
  BY <1>1, <1>3, <1>4, <1>2 DEF InTurn, LanesIInv, SlotsCover
<1>9. ASSUME NEW i \in 1..l PROVE InLine(workers'[i], admissions)
  <2>1. InLine(workers[i], admissions)
    BY <1>1, WorkerTyped
  <2> QED BY <2>1, <1>3 DEF InLine
<1>10. ASSUME NEW i \in 1..l, NEW n PROVE Carries(workers'[i], n) <=> Carries(workers[i], n)
  BY <1>3 DEF Carries
<1>11. LanesOwned'
  <2>1. /\ link.number > 0 /\ \A i \in 1..l : workers[i].link \in 1..link.number
        /\ \A i, j \in 1..l :
             workers[i].at # "dead" /\ workers[j].at # "dead"
             /\ workers[i].channel = workers[j].channel /\ workers[i].link = workers[j].link
               => i = j
    BY <1>1 DEF LanesIInv, LanesOwned
  <2>2. /\ link'.number > 0 /\ \A i \in 1..l : workers'[i].link \in 1..link'.number
        /\ \A i, j \in 1..l :
             workers'[i].at # "dead" /\ workers'[j].at # "dead"
             /\ workers'[i].channel = workers'[j].channel /\ workers'[i].link = workers'[j].link
               => i = j
    BY <2>1, <1>3, <1>5
  <2>3. \A i \in 1..l : workers'[i].at # "dead" => workers'[i].asked
    BY <1>3
  <2>4. link'.is # "up" /\ \A ch \in Channels : senders'[ch] = 0
    BY <1>2, <1>5
  <2> QED BY <2>2, <2>3, <2>4, <1>4 DEF LanesOwned
<1>12. OneWorker'
  BY <1>1, <1>4, <1>10 DEF LanesIInv, OneWorker
<1>13. PostedOnce' /\ BehindPosts'
  <2>1. ASSUME NEW k \in 1..Len(posts), NEW i \in 1..l, Carries(workers'[i], posts[k].job[2])
        PROVE  workers'[i].at = "landed" /\ workers'[i].job = posts[k].job
    <3>1. Carries(workers[i], posts[k].job[2])
      BY <2>1, <1>10
    <3>2. workers[i].at = "landed" /\ workers[i].job = posts[k].job
      BY <3>1, <1>1 DEF LanesIInv, PostedOnce
    <3> QED BY <3>2, <1>3
  <2>2. PostedOnce'
    BY <2>1, <1>2, <1>4 DEF LanesIInv, PostedOnce
  <2>3. ASSUME NEW k \in 1..Len(posts), NEW i \in 1..l,
               posts[k].link = workers'[i].link, posts[k].job[1][1] = workers'[i].channel,
               NEW n \in Nat, Carries(workers'[i], n)
        PROVE  posts[k].job[2] <= n
    BY <2>3, <1>3, <1>10, <1>1 DEF LanesIInv, BehindPosts
  <2>4. BehindPosts'
    BY <2>3, <1>2, <1>4 DEF BehindPosts
  <2> QED BY <2>2, <2>4
<1>14. AnswersMarked'
  BY <1>3, <1>2, <1>4 DEF LanesIInv, AnswersMarked
<1>15. RepliesInOrder'
  BY <1>2 DEF LanesIInv, RepliesInOrder
<1> QED BY <1>2, <1>4, <1>7, <1>8, <1>9, <1>11, <1>12, <1>13, <1>14, <1>15 DEF LanesIInv

-----------------------------------------------------------------------------
(* At the start nobody has said anything.                                  *)
LEMMA LanesStart ==
  ASSUME LanesInit
  PROVE  LanesIInv
<1>1. Len(workers) = 0 /\ Len(posts) = 0 /\ Len(dedup.seen) = 0 /\ DOMAIN posts = {}
  BY DEF LanesInit
<1>2. \A i \in 1..Len(workers) : FALSE
  BY <1>1
<1>3. \A i \in 1..Len(posts) : FALSE
  BY <1>1
<1>4. chatLaw.slots \in Nat \ {0} /\ chatLaw.window \in Nat \ {0}
  BY LaneConstants DEF LanesInit
<1>5. LanesTyped
  BY <1>1, <1>4 DEF LanesInit, LanesTyped
<1>6. SlotsCover
  BY <1>2, <1>4, FS_EmptySet DEF InTurn, SlotsCover
<1>7. LanesOwned
  BY <1>2 DEF LanesInit, LanesOwned
<1>8. OneWorker /\ PostedOnce /\ BehindPosts /\ AnswersMarked
  BY <1>2, <1>3 DEF OneWorker, PostedOnce, BehindPosts, AnswersMarked
<1>9. RepliesInOrder
  BY <1>1 DEF RepliesInOrder
<1> QED BY <1>2, <1>5, <1>6, <1>7, <1>8, <1>9 DEF LanesIInv

(* Lanes, numbers and the record of answers are kept.                      *)
THEOREM LanesInvariance == LanesSpec => []LanesIInv
<1>1. LanesInit => LanesIInv
  BY LanesStart
<1>2. LanesIInv /\ [LanesNext]_lanesVars => LanesIInv'
  <2> SUFFICES ASSUME LanesIInv, [LanesNext]_lanesVars PROVE LanesIInv'
    OBVIOUS
  <2>1. ASSUME NEW m \in ChatMessages, Arrive(m) PROVE LanesIInv'
    BY <2>1, ArriveKeeps
  <2>2. ASSUME NEW i \in DOMAIN workers, WorkerSteps(i) \/ Panic(i) PROVE LanesIInv'
    <3>1. i \in 1..Len(workers)
      BY DEF LanesIInv, LanesTyped
    <3> QED BY <2>2, <3>1, QuietStepsKeep, PostLandsKeeps, RecordPostKeeps DEF WorkerSteps
  <2>3. CASE RefuseTurns \/ GatewayEnds \/ StopLink \/ StartLink
    BY <2>3, LinkKeeps
  <2>4. CASE FinishLanes
    BY <2>4, FinishKeeps
  <2>5. CASE UNCHANGED lanesVars
    <3>1. UNCHANGED <<chatLaw, link, dedup, senders, workers, posts, admissions>>
      BY <2>5 DEF lanesVars
    <3>2. LanesTyped' /\ SlotsCover' /\ LanesOwned' /\ \A i \in 1..Len(workers') : InLine(workers[i], admissions)'
      BY <3>1 DEF LanesIInv, LanesTyped, SlotsCover, InTurn, LanesOwned
    <3>3. OneWorker' /\ PostedOnce' /\ BehindPosts' /\ AnswersMarked' /\ RepliesInOrder'
      BY SMTT(40), <3>1 DEF LanesIInv, OneWorker, PostedOnce, BehindPosts, AnswersMarked, RepliesInOrder
    <3> QED BY <3>2, <3>3 DEF LanesIInv
  <2> QED BY <2>1, <2>2, <2>3, <2>4, <2>5 DEF LanesNext
<1> QED BY <1>1, <1>2, PTL DEF LanesSpec

(* A channel gets its replies in the order of its messages, one on record  *)
(* for each, and no lane without a worker takes messages, however often    *)
(* workers panic, ids come again and the link restarts (admit, Lanes,      *)
(* post_once).                                                             *)
THEOREM LanesKeepTheirPromises == LanesSpec => []LanesHold
<1>1. ASSUME LanesIInv PROVE LanesHold
  <2>1. /\ chatLaw \in LaneConfigs /\ workers \in Seq(LaneWorker) /\ posts \in Seq(LanePost)
        /\ DOMAIN workers = 1..Len(workers) /\ DOMAIN posts = 1..Len(posts)
    BY <1>1 DEF LanesIInv, LanesTyped
  <2>2. LanesTypeOK
    <3>1. ASSUME NEW i \in DOMAIN workers
          PROVE  /\ workers[i].channel \in Channels /\ workers[i].link \in 1..link.number
                 /\ workers[i].queue \in Seq(Jobs) /\ Len(workers[i].queue) <= LaneDepth
                 /\ workers[i].at \in AtWork \cup {"waits", "dead"}
                 /\ workers[i].job \in Jobs \cup {NoJob}
                 /\ workers[i].asked \in BOOLEAN
      BY <2>1, <1>1, WorkerTyped DEF LaneWorker
    <3>2. \A i \in DOMAIN posts : posts[i].job \in Jobs
      <4>1. \A i \in 1..Len(posts) : posts[i] \in LanePost
        BY <2>1
      <4> QED BY <4>1, <2>1 DEF LanePost
    <3>3. Cardinality({i \in DOMAIN workers : workers[i].at = "turn"}) <= chatLaw.slots
      BY <2>1, <1>1 DEF LanesIInv, SlotsCover, InTurn
    <3>4. /\ link \in [number : Nat, is : {"down", "up", "ending"}, stopped : BOOLEAN, closing : BOOLEAN,
                       panics : Nat]
          /\ dedup.seen \in Seq(ChatMessages) /\ Len(dedup.seen) <= chatLaw.window
          /\ dedup.responded \subseteq ChatMessages
          /\ senders \in [Channels -> 0..Len(workers)] /\ admissions \in Nat
      BY <1>1 DEF LanesIInv, LanesTyped
    <3> QED BY <2>1, <3>1, <3>2, <3>3, <3>4 DEF LanesTypeOK
  <2>3. RepliedOnce
    <3>1. ASSUME NEW m \in ChatMessages
          PROVE  Cardinality({k \in DOMAIN posts : posts[k].job[1] = m /\ posts[k].recorded}) <= 1
      <4>1. PICK S : S = {k \in DOMAIN posts : posts[k].job[1] = m /\ posts[k].recorded}
        OBVIOUS
      <4>2. \A j, k \in S : j = k
        BY <4>1, <2>1, <1>1 DEF LanesIInv, AnswersMarked
      <4>3. CASE S = {}
        BY <4>3, FS_EmptySet, <4>1
      <4>4. CASE S # {}
        <5>1. PICK k \in S : S = {k}
          BY <4>2, <4>4
        <5>2. Cardinality({k}) = 1
          BY FS_Singleton
        <5> QED BY <4>1, <5>1, <5>2
      <4> QED BY <4>3, <4>4
    <3> QED BY <3>1 DEF RepliedOnce
  <2>4. QueuedIsHeard
    BY <2>1, <1>1 DEF LanesIInv, InLine, QueuedIsHeard
  <2> QED BY <2>2, <2>3, <2>4, <1>1 DEF LanesHold, LanesIInv
<1> QED BY <1>1, LanesInvariance, PTL

----------------------------------------------------------------------------
(* A set of numbers that is not empty has a least one.                     *)
LEMMA LeastNumber ==
  ASSUME NEW S \in SUBSET Nat, S # {}
  PROVE  \E x \in S : \A y \in S : x <= y
<1> DEFINE R == OpToRel(<, Nat)
<1>1. IsWellFoundedOn(R, Nat)
  BY NatLessThanWellFounded, Zenon
<1>2. PICK x \in S : \A y \in S : ~(<<y, x>> \in R)
  BY <1>1, WFMin, Zenon
<1>3. ASSUME NEW y \in S PROVE x <= y
  <2>1. <<y, x>> \in Nat \X Nat
    OBVIOUS
  <2>2. ~(y < x)
    BY <1>2, <2>1 DEF OpToRel
  <2> QED BY <2>2
<1> QED BY <1>3

----------------------------------------------------------------------------
(* What a filter keeps.                                                    *)

\* The elements of S among the first of s, up to each place.
Picks(s, S, n, t) ==
  t = [i \in 0..n |-> IF i = 0 THEN <<>>
                      ELSE IF s[i] \in S THEN Append(t[i - 1], s[i]) ELSE t[i - 1]]

(* There is a function that collects them.                                 *)
LEMMA PicksExists ==
  ASSUME NEW s, NEW S, NEW n \in Nat
  PROVE  \E t : Picks(s, S, n, t)
<1> DEFINE M == {m \in Nat : ~ \E t : Picks(s, S, m, t)}
<1> SUFFICES ASSUME M # {} PROVE FALSE
  OBVIOUS
<1>1. PICK m \in M : \A y \in M : m <= y
  <2>1. M \in SUBSET Nat
    OBVIOUS
  <2> HIDE DEF M
  <2> QED BY <2>1, LeastNumber
<1>2. m \in Nat /\ ~ \E t : Picks(s, S, m, t)
  OBVIOUS
<1>3. m # 0
  <2>1. Picks(s, S, 0, [i \in 0..0 |-> <<>>])
    BY DEF Picks
  <2> QED BY <1>2, <2>1
<1>4. m - 1 \in Nat /\ m - 1 \notin M
  BY <1>1, <1>2, <1>3
<1>5. PICK t : Picks(s, S, m - 1, t)
  BY <1>4
<1>6. PICK last : last = IF s[m] \in S THEN Append(t[m - 1], s[m]) ELSE t[m - 1]
  OBVIOUS
<1> DEFINE u == [i \in 0..m |-> IF i = m THEN last ELSE t[i]]
<1> DEFINE Step(w, i) == IF i = 0 THEN <<>> ELSE IF s[i] \in S THEN Append(w[i - 1], s[i]) ELSE w[i - 1]
<1>7. t = [i \in 0..(m - 1) |-> Step(t, i)]
  BY <1>5 DEF Picks
<1>8. \A i \in 0..m : u[i] = Step(u, i)
  <2>1. TAKE i \in 0..m
  <2>2. CASE i = m
    BY <1>2, <1>3, <2>2, <1>6
  <2>3. CASE i # m
    <3>1. i \in 0..(m - 1) /\ u[i] = t[i]
      BY <1>2, <2>3
    <3>2. t[i] = Step(t, i)
      BY <1>7, <3>1
    <3>3. i # 0 => u[i - 1] = t[i - 1]
      BY <1>2, <3>1
    <3> QED BY <3>1, <3>2, <3>3
  <2> QED BY <2>2, <2>3
<1>9. Picks(s, S, m, u)
  <2>1. u = [i \in 0..m |-> u[i]]
    OBVIOUS
  <2> HIDE DEF u
  <2>2. [i \in 0..m |-> u[i]] = [i \in 0..m |-> Step(u, i)]
    BY <1>8
  <2> QED BY <2>1, <2>2 DEF Picks
<1> QED BY <1>2, <1>9

\* r is s at the places at, which ascend, and these are the places up to n
\* of what lies in S.
Draws(s, S, n, r, at) ==
  /\ at \in [1..Len(r) -> 1..n]
  /\ \A j, k \in 1..Len(r) : j < k => at[j] < at[k]
  /\ \A k \in 1..Len(r) : r[k] = s[at[k]] /\ s[at[k]] \in S
  /\ \A i \in 1..n : s[i] \in S => \E k \in 1..Len(r) : at[k] = i

(* One more element that is in S.                                          *)
LEMMA DrawsOneMore ==
  ASSUME NEW X, NEW s, NEW S, NEW n \in Nat, NEW r \in Seq(X), NEW at, Draws(s, S, n, r, at),
         s[n + 1] \in S, s[n + 1] \in X,
         NEW q, q = Append(r, s[n + 1])
  PROVE  q \in Seq(X) /\ \E b : Draws(s, S, n + 1, q, b)
<1>1. /\ q \in Seq(X) /\ Len(q) = Len(r) + 1 /\ q[Len(r) + 1] = s[n + 1]
      /\ \A k \in 1..Len(r) : q[k] = r[k]
  BY AppendProperties
<1>2. PICK m : m = Len(r) /\ m \in Nat
  OBVIOUS
<1>3. PICK b : b = [k \in 1..(m + 1) |-> IF k = m + 1 THEN n + 1 ELSE at[k]]
  OBVIOUS
<1>4. /\ at \in [1..m -> 1..n]
      /\ \A j, k \in 1..m : j < k => at[j] < at[k]
      /\ \A k \in 1..m : r[k] = s[at[k]] /\ s[at[k]] \in S
      /\ \A i \in 1..n : s[i] \in S => \E k \in 1..m : at[k] = i
  BY <1>2 DEF Draws
<1>5. b[m + 1] = n + 1 /\ \A k \in 1..m : b[k] = at[k] /\ b[k] \in 1..n
  <2>1. m + 1 \in 1..(m + 1) /\ \A k \in 1..m : k \in 1..(m + 1) /\ k # m + 1
    BY <1>2
  <2>2. b[m + 1] = n + 1 /\ \A k \in 1..m : b[k] = at[k]
    BY <1>3, <2>1, Zenon
  <2>3. \A k \in 1..m : at[k] \in 1..n
    BY <1>4, Zenon
  <2> QED BY <2>2, <2>3, Zenon
<1>6. b \in [1..(m + 1) -> 1..(n + 1)]
  <2>1. \A k \in 1..(m + 1) : (IF k = m + 1 THEN n + 1 ELSE at[k]) \in 1..(n + 1)
    <3>1. TAKE k \in 1..(m + 1)
    <3>2. k # m + 1 => k \in 1..m
      BY <1>2
    <3>3. k # m + 1 => at[k] \in 1..n
      BY <1>4, <3>2, Zenon
    <3> QED BY <3>3
  <2> QED BY <1>3, <2>1, Zenon
<1>7. \A j, k \in 1..(m + 1) : j < k => b[j] < b[k]
  <2>1. TAKE j, k \in 1..(m + 1)
  <2>2. HAVE j < k
  <2>3. j \in 1..m
    BY <1>2, <2>2
  <2>4. CASE k = m + 1
    BY <1>5, <2>3, <2>4
  <2>5. CASE k # m + 1
    <3>1. k \in 1..m
      BY <1>2, <2>5
    <3> QED BY <1>4, <1>5, <2>2, <2>3, <3>1
  <2> QED BY <2>4, <2>5
<1>8. \A k \in 1..(m + 1) : q[k] = s[b[k]] /\ s[b[k]] \in S
  <2>1. TAKE k \in 1..(m + 1)
  <2>2. CASE k = m + 1
    BY <1>1, <1>2, <1>5, <2>2
  <2>3. CASE k # m + 1
    BY <1>2, <2>3, <1>1, <1>4, <1>5
  <2> QED BY <2>2, <2>3
<1>9. \A i \in 1..(n + 1) : s[i] \in S => \E k \in 1..(m + 1) : b[k] = i
  <2>1. TAKE i \in 1..(n + 1)
  <2>2. HAVE s[i] \in S
  <2>3. CASE i = n + 1
    BY <1>2, <1>5, <2>3
  <2>4. CASE i # n + 1
    <3>1. i \in 1..n
      BY <2>4
    <3>2. PICK k \in 1..m : at[k] = i
      BY <1>4, <2>2, <3>1
    <3>3. k \in 1..(m + 1)
      BY <1>2
    <3> QED BY <1>5, <3>2, <3>3
  <2> QED BY <2>3, <2>4
<1>10. Len(q) = m + 1
  BY <1>1, <1>2
<1>11. Draws(s, S, n + 1, q, b)
  BY <1>6, <1>7, <1>8, <1>9, <1>10 DEF Draws
<1> QED BY <1>1, <1>11

(* A filter keeps, in their order, the elements that are in the set.       *)
LEMMA ThoseAre ==
  ASSUME NEW X, NEW s \in Seq(X), NEW S
  PROVE  Those(s, S) \in Seq(X) /\ \E at : Draws(s, S, Len(s), Those(s, S), at)
<1>1. PICK n : n = Len(s) /\ n \in Nat
  OBVIOUS
<1> DEFINE t == CHOOSE t : Picks(s, S, n, t)
<1>2. Picks(s, S, n, t)
  BY <1>1, PicksExists
<1>3. Those(s, S) = t[n]
  BY <1>1 DEF Those, Picks
<1> HIDE DEF t
<1>4. \A i \in 0..n : t[i] = IF i = 0 THEN <<>> ELSE IF s[i] \in S THEN Append(t[i - 1], s[i]) ELSE t[i - 1]
  BY <1>2 DEF Picks
<1> DEFINE Good(m) == t[m] \in Seq(X) /\ \E at : Draws(s, S, m, t[m], at)
<1>5. \A m \in 0..n : Good(m)
  <2> DEFINE B == {m \in Nat : m \in 0..n /\ ~Good(m)}
  <2> SUFFICES ASSUME B # {} PROVE FALSE
    OBVIOUS
  <2>1. PICK m \in B : \A y \in B : m <= y
    <3>1. B \in SUBSET Nat
      OBVIOUS
    <3> HIDE DEF B
    <3> QED BY <3>1, LeastNumber
  <2>2. m \in 0..n /\ ~Good(m)
    OBVIOUS
  <2>3. m # 0
    <3> SUFFICES ASSUME m = 0 PROVE FALSE
      OBVIOUS
    <3>1. t[0] = <<>>
      BY <1>1, <1>4
    <3>2. Draws(s, S, 0, <<>>, [k \in 1..0 |-> 0])
      BY DEF Draws
    <3>3. <<>> \in Seq(X)
      OBVIOUS
    <3> QED BY <2>2, <3>1, <3>2, <3>3
  <2>4. PICK k : k = m - 1 /\ k \in Nat /\ k \in 0..n /\ m = k + 1
    BY <1>1, <2>2, <2>3
  <2>5. Good(k)
    BY <2>1, <2>4
  <2>6. PICK at : Draws(s, S, k, t[k], at)
    BY <2>5
  <2>7. s[m] \in X
    BY <1>1, <2>2, <2>3
  <2>8. t[m] = IF s[m] \in S THEN Append(t[k], s[m]) ELSE t[k]
    BY <1>4, <2>2, <2>3, <2>4
  <2>9. CASE s[m] \in S
    <3>1. PICK q : q = Append(t[k], s[k + 1])
      OBVIOUS
    <3>2. q \in Seq(X) /\ \E b : Draws(s, S, k + 1, q, b)
      BY ZenonT(40), <2>4, <2>5, <2>6, <2>7, <2>9, <3>1, DrawsOneMore
    <3>3. t[m] = q
      BY <2>4, <2>8, <2>9, <3>1
    <3> QED BY <2>2, <2>4, <3>2, <3>3
  <2>10. CASE s[m] \notin S
    <3>1. t[m] = t[k]
      BY <2>8, <2>10
    <3>2. Draws(s, S, m, t[m], at)
      <4>1. PICK p : p = Len(t[k]) /\ p \in Nat
        BY <2>5
      <4>2. /\ at \in [1..p -> 1..k]
            /\ \A i \in 1..k : s[i] \in S => \E j \in 1..p : at[j] = i
        BY <2>6, <4>1 DEF Draws
      <4>3. at \in [1..p -> 1..m]
        BY <2>4, <4>2
      <4>4. \A i \in 1..m : s[i] \in S => \E j \in 1..p : at[j] = i
        <5>1. TAKE i \in 1..m
        <5>2. HAVE s[i] \in S
        <5>3. i \in 1..k
          BY <2>4, <2>10, <5>2
        <5> QED BY <4>2, <5>2, <5>3
      <4> QED BY <2>6, <3>1, <4>1, <4>3, <4>4 DEF Draws
    <3> QED BY <2>2, <2>5, <3>1, <3>2
  <2> QED BY <2>9, <2>10
<1> QED BY <1>1, <1>3, <1>5

----------------------------------------------------------------------------
(* Refused markers.                                                        *)

RefusalEntry == [id : Nat, what : SUBSET Nat]
RefusalFile == [next_id : Nat, shown_through : Nat, entries : Seq(RefusalEntry)]
NoticeTurn == [running : BOOLEAN, upto : Nat, showed : SUBSET Nat, renumbered : BOOLEAN]

\* A file after n refusals: its entries ascend, and none is empty.
FileOf(f, n) ==
  /\ f \in RefusalFile
  /\ f.shown_through <= f.next_id /\ f.next_id <= n
  /\ \A i \in 1..Len(f.entries) : /\ f.entries[i].what # {}
                                  /\ f.entries[i].what \subseteq 1..n
                                  /\ f.entries[i].id \in 1..f.next_id
  /\ \A i, j \in 1..Len(f.entries) : i < j => f.entries[i].id < f.entries[j].id

\* What a turn would clear of f is what its notice showed.
Covers(r, f) ==
  r.showed # {} /\ ~r.renumbered =>
     /\ r.upto <= f.shown_through
     /\ \A i \in 1..Len(f.entries) : f.entries[i].id <= r.upto => f.entries[i].what \subseteq r.showed

RefusalsIInv ==
  /\ made \in 0..MaxRefusals
  /\ FileOf(refusalFile, made)
  /\ turns \in [NoticeTurns -> NoticeTurn]
  /\ \A t \in NoticeTurns : /\ turns[t].upto <= made /\ Covers(turns[t], refusalFile)
                            /\ turns[t].showed # {} => turns[t].running
  /\ NoticesAreTold

(* The entries of a file.                                                  *)
LEMMA FileParts ==
  ASSUME NEW n \in Nat, NEW f, FileOf(f, n)
  PROVE  /\ f \in RefusalFile /\ f.entries \in Seq(RefusalEntry) /\ Len(f.entries) \in Nat
         /\ f.next_id \in Nat /\ f.shown_through \in Nat
         /\ \A i \in 1..Len(f.entries) : f.entries[i] \in RefusalEntry /\ f.entries[i].id \in Nat
         /\ ToSet(f.entries) = {f.entries[i] : i \in 1..Len(f.entries)}
         /\ f.entries = <<>> <=> Len(f.entries) = 0
<1>1. f \in RefusalFile /\ f.entries \in Seq(RefusalEntry)
  BY DEF FileOf, RefusalFile
<1>2. f.next_id \in Nat /\ f.shown_through \in Nat
  BY <1>1 DEF RefusalFile
<1>3. Len(f.entries) \in Nat /\ (f.entries = <<>> <=> Len(f.entries) = 0)
  BY <1>1, EmptySeq
<1>4. \A i \in 1..Len(f.entries) : f.entries[i] \in RefusalEntry
  BY <1>1
<1>5. \A i \in 1..Len(f.entries) : f.entries[i].id \in Nat
  BY <1>4 DEF RefusalEntry
<1>6. ToSet(f.entries) = {f.entries[i] : i \in 1..Len(f.entries)}
  BY <1>1 DEF ToSet
<1> QED BY <1>1, <1>2, <1>3, <1>4, <1>5, <1>6

(* What is pending is in an entry.                                         *)
LEMMA PendingAre ==
  ASSUME NEW n \in Nat, NEW f, FileOf(f, n)
  PROVE  \A x : x \in PendingIn(f) <=> \E i \in 1..Len(f.entries) : x \in f.entries[i].what
<1>1. PICK T : T = ToSet(f.entries)
  OBVIOUS
<1>2. T = {f.entries[i] : i \in 1..Len(f.entries)}
  BY <1>1, FileParts, Zenon
<1>3. \A x : x \in PendingIn(f) <=> \E e \in T : x \in e.what
  BY <1>1 DEF PendingIn
<1> QED BY <1>2, <1>3

(* A notice shows what is pending: the file afterwards, and the turn.      *)
LEMMA ShowKeeps ==
  ASSUME NEW n \in Nat, NEW f, FileOf(f, n), NEW g,
         NEW u, u = IF f.entries = <<>> THEN 0 ELSE Last(f.entries).id,
         g = IF u > f.shown_through THEN [f EXCEPT !.shown_through = u] ELSE f,
         NEW r, r = [running |-> TRUE, upto |-> u, renumbered |-> FALSE, showed |-> PendingIn(f)]
  PROVE  /\ FileOf(g, n) /\ Covers(r, g) /\ r \in NoticeTurn /\ r.upto <= n
         /\ \A q \in NoticeTurn : Covers(q, f) => Covers(q, g)
<1>1. /\ f \in RefusalFile /\ Len(f.entries) \in Nat /\ f.next_id \in Nat /\ f.shown_through \in Nat
      /\ f.entries = <<>> <=> Len(f.entries) = 0
      /\ \A i \in 1..Len(f.entries) : f.entries[i].id \in Nat
  BY FileParts
<1>2. /\ f.shown_through <= f.next_id /\ f.next_id <= n
      /\ \A i \in 1..Len(f.entries) : f.entries[i].what \subseteq 1..n /\ f.entries[i].id \in 1..f.next_id
      /\ \A i, j \in 1..Len(f.entries) : i < j => f.entries[i].id < f.entries[j].id
  BY DEF FileOf
<1>3. u \in Nat /\ u <= f.next_id
  <2>1. CASE f.entries = <<>>
    BY <1>1, <2>1
  <2>2. CASE f.entries # <<>>
    BY <1>1, <2>2, <1>2 DEF Last
  <2> QED BY <2>1, <2>2
<1>4. /\ g.entries = f.entries /\ g.next_id = f.next_id /\ g.shown_through \in Nat
      /\ f.shown_through <= g.shown_through /\ u <= g.shown_through /\ g.shown_through <= g.next_id
      /\ g \in RefusalFile
  BY <1>1, <1>2, <1>3 DEF RefusalFile
<1>5. FileOf(g, n)
  BY <1>4 DEF FileOf
<1>6. PendingIn(f) \subseteq 1..n
  BY <1>2, PendingAre
<1>7. r \in NoticeTurn /\ r.upto <= n
  BY <1>6, <1>2, <1>1, <1>3 DEF NoticeTurn
<1>8. Covers(r, g)
  BY <1>4, PendingAre DEF Covers
<1>9. \A q \in NoticeTurn : Covers(q, f) => Covers(q, g)
  BY <1>1, <1>4 DEF Covers, NoticeTurn
<1> QED BY <1>5, <1>7, <1>8, <1>9

(* A refusal is put with those that no notice showed.                      *)
LEMMA RecordedKeeps ==
  ASSUME NEW n \in Nat, NEW f, FileOf(f, n), NEW g, g = Recorded(f, n + 1)
  PROVE  /\ FileOf(g, n + 1)
         /\ \A q \in NoticeTurn : Covers(q, f) => Covers(q, g)
<1>1. /\ f \in RefusalFile /\ f.entries \in Seq(RefusalEntry)
      /\ Len(f.entries) \in Nat /\ f.next_id \in Nat /\ f.shown_through \in Nat
      /\ f.entries = <<>> <=> Len(f.entries) = 0
      /\ \A i \in 1..Len(f.entries) : f.entries[i] \in RefusalEntry /\ f.entries[i].id \in Nat
  BY FileParts
<1>2. /\ f.shown_through <= f.next_id /\ f.next_id <= n
      /\ \A i \in 1..Len(f.entries) : /\ f.entries[i].what # {} /\ f.entries[i].what \subseteq 1..n
                                      /\ f.entries[i].id \in 1..f.next_id
      /\ \A i, j \in 1..Len(f.entries) : i < j => f.entries[i].id < f.entries[j].id
  BY DEF FileOf
<1>3. PICK m : m = Len(f.entries) /\ m \in Nat
  BY <1>1
<1>4. CASE f.entries # <<>> /\ Last(f.entries).id > f.shown_through
  <2>1. m \in 1..m /\ f.entries[m].id > f.shown_through
    BY <1>1, <1>3, <1>4 DEF Last
  <2>2. PICK e : e = [f.entries[m] EXCEPT !.what = @ \cup {n + 1}]
    OBVIOUS
  <2>3. e \in RefusalEntry /\ e.id = f.entries[m].id /\ e.what = f.entries[m].what \cup {n + 1}
    <3>1. PICK d : d = f.entries[m] /\ d \in RefusalEntry
      BY <1>1, <1>3, <2>1
    <3>2. PICK more : more = d.what \cup {n + 1} /\ more \in SUBSET Nat
      <4>1. d.what \in SUBSET Nat
        BY <3>1 DEF RefusalEntry
      <4>2. d.what \cup {n + 1} \in SUBSET Nat
        BY <4>1
      <4> QED BY <4>2
    <3>3. e = [d EXCEPT !.what = more]
      BY <2>2, <3>1, <3>2
    <3> QED BY <3>1, <3>2, <3>3 DEF RefusalEntry
  <2>4. g = [f EXCEPT !.entries = [f.entries EXCEPT ![m] = e]]
    BY <1>3, <1>4, <2>2 DEF Recorded
  <2>5. PICK es : es = [f.entries EXCEPT ![m] = e]
    OBVIOUS
  <2>6. es \in Seq(RefusalEntry) /\ Len(es) = m
    BY <1>1, <1>3, <2>1, <2>3, <2>5
  <2>7. es[m] = e /\ \A i \in 1..m : i # m => es[i] = f.entries[i]
    BY <1>1, <1>3, <2>1, <2>5
  <2>8. g.entries = es /\ g.next_id = f.next_id /\ g.shown_through = f.shown_through /\ g \in RefusalFile
    BY <1>1, <2>4, <2>5, <2>6 DEF RefusalFile
  <2>9. \A i \in 1..m : es[i].id = f.entries[i].id
    BY <2>3, <2>7
  <2>10. \A i \in 1..m : es[i].what # {} /\ es[i].what \subseteq 1..(n + 1)
    <3>1. TAKE i \in 1..m
    <3>2. f.entries[i].what # {} /\ f.entries[i].what \subseteq 1..(n + 1) /\ n + 1 \in 1..(n + 1)
      BY <1>2, <1>3
    <3> QED BY <2>3, <2>7, <3>2
  <2>11. FileOf(g, n + 1)
    <3>1. f.shown_through <= f.next_id /\ f.next_id <= n + 1
      BY <1>1, <1>2
    <3>2. \A i, j \in 1..m : i < j => es[i].id < es[j].id
      BY <1>2, <1>3, <2>9
    <3>3. \A i \in 1..m : es[i].id \in 1..f.next_id
      BY <1>2, <1>3, <2>9
    <3> QED BY <2>6, <2>8, <2>10, <3>1, <3>2, <3>3 DEF FileOf
  <2>12. ASSUME NEW q \in NoticeTurn, Covers(q, f) PROVE Covers(q, g)
    <3>1. SUFFICES ASSUME q.showed # {}, ~q.renumbered
                   PROVE  /\ q.upto <= f.shown_through
                          /\ \A i \in 1..m : es[i].id <= q.upto => es[i].what \subseteq q.showed
      BY <2>6, <2>8 DEF Covers
    <3>2. /\ q.upto \in Nat /\ q.upto <= f.shown_through
          /\ \A i \in 1..m : f.entries[i].id <= q.upto => f.entries[i].what \subseteq q.showed
      BY <1>3, <2>12, <3>1 DEF Covers, NoticeTurn
    <3>3. \A i \in 1..m : f.entries[i].id <= q.upto => i # m
      BY <1>1, <1>3, <2>1, <3>2
    <3> QED BY <2>7, <2>9, <3>2, <3>3
  <2> QED BY <2>11, <2>12
<1>5. CASE ~(f.entries # <<>> /\ Last(f.entries).id > f.shown_through)
  <2>1. PICK e : e = [id |-> f.next_id + 1, what |-> {n + 1}]
    OBVIOUS
  <2>2. e \in RefusalEntry /\ e.id = f.next_id + 1 /\ e.what = {n + 1}
    BY <1>1, <2>1 DEF RefusalEntry
  <2>3. PICK es : es = Append(f.entries, e)
    OBVIOUS
  <2>4. g = [f EXCEPT !.next_id = f.next_id + 1, !.entries = es]
    BY <1>5, <2>1, <2>3 DEF Recorded
  <2>5. /\ es \in Seq(RefusalEntry) /\ Len(es) = m + 1 /\ es[m + 1] = e
        /\ \A i \in 1..m : es[i] = f.entries[i]
    BY <1>1, <1>3, <2>2, <2>3, AppendProperties
  <2>6. g.entries = es /\ g.next_id = f.next_id + 1 /\ g.shown_through = f.shown_through /\ g \in RefusalFile
    <3>1. PICK next : next = f.next_id + 1 /\ next \in Nat
      BY <1>1
    <3>2. g = [f EXCEPT !.next_id = next, !.entries = es]
      BY <2>4, <3>1
    <3>3. f \in RefusalFile /\ es \in Seq(RefusalEntry)
      BY <1>1, <2>5
    <3> QED BY <3>1, <3>2, <3>3 DEF RefusalFile
  <2>7. \A i \in 1..(m + 1) : i # m + 1 => i \in 1..m
    BY <1>3
  <2>8. \A i \in 1..(m + 1) : /\ es[i].what # {} /\ es[i].what \subseteq 1..(n + 1)
                              /\ es[i].id \in 1..(f.next_id + 1)
    <3>1. TAKE i \in 1..(m + 1)
    <3>2. CASE i = m + 1
      <4>1. f.next_id + 1 \in 1..(f.next_id + 1) /\ n + 1 \in 1..(n + 1)
        BY <1>1
      <4> QED BY <2>2, <2>5, <3>2, <4>1
    <3>3. CASE i # m + 1
      <4>1. i \in 1..m /\ es[i] = f.entries[i]
        BY <2>5, <2>7, <3>3
      <4>2. 1..n \subseteq 1..(n + 1) /\ 1..f.next_id \subseteq 1..(f.next_id + 1)
        BY <1>1
      <4> QED BY <1>2, <1>3, <4>1, <4>2
    <3> QED BY <3>2, <3>3
  <2>9. \A i, j \in 1..(m + 1) : i < j => es[i].id < es[j].id
    <3>1. TAKE i, j \in 1..(m + 1)
    <3>2. HAVE i < j
    <3>3. i \in 1..m
      BY <1>3, <3>2
    <3>4. CASE j = m + 1
      <4>1. es[j].id = f.next_id + 1 /\ es[i].id = f.entries[i].id
        BY <2>2, <2>5, <3>3, <3>4
      <4>2. f.entries[i].id \in 1..f.next_id
        BY <1>2, <1>3, <3>3
      <4> QED BY <1>1, <4>1, <4>2
    <3>5. CASE j # m + 1
      BY <1>2, <1>3, <2>5, <2>7, <3>2, <3>3, <3>5
    <3> QED BY <3>4, <3>5
  <2>10. FileOf(g, n + 1)
    <3>1. f.shown_through <= f.next_id + 1 /\ f.next_id + 1 <= n + 1
      BY <1>1, <1>2
    <3> QED BY <2>5, <2>6, <2>8, <2>9, <3>1 DEF FileOf
  <2>11. ASSUME NEW q \in NoticeTurn, Covers(q, f) PROVE Covers(q, g)
    <3>1. SUFFICES ASSUME q.showed # {}, ~q.renumbered
                   PROVE  /\ q.upto <= f.shown_through
                          /\ \A i \in 1..(m + 1) : es[i].id <= q.upto => es[i].what \subseteq q.showed
      BY <2>5, <2>6 DEF Covers
    <3>2. /\ q.upto \in Nat /\ q.upto <= f.shown_through
          /\ \A i \in 1..m : f.entries[i].id <= q.upto => f.entries[i].what \subseteq q.showed
      BY <1>3, <2>11, <3>1 DEF Covers, NoticeTurn
    <3>3. ~(es[m + 1].id <= q.upto)
      BY <1>1, <1>2, <2>2, <2>5, <3>2
    <3> QED BY <2>5, <2>7, <3>2, <3>3
  <2> QED BY <2>10, <2>11
<1> QED BY <1>4, <1>5

\* g is the file f with the entries kept, which are those above u.
Left(f, u, kept, g) ==
  /\ kept \in Seq(RefusalEntry)
  /\ \E at : Draws(f.entries, {e \in ToSet(f.entries) : e.id > u}, Len(f.entries), kept, at)
  /\ kept = <<>> => g = NoFile
  /\ kept # <<>> => /\ g.entries = kept /\ g.next_id = f.next_id /\ g.shown_through = f.shown_through
                    /\ g \in RefusalFile

(* Those are what an acknowledgement leaves.                               *)
LEMMA AcknowledgeLeaves ==
  ASSUME NEW n \in Nat, NEW f, FileOf(f, n), NEW u \in Nat,
         NEW kept, kept = Those(f.entries, {e \in ToSet(f.entries) : e.id > u})
  PROVE  Left(f, u, kept, Stored([f EXCEPT !.entries = kept]))
<1>1. PICK es : es = f.entries /\ es \in Seq(RefusalEntry)
  BY FileParts, Zenon
<1>2. PICK above : above = {e \in ToSet(f.entries) : e.id > u}
  OBVIOUS
<1>3. kept = Those(es, above)
  BY <1>1, <1>2, Zenon
<1>4. kept \in Seq(RefusalEntry) /\ \E at : Draws(es, above, Len(es), kept, at)
  BY <1>1, <1>3, ThoseAre, Zenon
<1>5. f \in RefusalFile
  BY FileParts, Zenon
<1>6. PICK h : h = [f EXCEPT !.entries = kept]
  OBVIOUS
<1>7. ASSUME NEW k \in Seq(RefusalEntry), h = [f EXCEPT !.entries = k]
      PROVE  /\ h.entries = k /\ h.next_id = f.next_id /\ h.shown_through = f.shown_through
             /\ h \in RefusalFile
  BY SMT, <1>5, <1>7 DEF RefusalFile
<1>8. /\ h.entries = kept /\ h.next_id = f.next_id /\ h.shown_through = f.shown_through
      /\ h \in RefusalFile
  BY <1>4, <1>6, <1>7, Zenon
<1>9. /\ kept = <<>> => Stored(h) = NoFile
      /\ kept # <<>> => Stored(h) = h
  BY <1>8, Zenon DEF Stored
<1> QED BY <1>1, <1>2, <1>4, <1>6, <1>8, <1>9, Zenon DEF Left

(* What an acknowledgement of notices up to u leaves, and what it clears.  *)
LEMMA ClearKeeps ==
  ASSUME NEW n \in Nat, NEW f, FileOf(f, n), NEW u \in Nat, NEW kept, NEW g, Left(f, u, kept, g)
  PROVE  /\ FileOf(g, n)
         /\ kept # <<>> => \A q \in NoticeTurn : Covers(q, f) => Covers(q, g)
         /\ \A x \in PendingIn(f) \ PendingIn(g) :
               \E i \in 1..Len(f.entries) : f.entries[i].id <= u /\ x \in f.entries[i].what
<1>1. /\ f \in RefusalFile /\ f.entries \in Seq(RefusalEntry)
      /\ Len(f.entries) \in Nat /\ f.next_id \in Nat /\ f.shown_through \in Nat
      /\ \A i \in 1..Len(f.entries) : f.entries[i] \in RefusalEntry /\ f.entries[i].id \in Nat
      /\ ToSet(f.entries) = {f.entries[i] : i \in 1..Len(f.entries)}
  BY FileParts, Zenon
<1>2. /\ f.shown_through <= f.next_id /\ f.next_id <= n
      /\ \A i \in 1..Len(f.entries) : /\ f.entries[i].what # {} /\ f.entries[i].what \subseteq 1..n
                                      /\ f.entries[i].id \in 1..f.next_id
      /\ \A i, j \in 1..Len(f.entries) : i < j => f.entries[i].id < f.entries[j].id
  BY DEF FileOf
<1>3. PICK above : above = {e \in ToSet(f.entries) : e.id > u}
  OBVIOUS
<1>4. kept \in Seq(RefusalEntry) /\ \E at : Draws(f.entries, above, Len(f.entries), kept, at)
  BY <1>3 DEF Left
<1>5. PICK at : Draws(f.entries, above, Len(f.entries), kept, at)
  BY <1>4
<1>6. PICK m, l : m = Len(f.entries) /\ m \in Nat /\ l = Len(kept) /\ l \in Nat
  <2>1. Len(kept) \in Nat
    BY <1>4
  <2> QED BY <1>1, <2>1, Zenon
<1>7. /\ at \in [1..l -> 1..m]
      /\ \A j, k \in 1..l : j < k => at[j] < at[k]
      /\ \A k \in 1..l : kept[k] = f.entries[at[k]]
      /\ \A i \in 1..m : f.entries[i] \in above => \E k \in 1..l : at[k] = i
  BY <1>5, <1>6 DEF Draws
<1>8. \A i \in 1..m : f.entries[i] \in above <=> f.entries[i].id > u
  BY <1>1, <1>3, <1>6
<1>9. CASE kept = <<>>
  <2>1. g = NoFile
    BY <1>9 DEF Left
  <2>2. NoFile.entries = <<>> /\ <<>> \in Seq(RefusalEntry) /\ Len(NoFile.entries) = 0
    BY DEF NoFile
  <2>3. FileOf(NoFile, n)
    BY <2>2 DEF NoFile, RefusalFile, FileOf
  <2>4. l = 0
    BY <1>4, <1>6, <1>9
  <2>5. \A i \in 1..m : f.entries[i].id <= u
    <3>1. TAKE i \in 1..m
    <3>2. f.entries[i].id \in Nat
      BY <1>1, <1>6
    <3>3. ~(f.entries[i].id > u)
      BY <1>7, <1>8, <2>4
    <3> QED BY <3>2, <3>3
  <2>6. \A x \in PendingIn(f) : \E i \in 1..m : f.entries[i].id <= u /\ x \in f.entries[i].what
    BY <1>6, <2>5, PendingAre
  <2> QED BY <1>6, <1>9, <2>1, <2>3, <2>6
<1>10. CASE kept # <<>>
  <2>2. g.entries = kept /\ g.next_id = f.next_id /\ g.shown_through = f.shown_through /\ g \in RefusalFile
    BY <1>10 DEF Left
  <2>3. \A k \in 1..l : at[k] \in 1..m /\ kept[k] = f.entries[at[k]]
    BY <1>7
  <2>4. FileOf(g, n)
    <3>1. \A k \in 1..l : /\ kept[k].what # {} /\ kept[k].what \subseteq 1..n
                          /\ kept[k].id \in 1..f.next_id
      BY <1>2, <1>6, <2>3
    <3>2. ASSUME NEW j \in 1..l, NEW k \in 1..l, j < k PROVE kept[j].id < kept[k].id
      <4>1. at[j] < at[k] /\ at[j] \in 1..m /\ at[k] \in 1..m
        BY <1>7, <2>3, <3>2
      <4>2. f.entries[at[j]].id < f.entries[at[k]].id
        BY <1>2, <1>6, <4>1
      <4> QED BY <2>3, <4>2
    <3> QED BY <1>2, <1>6, <2>2, <3>1, <3>2 DEF FileOf
  <2>5. ASSUME NEW q \in NoticeTurn, Covers(q, f) PROVE Covers(q, g)
    <3> SUFFICES ASSUME q.showed # {}, ~q.renumbered
                 PROVE  /\ q.upto <= g.shown_through
                        /\ \A k \in 1..l : kept[k].id <= q.upto => kept[k].what \subseteq q.showed
      BY <1>6, <2>2 DEF Covers
    <3>1. /\ q.upto <= f.shown_through
          /\ \A i \in 1..m : f.entries[i].id <= q.upto => f.entries[i].what \subseteq q.showed
      BY <1>6, <2>5 DEF Covers
    <3> QED BY <2>2, <2>3, <3>1
  <2>6. ASSUME NEW x \in PendingIn(f) \ PendingIn(g)
        PROVE  \E i \in 1..m : f.entries[i].id <= u /\ x \in f.entries[i].what
    <3>1. PICK i \in 1..m : x \in f.entries[i].what
      BY <1>6, PendingAre
    <3>2. ~(f.entries[i].id > u)
      <4> SUFFICES ASSUME f.entries[i].id > u PROVE FALSE
        OBVIOUS
      <4>1. PICK k \in 1..l : at[k] = i
        BY <1>7, <1>8
      <4>2. x \in kept[k].what
        BY <2>3, <3>1, <4>1
      <4>3. x \in PendingIn(g)
        BY <1>6, <2>2, <2>4, <4>2, PendingAre
      <4> QED BY <4>3
    <3>3. f.entries[i].id \in Nat
      BY <1>1, <1>6
    <3> QED BY <3>1, <3>2, <3>3
  <2> QED BY <1>6, <2>4, <2>5, <2>6
<1> QED BY <1>9, <1>10

(* The start.                                                              *)
LEMMA RefusalsStart == RefusalsInit => RefusalsIInv
<1> SUFFICES ASSUME RefusalsInit PROVE RefusalsIInv
  OBVIOUS
<1>1. /\ NoFile.entries = <<>> /\ <<>> \in Seq(RefusalEntry) /\ Len(NoFile.entries) = 0
      /\ NoFile.next_id = 0 /\ NoFile.shown_through = 0
  BY DEF NoFile
<1>2. FileOf(NoFile, 0)
  BY <1>1 DEF NoFile, RefusalFile, FileOf
<1>3. NoTurn \in NoticeTurn /\ NoTurn.upto = 0 /\ NoTurn.showed = {}
  BY DEF NoTurn, NoticeTurn
<1> QED BY <1>2, <1>3, RefusalsAssumption DEF RefusalsInit, RefusalsIInv, Covers, NoticesAreTold

(* Every step.                                                             *)
LEMMA RefusalsStep ==
  ASSUME RefusalsIInv, RefusalsNext
  PROVE  RefusalsIInv'
<1>1. PICK t \in NoticeTurns :
        \/ BeginTurn(t) \/ FailTurn(t) \/ Acknowledge(t)
        \/ \E refuses \in BOOLEAN : EndTurn(t, refuses)
  BY DEF RefusalsNext
<1>2. /\ made \in Nat /\ made <= MaxRefusals /\ MaxRefusals \in Nat
      /\ FileOf(refusalFile, made) /\ turns \in [NoticeTurns -> NoticeTurn]
      /\ \A q \in NoticeTurns : /\ turns[q].upto <= made /\ Covers(turns[q], refusalFile)
                                /\ turns[q].showed # {} => turns[q].running
      /\ cleared \subseteq told \cup excused
  BY RefusalsAssumption DEF RefusalsIInv, NoticesAreTold
<1>3. /\ NoTurn \in NoticeTurn /\ NoTurn.upto = 0 /\ NoTurn.showed = {}
      /\ \A f : Covers(NoTurn, f)
  BY DEF NoTurn, NoticeTurn, Covers
<1>4. \A q \in NoticeTurns : turns[q] \in NoticeTurn /\ turns[q].upto \in Nat
  BY <1>2 DEF NoticeTurn
<1>5. CASE BeginTurn(t)
  <2>1. PICK u : u = IF refusalFile.entries = <<>> THEN 0 ELSE Last(refusalFile.entries).id
    OBVIOUS
  <2>2. PICK r : r = [running |-> TRUE, upto |-> u, renumbered |-> FALSE, showed |-> PendingIn(refusalFile)]
    OBVIOUS
  <2>3. /\ refusalFile' = IF u > refusalFile.shown_through
                          THEN [refusalFile EXCEPT !.shown_through = u] ELSE refusalFile
        /\ turns' = [turns EXCEPT ![t] = r]
        /\ UNCHANGED <<made, told, cleared, excused>>
    BY <1>5, <2>1, <2>2 DEF BeginTurn
  <2>4. /\ FileOf(refusalFile', made) /\ Covers(r, refusalFile') /\ r \in NoticeTurn /\ r.upto <= made
        /\ \A q \in NoticeTurn : Covers(q, refusalFile) => Covers(q, refusalFile')
    BY <1>2, <2>1, <2>2, <2>3, ShowKeeps
  <2>5. turns' \in [NoticeTurns -> NoticeTurn]
    BY <1>2, <2>3, <2>4
  <2>6. \A q \in NoticeTurns : /\ turns'[q].upto <= made /\ Covers(turns'[q], refusalFile')
                               /\ turns'[q].showed # {} => turns'[q].running
    BY <1>2, <2>2, <2>3, <1>4, <2>4
  <2> QED BY <1>2, <2>3, <2>4, <2>5, <2>6 DEF RefusalsIInv, NoticesAreTold
<1>6. CASE FailTurn(t)
  BY <1>6, <1>2, <1>3 DEF FailTurn, RefusalsIInv, NoticesAreTold
<1>7. CASE Acknowledge(t)
  <2>1. PICK r : r = turns[t] /\ r \in NoticeTurn
    BY <1>4
  <2>2. PICK kept : kept = Those(refusalFile.entries, {e \in ToSet(refusalFile.entries) : e.id > r.upto})
    OBVIOUS
  <2>3. PICK after : after = Stored([refusalFile EXCEPT !.entries = kept])
    OBVIOUS
  <2>4. /\ r.showed # {} /\ refusalFile' = after /\ told' = told \cup r.showed
        /\ cleared' = cleared \cup (PendingIn(refusalFile) \ PendingIn(after))
        /\ excused' = IF r.renumbered THEN excused \cup (PendingIn(refusalFile) \ PendingIn(after)) ELSE excused
        /\ turns' = [u \in NoticeTurns |->
              IF u = t THEN [r EXCEPT !.showed = {}]
              ELSE [turns[u] EXCEPT !.renumbered = @ \/ (turns[u].running /\ kept = <<>>)]]
        /\ made' = made
    BY <1>7, <2>1, <2>2, <2>3 DEF Acknowledge
  <2>5. /\ FileOf(after, made)
        /\ kept # <<>> => \A q \in NoticeTurn : Covers(q, refusalFile) => Covers(q, after)
        /\ \A x \in PendingIn(refusalFile) \ PendingIn(after) :
              \E i \in 1..Len(refusalFile.entries) : /\ refusalFile.entries[i].id <= r.upto
                                                     /\ x \in refusalFile.entries[i].what
    <3>1. r.upto \in Nat
      BY <1>4, <2>1
    <3>2. Left(refusalFile, r.upto, kept, after)
      BY <1>2, <2>2, <2>3, <3>1, AcknowledgeLeaves, Zenon
    <3> QED BY <1>2, <3>1, <3>2, ClearKeeps
  <2>6. [r EXCEPT !.showed = {}] \in NoticeTurn /\ [r EXCEPT !.showed = {}].showed = {}
        /\ [r EXCEPT !.showed = {}].upto = r.upto
    BY <2>1 DEF NoticeTurn
  <2>7. \A q \in NoticeTurns : /\ turns'[q] \in NoticeTurn /\ turns'[q].upto = turns[q].upto
                               /\ turns'[q].showed # {} => turns'[q].running
    <3>1. TAKE q \in NoticeTurns
    <3>2. CASE q = t
      BY <2>1, <2>4, <2>6, <3>2
    <3>3. CASE q # t
      BY <2>4, <3>3, <1>2, <1>4 DEF NoticeTurn
    <3> QED BY <3>2, <3>3
  <2>8. turns' \in [NoticeTurns -> NoticeTurn]
    BY <2>4, <2>7
  <2>9. \A q \in NoticeTurns : Covers(turns'[q], after)
    <3>1. TAKE q \in NoticeTurns
    <3>2. CASE q = t
      BY <2>4, <2>6, <3>2 DEF Covers
    <3>3. CASE q # t
      <4>1. turns'[q] = [turns[q] EXCEPT !.renumbered = turns[q].renumbered \/ (turns[q].running /\ kept = <<>>)]
        BY <2>4, <3>3
      <4>2. SUFFICES ASSUME turns'[q].showed # {}, ~turns'[q].renumbered
                     PROVE  Covers(turns'[q], after)
        BY DEF Covers
      <4>3. /\ turns'[q].showed = turns[q].showed /\ turns'[q].upto = turns[q].upto
            /\ turns'[q].renumbered = (turns[q].renumbered \/ (turns[q].running /\ kept = <<>>))
        BY <1>4, <4>1 DEF NoticeTurn
      <4>4. turns[q].running
        BY <1>2, <4>2, <4>3
      <4>5. ~turns[q].renumbered /\ kept # <<>>
        BY <4>2, <4>3, <4>4
      <4>6. Covers(turns[q], after)
        BY <1>2, <1>4, <2>5, <4>5
      <4> QED BY <4>3, <4>5, <4>6 DEF Covers
    <3> QED BY <3>2, <3>3
  <2>10. cleared' \subseteq told' \cup excused'
    BY <1>2, <2>4, <2>1, <2>5 DEF Covers
  <2> QED BY <1>2, <2>4, <2>5, <2>7, <2>8, <2>9, <2>10 DEF RefusalsIInv, NoticesAreTold
<1>8. ASSUME NEW refuses \in BOOLEAN, EndTurn(t, refuses) PROVE RefusalsIInv'
  <2>1. /\ turns' = [turns EXCEPT ![t] = NoTurn] /\ UNCHANGED <<told, cleared, excused>>
        /\ refuses => made < MaxRefusals
        /\ refusalFile' = IF refuses THEN Recorded(refusalFile, made + 1) ELSE refusalFile
        /\ made' = IF refuses THEN made + 1 ELSE made
    BY <1>8 DEF EndTurn
  <2>2. turns' \in [NoticeTurns -> NoticeTurn]
    BY <1>2, <1>3, <2>1
  <2>3. /\ FileOf(refusalFile', made')
        /\ \A q \in NoticeTurn : Covers(q, refusalFile) => Covers(q, refusalFile')
    BY <1>2, <2>1, RecordedKeeps
  <2>4. made' \in 0..MaxRefusals /\ made <= made' /\ made' \in Nat
    BY <1>2, <2>1
  <2>5. \A q \in NoticeTurns : /\ turns'[q].upto <= made' /\ Covers(turns'[q], refusalFile')
                               /\ turns'[q].showed # {} => turns'[q].running
    <3>1. TAKE q \in NoticeTurns
    <3>2. CASE q = t
      BY <1>2, <1>3, <2>1, <2>4, <3>2
    <3>3. CASE q # t
      BY <2>1, <1>2, <3>3, <1>4, <2>3, <2>4
    <3> QED BY <3>2, <3>3
  <2> QED BY <1>2, <2>1, <2>2, <2>3, <2>4, <2>5 DEF RefusalsIInv, NoticesAreTold
<1> QED BY <1>1, <1>5, <1>6, <1>7, <1>8

(* What the invariant says of the types.                                   *)
LEMMA RefusalsTyped == RefusalsIInv => RefusalsHold
<1> SUFFICES ASSUME RefusalsIInv PROVE RefusalsHold
  OBVIOUS
<1>1. /\ made \in 0..MaxRefusals /\ made \in Nat /\ FileOf(refusalFile, made)
      /\ turns \in [NoticeTurns -> NoticeTurn]
      /\ \A t \in NoticeTurns : turns[t].upto <= made
  BY RefusalsAssumption DEF RefusalsIInv
<1>2. /\ refusalFile.entries \in Seq(RefusalEntry) /\ refusalFile.next_id \in Nat
      /\ refusalFile.shown_through \in Nat /\ Len(refusalFile.entries) \in Nat
  BY <1>1, FileParts
<1>3. DOMAIN refusalFile.entries = 1..Len(refusalFile.entries)
  BY <1>2
<1>4. \A i \in DOMAIN refusalFile.entries :
          LET e == refusalFile.entries[i]
          IN  /\ e.what # {} /\ e.what \subseteq 1..made
              /\ e.id \in 1..refusalFile.next_id
              /\ i > 1 => refusalFile.entries[i - 1].id < e.id
  <2>1. \A i \in 1..Len(refusalFile.entries) : i > 1 => i - 1 \in 1..Len(refusalFile.entries) /\ i - 1 < i
    BY <1>2
  <2> QED BY <1>1, <1>3, <2>1 DEF FileOf
<1>5. refusalFile.shown_through \in 0..refusalFile.next_id
  BY <1>1, <1>2 DEF FileOf
<1>6. \A t \in NoticeTurns : turns[t].running \in BOOLEAN /\ turns[t].upto \in 0..MaxRefusals
  <2>1. TAKE t \in NoticeTurns
  <2>2. turns[t] \in NoticeTurn /\ turns[t].upto <= made
    BY <1>1
  <2>3. turns[t].upto \in Nat /\ turns[t].running \in BOOLEAN
    BY <2>2 DEF NoticeTurn
  <2> QED BY <1>1, <2>2, <2>3, RefusalsAssumption
<1>7. RefusalsTypeOK
  BY <1>1, <1>4, <1>5, <1>6 DEF RefusalsTypeOK
<1> QED BY <1>7 DEF RefusalsIInv, RefusalsHold

(* Every entry a turn with a notice would clear, it showed, as long as the *)
(* numbering did not start again under it (refusals.rs: record,            *)
(* acknowledge).                                                           *)
THEOREM RefusalsInvariance == RefusalsSpec => []RefusalsIInv
<1>1. RefusalsIInv /\ [RefusalsNext]_refusalVars => RefusalsIInv'
  <2> SUFFICES ASSUME RefusalsIInv, [RefusalsNext]_refusalVars PROVE RefusalsIInv'
    OBVIOUS
  <2>1. CASE RefusalsNext
    BY <2>1, RefusalsStep
  <2>2. CASE UNCHANGED refusalVars
    BY <2>2 DEF refusalVars, RefusalsIInv, NoticesAreTold
  <2> QED BY <2>1, <2>2
<1> QED BY <1>1, RefusalsStart, PTL DEF RefusalsSpec

(* No refusal is cleared untold, but for the loss of the numbering, for    *)
(* any turns side by side and any number of refusals (refusals.rs:         *)
(* peek_notice, acknowledge).                                              *)
THEOREM RefusalsKeepTheirPromises == RefusalsSpec => []RefusalsHold
BY RefusalsInvariance, RefusalsTyped, PTL

----------------------------------------------------------------------------
(* Queues: sequences of numbers up to n, each at most once.                *)

Lined(s, n) ==
  /\ s \in Seq(Nat)
  /\ \A i \in 1..Len(s) : s[i] \in 1..n
  /\ \A i, j \in 1..Len(s) : s[i] = s[j] => i = j

(* What is in a queue.                                                     *)
LEMMA LinedIs ==
  ASSUME NEW n \in Nat, NEW s, Lined(s, n)
  PROVE  /\ s \in Seq(Nat) /\ Len(s) \in Nat /\ DOMAIN s = 1..Len(s)
         /\ Range(s) = {s[i] : i \in 1..Len(s)} /\ Range(s) \subseteq 1..n
         /\ s \in Seq(1..n) /\ IsInjective(s)
         /\ s = <<>> <=> Len(s) = 0
<1>1. s \in Seq(Nat) /\ Len(s) \in Nat /\ DOMAIN s = 1..Len(s)
  BY LenProperties DEF Lined
<1>2. Range(s) = {s[i] : i \in 1..Len(s)}
  BY <1>1 DEF Range
<1>3. Range(s) \subseteq 1..n
  BY <1>2 DEF Lined
<1>4. s \in Seq(1..n)
  BY <1>1, SeqOfRange, <1>3, SeqMonotonic
<1>5. IsInjective(s)
  BY <1>1 DEF Lined, IsInjective
<1>6. s = <<>> <=> Len(s) = 0
  BY <1>1
<1> QED BY <1>1, <1>2, <1>3, <1>4, <1>5, <1>6

(* What it holds, without its order.                                       *)
LEMMA LinedRange ==
  ASSUME NEW n \in Nat, NEW s, Lined(s, n), NEW l, l = Len(s)
  PROVE  (\A i \in 1..l : s[i] \in Range(s)) /\ \A e \in Range(s) : \E i \in 1..l : s[i] = e
BY LinedIs

(* There is none.                                                          *)
LEMMA LinedNone ==
  ASSUME NEW n \in Nat
  PROVE  Lined(<<>>, n) /\ Len(<<>>) = 0 /\ Range(<<>>) = {}
<1>1. Lined(<<>>, n) /\ Len(<<>>) = 0
  BY DEF Lined
<1> QED BY <1>1, LinedIs

(* There may be more.                                                      *)
LEMMA LinedMore ==
  ASSUME NEW n \in Nat, NEW m \in Nat, n <= m, NEW s, Lined(s, n)
  PROVE  Lined(s, m)
<1>1. \A k \in 1..n : k \in 1..m
  OBVIOUS
<1> QED BY <1>1 DEF Lined

\* t is s with e behind it.
Pushed(t, s, e) == t = Append(s, e)

(* One joins that is not there.                                            *)
LEMMA LinedPush ==
  ASSUME NEW n \in Nat, NEW s, Lined(s, n), NEW e \in 1..n, e \notin Range(s), NEW t, Pushed(t, s, e)
  PROVE  Lined(t, n) /\ Len(t) = Len(s) + 1 /\ Range(t) = Range(s) \cup {e}
<1>1. PICK l : l = Len(s) /\ l \in Nat
  BY LinedIs
<1>2. /\ t \in Seq(Nat) /\ Len(t) = l + 1
      /\ \A i \in 1..l : t[i] = s[i]
      /\ t[l + 1] = e
  BY <1>1, AppendProperties DEF Lined, Pushed
<1>3. \A i \in 1..l : s[i] \in 1..n /\ s[i] # e
  <2>1. \A i \in 1..l : s[i] \in 1..n
    BY <1>1 DEF Lined
  <2>2. \A i \in 1..l : s[i] \in Range(s)
    BY <1>1, LinedRange
  <2> QED BY <2>1, <2>2
<1>4. \A i \in 1..(l + 1) : t[i] \in 1..n /\ (i # l + 1 => i \in 1..l /\ t[i] = s[i] /\ t[i] # e)
  <2>1. TAKE i \in 1..(l + 1)
  <2>2. CASE i = l + 1
    BY <1>2, <2>2
  <2>3. CASE i # l + 1
    BY <1>1, <2>3, <1>2, <1>3
  <2> QED BY <2>2, <2>3
<1>5. \A i, j \in 1..(l + 1) : t[i] = t[j] => i = j
  BY <1>1, <1>2, <1>4 DEF Lined
<1>6. Lined(t, n)
  BY <1>1, <1>2, <1>4, <1>5 DEF Lined
<1>7. Range(t) = Range(s) \cup {e}
  <2>0. Range(t) = {t[i] : i \in 1..(l + 1)}
    BY <1>6, LinedIs, <1>2
  <2>1. l + 1 \in 1..(l + 1) /\ \A i \in 1..l : i \in 1..(l + 1)
    BY <1>1
  <2>2. \A x \in Range(t) : x \in Range(s) \cup {e}
    <3>1. TAKE x \in Range(t)
    <3>2. PICK i \in 1..(l + 1) : t[i] = x
      BY <2>0
    <3> QED BY SMTT(20), <1>1, <1>2, <1>4, <3>2, LinedRange
  <2>3. \A x \in Range(s) : x \in Range(t)
    <3>1. TAKE x \in Range(s)
    <3>2. PICK i \in 1..l : s[i] = x
      BY <1>1, LinedRange
    <3> QED BY <1>2, <2>0, <2>1, <3>2
  <2>4. e \in Range(t)
    BY <1>2, <2>0, <2>1
  <2> QED BY <2>2, <2>3, <2>4
<1> QED BY <1>1, <1>2, <1>6, <1>7

(* The first one goes.                                                     *)
LEMMA LinedTail ==
  ASSUME NEW n \in Nat, NEW s, Lined(s, n), s # <<>>
  PROVE  /\ Lined(Tail(s), n) /\ Len(Tail(s)) <= Len(s) /\ Head(s) \in 1..n
         /\ Head(s) \in Range(s) /\ Range(Tail(s)) \subseteq Range(s)
<1>1. PICK l : l = Len(s) /\ l \in Nat /\ l # 0
  BY LinedIs
<1>2. PICK t : t = Tail(s)
  OBVIOUS
<1>3. t \in Seq(Nat) /\ Len(t) = l - 1 /\ \A i \in 1..(l - 1) : t[i] = s[i + 1]
  BY <1>1, <1>2, HeadTailProperties DEF Lined
<1>4. \A i \in 1..(l - 1) : i + 1 \in 1..l
  BY <1>1
<1>5. (\A i \in 1..l : s[i] \in 1..n) /\ \A i, j \in 1..l : s[i] = s[j] => i = j
  BY <1>1 DEF Lined
<1>6. \A i \in 1..(l - 1) : t[i] \in 1..n
  BY <1>3, <1>4, <1>5
<1>7. \A i, j \in 1..(l - 1) : t[i] = t[j] => i = j
  <2>1. TAKE i, j \in 1..(l - 1)
  <2>2. HAVE t[i] = t[j]
  <2>3. i + 1 = j + 1
    BY <1>3, <1>4, <1>5, <2>2
  <2> QED BY <2>3
<1>8. Lined(t, n) /\ Len(t) <= l
  BY <1>1, <1>3, <1>6, <1>7 DEF Lined
<1>9. Head(s) \in 1..n /\ Head(s) \in Range(s)
  BY <1>1, LinedIs, LinedRange, HeadTailProperties
<1>10. Range(t) \subseteq Range(s)
  <2>1. Range(t) = {t[i] : i \in 1..(l - 1)}
    BY <1>3, <1>8, LinedIs
  <2> QED BY SMTT(20), <1>1, <1>3, <1>4, <2>1, LinedRange
<1> QED BY <1>1, <1>2, <1>8, <1>9, <1>10

\* t is s from place a to place b.
Slice(t, s, a, b, m) ==
  /\ t \in Seq(Nat) /\ Len(t) = m
  /\ m = (b + 1) - a
  /\ \A i \in 1..m : t[i] = s[(a + i) - 1]

(* What goes on like a queue from its place a is one.                      *)
LEMMA LinedSlice ==
  ASSUME NEW n \in Nat, NEW s, Lined(s, n), NEW a \in Nat, 1 <= a, NEW b \in Nat, a <= b + 1, b <= Len(s),
         NEW t, NEW m \in Nat, Slice(t, s, a, b, m)
  PROVE  Lined(t, n) /\ Range(t) \subseteq Range(s) /\ \A i \in a..b : s[i] \in Range(t)
<1>1. PICK l : l = Len(s) /\ l \in Nat /\ s \in Seq(Nat)
  BY LinedIs
<1>2. \A i \in a..b : i \in 1..l
  BY <1>1
<1>3. (\A i \in 1..l : s[i] \in 1..n) /\ \A i, j \in 1..l : s[i] = s[j] => i = j
  BY <1>1 DEF Lined
<1>4. t \in Seq(Nat) /\ Len(t) = m /\ \A i \in 1..m : t[i] = s[(a + i) - 1]
  BY DEF Slice
<1>5. \A i \in 1..m : (a + i) - 1 \in a..b
  BY DEF Slice
<1>6. \A j \in a..b : (j - a) + 1 \in 1..m /\ (a + ((j - a) + 1)) - 1 = j
  BY DEF Slice
<1>8. \A i \in 1..m : t[i] \in 1..n
  BY <1>2, <1>3, <1>4, <1>5
<1>9. \A i, j \in 1..m : t[i] = t[j] => i = j
  <2>1. TAKE i, j \in 1..m
  <2>2. HAVE t[i] = t[j]
  <2>3. (a + i) - 1 \in 1..l /\ (a + j) - 1 \in 1..l
    BY <1>2, <1>5
  <2>4. s[(a + i) - 1] = s[(a + j) - 1]
    BY <1>4, <2>2
  <2>5. (a + i) - 1 = (a + j) - 1
    BY <1>3, <2>3, <2>4
  <2> QED BY <2>5
<1>10. Lined(t, n)
  BY <1>4, <1>8, <1>9 DEF Lined
<1>11. (\A i \in 1..m : t[i] \in Range(t)) /\ \A e \in Range(t) : \E i \in 1..m : t[i] = e
  <2>1. m = Len(t)
    BY <1>4
  <2> HIDE <1>4, <1>5, <1>6, <1>8, <1>9
  <2> QED BY <1>10, <2>1, LinedRange
<1>12. Range(t) \subseteq Range(s)
  <2> SUFFICES ASSUME NEW e \in Range(t) PROVE e \in Range(s)
    OBVIOUS
  <2>1. PICK i \in 1..m : t[i] = e
    BY <1>11
  <2>2. (a + i) - 1 \in 1..l /\ e = s[(a + i) - 1]
    BY <1>2, <1>4, <1>5, <2>1
  <2> QED BY <1>1, <2>2, LinedRange
<1>13. \A j \in a..b : s[j] \in Range(t)
  <2>1. TAKE j \in a..b
  <2>2. (j - a) + 1 \in 1..m /\ (a + ((j - a) + 1)) - 1 = j
    BY <1>6
  <2>3. t[(j - a) + 1] = s[j]
    BY <1>4, <2>2
  <2> QED BY <1>11, <2>2, <2>3
<1> QED BY <1>10, <1>12, <1>13

\* The same, of the operators: t is a part of s; t is s and then r.
PartOf(t, s, a, b) == t = SubSeq(s, a, b)
JoinOf(t, s, r) == t = s \o r

(* A part of a queue.                                                      *)
LEMMA LinedPart ==
  ASSUME NEW n \in Nat, NEW s, Lined(s, n), NEW a \in Nat, 1 <= a, NEW b \in Nat, a <= b + 1, b <= Len(s),
         NEW t, PartOf(t, s, a, b)
  PROVE  /\ Lined(t, n) /\ Len(t) = (b + 1) - a
         /\ Range(t) \subseteq Range(s) /\ \A i \in a..b : s[i] \in Range(t)
<1>1. PICK l : l = Len(s) /\ l \in Nat /\ s \in Seq(Nat)
  BY LinedIs
<1>2. \A i \in a..b : s[i] \in Nat
  BY <1>1
<1>3. a \in Int /\ b \in Int
  OBVIOUS
<1>4. /\ t \in Seq(Nat)
      /\ Len(t) = IF a <= b THEN b-a+1 ELSE 0
      /\ \A i \in 1 .. b-a+1 : t[i] = s[a+i-1]
  BY <1>2, <1>3, SubSeqProperties DEF PartOf
<1>5. PICK m : m = (b + 1) - a /\ m \in Nat
  OBVIOUS
<1>6. Len(t) = m
  BY <1>4, <1>5
<1>7. \A i \in 1..m : t[i] = s[(a + i) - 1]
  BY <1>4, <1>5
<1>8. Slice(t, s, a, b, m)
  BY <1>4, <1>5, <1>6, <1>7 DEF Slice
<1>9. Lined(t, n) /\ Range(t) \subseteq Range(s) /\ \A i \in a..b : s[i] \in Range(t)
  BY <1>5, <1>8, LinedSlice
<1> QED BY <1>5, <1>6, <1>9

(* Two queues that share nothing, one after the other.                     *)
LEMMA LinedJoin ==
  ASSUME NEW n \in Nat, NEW s, Lined(s, n), NEW r, Lined(r, n), Range(s) \cap Range(r) = {},
         NEW t, JoinOf(t, s, r)
  PROVE  Lined(t, n) /\ Len(t) = Len(s) + Len(r) /\ Range(t) = Range(s) \cup Range(r)
<1>1. PICK l : l = Len(s) /\ l \in Nat /\ s \in Seq(Nat) /\ Range(s) = {s[i] : i \in 1..l}
  BY SMTT(40), LinedIs
<1>2. PICK m : m = Len(r) /\ m \in Nat /\ r \in Seq(Nat) /\ Range(r) = {r[i] : i \in 1..m}
  BY LinedIs
<1>3. /\ t \in Seq(Nat) /\ Len(t) = l + m
      /\ \A i \in 1..(l + m) : t[i] = IF i <= l THEN s[i] ELSE r[i - l]
  BY <1>1, <1>2, ConcatProperties DEF JoinOf
<1>4. \A i \in 1..(l + m) : (i <= l => i \in 1..l) /\ (~(i <= l) => i - l \in 1..m)
  BY <1>1, <1>2
<1>5. /\ \A i \in 1..l : s[i] \in 1..n
      /\ \A i, j \in 1..l : s[i] = s[j] => i = j
      /\ \A i \in 1..m : r[i] \in 1..n
      /\ \A i, j \in 1..m : r[i] = r[j] => i = j
  BY <1>1, <1>2 DEF Lined
<1>6. \A i \in 1..l, j \in 1..m : s[i] # r[j]
  <2>1. TAKE i \in 1..l, j \in 1..m
  <2>2. s[i] \in Range(s) /\ r[j] \in Range(r)
    BY <1>1, <1>2
  <2> QED BY <2>2
<1>7. \A i \in 1..(l + m) : t[i] \in 1..n
  BY <1>3, <1>4, <1>5
<1>8. \A i, j \in 1..(l + m) : t[i] = t[j] => i = j
  <2>1. TAKE i, j \in 1..(l + m)
  <2>2. HAVE t[i] = t[j]
  <2>3. CASE i <= l /\ j <= l
    BY <1>3, <1>4, <1>5, <2>2, <2>3
  <2>4. CASE i <= l /\ ~(j <= l)
    BY <1>3, <1>4, <1>6, <2>2, <2>4
  <2>5. CASE ~(i <= l) /\ j <= l
    BY <1>3, <1>4, <1>6, <2>2, <2>5
  <2>6. CASE ~(i <= l) /\ ~(j <= l)
    <3>1. i - l = j - l
      BY <1>3, <1>4, <1>5, <2>2, <2>6
    <3> QED BY <1>1, <3>1
  <2> QED BY <2>3, <2>4, <2>5, <2>6
<1>9. Lined(t, n)
  BY <1>3, <1>7, <1>8 DEF Lined
<1>10. Range(t) = Range(s) \cup Range(r)
  BY <1>1, <1>2, RangeConcatenation DEF JoinOf
<1> QED BY <1>1, <1>2, <1>3, <1>9, <1>10

(* What a filter leaves of a queue.                                        *)
LEMMA LinedThose ==
  ASSUME NEW n \in Nat, NEW s, Lined(s, n), NEW S, NEW t, t = Those(s, S)
  PROVE  Lined(t, n) /\ Range(t) = Range(s) \cap S
<1>1. PICK l : l = Len(s) /\ l \in Nat /\ s \in Seq(Nat) /\ Range(s) = {s[i] : i \in 1..l}
  BY LinedIs
<1>2. t \in Seq(Nat) /\ \E at : Draws(s, S, l, t, at)
  BY <1>1, ThoseAre
<1>3. PICK at : Draws(s, S, l, t, at)
  BY <1>2
<1>4. PICK m : m = Len(t) /\ m \in Nat
  BY <1>2
<1>5. /\ at \in [1..m -> 1..l]
      /\ \A j, k \in 1..m : j < k => at[j] < at[k]
      /\ \A k \in 1..m : t[k] = s[at[k]] /\ s[at[k]] \in S
      /\ \A i \in 1..l : s[i] \in S => \E k \in 1..m : at[k] = i
  BY <1>3, <1>4 DEF Draws
<1>6. (\A i \in 1..l : s[i] \in 1..n) /\ \A i, j \in 1..l : s[i] = s[j] => i = j
  BY <1>1 DEF Lined
<1>7. \A k \in 1..m : at[k] \in 1..l
  BY <1>5
<1>8. \A k \in 1..m : t[k] \in 1..n
  BY <1>5, <1>6, <1>7
<1>9. \A j, k \in 1..m : t[j] = t[k] => j = k
  <2>1. TAKE j, k \in 1..m
  <2>2. HAVE t[j] = t[k]
  <2>3. at[j] = at[k]
    BY <1>5, <1>6, <1>7, <2>2
  <2>4. ~(at[j] < at[k]) /\ ~(at[k] < at[j])
    BY <1>1, <1>7, <2>3
  <2> QED BY <1>4, <1>5, <2>4
<1>10. Lined(t, n)
  BY <1>2, <1>4, <1>8, <1>9 DEF Lined
<1>11. Range(t) = {t[k] : k \in 1..m}
  BY <1>4, <1>10, LinedIs
<1>12. {t[k] : k \in 1..m} = {s[i] : i \in 1..l} \cap S
  BY <1>5, <1>7
<1> QED BY <1>1, <1>10, <1>11, <1>12

----------------------------------------------------------------------------
(* Largest and smallest.                                                   *)

(* A set of numbers with a bound has a largest one.                        *)
LEMMA MaxIs ==
  ASSUME NEW n \in Nat, NEW S, S \subseteq 0..n, S # {}
  PROVE  Max(S) \in S /\ \A y \in S : y <= Max(S)
<1> DEFINE U == {m \in Nat : \A y \in S : y <= m}
<1>1. PICK u \in U : \A m \in U : u <= m
  <2>1. U \in SUBSET Nat /\ n \in U
    OBVIOUS
  <2> HIDE DEF U
  <2> QED BY <2>1, LeastNumber
<1>2. u \in Nat /\ \A y \in S : y \in Nat /\ y <= u
  OBVIOUS
<1>3. u \in S
  <2> SUFFICES ASSUME u \notin S PROVE FALSE
    OBVIOUS
  <2>1. \A y \in S : y <= u - 1 /\ y # u
    BY <1>2
  <2>2. PICK y \in S : TRUE
    OBVIOUS
  <2>3. u # 0
    BY <1>2, <2>1, <2>2
  <2>4. u - 1 \in U
    BY <1>2, <2>1, <2>3
  <2> QED BY <1>1, <1>2, <2>4
<1>4. \E x \in S : \A y \in S : x >= y
  BY <1>2, <1>3
<1>5. Max(S) \in S /\ \A y \in S : Max(S) >= y
  BY <1>4 DEF Max
<1> QED BY <1>2, <1>5

(* The larger and the smaller of two.                                      *)
LEMMA MaxOfTwo ==
  ASSUME NEW a \in Int, NEW b \in Int
  PROVE  Max({a, b}) = IF a >= b THEN a ELSE b
<1>1. \E x \in {a, b} : \A y \in {a, b} : x >= y
  OBVIOUS
<1>2. Max({a, b}) \in {a, b} /\ \A y \in {a, b} : Max({a, b}) >= y
  BY <1>1 DEF Max
<1> QED BY <1>2

(* The smaller of two numbers.                                             *)
LEMMA MinOfTwo ==
  ASSUME NEW a \in Int, NEW b \in Int
  PROVE  Min({a, b}) = IF a <= b THEN a ELSE b
<1>1. \E x \in {a, b} : \A y \in {a, b} : x <= y
  OBVIOUS
<1>2. Min({a, b}) \in {a, b} /\ \A y \in {a, b} : Min({a, b}) <= y
  BY <1>1 DEF Min
<1> QED BY <1>2

(* A finite set of numbers has a bound.                                    *)
LEMMA FiniteIsBounded ==
  ASSUME NEW S \in SUBSET Nat, IsFiniteSet(S)
  PROVE  \E n \in Nat : S \subseteq 0..n
<1> DEFINE Unbounded(T) == T \in SUBSET Nat /\ IsFiniteSet(T) /\ ~ \E n \in Nat : T \subseteq 0..n
<1> DEFINE B == {k \in Nat : \E T : Unbounded(T) /\ Cardinality(T) = k}
<1> SUFFICES ASSUME Unbounded(S) PROVE FALSE
  OBVIOUS
<1>1. Cardinality(S) \in B
  BY FS_CardinalityType
<1>2. PICK k \in B : \A m \in B : k <= m
  <2>1. B \in SUBSET Nat
    OBVIOUS
  <2> HIDE DEF B
  <2> QED BY <1>1, <2>1, LeastNumber
<1>3. PICK T : Unbounded(T) /\ Cardinality(T) = k
  OBVIOUS
<1>4. T # {}
  BY <1>3
<1>5. PICK x \in T : x \in Nat
  BY <1>3, <1>4
<1>6. /\ T \ {x} \in SUBSET Nat /\ IsFiniteSet(T \ {x})
      /\ Cardinality(T \ {x}) = k - 1
  BY <1>3, <1>5, FS_RemoveElement
<1>7. ~Unbounded(T \ {x})
  <2> SUFFICES ASSUME Unbounded(T \ {x}) PROVE FALSE
    OBVIOUS
  <2>1. Cardinality(T \ {x}) \in Nat
    BY <1>6, FS_CardinalityType
  <2>2. k - 1 \in B /\ k \in Nat
    BY <1>6, <2>1
  <2> QED BY <1>2, <2>2
<1>8. PICK n \in Nat : T \ {x} \subseteq 0..n
  BY <1>6, <1>7
<1>9. n + x \in Nat /\ T \subseteq 0..(n + x)
  <2>1. n + x \in Nat
    BY <1>5, <1>8
  <2>2. ASSUME NEW y \in T PROVE y \in 0..(n + x)
    BY <1>5, <1>8
  <2> QED BY <2>1, <2>2
<1> QED BY <1>3, <1>9

----------------------------------------------------------------------------
(* The extraction of archives.                                             *)

DrainPlaces == {"off", "next", "raise", "check", "works", "charge", "report"}
DrainTask ==
  [at : DrainPlaces, log : Nat, raise : Nat, day : Nat, spent : Nat,
   result : {"none", "nothing", "extracted", "unavailable", "failed"}]
CatchUpTask ==
  [at : {"off", "scan", "ask", "found", "raise"}, above : Nat, found : SUBSET Nat, raise : Nat, starts : BOOLEAN]
QueueOfJobs ==
  [pending : Seq(Nat), backlog : Seq(Nat), running : BOOLEAN, fails : Nat, paused : Nat]

ExtArchives == [last : Nat, ingesting : SUBSET Nat, ready : SUBSET Nat, awaiting : SUBSET Nat]
ExtHost == [up : BOOLEAN, day : Nat, boots : Nat, panics : Nat, faults : Nat]
ExtAnnals(days) ==
  [queued : SUBSET Nat, full : SUBSET Nat, jumped : SUBSET Nat, untold : SUBSET Nat,
   history : SUBSET Nat, failing : Nat, on : Nat, spent : [days -> Nat], lost : [days -> Int], panicked : BOOLEAN]

ExtTyped ==
  /\ extractLaw \in ExtractConfigs
  /\ archives \in ExtArchives
  /\ spendBook \in [day : Nat, tokens : Nat, mark : Nat \cup {-1}]
  /\ jobs \in QueueOfJobs
  /\ pushers \subseteq [log : Nat, starts : BOOLEAN]
  /\ catchUp \in CatchUpTask
  /\ drains \in [Workers -> DrainTask]
  /\ host \in ExtHost
  /\ annals \in ExtAnnals(1..extractLaw.days)

\* Every number stands for an archive that was written.
ExtNumbers ==
  /\ archives.ingesting \cup archives.ready \cup archives.awaiting \subseteq 1..archives.last
  /\ spendBook.mark <= archives.last
  /\ Lined(jobs.pending, archives.last) /\ Lined(jobs.backlog, archives.last)
  /\ Len(jobs.pending) <= extractLaw.queued
  /\ \A caller \in pushers : caller.log \in 1..archives.last
  /\ catchUp.raise <= archives.last /\ catchUp.found \subseteq 1..archives.last
  /\ \A w \in Workers : drains[w].raise <= archives.last

\* A process that is down does nothing, and a catch-up has found what it
\* has to queue between its scan and its turn at the queue.
ExtPlaces ==
  /\ ~host.up => /\ jobs = NoQueue /\ pushers = {} /\ catchUp = NoCatchUp
                 /\ drains = [w \in Workers |-> NoDrain]
                 /\ archives.ingesting = {} /\ archives.ready = {}
  /\ catchUp.at \notin {"ask", "found"} => catchUp.found = {}
  /\ catchUp.starts => catchUp.at = "raise"

\* The right to drain the queue is with one: a drain, or a caller or a
\* catch-up that is about to start one; and then the queue says so.
ExtRight ==
  /\ \A v, w \in Workers : drains[v].at # "off" /\ drains[w].at # "off" => v = w
  /\ \A p, q \in pushers : p.starts /\ q.starts => p = q
  /\ \A w \in Workers : drains[w].at # "off" => ~catchUp.starts /\ \A p \in pushers : ~p.starts
  /\ \A p \in pushers : p.starts => ~catchUp.starts
  /\ jobs.running <=> \/ \E w \in Workers : drains[w].at # "off"
                      \/ \E p \in pushers : p.starts
                      \/ catchUp.starts
  /\ jobs.pending # <<>> /\ ~annals.panicked => jobs.running

\* The ledger: what was spent and not lost is what it says, of the day it is
\* about; no later day has any.
ExtLedger ==
  /\ host.day \in 1..extractLaw.days /\ spendBook.day <= host.day
  /\ \A d \in 1..extractLaw.days :
        /\ d > spendBook.day => annals.spent[d] - annals.lost[d] = 0
        /\ d = spendBook.day => annals.spent[d] - annals.lost[d] = spendBook.tokens
        /\ extractLaw.limit > 0 =>
              annals.spent[d] - annals.lost[d] <= (extractLaw.limit - 1) + Max(extractLaw.costs \cup {0})

\* An attempt: of a day that the ledger has not left behind, within its
\* budget when it began, on a day that was not paused.
ExtAttempt ==
  \A w \in Workers :
     /\ drains[w].at \in {"check", "works", "charge", "report"} =>
           drains[w].day \in 1..host.day /\ spendBook.day <= drains[w].day
     /\ drains[w].at \in {"works", "charge"} /\ extractLaw.limit > 0 => Spent(drains[w].day) <= extractLaw.limit - 1
     /\ drains[w].at = "charge" => drains[w].spent \in extractLaw.costs \cup {0}
     /\ drains[w].at \in {"works", "charge", "report"} => jobs.paused # drains[w].day

\* Failures in a row are counted while the process is up, or have paused
\* their day.
ExtFailing ==
  /\ jobs.fails <= MaxFailures - 1 /\ annals.failing <= MaxFailures
  /\ host.up => annals.failing <= jobs.fails \/ jobs.paused = annals.on

\* While the process is up, and at any time below the watermark: no archive
\* was passed over but for the reasons named.
Known(log) ==
  \/ log \in annals.queued \cup annals.full \cup annals.history \cup annals.jumped \cup annals.untold
  \/ log \in Range(jobs.backlog) \cup catchUp.found \cup archives.ingesting \cup archives.ready
  \/ catchUp.at = "scan" /\ log > catchUp.above
  \/ log \notin archives.awaiting
ExtKnown == \A log \in 1..archives.last : host.up \/ log <= spendBook.mark => Known(log)

\* An archive is in the store's hands, pending, queued, or its ingest is
\* lost; what is pending in the queue, or with the worker, was queued.
ExtStored ==
  /\ \A log \in 1..archives.last :
        log \in archives.awaiting \cup archives.ingesting \cup annals.queued \cup annals.untold
  /\ Range(jobs.pending) \subseteq annals.queued
  /\ \A w \in Workers : drains[w].at \notin {"off", "next"} => drains[w].log \in annals.queued

ExtIInv ==
  /\ ExtTyped /\ ExtNumbers /\ ExtPlaces /\ ExtRight
  /\ ExtLedger /\ ExtAttempt /\ ExtFailing /\ ExtKnown /\ ExtStored

----------------------------------------------------------------------------
(* What refill makes of a queue.                                           *)

\* a is queue b with what of its backlog is not queued moved behind what is,
\* as far as there is room for room entries.
Refills(a, b, n, room) ==
  /\ a = [b EXCEPT !.pending = a.pending, !.backlog = a.backlog]
  /\ Lined(a.pending, n) /\ Lined(a.backlog, n) /\ Len(a.pending) <= room
  /\ Range(b.pending) \subseteq Range(a.pending)
  /\ Range(b.backlog) \subseteq Range(a.pending) \cup Range(a.backlog)

(* A refill loses nothing, and raises the watermark to no more than the    *)
(* last archive.                                                           *)
LEMMA RefilledIs ==
  ASSUME NEW n \in Nat, NEW b \in QueueOfJobs, Lined(b.pending, n), Lined(b.backlog, n),
         extractLaw.queued \in Nat, Len(b.pending) <= extractLaw.queued
  PROVE  /\ Refills(Refilled(b), b, n, extractLaw.queued)
         /\ RefillRaises(b) \in 0..n
<1>1. PICK fresh : fresh = Those(b.backlog, Range(b.backlog) \ Range(b.pending))
  OBVIOUS
<1>2. Lined(fresh, n) /\ Range(fresh) = Range(b.backlog) \ Range(b.pending)
  BY <1>1, LinedThose
<1>3. PICK l : l = Len(fresh) /\ l \in Nat
  BY <1>2, LinedIs
<1>4. PICK p : p = Len(b.pending) /\ p \in Nat
  BY LinedIs
<1>5. PICK k : k = Min({extractLaw.queued - p, l})
  OBVIOUS
<1>6. k \in Nat /\ k <= l /\ k <= extractLaw.queued - p
  BY SMTT(40), <1>3, <1>4, <1>5, MinOfTwo
<1>7. PICK moved : PartOf(moved, fresh, 1, k)
  BY DEF PartOf
<1>8. Lined(moved, n) /\ Len(moved) = k /\ Range(moved) \subseteq Range(fresh) /\ \A i \in 1..k : fresh[i] \in Range(moved)
  BY <1>3, <1>6, <1>2, <1>7, LinedPart
<1>9. PICK kept : PartOf(kept, fresh, k + 1, l)
  BY DEF PartOf
<1>10. Lined(kept, n) /\ Range(kept) \subseteq Range(fresh) /\ \A i \in (k + 1)..l : fresh[i] \in Range(kept)
  BY <1>3, <1>6, <1>2, <1>9, LinedPart
<1>11. Range(fresh) \subseteq Range(moved) \cup Range(kept)
  <2> SUFFICES ASSUME NEW e \in Range(fresh) PROVE e \in Range(moved) \cup Range(kept)
    OBVIOUS
  <2>1. PICK i \in 1..l : fresh[i] = e
    BY <1>2, <1>3, LinedRange
  <2>2. i \in 1..k \/ i \in (k + 1)..l
    BY <1>3, <1>6
  <2> QED BY <1>8, <1>10, <2>1, <2>2
<1>12. PICK full : JoinOf(full, b.pending, moved)
  BY DEF JoinOf
<1>13. Lined(full, n) /\ Len(full) = p + k /\ Range(full) = Range(b.pending) \cup Range(moved)
  BY <1>2, <1>8, <1>12, LinedJoin, <1>4
<1>14. Refilled(b) = [b EXCEPT !.pending = full, !.backlog = kept]
  BY <1>1, <1>3, <1>4, <1>5, <1>7, <1>8, <1>9, <1>12 DEF Refilled, QueueOfJobs, PartOf, JoinOf
<1>15. Refilled(b).pending = full /\ Refilled(b).backlog = kept
  BY <1>14 DEF QueueOfJobs
<1>16. Len(full) <= extractLaw.queued
  BY <1>4, <1>6, <1>13
<1>17. Range(b.backlog) \subseteq Range(full) \cup Range(kept)
  BY <1>2, <1>11, <1>13
<1>18. Refills(Refilled(b), b, n, extractLaw.queued)
  BY <1>10, <1>13, <1>14, <1>15, <1>16, <1>17 DEF Refills
<1>19. RefillRaises(b) \in 0..n
  <2>1. PICK S : S = {0} \cup (Range(full) \ Range(b.pending))
    OBVIOUS
  <2>2. Range(full) \subseteq 1..n
    BY <1>13, LinedIs
  <2>3. S \subseteq 0..n /\ S # {}
    BY <2>1, <2>2
  <2>4. RefillRaises(b) = Max(S)
    BY <1>15, <2>1 DEF RefillRaises
  <2> QED BY <2>3, <2>4, MaxIs
<1> QED BY <1>18, <1>19

(* What the catch-up queues, in ascending order.                           *)
LEMMA AscendingIs ==
  ASSUME NEW logs, archives.last \in Nat, logs \subseteq 1..archives.last
  PROVE  Lined(Ascending(logs), archives.last) /\ Range(Ascending(logs)) = logs
<1>1. PICK n : n = archives.last /\ n \in Nat
  OBVIOUS
<1>2. PICK all : all = [log \in 1..n |-> log]
  OBVIOUS
<1>3. Lined(all, n) /\ Range(all) = 1..n
  BY <1>1, <1>2 DEF Lined, Range
<1>4. Ascending(logs) = Those(all, logs)
  BY <1>1, <1>2 DEF Ascending
<1>5. Lined(Ascending(logs), n) /\ Range(Ascending(logs)) = 1..n \cap logs
  BY <1>1, <1>3, <1>4, LinedThose
<1> QED BY <1>1, <1>5

----------------------------------------------------------------------------
(* The steps.                                                              *)

(* The configuration.                                                      *)
LEMMA ExtLawIs ==
  ASSUME ExtTyped
  PROVE  /\ extractLaw.queued \in Nat /\ extractLaw.limit \in Nat /\ extractLaw.days \in Nat
         /\ 1 <= extractLaw.days /\ MaxFailures \in Nat /\ 1 <= MaxFailures
         /\ extractLaw.costs \subseteq Nat
         /\ Max(extractLaw.costs \cup {0}) \in Nat
         /\ \A cost \in extractLaw.costs \cup {0} : cost <= Max(extractLaw.costs \cup {0})
<1>1. extractLaw \in ExtractConfigs
  BY DEF ExtTyped
<1>2. /\ extractLaw.queued \in Nat /\ extractLaw.limit \in Nat /\ extractLaw.days \in Nat \ {0}
      /\ MaxFailures \in Nat \ {0} /\ extractLaw.costs \subseteq Nat /\ IsFiniteSet(extractLaw.costs)
  BY <1>1, ExtractionAssumption
<1>3. PICK n \in Nat : extractLaw.costs \subseteq 0..n
  BY <1>2, FiniteIsBounded
<1>4. PICK S : S = extractLaw.costs \cup {0}
  OBVIOUS
<1>5. S \subseteq 0..n /\ S # {}
  BY <1>3, <1>4
<1>6. Max(S) \in S /\ \A y \in S : y <= Max(S)
  BY <1>5, MaxIs
<1>7. Max(S) \in Nat
  <2>1. \A x \in S : x \in Nat
    BY <1>5
  <2> QED BY <1>6, <2>1, Zenon
<1>8. 1 <= extractLaw.days /\ 1 <= MaxFailures
  BY <1>2
<1> QED BY <1>2, <1>4, <1>6, <1>7, <1>8

\* The watermark may have risen, and a write of the ledger failed.
MarkRose ==
  /\ spendBook' = [spendBook EXCEPT !.mark = spendBook'.mark]
  /\ spendBook'.mark \in Nat \cup {-1} /\ spendBook'.mark <= archives.last
  /\ host' = [host EXCEPT !.faults = host'.faults] /\ host'.faults \in Nat

(* The watermark is raised to an archive that was written, or the write    *)
(* fails.                                                                  *)
LEMMA RaiseIs ==
  ASSUME ExtTyped, ExtNumbers, NEW log \in 0..archives.last, RaisesTo(log)
  PROVE  MarkRose
<1>1. /\ spendBook \in [day : Nat, tokens : Nat, mark : Nat \cup {-1}]
      /\ host \in ExtHost
      /\ archives.last \in Nat /\ spendBook.mark <= archives.last
  BY DEF ExtTyped, ExtNumbers, ExtArchives
<1>2. CASE UNCHANGED <<spendBook, host>>
  BY <1>2, <1>1 DEF MarkRose, ExtHost
<1>3. CASE Writes(Raised(log)) /\ log > spendBook.mark
  <2>1. PICK top : top = Max({spendBook.mark, log})
    OBVIOUS
  <2>2. top = log
    BY <1>1, <1>3, <2>1, MaxOfTwo
  <2>3. Raised(log) = [spendBook EXCEPT !.mark = log]
    BY <2>1, <2>2 DEF Raised
  <2>4. CASE spendBook' = Raised(log) /\ host' = host
    BY <2>3, <2>4, <1>1 DEF MarkRose, ExtHost
  <2>5. CASE spendBook' = spendBook /\ host' = [host EXCEPT !.faults = host.faults + 1]
    BY <1>1, <2>5 DEF MarkRose, ExtHost
  <2> QED BY <1>3, <2>4, <2>5 DEF Writes
<1> QED BY <1>2, <1>3 DEF RaisesTo

(* A drain is in a place of its own.                                       *)
LEMMA DrainIs ==
  ASSUME ExtTyped, NEW w \in Workers
  PROVE  /\ drains[w] \in DrainTask /\ drains[w].at \in DrainPlaces /\ drains[w].log \in Nat
         /\ drains[w].raise \in Nat /\ drains[w].day \in Nat /\ drains[w].spent \in Nat
<1>1. drains[w] \in DrainTask
  BY DEF ExtTyped
<1> QED BY <1>1 DEF DrainTask

(* One drain becomes d, the others go on.                                  *)
LEMMA WorkerIs ==
  ASSUME ExtTyped, NEW w \in Workers, NEW d \in DrainTask, Worker(w, d)
  PROVE  /\ drains' \in [Workers -> DrainTask] /\ drains'[w] = d
         /\ \A v \in Workers : v # w => drains'[v] = drains[v]
BY DEF ExtTyped, Worker

----------------------------------------------------------------------------
(* What leaves a part of the invariant as it is.                           *)

LedgerRests ==
  /\ extractLaw' = extractLaw /\ host'.day = host.day
  /\ spendBook'.day = spendBook.day /\ spendBook'.tokens = spendBook.tokens
  /\ annals'.spent = annals.spent /\ annals'.lost = annals.lost

\* No drain comes to an attempt, or goes on with it.
AttemptRests ==
  /\ extractLaw' = extractLaw /\ host.day <= host'.day
  /\ spendBook'.day = spendBook.day /\ spendBook'.tokens = spendBook.tokens
  /\ jobs'.paused = jobs.paused
  /\ \A v \in Workers : drains'[v] = drains[v] \/ drains'[v].at \in {"off", "next", "raise"}

FailingRests ==
  /\ host'.up = host.up /\ jobs'.fails = jobs.fails /\ jobs'.paused = jobs.paused
  /\ annals'.failing = annals.failing /\ annals'.on = annals.on

\* The right to drain stays where it is.
RightRests ==
  /\ pushers' = pushers /\ catchUp'.starts = catchUp.starts
  /\ \A v \in Workers : drains'[v].at = "off" <=> drains[v].at = "off"
  /\ jobs'.running = jobs.running /\ jobs'.pending = jobs.pending /\ annals'.panicked = annals.panicked

PlacesRest ==
  /\ host'.up = host.up /\ host.up
  /\ catchUp'.at = catchUp.at /\ catchUp'.found = catchUp.found /\ catchUp'.starts = catchUp.starts

\* What was known stays known; only while the process is up does the
\* watermark rise.
KnownRests ==
  /\ archives'.last = archives.last /\ archives'.awaiting \subseteq archives.awaiting
  /\ archives'.ingesting = archives.ingesting /\ archives'.ready = archives.ready
  /\ host'.up = host.up /\ (host.up \/ spendBook'.mark = spendBook.mark)
  /\ annals.queued \subseteq annals'.queued /\ annals.full \subseteq annals'.full
  /\ annals.history \subseteq annals'.history /\ annals.jumped \subseteq annals'.jumped
  /\ annals.untold \subseteq annals'.untold
  /\ Range(jobs.backlog) \subseteq Range(jobs'.backlog) \cup annals'.queued
  /\ catchUp'.at = catchUp.at /\ catchUp'.above = catchUp.above /\ catchUp'.found = catchUp.found

\* What leaves the store's hands is pending or its ingest is lost, what is
\* no longer pending was queued, and so was what comes to the queue or to a
\* worker.
StoredRests ==
  /\ archives'.last = archives.last
  /\ archives.awaiting \subseteq archives'.awaiting \cup annals'.queued
  /\ archives.ingesting \subseteq archives'.ingesting \cup archives'.awaiting \cup annals'.untold
  /\ annals.queued \subseteq annals'.queued /\ annals.untold \subseteq annals'.untold
  /\ Range(jobs'.pending) \subseteq Range(jobs.pending) \cup annals'.queued
  /\ \A v \in Workers : \/ drains'[v].at \in {"off", "next"}
                        \/ drains'[v].log \in annals'.queued
                        \/ drains[v].at \notin {"off", "next"} /\ drains'[v].log = drains[v].log

(* These keep their parts.                                                 *)
LEMMA LedgerKept == ASSUME ExtLedger, LedgerRests PROVE ExtLedger'
BY DEF ExtLedger, LedgerRests

(* The same, of attempts.                                                  *)
LEMMA AttemptKept ==
  ASSUME ExtAttempt, AttemptRests, host.day \in Nat, host'.day \in Nat
  PROVE  ExtAttempt'
<1> SUFFICES ASSUME NEW v \in Workers
             PROVE  /\ drains'[v].at \in {"check", "works", "charge", "report"} =>
                          drains'[v].day \in 1..host'.day /\ spendBook'.day <= drains'[v].day
                    /\ drains'[v].at \in {"works", "charge"} /\ extractLaw'.limit > 0 =>
                          Spent(drains[v].day)' <= extractLaw'.limit - 1
                    /\ drains'[v].at = "charge" => drains'[v].spent \in extractLaw'.costs \cup {0}
                    /\ drains'[v].at \in {"works", "charge", "report"} => jobs'.paused # drains'[v].day
  BY DEF ExtAttempt
<1>1. CASE drains'[v] = drains[v]
  BY <1>1 DEF Spent, AttemptRests, ExtAttempt
<1>2. CASE drains'[v].at \in {"off", "next", "raise"}
  BY <1>2
<1> QED BY <1>1, <1>2 DEF AttemptRests

(* The same, of failures.                                                  *)
LEMMA FailingKept == ASSUME ExtFailing, FailingRests PROVE ExtFailing'
BY DEF ExtFailing, FailingRests

(* The same, of the right to drain.                                        *)
LEMMA RightKept == ASSUME ExtRight, RightRests PROVE ExtRight'
BY DEF ExtRight, RightRests

(* The same, of the places.                                                *)
LEMMA ExtPlacesKept == ASSUME ExtPlaces, PlacesRest PROVE ExtPlaces'
BY DEF ExtPlaces, PlacesRest

(* The same, of what is known.                                             *)
LEMMA KnownKept == ASSUME ExtKnown, KnownRests PROVE ExtKnown'
<1> SUFFICES ASSUME NEW log \in 1..archives'.last, host'.up \/ log <= spendBook'.mark
             PROVE  Known(log)'
  BY DEF ExtKnown
<1>1. log \in 1..archives.last /\ (host.up \/ log <= spendBook.mark)
  BY DEF KnownRests
<1>2. Known(log)
  BY <1>1 DEF ExtKnown
<1> QED BY <1>2 DEF Known, KnownRests

(* The same, of what is stored.                                            *)
LEMMA StoredKept == ASSUME ExtStored, StoredRests PROVE ExtStored'
BY DEF ExtStored, StoredRests

(* The types, apart.                                                       *)
LEMMA ExtTypes ==
  ASSUME ExtIInv
  PROVE  /\ archives \in ExtArchives /\ archives.last \in Nat
         /\ spendBook \in [day : Nat, tokens : Nat, mark : Nat \cup {-1}]
         /\ jobs \in QueueOfJobs
         /\ catchUp \in CatchUpTask
         /\ drains \in [Workers -> DrainTask]
         /\ host \in ExtHost
         /\ annals \in ExtAnnals(1..extractLaw.days)
BY DEF ExtIInv, ExtTyped, ExtArchives

(* What the drain of a worker, its process and its right are.              *)
LEMMA ActiveIs ==
  ASSUME ExtIInv, NEW w \in Workers, drains[w].at # "off"
  PROVE  /\ host.up /\ jobs.running /\ ~catchUp.starts
         /\ \A p \in pushers : ~p.starts
         /\ \A v \in Workers : v # w => drains[v].at = "off"
<1>1. host.up
  BY DEF ExtIInv, ExtPlaces, NoDrain
<1> QED BY <1>1 DEF ExtIInv, ExtRight

----------------------------------------------------------------------------
(* The worker's steps.                                                     *)

(* The worker is refused, or goes on.                                      *)
LEMMA RefusalKeeps ==
  ASSUME ExtIInv, NEW w \in Workers, Refusal(w)
  PROVE  ExtIInv'
<1>1. /\ drains[w].at = "check"
      /\ extractLaw' = extractLaw /\ archives' = archives /\ spendBook' = spendBook /\ jobs' = jobs
      /\ pushers' = pushers /\ catchUp' = catchUp /\ host' = host /\ annals' = annals
  BY DEF Refusal
<1>2. ExtTyped /\ drains[w] \in DrainTask /\ host.up
  BY <1>1, DrainIs, ActiveIs DEF ExtIInv
<1>3. PICK d : /\ Worker(w, d)
               /\ \/ d = [drains[w] EXCEPT !.at = "next"]
                  \/ /\ d = [drains[w] EXCEPT !.at = "works"]
                     /\ jobs.paused # drains[w].day /\ ~Exhausted(drains[w].day)
  BY DEF Refusal
<1>4. /\ d \in DrainTask /\ d.raise = drains[w].raise /\ d.day = drains[w].day
      /\ d.log = drains[w].log
      /\ \/ d.at = "next"
         \/ d.at = "works" /\ jobs.paused # drains[w].day /\ ~Exhausted(drains[w].day)
  BY <1>2, <1>3 DEF DrainTask, DrainPlaces
<1>5. /\ drains' \in [Workers -> DrainTask] /\ drains'[w] = d
      /\ \A v \in Workers : v # w => drains'[v] = drains[v]
  BY <1>2, <1>3, <1>4, WorkerIs
<1>6. \A v \in Workers : drains'[v].at = "off" <=> drains[v].at = "off"
  BY <1>1, <1>4, <1>5
<1>7. ExtTyped'
  BY <1>1, <1>2, <1>5 DEF ExtTyped
<1>8. ExtNumbers'
  BY <1>1, <1>4, <1>5 DEF ExtIInv, ExtNumbers
<1>9. ExtPlaces' /\ ExtRight' /\ ExtFailing'
  BY <1>1, <1>2, <1>6, ExtPlacesKept, RightKept, FailingKept DEF PlacesRest, RightRests,
     FailingRests, ExtIInv
<1>10. ExtLedger' /\ ExtKnown'
  BY <1>1, <1>2, LedgerKept, KnownKept DEF LedgerRests, KnownRests, ExtIInv
<1>11. ExtAttempt'
  <2>1. drains[w].day \in 1..host.day /\ spendBook.day <= drains[w].day
    BY <1>1 DEF ExtIInv, ExtAttempt
  <2>2. CASE d.at = "next"
    BY <1>1, <1>2, <1>5, <2>2, AttemptKept DEF AttemptRests, ExtTyped, ExtHost, ExtIInv
  <2>3. CASE d.at = "works" /\ jobs.paused # drains[w].day /\ ~Exhausted(drains[w].day)
    <3>1. extractLaw.limit > 0 => Spent(drains[w].day) <= extractLaw.limit - 1
      BY <1>2, ExtLawIs, <2>3 DEF Spent, ExtTyped, Exhausted
    <3>2. \A day : Spent(day)' = Spent(day)
      BY <1>1 DEF Spent
    <3>3. d.at = "works" /\ d.day = drains[w].day
      BY <1>4, <2>3
    <3> QED BY <1>1, <1>5, <2>1, <2>3, <3>1, <3>2, <3>3 DEF ExtIInv, ExtAttempt
  <2> QED BY <1>4, <2>2, <2>3
<1>12. ExtStored'
  BY <1>1, <1>4, <1>5, StoredKept DEF StoredRests, ExtIInv
<1> QED BY <1>7, <1>8, <1>9, <1>10, <1>11, <1>12 DEF ExtIInv

(* The worker raises the watermark.                                        *)
LEMMA RaiseRefilledKeeps ==
  ASSUME ExtIInv, NEW w \in Workers, RaiseRefilled(w)
  PROVE  ExtIInv'
<1>1. /\ drains[w].at = "raise" /\ RaisesTo(drains[w].raise)
      /\ extractLaw' = extractLaw /\ archives' = archives /\ jobs' = jobs
      /\ pushers' = pushers /\ catchUp' = catchUp /\ annals' = annals
  BY DEF RaiseRefilled
<1>2. ExtTyped /\ ExtNumbers /\ drains[w] \in DrainTask /\ host.up /\ host \in ExtHost
      /\ spendBook \in [day : Nat, tokens : Nat, mark : Nat \cup {-1}] /\ archives.last \in Nat
  BY <1>1, DrainIs, ActiveIs, ExtTypes DEF ExtIInv
<1>3. PICK d : d = [drains[w] EXCEPT !.at = "check", !.day = host.day]
  OBVIOUS
<1>4. /\ d \in DrainTask /\ d.raise = drains[w].raise /\ d.day = host.day /\ d.at = "check"
      /\ d.log = drains[w].log
      /\ drains[w].raise \in 0..archives.last
  <2>1. "check" \in DrainPlaces /\ host.day \in Nat
    BY <1>2 DEF DrainPlaces, ExtHost
  <2>2. /\ d \in DrainTask /\ d.raise = drains[w].raise /\ d.day = host.day /\ d.at = "check"
        /\ d.log = drains[w].log
    BY <1>2, <1>3, <2>1 DEF DrainTask
  <2>3. drains[w].raise \in Nat /\ drains[w].raise <= archives.last
    BY <1>2 DEF DrainTask, ExtNumbers
  <2> QED BY <1>2, <2>2, <2>3
<1>5. /\ drains' \in [Workers -> DrainTask] /\ drains'[w] = d
      /\ \A v \in Workers : v # w => drains'[v] = drains[v]
  BY <1>3, <1>2, <1>4, WorkerIs DEF RaiseRefilled
<1>6. \A v \in Workers : drains'[v].at = "off" <=> drains[v].at = "off"
  BY <1>1, <1>4, <1>5
<1>7. MarkRose
  BY <1>1, <1>2, <1>4, RaiseIs
<1>8. /\ spendBook' \in [day : Nat, tokens : Nat, mark : Nat \cup {-1}]
      /\ spendBook'.day = spendBook.day /\ spendBook'.tokens = spendBook.tokens
      /\ spendBook'.mark <= archives.last
      /\ host' \in ExtHost /\ host'.up = host.up /\ host'.day = host.day
  BY <1>2, <1>7 DEF MarkRose, ExtHost
<1>9. ExtTyped'
  BY <1>1, <1>2, <1>5, <1>8 DEF ExtTyped
<1>10. ExtNumbers'
  BY <1>1, <1>2, <1>4, <1>5, <1>8 DEF ExtNumbers
<1>11. ExtPlaces' /\ ExtRight' /\ ExtFailing'
  BY <1>1, <1>2, <1>6, <1>8, ExtPlacesKept, RightKept, FailingKept DEF PlacesRest, RightRests,
     FailingRests, ExtIInv
<1>12. ExtLedger' /\ ExtKnown'
  BY <1>1, <1>2, <1>8, LedgerKept, KnownKept DEF LedgerRests, KnownRests, ExtIInv
<1>13. ExtAttempt'
  <2>1. host.day \in 1..host.day /\ spendBook.day <= host.day
    BY <1>2 DEF ExtIInv, ExtLedger, ExtHost
  <2>2. \A v \in Workers : v # w => drains[v].at = "off"
    BY <1>1, ActiveIs
  <2> QED BY <1>4, <1>5, <1>8, <2>1, <2>2 DEF ExtAttempt
<1>14. ExtStored'
  BY <1>1, <1>4, <1>5, StoredKept DEF StoredRests, ExtIInv
<1> QED BY <1>9, <1>10, <1>11, <1>12, <1>13, <1>14 DEF ExtIInv

(* What an attempt spent and nothing will charge leaves what the ledger    *)
(* has to account for as it is.                                            *)
LEMMA UnbilledIs ==
  ASSUME ExtIInv, NEW day \in 1..extractLaw.days, NEW spent \in Nat, NEW a, a = Unbilled(day, spent)
  PROVE  /\ a \in ExtAnnals(1..extractLaw.days)
         /\ \A e \in 1..extractLaw.days : a.spent[e] - a.lost[e] = annals.spent[e] - annals.lost[e]
         /\ a.queued = annals.queued /\ a.full = annals.full /\ a.history = annals.history
         /\ a.jumped = annals.jumped /\ a.untold = annals.untold
         /\ a.failing = annals.failing /\ a.on = annals.on /\ a.panicked = annals.panicked
<1>1. annals \in ExtAnnals(1..extractLaw.days)
  BY ExtTypes
<1>2. PICK s, l : s = [annals.spent EXCEPT ![day] = annals.spent[day] + spent]
                  /\ l = [annals.lost EXCEPT ![day] = annals.lost[day] + spent]
  OBVIOUS
<1>3. annals.spent \in [1..extractLaw.days -> Nat] /\ annals.lost \in [1..extractLaw.days -> Int]
  BY <1>1 DEF ExtAnnals
<1>4. s \in [1..extractLaw.days -> Nat] /\ l \in [1..extractLaw.days -> Int]
  <2>1. annals.spent[day] \in Nat /\ annals.lost[day] \in Int
    BY <1>3
  <2>2. annals.spent[day] + spent \in Nat /\ annals.lost[day] + spent \in Int
    BY <2>1
  <2> QED BY <1>2, <1>3, <2>2, Zenon
<1>5. a = [annals EXCEPT !.spent = s, !.lost = l]
  BY <1>1, <1>2 DEF Unbilled, ExtAnnals
<1>6. \A e \in 1..extractLaw.days : s[e] - l[e] = annals.spent[e] - annals.lost[e]
  <2>1. TAKE e \in 1..extractLaw.days
  <2>2. annals.spent[e] \in Nat /\ annals.lost[e] \in Int
    BY <1>3
  <2>3. CASE e = day
    BY <1>2, <1>3, <2>2, <2>3
  <2>4. CASE e # day
    BY <1>2, <1>3, <2>4
  <2> QED BY <2>3, <2>4
<1> QED BY <1>1, <1>4, <1>5, <1>6 DEF ExtAnnals

(* The worker panics.                                                      *)
LEMMA ExtPanicKeeps ==
  ASSUME ExtIInv, NEW w \in Workers, ExtractPanics(w)
  PROVE  ExtIInv'
<1>1. /\ drains[w].at = "works" /\ Worker(w, NoDrain)
      /\ host' = [host EXCEPT !.panics = @ + 1] /\ jobs' = [jobs EXCEPT !.running = FALSE]
      /\ extractLaw' = extractLaw /\ archives' = archives /\ spendBook' = spendBook
      /\ pushers' = pushers /\ catchUp' = catchUp
  BY DEF ExtractPanics
<1>2. ExtTyped /\ ExtNumbers /\ host.up /\ host \in ExtHost /\ jobs \in QueueOfJobs
      /\ annals \in ExtAnnals(1..extractLaw.days)
  BY <1>1, ActiveIs, ExtTypes DEF ExtIInv
<1>3. /\ host' \in ExtHost /\ host'.up = host.up /\ host'.day = host.day
      /\ jobs' \in QueueOfJobs /\ ~jobs'.running /\ jobs'.pending = jobs.pending /\ jobs'.backlog = jobs.backlog
      /\ jobs'.fails = jobs.fails /\ jobs'.paused = jobs.paused
  <2>1. /\ jobs' \in QueueOfJobs /\ ~jobs'.running /\ jobs'.pending = jobs.pending /\ jobs'.backlog = jobs.backlog
        /\ jobs'.fails = jobs.fails /\ jobs'.paused = jobs.paused
    BY <1>1, <1>2 DEF QueueOfJobs
  <2>2. host' \in ExtHost /\ host'.up = host.up /\ host'.day = host.day
    <3>1. host \in ExtHost /\ host' = [host EXCEPT !.panics = host.panics + 1]
      BY <1>1, <1>2
    <3> QED BY <3>1 DEF ExtHost
  <2> QED BY <2>1, <2>2
<1>4. PICK day, spent : /\ day = drains[w].day /\ spent \in extractLaw.costs \cup {0}
                        /\ annals' = [Unbilled(day, spent) EXCEPT !.panicked = TRUE]
  BY DEF ExtractPanics
<1>12. day \in 1..extractLaw.days /\ spent \in Nat
  BY <1>1, <1>2, <1>4, ExtLawIs DEF ExtIInv, ExtAttempt, ExtLedger
<1>13. PICK a : a = Unbilled(day, spent)
  OBVIOUS
<1>14. /\ a \in ExtAnnals(1..extractLaw.days)
       /\ \A e \in 1..extractLaw.days : a.spent[e] - a.lost[e] = annals.spent[e] - annals.lost[e]
       /\ a.queued = annals.queued /\ a.full = annals.full /\ a.history = annals.history
       /\ a.jumped = annals.jumped /\ a.untold = annals.untold
       /\ a.failing = annals.failing /\ a.on = annals.on
  BY <1>12, <1>13, UnbilledIs
<1>15. annals' = [a EXCEPT !.panicked = TRUE]
  BY <1>4, <1>13
<1>16. /\ annals' \in ExtAnnals(1..extractLaw.days) /\ annals'.panicked
       /\ annals'.spent = a.spent /\ annals'.lost = a.lost
       /\ annals'.failing = annals.failing /\ annals'.on = annals.on
       /\ annals'.queued = annals.queued /\ annals'.full = annals.full
       /\ annals'.history = annals.history /\ annals'.jumped = annals.jumped
       /\ annals'.untold = annals.untold
  BY <1>14, <1>15 DEF ExtAnnals
<1>5. NoDrain \in DrainTask /\ NoDrain.at = "off" /\ NoDrain.raise = 0
  BY DEF NoDrain, DrainTask, DrainPlaces
<1>6. /\ drains' \in [Workers -> DrainTask] /\ drains'[w] = NoDrain
      /\ \A v \in Workers : v # w => drains'[v] = drains[v]
  BY <1>1, <1>2, <1>5, WorkerIs
<1>7. ExtTyped'
  BY <1>1, <1>2, <1>3, <1>6, <1>16 DEF ExtTyped
<1>8. ExtNumbers'
  BY <1>2, <1>1, <1>3, <1>5, <1>6 DEF ExtTyped, ExtNumbers, ExtArchives
<1>9. ExtPlaces' /\ ExtFailing' /\ ExtKnown' /\ ExtStored'
  BY <1>1, <1>2, <1>3, <1>5, <1>6, <1>16, ExtPlacesKept, FailingKept, KnownKept, StoredKept DEF PlacesRest,
     FailingRests, KnownRests, StoredRests, ExtIInv
<1>17. ExtLedger'
  BY <1>1, <1>3, <1>14, <1>16 DEF ExtIInv, ExtLedger
<1>10. ExtRight'
  BY <1>1, ActiveIs, <1>5, <1>6, <1>3, <1>16 DEF ExtRight
<1>11. ExtAttempt'
  BY <1>1, <1>2, <1>3, <1>5, <1>6, AttemptKept DEF AttemptRests, ExtHost, ExtIInv
<1> QED BY <1>7, <1>8, <1>9, <1>10, <1>11, <1>17 DEF ExtIInv

(* The worker takes the next archive, or stops.                            *)
LEMMA NextJobKeeps ==
  ASSUME ExtIInv, NEW w \in Workers, NextJob(w)
  PROVE  ExtIInv'
<1>1. /\ drains[w].at = "next"
      /\ extractLaw' = extractLaw /\ archives' = archives /\ spendBook' = spendBook
      /\ pushers' = pushers /\ catchUp' = catchUp /\ host' = host
  BY DEF NextJob
<1>2. /\ ExtTyped /\ ExtNumbers /\ jobs \in QueueOfJobs /\ drains[w] \in DrainTask
      /\ annals \in ExtAnnals(1..extractLaw.days) /\ archives.last \in Nat
  BY ExtTypes, DrainIs DEF ExtIInv
<1>3. /\ host.up /\ jobs.running /\ ~catchUp.starts
      /\ \A p \in pushers : ~p.starts
      /\ \A v \in Workers : v # w => drains[v].at = "off"
  BY <1>1, ActiveIs
<1>4. PICK after : after = Refilled(jobs)
  OBVIOUS
<1>5. /\ Refills(after, jobs, archives.last, extractLaw.queued)
      /\ RefillRaises(jobs) \in 0..archives.last
  BY <1>2, <1>4, RefilledIs, ExtLawIs DEF ExtNumbers
<1>6. /\ after = [jobs EXCEPT !.pending = after.pending, !.backlog = after.backlog]
      /\ Lined(after.pending, archives.last) /\ Lined(after.backlog, archives.last)
      /\ Len(after.pending) <= extractLaw.queued
      /\ Range(jobs.backlog) \subseteq Range(after.pending) \cup Range(after.backlog)
  BY <1>5 DEF Refills
<1>7. /\ after \in QueueOfJobs /\ after.running = jobs.running
      /\ after.fails = jobs.fails /\ after.paused = jobs.paused
  BY <1>6, <1>2 DEF Lined, QueueOfJobs
<1>8. Range(after.pending) \subseteq Nat
  BY <1>2, <1>6, LinedIs
<1>9. ASSUME NEW d \in DrainTask, Worker(w, d), d.at \in {"off", "raise"}, d.raise <= archives.last,
             d.at = "off" \/ d.log \in Range(after.pending), Range(jobs'.pending) \subseteq Range(after.pending),
             jobs' \in QueueOfJobs, Lined(jobs'.pending, archives.last), Len(jobs'.pending) <= extractLaw.queued,
             jobs'.backlog = after.backlog, jobs'.fails = jobs.fails, jobs'.paused = jobs.paused,
             jobs'.running <=> d.at # "off", d.at = "off" => jobs'.pending = <<>>,
             annals' \in ExtAnnals(1..extractLaw.days),
             annals'.queued = annals.queued \cup Range(after.pending),
             annals'.full = annals.full, annals'.history = annals.history, annals'.jumped = annals.jumped,
             annals'.untold = annals.untold,
             annals'.spent = annals.spent, annals'.lost = annals.lost,
             annals'.failing = annals.failing, annals'.on = annals.on
      PROVE  ExtIInv'
  <2>1. /\ drains' \in [Workers -> DrainTask] /\ drains'[w] = d
        /\ \A v \in Workers : v # w => drains'[v] = drains[v]
    BY <1>2, <1>9, WorkerIs
  <2>2. ExtTyped'
    BY <1>1, <1>2, <1>9, <2>1 DEF ExtTyped
  <2>3. ExtNumbers'
    BY <1>1, <1>2, <1>6, <1>9, <2>1 DEF ExtNumbers
  <2>4. ExtPlaces' /\ ExtFailing' /\ ExtLedger'
    BY <1>1, <1>3, <1>9, ExtPlacesKept, FailingKept, LedgerKept DEF PlacesRest, FailingRests,
       LedgerRests, ExtIInv
  <2>5. ExtRight'
    BY <1>3, <2>1, <1>1, <1>9 DEF ExtRight
  <2>6. ExtAttempt'
    BY <1>1, <1>2, <1>9, <2>1, AttemptKept DEF AttemptRests, ExtTyped, ExtHost, ExtIInv
  <2>7. ExtKnown'
    BY <1>1, <1>3, <1>6, <1>9, KnownKept DEF KnownRests, ExtIInv
  <2>8. ExtStored'
    BY <1>1, <1>9, <2>1, StoredKept DEF StoredRests, ExtIInv
  <2> QED BY <2>2, <2>3, <2>4, <2>5, <2>6, <2>7, <2>8 DEF ExtIInv
<1>10. CASE after.pending = <<>>
  <2>1. /\ jobs' = [after EXCEPT !.running = FALSE] /\ Worker(w, NoDrain)
        /\ annals' = [annals EXCEPT !.panicked = FALSE]
    BY <1>4, <1>10 DEF NextJob
  <2>2. /\ jobs' \in QueueOfJobs /\ ~jobs'.running /\ jobs'.pending = after.pending
        /\ jobs'.backlog = after.backlog /\ jobs'.fails = jobs.fails /\ jobs'.paused = jobs.paused
    BY <1>7, <2>1 DEF QueueOfJobs
  <2>3. /\ annals' \in ExtAnnals(1..extractLaw.days) /\ annals'.queued = annals.queued
        /\ annals'.full = annals.full /\ annals'.history = annals.history /\ annals'.jumped = annals.jumped
        /\ annals'.untold = annals.untold
        /\ annals'.spent = annals.spent /\ annals'.lost = annals.lost
        /\ annals'.failing = annals.failing /\ annals'.on = annals.on
    BY <1>2, <2>1 DEF ExtAnnals
  <2>4. NoDrain \in DrainTask /\ NoDrain.at = "off" /\ NoDrain.raise = 0
    BY DEF NoDrain, DrainTask, DrainPlaces
  <2>5. Range(after.pending) = {}
    BY <1>2, <1>10, LinedNone
  <2>6. NoDrain.raise <= archives.last
    BY <1>2, <2>4
  <2>7. annals'.queued = annals.queued \cup Range(after.pending)
    BY <2>3, <2>5
  <2>8. /\ Lined(jobs'.pending, archives.last) /\ Len(jobs'.pending) <= extractLaw.queued
        /\ Range(jobs'.pending) \subseteq Range(after.pending)
    BY <1>6, <2>2
  <2> QED BY <1>9, <1>10, <2>1, <2>2, <2>3, <2>4, <2>6, <2>7, <2>8
<1>11. CASE after.pending # <<>>
  <2>1. PICK d : d = [drains[w] EXCEPT !.at = "raise", !.log = Head(after.pending), !.raise = RefillRaises(jobs)]
    OBVIOUS
  <2>2. /\ jobs' = [after EXCEPT !.pending = Tail(after.pending)] /\ Worker(w, d)
        /\ annals' = [annals EXCEPT !.queued = annals.queued \cup Range(after.pending), !.panicked = FALSE]
    BY <1>4, <1>11, <2>1 DEF NextJob
  <2>3. PICK rest : rest = Tail(after.pending)
    OBVIOUS
  <2>4. /\ Lined(rest, archives.last) /\ Len(rest) <= extractLaw.queued /\ Head(after.pending) \in Nat
        /\ Head(after.pending) \in Range(after.pending) /\ Range(rest) \subseteq Range(after.pending)
    <3>1. /\ Lined(rest, archives.last) /\ Len(rest) <= Len(after.pending) /\ Head(after.pending) \in 1..archives.last
          /\ Head(after.pending) \in Range(after.pending) /\ Range(rest) \subseteq Range(after.pending)
      BY <1>2, <1>6, <1>11, <2>3, LinedTail
    <3>2. Len(rest) \in Nat /\ Len(after.pending) \in Nat /\ extractLaw.queued \in Nat
      BY <1>2, <1>6, <3>1, LinedIs, ExtLawIs
    <3>3. Head(after.pending) \in Nat
      BY <3>1
    <3>4. \A x, y, z \in Nat : x <= y /\ y <= z => x <= z
      OBVIOUS
    <3> QED BY <1>6, <3>1, <3>2, <3>3, <3>4
  <2>5. /\ jobs' \in QueueOfJobs /\ jobs'.running /\ jobs'.pending = rest
        /\ jobs'.backlog = after.backlog /\ jobs'.fails = jobs.fails /\ jobs'.paused = jobs.paused
    BY <2>4, <2>2, <2>3, <1>3, <1>7 DEF Lined, QueueOfJobs
  <2>6. /\ annals' \in ExtAnnals(1..extractLaw.days)
        /\ annals'.queued = annals.queued \cup Range(after.pending)
        /\ annals'.full = annals.full /\ annals'.history = annals.history /\ annals'.jumped = annals.jumped
        /\ annals'.untold = annals.untold
        /\ annals'.spent = annals.spent /\ annals'.lost = annals.lost
        /\ annals'.failing = annals.failing /\ annals'.on = annals.on
    BY <1>2, <1>8, <2>2 DEF ExtAnnals
  <2>7. d \in DrainTask /\ d.at = "raise" /\ d.raise <= archives.last /\ d.log \in Range(after.pending)
    <3>1. PICK first, raise : first = Head(after.pending) /\ raise = RefillRaises(jobs)
      OBVIOUS
    <3>2. first \in Nat /\ first \in Range(after.pending) /\ raise \in Nat /\ raise <= archives.last
      BY <1>2, <1>5, <2>4, <3>1
    <3>3. d = [drains[w] EXCEPT !.at = "raise", !.log = first, !.raise = raise]
      BY <2>1, <3>1
    <3>4. d \in DrainTask /\ d.at = "raise" /\ d.raise = raise /\ d.log = first
      BY <1>2, <3>2, <3>3 DEF DrainTask, DrainPlaces
    <3> QED BY <3>2, <3>4
  <2>8. /\ Lined(jobs'.pending, archives.last) /\ Len(jobs'.pending) <= extractLaw.queued
        /\ Range(jobs'.pending) \subseteq Range(after.pending)
    BY <2>4, <2>5
  <2> QED BY <1>9, <2>2, <2>5, <2>6, <2>7, <2>8
<1> QED BY <1>10, <1>11

(* An archive is extracted, or not; what was spent is not yet on record.   *)
LEMMA ExtractKeeps ==
  ASSUME ExtIInv, NEW w \in Workers, Extract(w)
  PROVE  ExtIInv'
<1>1. /\ drains[w].at = "works"
      /\ extractLaw' = extractLaw /\ spendBook' = spendBook /\ jobs' = jobs
      /\ pushers' = pushers /\ catchUp' = catchUp /\ host' = host
  BY DEF Extract
<1>2. /\ ExtTyped /\ ExtNumbers /\ drains[w] \in DrainTask /\ host.up
      /\ archives \in ExtArchives
      /\ annals \in ExtAnnals(1..extractLaw.days)
  BY <1>1, ExtTypes, DrainIs, ActiveIs DEF ExtIInv
<1>3. PICK answer, spent, x, r :
         /\ answer \in {"nothing", "extracted", "unavailable", "failed", "timed out"}
         /\ spent \in extractLaw.costs \cup {0}
         /\ archives' = IF answer = "extracted"
                        THEN [archives EXCEPT !.awaiting = @ \ {drains[w].log}] ELSE archives
         /\ annals' = Unbilled(drains[w].day, spent)
         /\ x = (IF answer = "timed out" THEN 0 ELSE spent) /\ r = (IF answer = "timed out" THEN "failed" ELSE answer)
         /\ Worker(w, [drains[w] EXCEPT !.at = "charge", !.spent = x, !.result = r])
  BY DEF Extract
<1>4. /\ spent \in Nat /\ x \in extractLaw.costs \cup {0} /\ x \in Nat
      /\ r \in {"none", "nothing", "extracted", "unavailable", "failed"}
  <2>1. extractLaw.costs \subseteq Nat
    BY <1>2, ExtLawIs
  <2>2. x \in {0, spent} /\ spent \in extractLaw.costs \cup {0}
    BY <1>3
  <2>3. r \in {"none", "nothing", "extracted", "unavailable", "failed"}
    BY <1>3
  <2> QED BY <2>1, <2>2, <2>3
<1>5. PICK day : day = drains[w].day /\ day \in 1..host.day /\ day \in 1..extractLaw.days
  BY <1>1, <1>2, ExtLawIs DEF ExtIInv, ExtAttempt, ExtLedger
<1>6. PICK d : d = [drains[w] EXCEPT !.at = "charge", !.spent = x, !.result = r]
  OBVIOUS
<1>7. /\ d \in DrainTask /\ d.at = "charge" /\ d.spent = x /\ d.raise = drains[w].raise /\ d.day = day
      /\ d.log = drains[w].log
  BY <1>2, <1>4, <1>5, <1>6 DEF DrainTask, DrainPlaces
<1>8. /\ drains' \in [Workers -> DrainTask] /\ drains'[w] = d
      /\ \A v \in Workers : v # w => drains'[v] = drains[v]
  BY <1>2, <1>3, <1>6, <1>7, WorkerIs
<1>9. \A v \in Workers : drains'[v].at = "off" <=> drains[v].at = "off"
  BY <1>1, <1>7, <1>8
<1>10. /\ archives' \in ExtArchives /\ archives'.last = archives.last
       /\ archives'.ingesting = archives.ingesting /\ archives'.ready = archives.ready
       /\ archives'.awaiting \subseteq archives.awaiting
       /\ archives.awaiting \subseteq archives'.awaiting \cup {drains[w].log}
  BY <1>2, <1>3 DEF ExtArchives
<1>11. annals' = Unbilled(day, spent)
  BY <1>3, <1>5
<1>15. /\ annals' \in ExtAnnals(1..extractLaw.days)
       /\ \A e \in 1..extractLaw.days : annals'.spent[e] - annals'.lost[e] = annals.spent[e] - annals.lost[e]
       /\ annals'.queued = annals.queued /\ annals'.panicked = annals.panicked
       /\ annals'.full = annals.full /\ annals'.history = annals.history /\ annals'.jumped = annals.jumped
       /\ annals'.untold = annals.untold
       /\ annals'.failing = annals.failing /\ annals'.on = annals.on
  BY <1>4, <1>5, <1>11, UnbilledIs
<1>17. ExtTyped'
  BY <1>1, <1>2, <1>8, <1>10, <1>15 DEF ExtTyped
<1>18. ExtNumbers'
  BY <1>1, <1>2, <1>7, <1>8, <1>10 DEF ExtNumbers
<1>19. ExtPlaces' /\ ExtRight' /\ ExtFailing' /\ ExtKnown'
  BY <1>1, <1>2, <1>9, <1>10, <1>15, ExtPlacesKept, RightKept, FailingKept, KnownKept
     DEF PlacesRest, RightRests, FailingRests, KnownRests, ExtIInv
<1>20. ExtLedger'
  BY <1>1, <1>15 DEF ExtIInv, ExtLedger
<1>21. ExtAttempt'
  BY <1>1, ActiveIs, <1>4, <1>5, <1>7, <1>8 DEF ExtIInv, ExtAttempt, Spent
<1>22. ExtStored'
  BY <1>1, <1>7, <1>8, <1>10, <1>15, StoredKept DEF ExtIInv, ExtStored, StoredRests
<1> QED BY <1>17, <1>18, <1>19, <1>20, <1>21, <1>22 DEF ExtIInv

(* What was spent is put on record, or the write fails.                    *)
LEMMA ChargeKeeps ==
  ASSUME ExtIInv, NEW w \in Workers, Charge(w)
  PROVE  ExtIInv'
<1>1. /\ drains[w].at = "charge"
      /\ extractLaw' = extractLaw /\ archives' = archives /\ jobs' = jobs
      /\ pushers' = pushers /\ catchUp' = catchUp
  BY DEF Charge
<1>2. /\ ExtTyped /\ ExtNumbers /\ drains[w] \in DrainTask /\ host.up /\ host \in ExtHost
      /\ spendBook \in [day : Nat, tokens : Nat, mark : Nat \cup {-1}]
      /\ annals \in ExtAnnals(1..extractLaw.days)
  BY <1>1, ExtTypes, DrainIs, ActiveIs DEF ExtIInv
<1>3. PICK day, x : day = drains[w].day /\ x = drains[w].spent
  OBVIOUS
<1>4. /\ x \in Nat /\ x \in extractLaw.costs \cup {0} /\ x <= Max(extractLaw.costs \cup {0})
      /\ Max(extractLaw.costs \cup {0}) \in Nat
  <2>1. x \in extractLaw.costs \cup {0}
    BY <1>1, <1>3 DEF ExtIInv, ExtAttempt
  <2>2. PICK top : top = Max(extractLaw.costs \cup {0})
    OBVIOUS
  <2>3. extractLaw.costs \subseteq Nat /\ top \in Nat /\ \A cost \in extractLaw.costs \cup {0} : cost <= top
    BY <1>2, <2>2, ExtLawIs
  <2>4. x \in Nat
    BY <2>1, <2>3
  <2>5. x <= top
    BY <2>1, <2>3
  <2> QED BY <2>1, <2>2, <2>3, <2>4, <2>5, Zenon
<1>5. /\ day \in 1..host.day /\ day \in 1..extractLaw.days /\ day \in Nat /\ spendBook.day <= day
      /\ jobs.paused # day /\ (extractLaw.limit > 0 => Spent(day) <= extractLaw.limit - 1)
  BY <1>1, <1>3, <1>2, ExtLawIs DEF ExtIInv, ExtAttempt, ExtLedger
<1>6. PICK d : d = [drains[w] EXCEPT !.at = "report"]
  OBVIOUS
<1>7. d \in DrainTask /\ d.at = "report" /\ d.raise = drains[w].raise /\ d.day = day /\ d.log = drains[w].log
  BY <1>2, <1>3, <1>6 DEF DrainTask, DrainPlaces
<1>8. /\ drains' \in [Workers -> DrainTask] /\ drains'[w] = d
      /\ \A v \in Workers : v # w => drains'[v] = drains[v]
  BY <1>6, <1>2, <1>7, WorkerIs DEF Charge
<1>9. \A v \in Workers : drains'[v].at = "off" <=> drains[v].at = "off"
  BY <1>1, <1>7, <1>8
<1>10. ASSUME spendBook' \in [day : Nat, tokens : Nat, mark : Nat \cup {-1}], spendBook'.mark = spendBook.mark,
              spendBook'.day <= day,
              host' \in ExtHost, host'.up = host.up, host'.day = host.day,
              annals' \in ExtAnnals(1..extractLaw.days), annals'.queued = annals.queued,
              annals'.full = annals.full, annals'.history = annals.history, annals'.jumped = annals.jumped,
              annals'.untold = annals.untold,
              annals'.failing = annals.failing, annals'.on = annals.on, annals'.panicked = annals.panicked,
              ExtLedger'
       PROVE  ExtIInv'
  <2>1. ExtTyped'
    BY <1>1, <1>2, <1>8, <1>10 DEF ExtTyped
  <2>2. ExtNumbers'
    BY <1>1, <1>2, <1>7, <1>8, <1>10 DEF ExtNumbers
  <2>3. ExtPlaces' /\ ExtRight' /\ ExtFailing' /\ ExtKnown'
    BY <1>1, <1>2, <1>9, <1>10, ExtPlacesKept, RightKept, FailingKept, KnownKept DEF PlacesRest,
       RightRests, FailingRests, KnownRests, ExtIInv
  <2>4. ExtAttempt'
    BY <1>1, ActiveIs, <1>5, <1>7, <1>8, <1>10 DEF ExtAttempt
  <2>5. ExtStored'
    BY <1>1, <1>7, <1>8, <1>10, StoredKept DEF StoredRests, ExtIInv
  <2> QED BY <1>10, <2>1, <2>2, <2>3, <2>4, <2>5 DEF ExtIInv
<1>11. CASE spendBook' = spendBook
  <2>1. annals' = annals
    BY <1>11 DEF Charge
  <2>2. host' = host \/ host' = [host EXCEPT !.faults = host.faults + 1]
    BY DEF Charge, Writes
  <2>3. host' \in ExtHost /\ host'.up = host.up /\ host'.day = host.day
    <3>1. CASE host' = host
      BY <1>2, <3>1
    <3>2. CASE host' = [host EXCEPT !.faults = host.faults + 1]
      <4>1. PICK n : n = host.faults + 1
        OBVIOUS
      <4>2. n \in Nat
        BY <1>2, <4>1 DEF ExtHost
      <4>3. host \in ExtHost /\ host' = [host EXCEPT !.faults = n]
        BY <1>2, <3>2, <4>1
      <4> QED BY <4>2, <4>3 DEF ExtHost
    <3> QED BY <2>2, <3>1, <3>2
  <2>4. ExtLedger'
    BY <1>1, <1>11, <2>1, <2>3, LedgerKept DEF LedgerRests, ExtIInv
  <2> QED BY <1>2, <1>5, <1>10, <1>11, <2>1, <2>3, <2>4
<1>12. CASE spendBook' # spendBook
  <2>1. /\ spendBook' = [spendBook EXCEPT !.day = day, !.tokens = Spent(day) + x] /\ host' = host
        /\ annals' = [annals EXCEPT !.lost[day] = @ - x]
    BY <1>3, <1>12 DEF Charge, Writes
  <2>2. Spent(day) \in Nat /\ Spent(day) + x \in Nat
    BY <1>2, <1>4 DEF Spent
  <2>3. /\ spendBook' \in [day : Nat, tokens : Nat, mark : Nat \cup {-1}] /\ spendBook'.mark = spendBook.mark
        /\ spendBook'.day = day /\ spendBook'.tokens = Spent(day) + x
    BY <1>2, <1>5, <2>1, <2>2
  <2>4. PICK l : l = [annals.lost EXCEPT ![day] = annals.lost[day] - x]
    OBVIOUS
  <2>5. annals.spent \in [1..extractLaw.days -> Nat] /\ annals.lost \in [1..extractLaw.days -> Int]
    BY <1>2 DEF ExtAnnals
  <2>6. l \in [1..extractLaw.days -> Int]
    <3>0. annals.lost[day] \in Int
      BY <1>5, <2>5, Zenon
    <3>1. annals.lost[day] - x \in Int
      BY <1>4, <3>0
    <3> QED BY <2>4, <2>5, <3>1, Zenon
  <2>7. annals' = [annals EXCEPT !.lost = l]
    BY <1>2, <2>1, <2>4 DEF ExtAnnals
  <2>8. /\ annals' \in ExtAnnals(1..extractLaw.days) /\ annals'.spent = annals.spent /\ annals'.lost = l
        /\ annals'.queued = annals.queued /\ annals'.panicked = annals.panicked
        /\ annals'.full = annals.full /\ annals'.history = annals.history /\ annals'.jumped = annals.jumped
        /\ annals'.untold = annals.untold
        /\ annals'.failing = annals.failing /\ annals'.on = annals.on
    BY <1>2, <2>6, <2>7 DEF ExtAnnals
  <2>9. /\ l[day] = annals.lost[day] - x
        /\ \A e \in 1..extractLaw.days : e # day => l[e] = annals.lost[e]
    BY <1>5, <2>4, <2>5
  <2>10. annals.spent[day] - annals.lost[day] = Spent(day)
    BY <1>5, <1>2 DEF ExtIInv, ExtLedger, Spent
  <2>11. annals.spent[day] - l[day] = Spent(day) + x
    <3>1. annals.spent[day] \in Nat
      BY <1>5, <2>5, Zenon
    <3>2. annals.lost[day] \in Int
      BY <1>5, <2>5, Zenon
    <3> QED BY <1>4, <2>2, <2>9, <2>10, <3>1, <3>2
  <2>12. extractLaw.limit > 0 =>
            annals.spent[day] - l[day] <= (extractLaw.limit - 1) + Max(extractLaw.costs \cup {0})
    BY <1>2, ExtLawIs, <1>4, <1>5, <2>2, <2>11
  <2>13. ExtLedger'
    <3>1. host.day \in 1..extractLaw.days
      BY DEF ExtIInv, ExtLedger
    <3>2. ASSUME NEW e \in 1..extractLaw.days
          PROVE  /\ e > day => annals.spent[e] - l[e] = 0
                 /\ e = day => annals.spent[e] - l[e] = Spent(day) + x
                 /\ extractLaw.limit > 0 =>
                       annals.spent[e] - l[e] <= (extractLaw.limit - 1) + Max(extractLaw.costs \cup {0})
      <4>1. CASE e = day
        BY <1>5, <2>11, <2>12, <4>1
      <4>2. CASE e # day
        <5>1. l[e] = annals.lost[e]
          BY <2>9, <4>2
        <5>2. e > day => e > spendBook.day
          BY <1>2, <1>5
        <5> QED BY <4>2, <5>1, <5>2 DEF ExtIInv, ExtLedger
      <4> QED BY <4>1, <4>2
    <3>3. day <= host.day
      BY <1>5
    <3> QED BY <1>1, <2>1, <2>3, <2>8, <3>1, <3>2, <3>3 DEF ExtLedger
  <2>14. spendBook'.day <= day
    BY <1>5, <2>3
  <2> QED BY <1>2, <1>10, <2>1, <2>3, <2>8, <2>13, <2>14
<1> QED BY <1>11, <1>12

(* The attempt is counted: a failure more, the end of a row of them, or    *)
(* neither.                                                                *)
LEMMA ReportKeeps ==
  ASSUME ExtIInv, NEW w \in Workers, Report(w)
  PROVE  ExtIInv'
<1>1. /\ drains[w].at = "report" /\ Worker(w, [NoDrain EXCEPT !.at = "next"])
      /\ extractLaw' = extractLaw /\ archives' = archives /\ spendBook' = spendBook
      /\ pushers' = pushers /\ catchUp' = catchUp /\ host' = host
  BY DEF Report
<1>2. /\ ExtTyped /\ ExtNumbers /\ drains[w] \in DrainTask /\ host.up /\ host \in ExtHost
      /\ jobs \in QueueOfJobs /\ annals \in ExtAnnals(1..extractLaw.days) /\ archives.last \in Nat
      /\ MaxFailures \in Nat /\ 1 <= MaxFailures
  BY <1>1, ExtTypes, DrainIs, ActiveIs, ExtLawIs DEF ExtIInv
<1>3. PICK d : d = [NoDrain EXCEPT !.at = "next"]
  OBVIOUS
<1>4. d \in DrainTask /\ d.at = "next" /\ d.raise = 0
  BY <1>3 DEF NoDrain, DrainTask, DrainPlaces
<1>5. /\ drains' \in [Workers -> DrainTask] /\ drains'[w] = d
      /\ \A v \in Workers : v # w => drains'[v] = drains[v]
  BY <1>1, <1>2, <1>3, <1>4, WorkerIs
<1>6. PICK day : day = drains[w].day /\ day \in Nat /\ jobs.paused # day
  BY <1>1, <1>2, DrainIs DEF ExtIInv, ExtAttempt
<1>7. \A v \in Workers : v # w => drains[v].at = "off"
  BY <1>1, ActiveIs
<1>8. ASSUME jobs' \in QueueOfJobs, jobs'.pending = jobs.pending, jobs'.backlog = jobs.backlog,
             jobs'.running = jobs.running,
             annals' \in ExtAnnals(1..extractLaw.days), annals'.queued = annals.queued,
             annals'.full = annals.full, annals'.history = annals.history, annals'.jumped = annals.jumped,
             annals'.untold = annals.untold,
             annals'.panicked = annals.panicked, annals'.spent = annals.spent, annals'.lost = annals.lost,
             ExtFailing'
      PROVE  ExtIInv'
  <2>1. ExtTyped'
    BY <1>1, <1>2, <1>5, <1>8 DEF ExtTyped
  <2>2. ExtNumbers'
    BY <1>1, <1>2, <1>4, <1>5, <1>8 DEF ExtNumbers
  <2>3. ExtPlaces' /\ ExtRight' /\ ExtLedger' /\ ExtKnown'
    BY <1>1, <1>4, <1>5, <1>2, <1>8, ExtPlacesKept, RightKept, LedgerKept, KnownKept
       DEF PlacesRest, RightRests, LedgerRests, KnownRests, ExtIInv
  <2>4. ExtAttempt'
    BY <1>4, <1>5, <1>7 DEF ExtAttempt
  <2>5. ExtStored'
    BY <1>1, <1>4, <1>5, <1>8, StoredKept DEF StoredRests, ExtIInv
  <2> QED BY <1>8, <2>1, <2>2, <2>3, <2>4, <2>5 DEF ExtIInv
<1>9. /\ jobs.fails \in Nat /\ jobs.fails <= MaxFailures - 1 /\ annals.failing \in Nat /\ annals.on \in Nat
      /\ annals.failing <= MaxFailures
      /\ annals.failing <= jobs.fails \/ jobs.paused = annals.on
  BY <1>2 DEF ExtIInv, ExtFailing, QueueOfJobs, ExtAnnals
<1>10. CASE drains[w].result = "failed"
  <2>1. jobs' = Fails(day) /\ annals' = [annals EXCEPT !.failing = IF annals.on = day THEN @ + 1 ELSE 1, !.on = day]
    BY <1>6, <1>10 DEF Report
  <2>2. PICK n : n = IF annals.on = day THEN annals.failing + 1 ELSE 1
    OBVIOUS
  <2>3. n \in Nat /\ n <= jobs.fails + 1
    BY <1>6, <1>9, <2>2
  <2>4. annals' = [annals EXCEPT !.failing = n, !.on = day]
    BY <1>2, <2>1, <2>2 DEF ExtAnnals
  <2>5. /\ annals' \in ExtAnnals(1..extractLaw.days) /\ annals'.failing = n /\ annals'.on = day
        /\ annals'.queued = annals.queued /\ annals'.full = annals.full /\ annals'.history = annals.history
        /\ annals'.jumped = annals.jumped /\ annals'.panicked = annals.panicked
        /\ annals'.untold = annals.untold
        /\ annals'.spent = annals.spent /\ annals'.lost = annals.lost
    BY <1>2, <1>6, <2>3, <2>4 DEF ExtAnnals
  <2>6. CASE jobs.fails + 1 >= MaxFailures
    <3>1. jobs' = [jobs EXCEPT !.fails = 0, !.paused = day]
      BY <2>1, <2>6 DEF Fails
    <3>2. /\ jobs' \in QueueOfJobs /\ jobs'.pending = jobs.pending /\ jobs'.backlog = jobs.backlog
          /\ jobs'.running = jobs.running /\ jobs'.fails = 0 /\ jobs'.paused = day
      BY <1>2, <1>6, <3>1 DEF QueueOfJobs
    <3>3. ExtFailing'
      BY <1>1, <1>2, <1>9, <2>3, <2>5, <3>2 DEF ExtFailing
    <3> QED BY <1>8, <2>5, <3>2, <3>3
  <2>7. CASE ~(jobs.fails + 1 >= MaxFailures)
    <3>1. jobs' = [jobs EXCEPT !.fails = jobs.fails + 1]
      BY <2>1, <2>7 DEF Fails
    <3>2. /\ jobs' \in QueueOfJobs /\ jobs'.pending = jobs.pending /\ jobs'.backlog = jobs.backlog
          /\ jobs'.running = jobs.running /\ jobs'.fails = jobs.fails + 1 /\ jobs'.paused = jobs.paused
      <4>1. PICK m : m = jobs.fails + 1 /\ m \in Nat
        BY <1>9
      <4>2. jobs \in QueueOfJobs /\ jobs' = [jobs EXCEPT !.fails = m]
        BY <1>2, <3>1, <4>1
      <4> QED BY <4>1, <4>2 DEF QueueOfJobs
    <3>3. ExtFailing'
      BY <1>1, <1>2, <1>9, <2>3, <2>5, <2>7, <3>2 DEF ExtFailing
    <3> QED BY <1>8, <2>5, <3>2, <3>3
  <2> QED BY <2>6, <2>7
<1>11. CASE drains[w].result = "extracted"
  <2>1. jobs' = [jobs EXCEPT !.fails = 0] /\ annals' = [annals EXCEPT !.failing = 0]
    BY <1>11 DEF Report
  <2>2. /\ jobs' \in QueueOfJobs /\ jobs'.pending = jobs.pending /\ jobs'.backlog = jobs.backlog
        /\ jobs'.running = jobs.running /\ jobs'.fails = 0
    BY <1>2, <2>1 DEF QueueOfJobs
  <2>3. /\ annals' \in ExtAnnals(1..extractLaw.days) /\ annals'.failing = 0
        /\ annals'.queued = annals.queued /\ annals'.full = annals.full /\ annals'.history = annals.history
        /\ annals'.jumped = annals.jumped /\ annals'.panicked = annals.panicked
        /\ annals'.untold = annals.untold
        /\ annals'.spent = annals.spent /\ annals'.lost = annals.lost
    BY <1>2, <2>1 DEF ExtAnnals
  <2>4. ExtFailing'
    BY <1>2, <2>2, <2>3 DEF ExtFailing
  <2> QED BY <1>8, <2>2, <2>3, <2>4
<1>12. CASE drains[w].result \notin {"failed", "extracted"}
  BY <1>12, <1>1, <1>2, <1>8 DEF Report, ExtIInv, ExtFailing
<1> QED BY <1>10, <1>11, <1>12

----------------------------------------------------------------------------
(* The steps of enqueue, of a boot and its catch-up.                       *)

(* A drain begins, or none.                                                *)
LEMMA SpawnIs ==
  ASSUME ExtTyped, NEW starts \in BOOLEAN, SpawnsIf(starts)
  PROVE  /\ drains' \in [Workers -> DrainTask]
         /\ \A v \in Workers : /\ drains'[v] = drains[v] \/ drains'[v].at = "next"
                               /\ drains'[v].raise = drains[v].raise
         /\ ~starts => drains' = drains
         /\ starts => \E w \in Workers : /\ drains'[w].at = "next"
                                         /\ \A v \in Workers : v # w => drains'[v] = drains[v]
<1>1. drains \in [Workers -> DrainTask]
  BY DEF ExtTyped
<1>2. CASE ~starts
  BY <1>1, <1>2 DEF SpawnsIf
<1>3. CASE starts
  <2>1. PICK w \in Workers : drains' = [drains EXCEPT ![w].at = "next"]
    BY <1>3 DEF SpawnsIf, Spawns
  <2>2. PICK d : d = [drains[w] EXCEPT !.at = "next"]
    OBVIOUS
  <2>3. d \in DrainTask /\ d.at = "next" /\ d.raise = drains[w].raise
    BY <1>1, <2>2 DEF DrainTask, DrainPlaces
  <2>4. drains' = [drains EXCEPT ![w] = d]
    BY <1>1, <2>1, <2>2
  <2> QED BY <1>1, <1>3, <2>3, <2>4
<1> QED BY <1>2, <1>3

(* A drain that begins has the right of who starts it.                     *)
LEMMA SpawnKeeps ==
  ASSUME ExtIInv, NEW starts \in BOOLEAN, SpawnsIf(starts),
         starts => \A v \in Workers : drains[v].at = "off",
         pushers' \subseteq pushers,
         \A p \in pushers : p.starts /\ p \notin pushers' => starts,
         catchUp.starts /\ ~catchUp'.starts => starts,
         catchUp'.starts => catchUp.starts,
         starts => ~catchUp'.starts /\ \A p \in pushers' : ~p.starts,
         starts => jobs.running,
         jobs' = jobs, annals' = annals
  PROVE  ExtRight'
<1>1. ExtTyped /\ ExtRight
  BY DEF ExtIInv
<1>2. CASE ~starts
  BY <1>1, <1>2, SpawnIs DEF ExtRight
<1>3. CASE starts
  <2>1. PICK w \in Workers : /\ drains'[w].at = "next"
                             /\ \A v \in Workers : v # w => drains'[v] = drains[v]
    BY <1>1, <1>3, SpawnIs
  <2>2. \A v \in Workers : drains'[v].at # "off" <=> v = w
    BY <1>3, <2>1
  <2> QED BY <1>1, <1>3, <2>2 DEF ExtRight
<1> QED BY <1>2, <1>3

(* A caller of enqueue raises the watermark and may start the worker.      *)
LEMMA RaiseAndStartKeeps ==
  ASSUME ExtIInv, NEW caller \in pushers, RaiseAndStart(caller)
  PROVE  ExtIInv'
<1>1. /\ pushers' = pushers \ {caller} /\ RaisesTo(caller.log) /\ SpawnsIf(caller.starts)
      /\ extractLaw' = extractLaw /\ archives' = archives /\ jobs' = jobs
      /\ catchUp' = catchUp /\ annals' = annals
  BY DEF RaiseAndStart
<1>2. /\ ExtTyped /\ ExtNumbers /\ ExtRight /\ host.up /\ host \in ExtHost /\ archives.last \in Nat
      /\ spendBook \in [day : Nat, tokens : Nat, mark : Nat \cup {-1}]
      /\ caller.log \in 0..archives.last /\ caller.starts \in BOOLEAN
  BY ExtTypes DEF ExtIInv, ExtPlaces, ExtTyped, ExtNumbers
<1>3. MarkRose
  BY <1>1, <1>2, RaiseIs
<1>4. /\ spendBook' \in [day : Nat, tokens : Nat, mark : Nat \cup {-1}]
      /\ spendBook'.day = spendBook.day /\ spendBook'.tokens = spendBook.tokens
      /\ spendBook'.mark <= archives.last
      /\ host' \in ExtHost /\ host'.up = host.up /\ host'.day = host.day
  BY <1>2, <1>3 DEF MarkRose, ExtHost
<1>5. /\ drains' \in [Workers -> DrainTask]
      /\ \A v \in Workers : /\ drains'[v] = drains[v] \/ drains'[v].at = "next"
                            /\ drains'[v].raise = drains[v].raise
  BY <1>1, <1>2, SpawnIs
<1>6. ExtTyped'
  BY <1>1, <1>2, <1>4, <1>5 DEF ExtTyped
<1>7. ExtNumbers'
  BY <1>1, <1>2, <1>4, <1>5 DEF ExtNumbers
<1>8. ExtRight'
  BY <1>2, <1>1, SpawnKeeps DEF ExtRight
<1>9. ExtPlaces' /\ ExtFailing' /\ ExtLedger' /\ ExtKnown'
  BY <1>1, <1>2, <1>4, ExtPlacesKept, FailingKept, LedgerKept, KnownKept DEF PlacesRest,
     FailingRests, LedgerRests, KnownRests, ExtIInv
<1>10. ExtAttempt'
  BY <1>1, <1>2, <1>4, <1>5, AttemptKept DEF AttemptRests, ExtHost, ExtIInv
<1>11. ExtStored'
  BY <1>1, <1>5, StoredKept DEF StoredRests, ExtIInv
<1> QED BY <1>6, <1>7, <1>8, <1>9, <1>10, <1>11 DEF ExtIInv

(* The catch-up raises it and may start the worker.                        *)
LEMMA CatchUpRaiseKeeps ==
  ASSUME ExtIInv, CatchUpRaise
  PROVE  ExtIInv'
<1>1. /\ catchUp.at = "raise" /\ RaisesTo(catchUp.raise) /\ SpawnsIf(catchUp.starts)
      /\ catchUp' = NoCatchUp
      /\ extractLaw' = extractLaw /\ archives' = archives /\ jobs' = jobs
      /\ pushers' = pushers /\ annals' = annals
  BY DEF CatchUpRaise
<1>2. /\ ExtTyped /\ ExtNumbers /\ ExtRight /\ ExtPlaces /\ host.up /\ host \in ExtHost /\ archives.last \in Nat
      /\ spendBook \in [day : Nat, tokens : Nat, mark : Nat \cup {-1}]
      /\ catchUp.raise \in 0..archives.last /\ catchUp.starts \in BOOLEAN /\ catchUp.found = {}
  BY <1>1, ExtTypes DEF ExtIInv, ExtPlaces, NoCatchUp, ExtNumbers, CatchUpTask
<1>3. MarkRose
  BY <1>1, <1>2, RaiseIs
<1>4. /\ spendBook' \in [day : Nat, tokens : Nat, mark : Nat \cup {-1}]
      /\ spendBook'.day = spendBook.day /\ spendBook'.tokens = spendBook.tokens
      /\ spendBook'.mark <= archives.last
      /\ host' \in ExtHost /\ host'.up = host.up /\ host'.day = host.day
  BY <1>2, <1>3 DEF MarkRose, ExtHost
<1>5. /\ drains' \in [Workers -> DrainTask]
      /\ \A v \in Workers : /\ drains'[v] = drains[v] \/ drains'[v].at = "next"
                            /\ drains'[v].raise = drains[v].raise
  BY <1>1, <1>2, SpawnIs
<1>6. /\ catchUp' \in CatchUpTask /\ catchUp'.found = {} /\ catchUp'.raise = 0 /\ ~catchUp'.starts
      /\ catchUp'.at = "off"
  BY <1>1 DEF NoCatchUp, CatchUpTask
<1>7. ExtTyped'
  BY <1>1, <1>2, <1>4, <1>5, <1>6 DEF ExtTyped
<1>8. ExtNumbers'
  BY <1>1, <1>2, <1>4, <1>5, <1>6 DEF ExtNumbers
<1>9. ExtRight'
  BY <1>2, <1>1, <1>6, SpawnKeeps DEF ExtRight
<1>10. ExtPlaces'
  BY <1>2, <1>4, <1>6 DEF ExtPlaces
<1>11. ExtFailing' /\ ExtLedger'
  BY <1>1, <1>2, <1>4, FailingKept, LedgerKept DEF FailingRests, LedgerRests, ExtIInv
<1>12. ExtKnown'
  <2>1. ASSUME NEW log \in 1..archives.last
        PROVE  Known(log)'
    BY <1>2, <2>1, <1>1, <1>6 DEF ExtIInv, ExtKnown, Known
  <2> QED BY <1>1, <2>1 DEF ExtKnown
<1>13. ExtAttempt'
  BY <1>1, <1>2, <1>4, <1>5, AttemptKept DEF AttemptRests, ExtHost, ExtIInv
<1>14. ExtStored'
  BY <1>1, <1>5, StoredKept DEF StoredRests, ExtIInv
<1> QED BY <1>7, <1>8, <1>9, <1>10, <1>11, <1>12, <1>13, <1>14 DEF ExtIInv

(* The archives above the watermark are looked up.                         *)
LEMMA ScanKeeps ==
  ASSUME ExtIInv, CatchUpScan
  PROVE  ExtIInv'
<1>1. /\ catchUp.at = "scan"
      /\ catchUp' = [catchUp EXCEPT !.at = "ask", !.found = catchUp.above + 1..archives.last]
      /\ extractLaw' = extractLaw /\ archives' = archives /\ spendBook' = spendBook /\ jobs' = jobs
      /\ pushers' = pushers /\ drains' = drains /\ host' = host /\ annals' = annals
  BY DEF CatchUpScan
<1>2. /\ ExtTyped /\ ExtNumbers /\ ExtPlaces /\ host.up /\ archives.last \in Nat /\ catchUp \in CatchUpTask
      /\ host \in ExtHost
  BY <1>1, ExtTypes DEF ExtIInv, ExtPlaces, NoCatchUp
<1>3. PICK above, n : above = catchUp.above /\ n = archives.last /\ above \in Nat /\ n \in Nat
  BY <1>2 DEF CatchUpTask
<1>4. PICK found : found = above + 1..n
  OBVIOUS
<1>5. found \subseteq 1..n /\ found \in SUBSET Nat /\ \A log \in 1..n : log > above => log \in found
  BY <1>3, <1>4
<1>6. /\ catchUp' \in CatchUpTask /\ catchUp'.at = "ask" /\ catchUp'.found = found
      /\ catchUp'.raise = catchUp.raise /\ catchUp'.starts = catchUp.starts
  BY <1>1, <1>3, <1>4, <1>2, <1>5 DEF CatchUpTask
<1>7. ExtTyped'
  BY <1>1, <1>2, <1>6 DEF ExtTyped
<1>8. ExtNumbers'
  BY <1>1, <1>2, <1>3, <1>5, <1>6 DEF ExtNumbers
<1>9. ExtPlaces'
  BY <1>1, <1>2, <1>6 DEF ExtPlaces
<1>10. ExtRight' /\ ExtFailing' /\ ExtLedger' /\ ExtAttempt'
  BY <1>1, <1>6, <1>2, RightKept, FailingKept, LedgerKept, AttemptKept DEF RightRests,
     FailingRests, LedgerRests, AttemptRests, ExtHost, ExtIInv
<1>11. ExtKnown'
  <2>1. ASSUME NEW log \in 1..n
        PROVE  Known(log)'
    BY <1>2, <1>3, <2>1, <1>1, <1>5, <1>6 DEF ExtIInv, ExtKnown, ExtPlaces, Known
  <2> QED BY <1>1, <1>3, <2>1 DEF ExtKnown
<1>12. ExtStored'
  BY <1>1, StoredKept DEF StoredRests, ExtIInv
<1> QED BY <1>7, <1>8, <1>9, <1>10, <1>11, <1>12 DEF ExtIInv

(* The store is asked which of them are pending.                           *)
LEMMA AskKeeps ==
  ASSUME ExtIInv, CatchUpAsk
  PROVE  ExtIInv'
<1>1. /\ catchUp.at = "ask"
      /\ extractLaw' = extractLaw /\ archives' = archives /\ spendBook' = spendBook /\ jobs' = jobs
      /\ pushers' = pushers /\ drains' = drains /\ host' = host /\ annals' = annals
  BY DEF CatchUpAsk
<1>2. /\ ExtTyped /\ ExtNumbers /\ ExtPlaces /\ host.up /\ archives.last \in Nat /\ catchUp \in CatchUpTask
      /\ host \in ExtHost
  BY <1>1, ExtTypes DEF ExtIInv, ExtPlaces, NoCatchUp
<1>3. PICK found : /\ catchUp' = [catchUp EXCEPT !.at = "found", !.found = found]
                   /\ found \subseteq catchUp.found
                   /\ \A log \in catchUp.found : log \in archives.awaiting => log \in found
  <2>1. CASE catchUp' = [catchUp EXCEPT !.at = "found", !.found = @ \cap archives.awaiting]
    BY <2>1
  <2>2. CASE catchUp' = [catchUp EXCEPT !.at = "found"]
    BY <1>2, <2>2 DEF CatchUpTask
  <2> QED BY <2>1, <2>2 DEF CatchUpAsk
<1>4. /\ catchUp' \in CatchUpTask /\ catchUp'.at = "found" /\ catchUp'.found = found
      /\ catchUp'.raise = catchUp.raise /\ catchUp'.starts = catchUp.starts
  BY <1>2, <1>3 DEF CatchUpTask
<1>5. ExtTyped'
  BY <1>1, <1>2, <1>4 DEF ExtTyped
<1>6. ExtNumbers'
  BY <1>1, <1>2, <1>3, <1>4 DEF ExtNumbers
<1>7. ExtPlaces'
  BY <1>1, <1>2, <1>4 DEF ExtPlaces
<1>8. ExtRight' /\ ExtFailing' /\ ExtLedger' /\ ExtAttempt'
  BY <1>1, <1>4, <1>2, RightKept, FailingKept, LedgerKept, AttemptKept DEF RightRests,
     FailingRests, LedgerRests, AttemptRests, ExtHost, ExtIInv
<1>9. ExtKnown'
  <2>1. ASSUME NEW log \in 1..archives.last
        PROVE  Known(log)'
    BY <1>2, <2>1, <1>1, <1>3, <1>4 DEF ExtIInv, ExtKnown, Known
  <2> QED BY <1>1, <2>1 DEF ExtKnown
<1>10. ExtStored'
  BY <1>1, StoredKept DEF StoredRests, ExtIInv
<1> QED BY <1>5, <1>6, <1>7, <1>8, <1>9, <1>10 DEF ExtIInv

(* What they leave is queued, or waits behind the queue.                   *)
LEMMA CatchUpQueueKeeps ==
  ASSUME ExtIInv, CatchUpQueue
  PROVE  ExtIInv'
<1>1. /\ catchUp.at = "found"
      /\ extractLaw' = extractLaw /\ archives' = archives /\ spendBook' = spendBook
      /\ pushers' = pushers /\ drains' = drains /\ host' = host
  BY DEF CatchUpQueue
<1>2. /\ ExtTyped /\ ExtNumbers /\ ExtPlaces /\ ExtRight /\ host.up
      /\ archives.last \in Nat /\ catchUp \in CatchUpTask
      /\ host \in ExtHost /\ jobs \in QueueOfJobs /\ annals \in ExtAnnals(1..extractLaw.days) /\ ~catchUp.starts
  BY <1>1, ExtTypes DEF ExtIInv, ExtPlaces, NoCatchUp
<1>3. PICK wanted : wanted = catchUp.found \ (Range(jobs.pending) \cup Range(jobs.backlog))
  OBVIOUS
<1>4. PICK queue : queue = [jobs EXCEPT !.backlog = @ \o Ascending(wanted)]
  OBVIOUS
<1>5. PICK after : after = Refilled(queue)
  OBVIOUS
<1>6. PICK raise : raise = RefillRaises(queue)
  OBVIOUS
<1>7. /\ jobs' = [after EXCEPT !.running = @ \/ after.pending # <<>>]
      /\ catchUp' = [catchUp EXCEPT !.at = "raise", !.found = {}, !.raise = raise,
                                    !.starts = after.pending # <<>> /\ ~jobs.running]
      /\ annals' = [annals EXCEPT !.queued = @ \cup Range(after.pending)]
  BY <1>3, <1>4, <1>5, <1>6 DEF CatchUpQueue
<1>8. PICK more : /\ JoinOf(more, jobs.backlog, Ascending(wanted))
                  /\ queue = [jobs EXCEPT !.backlog = more]
  BY <1>4 DEF JoinOf
<1>9. Lined(more, archives.last) /\ Range(more) = Range(jobs.backlog) \cup wanted
  <2>1. PICK tail : tail = Ascending(wanted)
    OBVIOUS
  <2>2. wanted \subseteq 1..archives.last
    BY <1>2, <1>3 DEF ExtNumbers
  <2>3. Lined(tail, archives.last) /\ Range(tail) = wanted
    BY <1>2, <2>1, <2>2, AscendingIs
  <2>4. Range(jobs.backlog) \cap Range(tail) = {}
    BY <1>3, <2>3
  <2>5. Lined(jobs.backlog, archives.last) /\ JoinOf(more, jobs.backlog, tail)
    BY <1>2, <1>8, <2>1 DEF ExtNumbers
  <2> QED BY <1>2, <2>3, <2>4, <2>5, LinedJoin
<1>10. /\ queue \in QueueOfJobs /\ queue.pending = jobs.pending /\ queue.backlog = more
       /\ queue.running = jobs.running /\ queue.fails = jobs.fails /\ queue.paused = jobs.paused
  BY <1>9, <1>2, <1>8 DEF Lined, QueueOfJobs
<1>11. Refills(after, queue, archives.last, extractLaw.queued) /\ raise \in 0..archives.last
  BY <1>2, <1>9, <1>10, <1>5, <1>6, RefilledIs, ExtLawIs DEF ExtNumbers
<1>12. /\ after = [queue EXCEPT !.pending = after.pending, !.backlog = after.backlog]
       /\ Lined(after.pending, archives.last) /\ Lined(after.backlog, archives.last)
       /\ Len(after.pending) <= extractLaw.queued
       /\ Range(jobs.pending) \subseteq Range(after.pending)
       /\ Range(more) \subseteq Range(after.pending) \cup Range(after.backlog)
  BY <1>10, <1>11 DEF Refills
<1>13. PICK fill : fill = (after.pending # <<>>) /\ fill \in BOOLEAN
  OBVIOUS
<1>14. /\ jobs' \in QueueOfJobs /\ jobs'.pending = after.pending /\ jobs'.backlog = after.backlog
       /\ jobs'.running = (jobs.running \/ fill)
       /\ jobs'.fails = jobs.fails /\ jobs'.paused = jobs.paused
  <2>1. after.pending \in Seq(Nat) /\ after.backlog \in Seq(Nat)
    BY <1>12 DEF Lined
  <2>2. /\ after \in QueueOfJobs /\ after.running = jobs.running
        /\ after.fails = jobs.fails /\ after.paused = jobs.paused
    BY <1>10, <1>12, <2>1 DEF QueueOfJobs
  <2>3. PICK on : on = (jobs.running \/ fill) /\ on \in BOOLEAN
    BY <1>2
  <2>4. jobs' = [after EXCEPT !.running = on]
    BY <1>7, <1>13, <2>2, <2>3
  <2> QED BY <2>2, <2>3, <2>4 DEF QueueOfJobs
<1>15. /\ catchUp' \in CatchUpTask /\ catchUp'.at = "raise" /\ catchUp'.found = {} /\ catchUp'.raise = raise
       /\ catchUp'.starts = (fill /\ ~jobs.running)
  <2>1. PICK starts : starts = (fill /\ ~jobs.running) /\ starts \in BOOLEAN
    BY <1>13
  <2>2. catchUp' = [catchUp EXCEPT !.at = "raise", !.found = {}, !.raise = raise, !.starts = starts]
    BY <1>7, <1>13, <2>1
  <2>3. raise \in Nat
    BY <1>2, <1>11
  <2> QED BY <1>2, <2>1, <2>2, <2>3 DEF CatchUpTask
<1>16. /\ annals' \in ExtAnnals(1..extractLaw.days) /\ annals'.queued = annals.queued \cup Range(after.pending)
       /\ annals'.full = annals.full /\ annals'.history = annals.history /\ annals'.jumped = annals.jumped
       /\ annals'.untold = annals.untold
       /\ annals'.spent = annals.spent /\ annals'.lost = annals.lost /\ annals'.panicked = annals.panicked
       /\ annals'.failing = annals.failing /\ annals'.on = annals.on
  <2>1. Range(after.pending) \subseteq Nat
    BY <1>2, <1>12, LinedIs
  <2> QED BY <1>2, <1>7, <2>1 DEF ExtAnnals
<1>17. ExtTyped'
  BY <1>1, <1>2, <1>14, <1>15, <1>16 DEF ExtTyped
<1>18. ExtNumbers'
  BY <1>2, <1>11, <1>1, <1>12, <1>14, <1>15 DEF ExtNumbers
<1>19. ExtPlaces'
  BY <1>1, <1>2, <1>15 DEF ExtPlaces
<1>20. ExtRight'
  BY <1>1, <1>2, <1>13, <1>14, <1>15, <1>16 DEF ExtRight
<1>21. ExtFailing' /\ ExtLedger' /\ ExtAttempt'
  BY <1>1, <1>14, <1>16, <1>2, FailingKept, LedgerKept, AttemptKept DEF FailingRests, LedgerRests,
     AttemptRests, ExtHost, ExtIInv
<1>22. ExtKnown'
  <2>1. ASSUME NEW log \in 1..archives.last
        PROVE  Known(log)'
    BY <1>2, <2>1, <1>3, <1>9, <1>12, <1>1, <1>14, <1>16 DEF ExtIInv, ExtKnown, Known
  <2> QED BY <1>1, <2>1 DEF ExtKnown
<1>23. ExtStored'
  BY <1>1, <1>14, <1>16, StoredKept DEF StoredRests, ExtIInv
<1> QED BY <1>17, <1>18, <1>19, <1>20, <1>21, <1>22, <1>23 DEF ExtIInv

(* The process begins: the first one sets the watermark, a later one has   *)
(* what is above it caught up.                                             *)
LEMMA BootKeeps ==
  ASSUME ExtIInv, BootExtractor
  PROVE  ExtIInv'
<1>7. PICK failed \in {0, 1} : Booted(failed)
  BY DEF BootExtractor
<1>1. /\ ~host.up /\ host' = [host EXCEPT !.up = TRUE, !.boots = @ + 1, !.faults = @ + failed]
      /\ extractLaw' = extractLaw /\ archives' = archives /\ jobs' = jobs
      /\ pushers' = pushers /\ drains' = drains
  BY <1>7 DEF BootExtractor, Booted
<1>2. /\ ExtTyped /\ ExtNumbers /\ ExtPlaces /\ ExtRight /\ ExtLedger /\ host \in ExtHost
      /\ archives.last \in Nat /\ annals \in ExtAnnals(1..extractLaw.days)
      /\ spendBook \in [day : Nat, tokens : Nat, mark : Nat \cup {-1}]
      /\ catchUp = NoCatchUp /\ jobs = NoQueue
  BY <1>1, ExtTypes DEF ExtIInv, ExtPlaces
<1>3. host' \in ExtHost /\ host'.up /\ host'.day = host.day
  <2>1. PICK n, m : n = host.boots + 1 /\ m = host.faults + failed
    OBVIOUS
  <2>2. n \in Nat /\ m \in Nat
    BY <1>2, <2>1 DEF ExtHost
  <2>3. host' = [host EXCEPT !.up = TRUE, !.boots = n, !.faults = m]
    BY <1>1, <2>1
  <2> QED BY <1>2, <2>2, <2>3 DEF ExtHost
<1>4. ASSUME spendBook' \in [day : Nat, tokens : Nat, mark : Nat \cup {-1}],
             spendBook'.day = spendBook.day, spendBook'.tokens = spendBook.tokens, spendBook'.mark <= archives.last,
             catchUp' \in CatchUpTask, catchUp'.found = {}, catchUp'.raise = 0, ~catchUp'.starts,
             annals' \in ExtAnnals(1..extractLaw.days), annals'.failing = 0, annals'.panicked = annals.panicked,
             annals'.spent = annals.spent, annals'.lost = annals.lost,
             annals'.queued = annals.queued, annals'.untold = annals.untold,
             \A log \in 1..archives.last : Known(log)'
      PROVE  ExtIInv'
  <2>1. ExtTyped'
    BY <1>1, <1>2, <1>3, <1>4 DEF ExtTyped
  <2>2. ExtNumbers'
    BY <1>1, <1>2, <1>4 DEF ExtNumbers
  <2>3. ExtPlaces'
    BY <1>3, <1>4 DEF ExtPlaces
  <2>4. ExtRight'
    BY <1>2, <1>1, <1>4, RightKept DEF NoCatchUp, RightRests, ExtTyped, CatchUpTask, ExtIInv
  <2>5. ExtLedger' /\ ExtAttempt'
    BY <1>1, <1>3, <1>4, <1>2, LedgerKept, AttemptKept DEF LedgerRests, AttemptRests, ExtHost,
       ExtIInv
  <2>6. ExtFailing'
    BY <1>1, <1>2, ExtLawIs, <1>4 DEF NoQueue, ExtFailing
  <2>7. ExtKnown'
    BY <1>1, <1>4 DEF ExtKnown
  <2>8. ExtStored'
    BY <1>1, <1>4, StoredKept DEF StoredRests, ExtIInv
  <2> QED BY <2>1, <2>2, <2>3, <2>4, <2>5, <2>6, <2>7, <2>8 DEF ExtIInv
<1>5. CASE spendBook.mark = -1
  <2>1. /\ spendBook' \in {Raised(archives.last), spendBook} /\ catchUp' = catchUp
        /\ annals' = [annals EXCEPT !.history = 1..archives.last, !.failing = 0]
    BY <1>5 DEF BootExtractor
  <2>2. Max({spendBook.mark, archives.last}) = archives.last
    BY <1>2, <1>5, MaxOfTwo
  <2>3. spendBook' = [spendBook EXCEPT !.mark = archives.last] \/ spendBook' = spendBook
    BY <2>1, <2>2 DEF Raised
  <2>4. /\ spendBook' \in [day : Nat, tokens : Nat, mark : Nat \cup {-1}]
        /\ spendBook'.day = spendBook.day /\ spendBook'.tokens = spendBook.tokens /\ spendBook'.mark <= archives.last
    BY <1>2, <2>3 DEF ExtNumbers
  <2>5. /\ catchUp' \in CatchUpTask /\ catchUp'.found = {} /\ catchUp'.raise = 0 /\ ~catchUp'.starts
    BY <1>2, <2>1 DEF NoCatchUp, CatchUpTask
  <2>6. /\ annals' \in ExtAnnals(1..extractLaw.days) /\ annals'.history = 1..archives.last
        /\ annals'.failing = 0 /\ annals'.panicked = annals.panicked
        /\ annals'.spent = annals.spent /\ annals'.lost = annals.lost
        /\ annals'.queued = annals.queued /\ annals'.untold = annals.untold
    <3>1. PICK past : past = 1..archives.last /\ past \in SUBSET Nat
      BY <1>2
    <3>2. annals' = [annals EXCEPT !.history = past, !.failing = 0]
      BY <2>1, <3>1
    <3> QED BY <1>2, <3>1, <3>2 DEF ExtAnnals
  <2>7. \A log \in 1..archives.last : Known(log)'
    BY <2>6 DEF Known
  <2> QED BY <1>4, <2>4, <2>5, <2>6, <2>7
<1>6. CASE spendBook.mark # -1
  <2>1. /\ spendBook' = spendBook
        /\ catchUp' = IF archives.last <= spendBook.mark THEN NoCatchUp
                      ELSE [NoCatchUp EXCEPT !.at = "scan", !.above = spendBook.mark]
        /\ annals' = [annals EXCEPT !.failing = 0]
    BY <1>6 DEF BootExtractor
  <2>2. PICK mark : mark = spendBook.mark /\ mark \in Nat
    BY <1>2, <1>6
  <2>3. /\ annals' \in ExtAnnals(1..extractLaw.days) /\ annals'.failing = 0 /\ annals'.panicked = annals.panicked
        /\ annals'.spent = annals.spent /\ annals'.lost = annals.lost
        /\ annals'.queued = annals.queued /\ annals'.full = annals.full
        /\ annals'.history = annals.history /\ annals'.jumped = annals.jumped
        /\ annals'.untold = annals.untold
    BY <1>2, <2>1 DEF ExtAnnals
  <2>4. /\ catchUp' \in CatchUpTask /\ catchUp'.found = {} /\ catchUp'.raise = 0 /\ ~catchUp'.starts
        /\ ~(archives.last <= mark) => catchUp'.at = "scan" /\ catchUp'.above = mark
    BY <2>1, <2>2 DEF NoCatchUp, CatchUpTask
  <2>5. ASSUME NEW log \in 1..archives.last
        PROVE  Known(log)'
    BY <2>2, <2>5, <1>2, <1>1, <2>3, <2>4 DEF ExtIInv, ExtKnown, NoCatchUp, Known
  <2>6. spendBook'.mark <= archives.last
    BY <1>2, <2>1 DEF ExtNumbers
  <2> QED BY <1>2, <1>4, <2>1, <2>3, <2>4, <2>5, <2>6
<1> QED BY <1>5, <1>6

(* An archive is written, and its ingest begins.                           *)
LEMMA WriteArchiveKeeps ==
  ASSUME ExtIInv, WriteArchive
  PROVE  ExtIInv'
<1>1. /\ host.up
      /\ archives' = [archives EXCEPT !.last = @ + 1, !.ingesting = @ \cup {archives.last + 1}]
      /\ extractLaw' = extractLaw /\ spendBook' = spendBook /\ jobs' = jobs /\ pushers' = pushers
      /\ catchUp' = catchUp /\ drains' = drains /\ host' = host /\ annals' = annals
  BY DEF WriteArchive
<1>2. PICK n : n = archives.last /\ n \in Nat
  BY ExtTypes
<1>3. /\ ExtTyped /\ ExtNumbers /\ archives \in ExtArchives /\ host \in ExtHost
      /\ spendBook \in [day : Nat, tokens : Nat, mark : Nat \cup {-1}]
      /\ catchUp \in CatchUpTask /\ drains \in [Workers -> DrainTask]
  BY ExtTypes DEF ExtIInv
<1>4. /\ archives' \in ExtArchives /\ archives'.last = n + 1
      /\ archives'.ingesting = archives.ingesting \cup {n + 1}
      /\ archives'.ready = archives.ready /\ archives'.awaiting = archives.awaiting
  <2>1. PICK m, new : m = n + 1 /\ new = archives.ingesting \cup {n + 1}
    OBVIOUS
  <2>4. m \in Nat
    BY <1>2, <2>1
  <2>2. new \in SUBSET Nat
    BY <1>3, <2>1, <2>4 DEF ExtArchives
  <2>3. archives' = [archives EXCEPT !.last = m, !.ingesting = new]
    BY <1>1, <1>2, <1>3, <2>1 DEF ExtArchives
  <2> QED BY <1>3, <2>1, <2>2, <2>3, <2>4 DEF ExtArchives
<1>5. n + 1 \in Nat /\ n <= n + 1 /\ \A k : k \in 1..n => k \in 1..(n + 1)
  BY <1>2
<1>6. ExtTyped'
  BY <1>1, <1>3, <1>4 DEF ExtTyped
<1>7. ExtNumbers'
  <2>1. Lined(jobs.pending, n + 1) /\ Lined(jobs.backlog, n + 1)
    BY <1>2, <1>3, <1>5, LinedMore DEF ExtNumbers
  <2>2. archives'.ingesting \cup archives'.ready \cup archives'.awaiting \subseteq 1..archives'.last
    BY <1>2, <1>3, <1>4, <1>5 DEF ExtNumbers
  <2>3. spendBook'.mark <= archives'.last
    BY <1>2, <1>3, <1>1, <1>4 DEF ExtNumbers
  <2>4. \A p \in pushers' : p.log \in 1..archives'.last
    BY <1>1, <1>2, <1>3, <1>4, <1>5 DEF ExtNumbers
  <2>5. catchUp'.raise <= archives'.last /\ catchUp'.found \subseteq 1..archives'.last
    BY <1>2, <1>3, <1>1, <1>4, <1>5 DEF ExtNumbers, CatchUpTask
  <2>6. \A w \in Workers : drains'[w].raise <= archives'.last
    BY <1>2, <1>3, DrainIs, <1>1, <1>4 DEF ExtNumbers
  <2>7. Len(jobs'.pending) <= extractLaw'.queued
    BY <1>1, <1>3 DEF ExtNumbers
  <2> QED BY <1>1, <1>4, <2>1, <2>2, <2>3, <2>4, <2>5, <2>6, <2>7 DEF ExtNumbers
<1>8. ExtPlaces' /\ ExtRight' /\ ExtFailing' /\ ExtLedger' /\ ExtAttempt'
  <2>1. ExtPlaces' /\ ExtRight' /\ ExtFailing' /\ ExtLedger'
    BY <1>1, ExtPlacesKept, RightKept, FailingKept, LedgerKept DEF PlacesRest, RightRests, FailingRests,
       LedgerRests, ExtIInv
  <2>2. host.day \in Nat /\ host.day <= host'.day /\ host'.day \in Nat
    BY <1>1, <1>3 DEF ExtHost
  <2> QED BY <1>1, <2>1, <2>2, AttemptKept DEF AttemptRests, ExtIInv
<1>9. ASSUME NEW log \in 1..(n + 1)
      PROVE  /\ Known(log)'
             /\ log \in archives'.awaiting \cup archives'.ingesting \cup annals'.queued \cup annals'.untold
  <2>1. CASE log = n + 1
    BY <1>4, <2>1 DEF Known
  <2>2. CASE log # n + 1
    BY <1>2, <1>9, <2>2, <1>1, <1>4 DEF ExtIInv, ExtKnown, ExtStored, Known
  <2> QED BY <2>1, <2>2
<1>10. ExtKnown' /\ ExtStored'
  BY <1>1, <1>4, <1>9 DEF ExtKnown, ExtStored, ExtIInv
<1> QED BY <1>6, <1>7, <1>8, <1>10 DEF ExtIInv

(* An ingest comes to its end, one way or another.                         *)
LEMMA IngestKeeps ==
  ASSUME ExtIInv, NEW log \in 1..archives.last, IngestEnds(log) \/ IngestIsLost(log)
  PROVE  ExtIInv'
<1>1. /\ log \in archives.ingesting
      /\ extractLaw' = extractLaw /\ spendBook' = spendBook /\ jobs' = jobs /\ pushers' = pushers
      /\ catchUp' = catchUp /\ drains' = drains /\ host' = host
  BY DEF IngestEnds, IngestIsLost
<1>2. /\ ExtTyped /\ ExtNumbers /\ archives \in ExtArchives /\ host.up /\ host \in ExtHost
      /\ annals \in ExtAnnals(1..extractLaw.days) /\ log \in Nat /\ archives.last \in Nat
  BY <1>1, ExtTypes DEF ExtIInv, ExtPlaces
<1>3. PICK ready, stored : /\ ready \in {{}, {log}} /\ stored \in {{}, {log}}
                           /\ archives' = [archives EXCEPT !.ingesting = @ \ {log}, !.ready = @ \cup ready,
                                                           !.awaiting = @ \cup stored]
                           /\ \/ annals' = annals /\ ready = {log} /\ stored = {log}
                              \/ annals' = [annals EXCEPT !.untold = @ \cup {log}] /\ ready = {}
  <2>1. CASE IngestEnds(log)
    BY <2>1 DEF IngestEnds
  <2>2. CASE IngestIsLost(log)
    <3>1. archives.ready \cup {} = archives.ready
      OBVIOUS
    <3>2. PICK stored \in {{}, {log}} :
               archives' = [archives EXCEPT !.ingesting = @ \ {log}, !.awaiting = @ \cup stored]
      BY <2>2 DEF IngestIsLost
    <3>3. archives' = [archives EXCEPT !.ingesting = @ \ {log}, !.ready = @ \cup {}, !.awaiting = @ \cup stored]
      BY <1>2, <3>1, <3>2 DEF ExtArchives
    <3>4. annals' = [annals EXCEPT !.untold = @ \cup {log}]
      BY <2>2 DEF IngestIsLost
    <3> QED BY <3>2, <3>3, <3>4
  <2> QED BY <2>1, <2>2
<1>4. /\ archives' \in ExtArchives /\ archives'.last = archives.last
      /\ archives'.ingesting = archives.ingesting \ {log} /\ archives'.ready = archives.ready \cup ready
      /\ archives'.awaiting = archives.awaiting \cup stored
  <2>1. PICK a, b, c : a = archives.ingesting \ {log} /\ b = archives.ready \cup ready /\ c = archives.awaiting \cup stored
    OBVIOUS
  <2>2. a \in SUBSET Nat /\ b \in SUBSET Nat /\ c \in SUBSET Nat
    BY <1>2, <1>3, <2>1 DEF ExtArchives
  <2>3. archives' = [archives EXCEPT !.ingesting = a, !.ready = b, !.awaiting = c]
    BY <1>2, <1>3, <2>1 DEF ExtArchives
  <2> QED BY <1>2, <2>1, <2>2, <2>3 DEF ExtArchives
<1>5. /\ annals' \in ExtAnnals(1..extractLaw.days)
      /\ annals'.queued = annals.queued /\ annals'.full = annals.full /\ annals'.history = annals.history
      /\ annals'.jumped = annals.jumped /\ annals.untold \subseteq annals'.untold
      /\ annals'.failing = annals.failing /\ annals'.on = annals.on /\ annals'.panicked = annals.panicked
      /\ annals'.spent = annals.spent /\ annals'.lost = annals.lost
      /\ \/ log \in archives'.ready /\ log \in archives'.awaiting
         \/ log \in annals'.untold
  BY <1>2, <1>3, <1>4 DEF ExtAnnals
<1>6. ExtTyped'
  BY <1>1, <1>2, <1>4, <1>5 DEF ExtTyped
<1>7. ExtNumbers'
  BY <1>1, <1>2, <1>3, <1>4 DEF ExtNumbers
<1>8. ExtPlaces' /\ ExtRight' /\ ExtFailing' /\ ExtLedger' /\ ExtAttempt'
  BY <1>1, <1>2, <1>5, ExtPlacesKept, RightKept, FailingKept, LedgerKept, AttemptKept DEF PlacesRest, RightRests,
     FailingRests, LedgerRests, AttemptRests, ExtHost, ExtIInv
<1>9. ExtKnown'
  <2>1. ASSUME NEW other \in 1..archives.last
        PROVE  Known(other)'
    <3>1. CASE other = log
      BY <1>5, <3>1 DEF Known
    <3>2. CASE other # log
      BY <1>2, <1>3, <1>4, <2>1, <3>2, <1>1, <1>5 DEF ExtIInv, ExtKnown, Known
    <3> QED BY <3>1, <3>2
  <2> QED BY <1>4, <2>1 DEF ExtKnown
<1>10. ExtStored'
  BY <1>1, <1>4, <1>5, StoredKept DEF StoredRests, ExtIInv
<1> QED BY <1>6, <1>7, <1>8, <1>9, <1>10 DEF ExtIInv

(* An archive is queued, unless it is already or the queue is full.        *)
LEMMA EnqueueKeeps ==
  ASSUME ExtIInv, NEW log \in 1..archives.last, Enqueue(log)
  PROVE  ExtIInv'
<1>1. /\ log \in archives.ready /\ archives' = [archives EXCEPT !.ready = @ \ {log}]
      /\ extractLaw' = extractLaw /\ spendBook' = spendBook /\ catchUp' = catchUp
      /\ drains' = drains /\ host' = host
  BY DEF Enqueue
<1>2. PICK n : n = archives.last /\ n \in Nat /\ log \in 1..n /\ log \in Nat
  BY ExtTypes
<1>3. /\ ExtTyped /\ ExtNumbers /\ ExtRight /\ ExtStored /\ archives \in ExtArchives /\ host.up
      /\ jobs \in QueueOfJobs /\ annals \in ExtAnnals(1..extractLaw.days) /\ host \in ExtHost
  BY <1>1, ExtTypes DEF ExtIInv, ExtPlaces
<1>4. /\ archives' \in ExtArchives /\ archives'.last = n /\ archives'.awaiting = archives.awaiting
      /\ archives'.ingesting = archives.ingesting /\ archives'.ready = archives.ready \ {log}
  BY <1>1, <1>2, <1>3 DEF ExtArchives
<1>6. ASSUME jobs' \in QueueOfJobs, Lined(jobs'.pending, n), Len(jobs'.pending) <= extractLaw.queued,
             jobs'.backlog = jobs.backlog, jobs'.fails = jobs.fails, jobs'.paused = jobs.paused,
             Range(jobs'.pending) \subseteq Range(jobs.pending) \cup annals'.queued,
             pushers' \subseteq [log : Nat, starts : BOOLEAN],
             \A p \in pushers' : p \in pushers \/ p.log = log,
             annals' \in ExtAnnals(1..extractLaw.days),
             annals.queued \subseteq annals'.queued, annals.full \subseteq annals'.full,
             log \in annals'.queued \cup annals'.full,
             annals'.history = annals.history, annals'.jumped = annals.jumped, annals'.untold = annals.untold,
             annals'.failing = annals.failing, annals'.on = annals.on,
             annals'.spent = annals.spent, annals'.lost = annals.lost,
             ExtRight'
      PROVE  ExtIInv'
  <2>1. ExtTyped'
    BY <1>1, <1>3, <1>4, <1>6 DEF ExtTyped
  <2>2. ExtNumbers'
    BY <1>1, <1>2, <1>3, <1>4, <1>6 DEF ExtNumbers
  <2>3. ExtPlaces' /\ ExtFailing' /\ ExtLedger' /\ ExtStored'
    BY <1>1, <1>2, <1>3, <1>4, <1>6, ExtPlacesKept, FailingKept, LedgerKept, StoredKept DEF PlacesRest,
       FailingRests, LedgerRests, StoredRests, ExtIInv
  <2>4. ExtAttempt'
    BY <1>1, <1>3, <1>6, AttemptKept DEF AttemptRests, ExtHost, ExtIInv
  <2>5. ExtKnown'
    <3>1. ASSUME NEW other \in 1..n
          PROVE  Known(other)'
      BY <1>6, <1>2, <1>3, <3>1, <1>1, <1>4 DEF Known, ExtIInv, ExtKnown
    <3> QED BY <1>4, <3>1 DEF ExtKnown
  <2> QED BY <1>6, <2>1, <2>2, <2>3, <2>4, <2>5 DEF ExtIInv
<1>7. CASE /\ log \notin Range(jobs.pending) /\ Len(jobs.pending) < extractLaw.queued
           /\ jobs' = [jobs EXCEPT !.pending = Append(@, log), !.running = TRUE]
           /\ pushers' = pushers \cup {[log |-> log, starts |-> ~jobs.running]}
           /\ annals' = [annals EXCEPT !.queued = @ \cup {log}]
  <2>1. PICK t : t = Append(jobs.pending, log)
    OBVIOUS
  <2>2. Lined(t, n) /\ Len(t) <= extractLaw.queued /\ t # <<>> /\ Range(t) = Range(jobs.pending) \cup {log}
    <3>1. Lined(jobs.pending, n)
      BY <1>2, <1>3 DEF ExtNumbers
    <3>2. Lined(t, n) /\ Len(t) = Len(jobs.pending) + 1 /\ Range(t) = Range(jobs.pending) \cup {log}
      <4>1. log \notin Range(jobs.pending)
        BY <1>7
      <4>2. PICK s : s = jobs.pending
        OBVIOUS
      <4>3. Lined(s, n) /\ log \notin Range(s) /\ Pushed(t, s, log) /\ n \in Nat /\ log \in 1..n
        BY <1>2, <2>1, <3>1, <4>1, <4>2 DEF Pushed
      <4>4. Lined(t, n) /\ Len(t) = Len(s) + 1 /\ Range(t) = Range(s) \cup {log}
        BY <4>3, LinedPush
      <4> QED BY <4>2, <4>4
    <3>3. PICK l : l = Len(jobs.pending) /\ l \in Nat
      BY <1>2, <3>1, LinedIs
    <3>4. extractLaw.queued \in Nat
      BY <1>3, ExtLawIs
    <3>5. l + 1 <= extractLaw.queued /\ l + 1 # 0
      BY <1>7, <3>3, <3>4
    <3>6. t # <<>>
      BY <1>2, <3>2, <3>3, <3>5, LinedIs
    <3> QED BY <3>2, <3>3, <3>5, <3>6
  <2>3. /\ jobs' \in QueueOfJobs /\ jobs'.pending = t /\ jobs'.running
        /\ jobs'.backlog = jobs.backlog /\ jobs'.fails = jobs.fails /\ jobs'.paused = jobs.paused
    BY <2>2, <1>3, <1>7, <2>1 DEF Lined, QueueOfJobs
  <2>4. PICK on : on = ~jobs.running /\ on \in BOOLEAN
    OBVIOUS
  <2>5. PICK new : new = [log |-> log, starts |-> on]
    OBVIOUS
  <2>6. /\ pushers' = pushers \cup {new} /\ new \in [log : Nat, starts : BOOLEAN]
        /\ new.log = log /\ new.starts = on
    BY <1>2, <1>7, <2>4, <2>5
  <2>7. /\ annals' \in ExtAnnals(1..extractLaw.days) /\ annals'.queued = annals.queued \cup {log}
        /\ annals'.full = annals.full /\ annals'.history = annals.history /\ annals'.jumped = annals.jumped
        /\ annals'.untold = annals.untold
        /\ annals'.failing = annals.failing /\ annals'.on = annals.on /\ annals'.panicked = annals.panicked
        /\ annals'.spent = annals.spent /\ annals'.lost = annals.lost
    BY <1>2, <1>3, <1>7 DEF ExtAnnals
  <2>8. ExtRight'
    BY <2>4, <2>6, <1>1, <1>3, <2>3, <2>7 DEF ExtRight
  <2>9. /\ pushers' \subseteq [log : Nat, starts : BOOLEAN]
        /\ \A p \in pushers' : p \in pushers \/ p.log = log
    BY <1>3, <2>6 DEF ExtTyped
  <2>10. /\ annals.queued \subseteq annals'.queued /\ annals.full \subseteq annals'.full
         /\ log \in annals'.queued \cup annals'.full
         /\ Range(jobs'.pending) \subseteq Range(jobs.pending) \cup annals'.queued
    BY <2>2, <2>3, <2>7
  <2>11. Lined(jobs'.pending, n) /\ Len(jobs'.pending) <= extractLaw.queued
    BY <2>2, <2>3
  <2> QED BY <1>6, <2>3, <2>7, <2>8, <2>9, <2>10, <2>11
<1>8. CASE /\ \/ log \in Range(jobs.pending) /\ annals' = annals
              \/ annals' = [annals EXCEPT !.full = @ \cup {log}]
           /\ UNCHANGED <<jobs, pushers>>
  <2>1. jobs' = jobs /\ pushers' = pushers
    BY <1>8
  <2>2. /\ annals' \in ExtAnnals(1..extractLaw.days) /\ annals.full \subseteq annals'.full
        /\ annals'.queued = annals.queued /\ annals'.history = annals.history /\ annals'.jumped = annals.jumped
        /\ annals'.untold = annals.untold
        /\ annals'.failing = annals.failing /\ annals'.on = annals.on /\ annals'.panicked = annals.panicked
        /\ annals'.spent = annals.spent /\ annals'.lost = annals.lost
        /\ log \in annals'.queued \cup annals'.full
    BY <1>2, <1>3, <1>8 DEF ExtStored, ExtAnnals
  <2>3. ExtRight'
    BY <1>1, <2>1, <2>2, <1>3, RightKept DEF RightRests
  <2>4. Lined(jobs'.pending, n) /\ Len(jobs'.pending) <= extractLaw.queued
    BY <1>2, <1>3, <2>1 DEF ExtNumbers
  <2>5. pushers' \subseteq [log : Nat, starts : BOOLEAN]
    BY <1>3, <2>1 DEF ExtTyped
  <2>6. /\ annals.queued \subseteq annals'.queued /\ \A p \in pushers' : p \in pushers
        /\ Range(jobs'.pending) \subseteq Range(jobs.pending) \cup annals'.queued
    BY <2>1, <2>2
  <2> QED BY <1>3, <1>6, <2>1, <2>2, <2>3, <2>4, <2>5, <2>6
<1> QED BY <1>7, <1>8 DEF Enqueue

(* A day passes.                                                           *)
LEMMA DayKeeps ==
  ASSUME ExtIInv, DayPasses
  PROVE  ExtIInv'
<1>1. /\ host.day < extractLaw.days /\ host' = [host EXCEPT !.day = @ + 1]
      /\ extractLaw' = extractLaw /\ archives' = archives /\ spendBook' = spendBook /\ jobs' = jobs
      /\ pushers' = pushers /\ catchUp' = catchUp /\ drains' = drains /\ annals' = annals
  BY DEF DayPasses
<1>2. ExtTyped /\ host \in ExtHost /\ spendBook.day \in Nat /\ extractLaw.days \in Nat
  BY ExtTypes, ExtLawIs DEF ExtIInv
<1>3. PICK day : day = host.day /\ day \in Nat
  BY <1>2 DEF ExtHost
<1>4. host' \in ExtHost /\ host'.up = host.up /\ host'.day = day + 1
  <2>1. PICK next : next = day + 1 /\ next \in Nat
    BY <1>3
  <2>2. host' = [host EXCEPT !.day = next]
    BY <1>1, <1>2, <1>3, <2>1
  <2> QED BY <1>2, <2>1, <2>2 DEF ExtHost
<1>5. ExtTyped'
  BY <1>1, <1>2, <1>4 DEF ExtTyped
<1>6. ExtNumbers' /\ ExtRight' /\ ExtPlaces' /\ ExtFailing' /\ ExtKnown'
  BY <1>1, <1>4, RightKept, FailingKept DEF RightRests, FailingRests, ExtIInv, ExtNumbers,
     ExtPlaces, Known, ExtKnown
<1>7. ExtLedger'
  <2>1. day + 1 \in 1..extractLaw.days /\ spendBook.day <= day + 1
    BY <1>3, <1>1, <1>2 DEF ExtIInv, ExtLedger
  <2> QED BY <1>1, <1>4, <2>1 DEF ExtIInv, ExtLedger
<1>8. ExtAttempt'
  BY <1>1, <1>3, <1>4, AttemptKept DEF AttemptRests, ExtIInv
<1>9. ExtStored'
  BY <1>1, StoredKept DEF StoredRests, ExtIInv
<1> QED BY <1>5, <1>6, <1>7, <1>8, <1>9 DEF ExtIInv

(* What an end makes of what was spent.                                    *)
LEMMA EndSpends ==
  ASSUME ExtIInv, NEW w \in Workers, NEW spent \in extractLaw.costs \cup {0},
         spent > 0 => drains[w].at = "works",
         NEW a, a = IF spent > 0 THEN Unbilled(drains[w].day, spent) ELSE annals
  PROVE  /\ a \in ExtAnnals(1..extractLaw.days)
         /\ \A e \in 1..extractLaw.days : a.spent[e] - a.lost[e] = annals.spent[e] - annals.lost[e]
         /\ a.queued = annals.queued /\ a.full = annals.full /\ a.history = annals.history
         /\ a.jumped = annals.jumped /\ a.untold = annals.untold
         /\ a.failing = annals.failing /\ a.on = annals.on
<1>1. CASE spent > 0
  <2>1. spent \in Nat
    BY ExtLawIs DEF ExtIInv
  <2>2. drains[w].day \in 1..extractLaw.days
    BY <1>1, ExtLawIs DEF ExtIInv, ExtAttempt, ExtLedger
  <2>3. a = Unbilled(drains[w].day, spent)
    BY <1>1
  <2> QED BY <2>1, <2>2, <2>3, UnbilledIs
<1>2. CASE ~(spent > 0)
  BY <1>2, ExtTypes
<1> QED BY <1>1, <1>2

(* The process ends, and may have archived without extraction.             *)
LEMMA EndKeeps ==
  ASSUME ExtIInv, NEW wrote \in BOOLEAN, ExtractorEnds(wrote)
  PROVE  ExtIInv'
<1>1. /\ host.up /\ host' = [host EXCEPT !.up = FALSE]
      /\ jobs' = NoQueue /\ pushers' = {} /\ catchUp' = NoCatchUp
      /\ drains' = [w \in Workers |-> NoDrain]
      /\ extractLaw' = extractLaw /\ spendBook' = spendBook
  BY DEF ExtractorEnds
<1>2. PICK n : n = archives.last /\ n \in Nat
  BY ExtTypes
<1>3. /\ ExtTyped /\ ExtNumbers /\ ExtPlaces /\ ExtKnown /\ ExtStored /\ archives \in ExtArchives
      /\ annals \in ExtAnnals(1..extractLaw.days) /\ host \in ExtHost /\ catchUp \in CatchUpTask
      /\ spendBook \in [day : Nat, tokens : Nat, mark : Nat \cup {-1}]
  BY ExtTypes DEF ExtIInv
<1> DEFINE m == archives.last + (IF wrote THEN 1 ELSE 0)
           cut == archives.ingesting \cup archives.last + 1..m
           waiting == UNION {Range(jobs.backlog), archives.ingesting, archives.ready, catchUp.found,
                             IF catchUp.at = "scan" THEN catchUp.above + 1..archives.last ELSE {}}
<1>24. PICK stored \in SUBSET cut, v \in Workers, spent \in extractLaw.costs \cup {0} :
         /\ spent > 0 => drains[v].at = "works"
         /\ archives' = [last |-> m, ingesting |-> {}, ready |-> {}, awaiting |-> archives.awaiting \cup stored]
         /\ annals' = [(IF spent > 0 THEN Unbilled(drains[v].day, spent) ELSE annals) EXCEPT
                         !.jumped = @ \cup {log \in waiting : log <= spendBook.mark},
                         !.untold = @ \cup (cut \ stored), !.panicked = FALSE]
  BY Zenon DEF ExtractorEnds
<1>23. /\ m = n + (IF wrote THEN 1 ELSE 0)
       /\ cut = archives.ingesting \cup n + 1..m
       /\ waiting = UNION {Range(jobs.backlog), archives.ingesting, archives.ready, catchUp.found,
                             IF catchUp.at = "scan" THEN catchUp.above + 1..n ELSE {}}
  BY <1>2, Zenon
<1> HIDE DEF m, cut, waiting
<1>25. PICK a, gone : /\ a = IF spent > 0 THEN Unbilled(drains[v].day, spent) ELSE annals
                      /\ gone = {log \in waiting : log <= spendBook.mark}
  OBVIOUS
<1>4. /\ archives' = [last |-> m, ingesting |-> {}, ready |-> {}, awaiting |-> archives.awaiting \cup stored]
      /\ annals' = [a EXCEPT !.jumped = @ \cup gone, !.untold = @ \cup (cut \ stored), !.panicked = FALSE]
  BY <1>24, <1>25
<1>5. /\ m \in Nat /\ n <= m /\ cut \subseteq 1..m /\ 1..n \subseteq 1..m
      /\ \A log \in 1..m : log \in 1..n \/ log \in cut
      /\ \A log \in 1..n : log \in cut => log \in archives.ingesting
  <2>1. archives.ingesting \subseteq 1..n
    BY <1>2, <1>3 DEF ExtNumbers
  <2>2. CASE wrote
    BY <1>2, <1>23, <2>1, <2>2
  <2>3. CASE ~wrote
    BY <1>2, <1>23, <2>1, <2>3
  <2> QED BY <2>2, <2>3
<1>6. gone \in SUBSET Nat /\ \A log \in 1..n : log \in waiting /\ log <= spendBook.mark => log \in gone
  <2>1. Range(jobs.backlog) \subseteq Nat
    BY <1>2, <1>3, LinedIs DEF ExtNumbers
  <2>2. catchUp.found \subseteq Nat /\ catchUp.above + 1..n \subseteq Nat
    BY <1>2, <1>3 DEF CatchUpTask
  <2>3. archives.ingesting \subseteq Nat /\ archives.ready \subseteq Nat
    BY <1>3 DEF ExtArchives
  <2> QED BY <1>23, <1>25, <2>1, <2>2, <2>3
<1>20. /\ archives' \in ExtArchives /\ archives'.last = m
       /\ archives'.ingesting = {} /\ archives'.ready = {} /\ archives'.awaiting = archives.awaiting \cup stored
       /\ archives'.awaiting \subseteq 1..m
  <2>1. PICK all : all = archives.awaiting \cup stored
    OBVIOUS
  <2>2. all \subseteq 1..m /\ all \in SUBSET Nat
    BY <1>2, <1>3, <1>24, <1>5, <2>1 DEF ExtNumbers
  <2>3. archives' = [last |-> m, ingesting |-> {}, ready |-> {}, awaiting |-> all]
    BY <1>4, <2>1
  <2> QED BY <1>5, <2>1, <2>2, <2>3 DEF ExtArchives
<1>21. /\ a \in ExtAnnals(1..extractLaw.days)
       /\ \A e \in 1..extractLaw.days : a.spent[e] - a.lost[e] = annals.spent[e] - annals.lost[e]
       /\ a.queued = annals.queued /\ a.full = annals.full /\ a.history = annals.history
       /\ a.jumped = annals.jumped /\ a.untold = annals.untold
       /\ a.failing = annals.failing /\ a.on = annals.on
  BY <1>24, <1>25, EndSpends
<1>7. /\ annals' \in ExtAnnals(1..extractLaw.days) /\ annals'.jumped = annals.jumped \cup gone /\ ~annals'.panicked
      /\ annals'.untold = annals.untold \cup (cut \ stored)
      /\ annals'.queued = annals.queued /\ annals'.full = annals.full /\ annals'.history = annals.history
      /\ annals'.failing = annals.failing /\ annals'.on = annals.on
      /\ annals'.spent = a.spent /\ annals'.lost = a.lost
  <2>1. PICK j, u : j = a.jumped \cup gone /\ u = a.untold \cup (cut \ stored)
    OBVIOUS
  <2>2. j \in SUBSET Nat /\ u \in SUBSET Nat
    <3>1. cut \in SUBSET Nat
      BY <1>5
    <3>2. a.jumped \in SUBSET Nat /\ a.untold \in SUBSET Nat
      BY <1>21 DEF ExtAnnals
    <3> QED BY <1>6, <2>1, <3>1, <3>2
  <2>3. annals' = [a EXCEPT !.jumped = j, !.untold = u, !.panicked = FALSE]
    BY <1>4, <1>21, <2>1 DEF ExtAnnals
  <2> QED BY <1>21, <2>1, <2>2, <2>3 DEF ExtAnnals
<1>8. host' \in ExtHost /\ ~host'.up /\ host'.day = host.day
  BY <1>1, <1>3 DEF ExtHost
<1>9. /\ jobs' \in QueueOfJobs /\ jobs'.pending = <<>> /\ jobs'.backlog = <<>> /\ ~jobs'.running
      /\ jobs'.fails = 0 /\ jobs'.paused = 0
  BY <1>1 DEF NoQueue, QueueOfJobs
<1>10. /\ catchUp' \in CatchUpTask /\ catchUp'.at = "off" /\ catchUp'.found = {} /\ catchUp'.raise = 0
       /\ ~catchUp'.starts
  BY <1>1 DEF NoCatchUp, CatchUpTask
<1>11. /\ drains' \in [Workers -> DrainTask] /\ \A w \in Workers : drains'[w].at = "off" /\ drains'[w].raise = 0
  BY <1>1 DEF NoDrain, DrainTask, DrainPlaces
<1>12. ExtTyped'
  BY <1>1, <1>3, <1>7, <1>8, <1>9, <1>10, <1>11, <1>20 DEF ExtTyped
<1>13. ExtNumbers'
  <2>1. Lined(<<>>, m) /\ Len(<<>>) = 0
    BY <1>5, LinedNone
  <2>2. spendBook'.mark <= archives'.last
    BY <1>2, <1>3, <1>1, <1>5, <1>20 DEF ExtNumbers
  <2>3. extractLaw'.queued \in Nat
    BY <1>1, <1>3, ExtLawIs
  <2>4. 0 <= archives'.last
    BY <1>5, <1>20
  <2>5. 0 <= extractLaw'.queued
    BY <2>3
  <2> QED BY <1>1, <1>9, <1>10, <1>11, <1>20, <2>1, <2>2, <2>4, <2>5 DEF ExtNumbers
<1>14. ExtPlaces'
  BY <1>1, <1>8, <1>10, <1>20 DEF ExtPlaces
<1>15. ExtRight'
  BY <1>1, <1>9, <1>10, <1>11 DEF ExtRight
<1>16. ExtLedger'
  <2>1. \A e \in 1..extractLaw.days : annals'.spent[e] - annals'.lost[e] = annals.spent[e] - annals.lost[e]
    BY <1>7, <1>21
  <2> QED BY <1>1, <1>8, <2>1 DEF ExtLedger, ExtIInv
<1>17. ExtAttempt'
  BY <1>11 DEF ExtAttempt
<1>18. ExtFailing'
  BY <1>3, ExtLawIs, <1>7, <1>8, <1>9 DEF ExtIInv, ExtFailing
<1>19. ExtKnown'
  <2>1. ASSUME NEW log \in 1..m, log <= spendBook.mark
        PROVE  Known(log)'
    <3>1. log \in 1..n
      BY <1>2, <1>3, <1>5, <2>1 DEF ExtNumbers
    <3>2. Known(log)
      BY <1>2, <1>3, <2>1, <3>1 DEF ExtKnown
    <3>3. log \in Range(jobs.backlog) \cup catchUp.found \cup archives.ingesting \cup archives.ready => log \in waiting
      BY <1>23
    <3>4. catchUp.at = "scan" /\ log > catchUp.above => log \in waiting
      BY <1>2, <1>3, <1>23, <3>1 DEF CatchUpTask
    <3>5. log \in waiting => log \in gone
      BY <1>6, <2>1, <3>1
    <3>6. log \notin archives.awaiting => log \notin archives'.awaiting \/ log \in archives.ingesting
      BY <1>24, <1>5, <1>20, <3>1
    <3> QED BY <1>7, <3>2, <3>3, <3>4, <3>5, <3>6 DEF Known
  <2> QED BY <1>1, <1>8, <1>20, <2>1 DEF ExtKnown
<1>22. ExtStored'
  <2>1. Range(jobs'.pending) = {}
    BY <1>5, <1>9, LinedNone
  <2>2. ASSUME NEW log \in 1..m
        PROVE  log \in archives'.awaiting \cup archives'.ingesting \cup annals'.queued \cup annals'.untold
    <3>1. CASE log \in cut
      BY <1>7, <1>20, <3>1
    <3>2. CASE log \in 1..n /\ log \notin cut
      BY <1>23, <3>2, <1>2, <1>3, <1>7, <1>20 DEF ExtStored
    <3> QED BY <1>5, <2>2, <3>1, <3>2
  <2> QED BY <1>11, <1>20, <2>1, <2>2 DEF ExtStored
<1> QED BY <1>12, <1>13, <1>14, <1>15, <1>16, <1>17, <1>18, <1>19, <1>22 DEF ExtIInv

----------------------------------------------------------------------------

(* At the start.                                                           *)
LEMMA ExtStart == ExtractInit => ExtIInv
<1> SUFFICES ASSUME ExtractInit PROVE ExtIInv
  OBVIOUS
<1>1. /\ extractLaw \in ExtractConfigs
      /\ archives = [last |-> 1, ingesting |-> {}, ready |-> {}, awaiting |-> {1}]
      /\ spendBook = [day |-> 0, tokens |-> 0, mark |-> -1]
      /\ jobs = NoQueue /\ pushers = {} /\ catchUp = NoCatchUp
      /\ drains = [w \in Workers |-> NoDrain]
      /\ host = [up |-> FALSE, day |-> 1, boots |-> 0, panics |-> 0, faults |-> 0]
      /\ annals = [queued |-> {}, full |-> {}, jumped |-> {}, untold |-> {}, history |-> {},
                   failing |-> 0, on |-> 0,
                   spent |-> [d \in 1..extractLaw.days |-> 0],
                   lost |-> [d \in 1..extractLaw.days |-> 0], panicked |-> FALSE]
  BY DEF ExtractInit
<1>2. /\ archives \in ExtArchives /\ archives.last = 1 /\ archives.awaiting = {1}
      /\ archives.ingesting = {} /\ archives.ready = {}
      /\ spendBook \in [day : Nat, tokens : Nat, mark : Nat \cup {-1}]
      /\ spendBook.day = 0 /\ spendBook.tokens = 0 /\ spendBook.mark = -1
      /\ host \in ExtHost /\ ~host.up /\ host.day = 1
  BY <1>1 DEF ExtHost, ExtArchives
<1>3. /\ jobs \in QueueOfJobs /\ jobs.pending = <<>> /\ jobs.backlog = <<>> /\ ~jobs.running
      /\ jobs.fails = 0 /\ jobs.paused = 0
  BY <1>1 DEF NoQueue, QueueOfJobs
<1>4. /\ catchUp \in CatchUpTask /\ catchUp.at = "off" /\ catchUp.found = {} /\ catchUp.raise = 0
      /\ ~catchUp.starts
  BY <1>1 DEF NoCatchUp, CatchUpTask
<1>5. /\ drains \in [Workers -> DrainTask] /\ \A w \in Workers : drains[w].at = "off" /\ drains[w].raise = 0
  BY <1>1 DEF NoDrain, DrainTask, DrainPlaces
<1>6. /\ annals \in ExtAnnals(1..extractLaw.days) /\ annals.failing = 0 /\ ~annals.panicked
      /\ \A d \in 1..extractLaw.days : annals.spent[d] = 0 /\ annals.lost[d] = 0
  BY <1>1 DEF ExtAnnals
<1>7. ExtTyped
  BY <1>1, <1>2, <1>3, <1>4, <1>5, <1>6 DEF ExtTyped
<1>8. /\ extractLaw.queued \in Nat /\ extractLaw.limit \in Nat /\ extractLaw.days \in Nat /\ 1 <= extractLaw.days
      /\ MaxFailures \in Nat /\ 1 <= MaxFailures /\ Max(extractLaw.costs \cup {0}) \in Nat
  BY <1>7, ExtLawIs
<1>9. ExtNumbers
  BY LinedNone, <1>8, <1>1, <1>2, <1>3, <1>4, <1>5 DEF ExtNumbers
<1>10. ExtPlaces /\ ExtRight /\ ExtAttempt
  BY <1>1, <1>2, <1>3, <1>4, <1>5 DEF ExtPlaces, ExtRight, ExtAttempt
<1>11. ExtLedger
  <2>1. PICK top : top = Max(extractLaw.costs \cup {0}) /\ top \in Nat
    BY <1>8
  <2>2. extractLaw.limit > 0 => 0 <= (extractLaw.limit - 1) + top
    BY <1>8, <2>1
  <2>3. 1 \in 1..extractLaw.days
    BY <1>8
  <2>4. \A d \in 1..extractLaw.days : annals.spent[d] - annals.lost[d] = 0 /\ d # 0
    BY <1>6
  <2> QED BY <1>2, <2>1, <2>2, <2>3, <2>4 DEF ExtLedger
<1>12. ExtFailing
  BY <1>2, <1>3, <1>6, <1>8 DEF ExtFailing
<1>13. ExtKnown
  BY <1>2 DEF ExtKnown
<1>14. ExtStored
  BY <1>2, <1>3, <1>5, LinedNone DEF ExtStored
<1> QED BY <1>7, <1>9, <1>10, <1>11, <1>12, <1>13, <1>14 DEF ExtIInv

(* Every step keeps the invariant.                                         *)
LEMMA ExtStep == ExtIInv /\ [ExtractNext]_extractVars => ExtIInv'
<1> SUFFICES ASSUME ExtIInv, [ExtractNext]_extractVars PROVE ExtIInv'
  OBVIOUS
<1>1. CASE BootExtractor
  BY <1>1, BootKeeps
<1>2. CASE WriteArchive
  BY <1>2, WriteArchiveKeeps
<1>12. CASE \E log \in 1..archives.last : IngestEnds(log) \/ IngestIsLost(log) \/ Enqueue(log)
  BY <1>12, IngestKeeps, EnqueueKeeps
<1>3. CASE CatchUpScan
  BY <1>3, ScanKeeps
<1>4. CASE CatchUpAsk
  BY <1>4, AskKeeps
<1>5. CASE CatchUpQueue
  BY <1>5, CatchUpQueueKeeps
<1>6. CASE CatchUpRaise
  BY <1>6, CatchUpRaiseKeeps
<1>7. CASE DayPasses
  BY <1>7, DayKeeps
<1>8. CASE \E caller \in pushers : RaiseAndStart(caller)
  BY <1>8, RaiseAndStartKeeps
<1>9. CASE \E w \in Workers : TaskRuns(w) \/ ExtractPanics(w)
  <2>1. PICK w \in Workers : TaskRuns(w) \/ ExtractPanics(w)
    BY <1>9
  <2>2. CASE NextJob(w)
    BY <2>2, NextJobKeeps
  <2>3. CASE RaiseRefilled(w)
    BY <2>3, RaiseRefilledKeeps
  <2>4. CASE Refusal(w)
    BY <2>4, RefusalKeeps
  <2>5. CASE Extract(w)
    BY <2>5, ExtractKeeps
  <2>6. CASE Charge(w)
    BY <2>6, ChargeKeeps
  <2>7. CASE Report(w)
    BY <2>7, ReportKeeps
  <2>8. CASE ExtractPanics(w)
    BY <2>8, ExtPanicKeeps
  <2> QED BY <2>1, <2>2, <2>3, <2>4, <2>5, <2>6, <2>7, <2>8 DEF TaskRuns
<1>10. CASE \E wrote \in BOOLEAN : ExtractorEnds(wrote)
  BY <1>10, EndKeeps
<1>11. CASE UNCHANGED extractVars
  <2>1. /\ extractLaw' = extractLaw /\ archives' = archives /\ spendBook' = spendBook /\ jobs' = jobs
        /\ pushers' = pushers /\ catchUp' = catchUp /\ drains' = drains /\ host' = host /\ annals' = annals
    BY <1>11 DEF extractVars
  <2>2. ExtTyped' /\ ExtNumbers' /\ ExtPlaces'
    BY <2>1 DEF ExtIInv, ExtTyped, ExtNumbers, ExtPlaces
  <2>3. ExtRight' /\ ExtLedger' /\ ExtFailing'
    BY <2>1 DEF ExtIInv, ExtRight, ExtLedger, ExtFailing
  <2>4. ExtAttempt'
    BY <2>1 DEF Spent, ExtIInv, ExtAttempt
  <2>5. ExtKnown'
    BY <2>1 DEF Known, ExtIInv, ExtKnown
  <2>6. ExtStored'
    BY <2>1 DEF ExtIInv, ExtStored
  <2> QED BY <2>2, <2>3, <2>4, <2>5, <2>6 DEF ExtIInv
<1> QED BY <1>1, <1>2, <1>3, <1>4, <1>5, <1>6, <1>7, <1>8, <1>9, <1>10, <1>11, <1>12 DEF ExtractNext

(* What it says of the queue's promises.                                   *)
LEMMA ExtPromises == ExtIInv => ExtractionHolds
<1> SUFFICES ASSUME ExtIInv PROVE ExtractionHolds
  OBVIOUS
<1>1. /\ ExtTyped /\ ExtNumbers /\ ExtPlaces /\ ExtRight
      /\ ExtLedger /\ ExtAttempt /\ ExtFailing /\ ExtKnown /\ ExtStored
  BY DEF ExtIInv
<1>2. ExtractTypeOK
  <2>1. /\ archives \in ExtArchives
        /\ spendBook \in [day : Nat, tokens : Nat, mark : Nat \cup {-1}]
        /\ jobs \in QueueOfJobs /\ catchUp \in CatchUpTask
        /\ drains \in [Workers -> DrainTask] /\ extractLaw \in ExtractConfigs
    BY ExtTypes, <1>1 DEF ExtTyped
  <2>2. archives.last \in Nat
    BY ExtTypes
  <2>3. /\ jobs.pending \in Seq(1..archives.last) /\ IsInjective(jobs.pending)
        /\ jobs.backlog \in Seq(1..archives.last) /\ IsInjective(jobs.backlog)
    BY <1>1, <2>2, LinedIs DEF ExtNumbers
  <2>4. jobs.running \in BOOLEAN /\ jobs.fails \in Nat /\ jobs.paused \in Nat
    BY <2>1 DEF QueueOfJobs
  <2>5. jobs.fails \in 0..MaxFailures - 1
    BY <1>1, ExtLawIs, <2>4 DEF ExtFailing
  <2>6. \A caller \in pushers : caller.log \in 1..archives.last /\ caller.starts \in BOOLEAN
    BY <1>1 DEF ExtTyped, ExtNumbers
  <2>7. catchUp.at \in {"off", "scan", "ask", "found", "raise"}
    BY <2>1 DEF CatchUpTask
  <2>8. \A w \in Workers : drains[w].at \in {"off", "next", "raise", "check", "works", "charge", "report"}
    BY <1>1, DrainIs DEF DrainPlaces
  <2>9. archives.ingesting \cup archives.ready \cup archives.awaiting \subseteq 1..archives.last /\ Len(jobs.pending) <= extractLaw.queued
    BY <1>1 DEF ExtNumbers
  <2> QED BY <2>1, <2>2, <2>3, <2>4, <2>5, <2>6, <2>7, <2>8, <2>9 DEF ExtractTypeOK
<1>3. OneDrain /\ NoneStranded /\ RunningIsTrue
  BY <1>1 DEF OneDrain, ExtRight, Workers, NoneStranded, RunningIsTrue
<1>4. SpendIsBounded
  <2>1. ASSUME extractLaw.limit > 0, NEW d \in 1..extractLaw.days
        PROVE  annals.spent[d] <= extractLaw.limit - 1 + Max(extractLaw.costs \cup {0}) + annals.lost[d]
    <3>1. PICK top : top = Max(extractLaw.costs \cup {0}) /\ top \in Nat
      BY <1>1, ExtLawIs
    <3>2. annals.spent[d] - annals.lost[d] <= (extractLaw.limit - 1) + top
      BY <1>1, <2>1, <3>1 DEF ExtLedger
    <3>3. annals.spent \in [1..extractLaw.days -> Nat] /\ annals.lost \in [1..extractLaw.days -> Int]
      BY ExtTypes DEF ExtAnnals
    <3>4. PICK s, l : s = annals.spent[d] /\ l = annals.lost[d]
      OBVIOUS
    <3>5. s \in Nat /\ l \in Int
      BY <3>3, <3>4
    <3>6. extractLaw.limit \in Nat
      BY <1>1, ExtLawIs
    <3>7. s <= extractLaw.limit - 1 + top + l
      BY <3>1, <3>2, <3>4, <3>5, <3>6
    <3> QED BY <3>1, <3>4, <3>7
  <2> QED BY <2>1 DEF SpendIsBounded
<1>5. FailuresPause
  BY <1>1 DEF ExtFailing, FailuresPause
<1>6. NoneOverlooked
  BY <1>1 DEF ExtKnown, Known, ExtStored, NoneOverlooked
<1> QED BY <1>2, <1>3, <1>4, <1>5, <1>6 DEF ExtractionHolds

(* Background extraction: one worker's right, where everything that was    *)
(* archived is, what the ledger says of each day's spend and what of it an *)
(* end or a failed write kept from it.                                     *)
THEOREM ExtractionInvariance == ExtractSpec => []ExtIInv
<1>1. ExtractInit => ExtIInv
  BY ExtStart
<1>2. ExtIInv /\ [ExtractNext]_extractVars => ExtIInv'
  BY ExtStep
<1> QED BY <1>1, <1>2, PTL DEF ExtractSpec

(* What background extraction promises, whatever order enqueue, the        *)
(* catch-up, ends and panics come in: one drain and a queue never left     *)
(* unheard, the day's budget, three failures at a time, and no archive     *)
(* passed over but for the reasons named (graph_extract.rs).               *)
THEOREM ExtractionKeepsItsPromises == ExtractSpec => []ExtractionHolds
<1>1. ExtIInv => ExtractionHolds
  BY ExtPromises
<1> QED BY <1>1, ExtractionInvariance, PTL
=============================================================================
