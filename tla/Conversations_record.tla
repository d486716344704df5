------------------------ MODULE Conversations_record ------------------------
(***************************************************************************)
(* Proofs about what the conversations of a pulse leave on record: the     *)
(* log's numbers and its checkpoint, the archives, and the watermarks of   *)
(* isolation mode.  They rest on the invariant of Conversations_proofs.    *)
(***************************************************************************)
EXTENDS Conversations_proofs

-----------------------------------------------------------------------------
(* No conversation says a message twice, and a note stands first; so none  *)
(* is longer than what the turns admitted have to say, and a note.         *)
Neat(q) == /\ \A i, j \in 1..Len(q) : q[i] = q[j] => i = j
           /\ \A i \in 1..Len(q) : q[i] = Note => i = 1

\* Message m stands among the first n of q.
Among(m, q, n) == \E i \in 1..Len(q) : i <= n /\ q[i] = m

(* A conversation of nothing, and of a note.                               *)
LEMMA NeatShort == Neat(<<>>) /\ Neat(<<Note>>)
<1>1. Len(<<>>) = 0 /\ Len(<<Note>>) = 1
  OBVIOUS
<1>2. \A i, j \in 1..1 : i = j /\ i = 1
  OBVIOUS
<1>3. \A i \in 1..0 : FALSE
  OBVIOUS
<1>4. Neat(<<>>)
  BY <1>1, <1>3 DEF Neat
<1>5. Neat(<<Note>>)
  BY <1>1, <1>2 DEF Neat
<1> QED BY <1>4, <1>5

(* A part of it is as neat: a head and a tail.                             *)
LEMMA NeatPart ==
  ASSUME NEW q \in Seq(Messages), Neat(q), NEW p \in Seq(Messages), NEW d \in Nat,
         \A i \in 1..Len(p) : i + d \in 1..Len(q) /\ p[i] = q[i + d]
  PROVE  Neat(p)
<1>1. Len(p) \in Nat /\ Len(q) \in Nat
  OBVIOUS
<1>2. ASSUME NEW i \in 1..Len(p), NEW j \in 1..Len(p), p[i] = p[j] PROVE i = j
  BY <1>2, <1>1 DEF Neat
<1>3. ASSUME NEW i \in 1..Len(p), p[i] = Note PROVE i = 1
  BY <1>3, <1>1 DEF Neat
<1> QED BY <1>2, <1>3 DEF Neat

(* Vec::truncate and Vec::drain.                                           *)
LEMMA NeatCut ==
  ASSUME NEW q \in Seq(Messages), Neat(q), NEW n \in Nat
  PROVE  Neat(Cut(q, n)) /\ Neat(KeepLast(q, n))
<1>1. Len(q) \in Nat
  OBVIOUS
<1>2. Neat(Cut(q, n))
  <2>1. PICK p \in Seq(Messages) : p = Cut(q, n)
    BY CutFacts
  <2>2. Len(p) = (IF n < Len(q) THEN n ELSE Len(q)) /\ \A i \in 1..Len(p) : p[i] = q[i]
    BY <2>1, CutFacts
  <2>3. \A i \in 1..Len(p) : i + 0 \in 1..Len(q) /\ p[i] = q[i + 0]
    BY <1>1, <2>2
  <2> QED BY <2>1, <2>3, NeatPart
<1>3. Neat(KeepLast(q, n))
  <2>1. PICK p \in Seq(Messages) : p = KeepLast(q, n)
    BY KeepLastFacts
  <2>2. /\ Len(p) = IF n < Len(q) THEN n ELSE Len(q)
        /\ \A i \in 1..Len(p) : p[i] = q[Len(q) - Len(p) + i]
    BY <2>1, KeepLastFacts
  <2>3. PICK l \in Nat, k \in Nat : l = Len(p) /\ k = Len(q)
    BY <1>1
  <2>5. PICK d : d = k - l
    OBVIOUS
  <2>7. l <= k
    BY <2>2, <2>3
  <2>6. d \in Nat
    BY <2>3, <2>5, <2>7
  <2>8. \A i \in 1..l : i + d \in 1..k /\ k - l + i = i + d
    BY <2>3, <2>5, <2>7
  <2>4. \A i \in 1..Len(p) : i + d \in 1..Len(q) /\ p[i] = q[i + d]
    BY <2>2, <2>3, <2>8
  <2> QED BY <2>1, <2>4, <2>6, NeatPart
<1> QED BY <1>2, <1>3

(* A message that is not there yet goes last.                              *)
LEMMA NeatAppend ==
  ASSUME NEW q \in Seq(Messages), Neat(q), NEW m \in Messages, m # Note, m \notin Said(q)
  PROVE  Neat(Append(q, m))
<1>1. PICK a \in Seq(Messages) : a = Append(q, m)
  BY AppendFacts
<1>2. /\ Len(a) = Len(q) + 1 /\ Len(q) \in Nat /\ a[Len(q) + 1] = m
      /\ \A i \in 1..Len(q) : a[i] = q[i]
  BY <1>1, AppendFacts
<1>3. \A i \in 1..Len(q) : q[i] # m
  BY SaidAt
<1>4. \A i \in 1..Len(a) : i \in 1..Len(q) \/ i = Len(q) + 1
  BY <1>2
<1>5. ASSUME NEW i \in 1..Len(a), NEW j \in 1..Len(a), a[i] = a[j] PROVE i = j
  BY <1>2, <1>5, <1>3, <1>4 DEF Neat
<1>6. ASSUME NEW i \in 1..Len(a), a[i] = Note PROVE i = 1
  BY <1>2, <1>4, <1>6 DEF Neat
<1> QED BY <1>1, <1>5, <1>6 DEF Neat

(* A note goes before the tail of a longer one.                            *)
LEMMA NeatSummed ==
  ASSUME NEW q \in Seq(Messages), Neat(q), NEW n \in Nat, n < Len(q)
  PROVE  Neat(<<Note>> \o KeepLast(q, n))
<1>1. PICK p \in Seq(Messages) : p = KeepLast(q, n)
  BY KeepLastFacts
<1>2. Len(p) = n /\ Len(q) \in Nat /\ Neat(p) /\ \A i \in 1..Len(p) : p[i] = q[Len(q) - n + i]
  <2>1. Len(q) \in Nat /\ Neat(KeepLast(q, n))
    BY NeatCut
  <2>2. Len(p) = n
    BY <1>1, KeepLastFacts
  <2>3. \A i \in 1..Len(p) : p[i] = q[Len(q) - Len(p) + i]
    BY <1>1, KeepLastFacts
  <2> QED BY <1>1, <2>1, <2>2, <2>3
<1>3. \A i \in 1..n : p[i] # Note
  <2>1. SUFFICES ASSUME NEW i \in 1..n, p[i] = Note PROVE FALSE
    OBVIOUS
  <2>2. Len(q) - n + i \in 1..Len(q) /\ Len(q) - n + i # 1 /\ q[Len(q) - n + i] = Note
    BY <1>2, <2>1
  <2> QED BY <2>2 DEF Neat
<1>4. PICK c \in Seq(Messages) : c = <<Note>> \o p
  BY ShortFacts, ConcatFacts
<1>5. /\ Len(c) = 1 + n /\ c[1] = Note
      /\ \A i \in 1..Len(c) : i > 1 => c[i] = p[i - 1]
  <2>1. <<Note>> \in Seq(Messages) /\ Len(<<Note>>) = 1 /\ <<Note>>[1] = Note
    BY ShortFacts
  <2>2. PICK e \in Seq(Messages) : e = <<Note>>
    BY <2>1
  <2>3. Len(c) = Len(e) + Len(p)
        /\ \A i \in 1..Len(c) : c[i] = IF i <= Len(e) THEN e[i] ELSE p[i - Len(e)]
    BY <1>4, <2>2, ConcatFacts
  <2>4. Len(e) = 1 /\ e[1] = Note
    BY <2>1, <2>2
  <2> QED BY <1>2, <2>3, <2>4
<1>6. ASSUME NEW i \in 1..Len(c), NEW j \in 1..Len(c), c[i] = c[j] PROVE i = j
  <2>1. CASE i = 1 \/ j = 1
    BY <1>5, <1>2, <1>3, <1>6, <2>1
  <2>2. CASE i > 1 /\ j > 1
    BY <1>2, <1>5, <1>6, <2>2 DEF Neat
  <2> QED BY <1>2, <1>5, <2>1, <2>2
<1>7. ASSUME NEW i \in 1..Len(c), c[i] = Note PROVE i = 1
  BY <1>2, <1>3, <1>5, <1>7
<1> QED BY <1>1, <1>4, <1>6, <1>7 DEF Neat

Place(m) == IF m = Note THEN 1 ELSE IF m[2] = "user" THEN 2 * m[1] ELSE 2 * m[1] + 1

(* Each message of the first n turns has a place of its own among the      *)
(* numbers up to 2 n + 1.                                                  *)
LEMMA Places ==
  ASSUME NEW n \in Nat
  PROVE  /\ Place(Note) = 1
         /\ \A t \in Turns : t <= n => /\ Place(Question(t)) \in 2..(2 * n + 1)
                                       /\ Place(Reply(t)) \in 2..(2 * n + 1)
         /\ \A t \in Turns : Place(Question(t)) = 2 * t /\ Place(Reply(t)) = 2 * t + 1
<1>1. \A t \in Turns : t \in Nat /\ t >= 1
  BY ConstantFacts
<1>2. \A t \in Turns : Place(Question(t)) = 2 * t /\ Place(Reply(t)) = 2 * t + 1
  BY MessageFacts DEF Place, Question, Reply
<1>3. Place(Note) = 1
  BY DEF Place
<1> QED BY <1>1, <1>2, <1>3

(* So a neat conversation of n turns has no more than 2 n + 1 messages.    *)
LEMMA NeatLength ==
  ASSUME NEW q \in Seq(Messages), Neat(q), NEW n \in Nat,
         \A i \in 1..Len(q) : q[i] = Note \/ \E t \in Turns : t <= n /\ q[i] \in Exchange(t)
  PROVE  Len(q) <= 2 * n + 1
<1>1. Len(q) \in Nat
  OBVIOUS
<1>2. PICK f : f = [i \in 1..Len(q) |-> Place(q[i])]
  OBVIOUS
<1>3. \A i \in 1..Len(q) : Place(q[i]) \in 1..(2 * n + 1)
  <2>1. SUFFICES ASSUME NEW i \in 1..Len(q) PROVE Place(q[i]) \in 1..(2 * n + 1)
    OBVIOUS
  <2>2. CASE q[i] = Note
    BY <2>2, Places
  <2>3. CASE q[i] # Note
    <3>1. PICK t \in Turns : t <= n /\ (q[i] = Question(t) \/ q[i] = Reply(t))
      BY <2>3 DEF Exchange
    <3>2. Place(q[i]) \in 2..(2 * n + 1)
      BY <3>1, Places
    <3> QED BY <3>2
  <2> QED BY <2>2, <2>3
<1>4. \A i, j \in 1..Len(q) : Place(q[i]) = Place(q[j]) => q[i] = q[j]
  <2>1. SUFFICES ASSUME NEW i \in 1..Len(q), NEW j \in 1..Len(q), Place(q[i]) = Place(q[j])
                 PROVE  q[i] = q[j]
    OBVIOUS
  <2>2. \A l \in 1..Len(q) : q[l] # Note =>
           \E t \in Turns : t <= n /\ (q[l] = Question(t) \/ q[l] = Reply(t))
    BY DEF Exchange
  <2>3. \A l \in 1..Len(q) : q[l] # Note => Place(q[l]) # 1
    <3>1. SUFFICES ASSUME NEW l \in 1..Len(q), q[l] # Note PROVE Place(q[l]) # 1
      OBVIOUS
    <3>2. PICK t \in Turns : t <= n /\ (q[l] = Question(t) \/ q[l] = Reply(t))
      BY <2>2, <3>1
    <3>3. Place(q[l]) \in 2..(2 * n + 1)
      BY <3>2, Places
    <3> QED BY <3>3
  <2>4. CASE q[i] = Note \/ q[j] = Note
    BY <2>1, <2>3, <2>4, Places
  <2>5. CASE q[i] # Note /\ q[j] # Note
    <3>1. PICK t \in Turns : t <= n /\ (q[i] = Question(t) \/ q[i] = Reply(t))
      BY <2>2, <2>5
    <3>2. PICK u \in Turns : u <= n /\ (q[j] = Question(u) \/ q[j] = Reply(u))
      BY <2>2, <2>5
    <3>3. t \in Nat /\ u \in Nat
      BY ConstantFacts
    <3>4. /\ q[i] = Question(t) => Place(q[i]) = 2 * t
          /\ q[i] = Reply(t) => Place(q[i]) = 2 * t + 1
          /\ q[j] = Question(u) => Place(q[j]) = 2 * u
          /\ q[j] = Reply(u) => Place(q[j]) = 2 * u + 1
      BY Places
    <3>5. /\ 2 * t # 2 * u + 1 /\ 2 * u # 2 * t + 1
          /\ 2 * t = 2 * u => t = u
          /\ 2 * t + 1 = 2 * u + 1 => t = u
      BY <3>3
    <3> QED BY <2>1, <3>1, <3>2, <3>4, <3>5
  <2> QED BY <2>4, <2>5
<1>5. /\ f \in [1..Len(q) -> 1..(2 * n + 1)]
      /\ \A i, j \in 1..Len(q) : f[i] = f[j] => i = j
  BY <1>2, <1>3, <1>4 DEF Neat
<1>6. /\ IsFiniteSet(1..Len(q)) /\ Cardinality(1..Len(q)) = Len(q)
      /\ IsFiniteSet(1..(2 * n + 1)) /\ Cardinality(1..(2 * n + 1)) = 2 * n + 1
  <2>1. 1 \in Int /\ Len(q) \in Int /\ 2 * n + 1 \in Int
    BY <1>1
  <2>2. /\ IsFiniteSet(1..Len(q)) /\ IsFiniteSet(1..(2 * n + 1))
        /\ Cardinality(1..Len(q)) = IF 1 > Len(q) THEN 0 ELSE Len(q) - 1 + 1
        /\ Cardinality(1..(2 * n + 1)) = IF 1 > 2 * n + 1 THEN 0 ELSE 2 * n + 1 - 1 + 1
    BY <2>1, FS_Interval
  <2> QED BY <1>1, <2>2
<1>7. SUFFICES ASSUME 2 * n + 1 < Len(q) PROVE FALSE
  BY <1>1
<1>8. \E i, j \in 1..Len(q) : i # j /\ f[i] = f[j]
  <2>1. Cardinality(1..(2 * n + 1)) < Cardinality(1..Len(q))
    BY <1>6, <1>7
  <2>2. PICK S, T : S = 1..Len(q) /\ T = 1..(2 * n + 1)
    OBVIOUS
  <2>3. IsFiniteSet(S) /\ IsFiniteSet(T) /\ Cardinality(T) < Cardinality(S) /\ f \in [S -> T]
    BY <1>5, <1>6, <2>1, <2>2
  <2>4. \E x, y \in S : x # y /\ f[x] = f[y]
    BY <2>3, FS_PigeonHole
  <2> QED BY <2>2, <2>4
<1> QED BY <1>5, <1>8

-----------------------------------------------------------------------------
(* What a turn starts from, step by step.                                  *)

(* The session as the turn finds it (track_isolation_window, PreTurnMarks):*)
(* an isolated turn leaves the conversations and has watermarks, a normal  *)
(* one takes the watermarks and what is behind them.                       *)
LEMMA ReadyFacts ==
  ASSUME NEW r \in Session, Tidy(r), NEW t \in Turns, iso \in [Turns -> BOOLEAN]
  PROVE  LET x == Ready(r, t)
         IN  /\ x \in Session /\ Tidy(x) /\ x.found = Lens(x)
             /\ iso[t] => x.trunk = r.trunk /\ x.lane = r.lane /\ x.mark # None
             /\ iso[t] /\ r.mark # None => x.mark = r.mark
             /\ iso[t] /\ r.mark = None => x.mark = Lens(r)
             /\ ~iso[t] => x.mark = None
             /\ ~iso[t] /\ r.mark # None => /\ x.trunk = Cut(r.trunk, r.mark.trunk)
                                            /\ x.lane = Cut(r.lane, r.mark.lane)
             /\ ~iso[t] /\ r.mark = None => x.trunk = r.trunk /\ x.lane = r.lane
<1>1. iso[t] \in BOOLEAN
  OBVIOUS
<1>2. PICK v : v = Windowed(r, iso[t])
  OBVIOUS
<1>3. /\ v \in Session /\ Tidy(v)
      /\ iso[t] => v.trunk = r.trunk /\ v.lane = r.lane
      /\ iso[t] => v.mark = IF r.mark = None THEN Lens(r) ELSE r.mark
      /\ ~iso[t] => v.mark = None
      /\ ~iso[t] /\ r.mark # None => /\ v.trunk = Cut(r.trunk, r.mark.trunk)
                                     /\ v.lane = Cut(r.lane, r.mark.lane)
      /\ ~iso[t] /\ r.mark = None => v = r
  BY <1>1, <1>2, WindowedFacts
<1>4. PICK x : x = [v EXCEPT !.found = Lens(v)]
  OBVIOUS
<1>5. /\ x \in Session /\ Tidy(x) /\ x.trunk = v.trunk /\ x.lane = v.lane
      /\ x.mark = v.mark /\ x.found = Lens(v)
  BY <1>3, <1>4, MarkedFacts
<1>6. Lens(x) = Lens(v)
  BY <1>5 DEF Lens
<1>7. x = Ready(r, t)
  BY <1>2, <1>4 DEF Ready
<1>8. Lens(r) # None
  BY SessionFacts, ConstantFacts
<1> QED BY <1>3, <1>5, <1>6, <1>7, <1>8

\* What maybe_reset_session leaves of x.
Fresh(x, reset) == IF reset THEN Begun(x) ELSE x

(* The reset a turn makes, and the message it puts last.                   *)
LEMMA BeginsAs ==
  ASSUME NEW r \in Session, Tidy(r), NEW t \in Turns, NEW reset \in BOOLEAN,
         iso \in [Turns -> BOOLEAN]
  PROVE  LET x == Ready(r, t)
             b == Fresh(Ready(r, t), reset)
             y == Begins(r, t, reset)
         IN  /\ b \in Session /\ Tidy(b) /\ b.mark = x.mark /\ b.found = x.found
             /\ y \in Session /\ Tidy(y) /\ y.mark = x.mark /\ y.found = x.found
             /\ ~reset => b = x
             /\ reset => (b.trunk = <<>> \/ b.trunk = <<Note>>) /\ Len(b.lane) = 0
             /\ y.trunk = Append(b.trunk, Question(t)) /\ y.lane = b.lane
             /\ Said(b.trunk) \subseteq Said(r.trunk)
<1>1. PICK x : x = Ready(r, t)
  OBVIOUS
<1>2. x \in Session /\ Tidy(x) /\ Said(x.trunk) \subseteq Said(r.trunk)
  BY <1>1, BeginsFacts
<1>3. PICK b : b = Fresh(x, reset)
  OBVIOUS
<1>4. /\ b \in Session /\ Tidy(b) /\ b.mark = x.mark /\ b.found = x.found
      /\ ~reset => b = x
      /\ reset => (b.trunk = <<>> \/ b.trunk = <<Note>>) /\ Len(b.lane) = 0
      /\ Said(b.trunk) \subseteq Said(r.trunk)
  <2>1. CASE reset
    BY <1>3, <2>1, <1>2, BegunFacts DEF Fresh
  <2>2. CASE ~reset
    BY <1>2, <1>3, <2>2 DEF Fresh
  <2> QED BY <2>1, <2>2
<1>5. PICK y : y = Pushed(b, t)
  OBVIOUS
<1>6. y = Begins(r, t, reset)
  BY <1>1, <1>3, <1>5 DEF Begins, Fresh
<1>7. /\ y \in Session /\ Tidy(y) /\ y.mark = b.mark /\ y.found = b.found
      /\ y.trunk = Append(b.trunk, Question(t)) /\ y.lane = b.lane
  BY <1>4, <1>5, PushedFacts
<1> QED BY <1>1, <1>3, <1>4, <1>6, <1>7

\* What compact_context keeps, and what it puts before it.
Shorter(q, summed) == (IF summed THEN <<Note>> ELSE <<>>) \o KeepLast(q, KeepRecent)

(* The compaction a turn makes.                                            *)
LEMMA StartedAs ==
  ASSUME NEW r \in Session, Tidy(r), NEW t \in Turns, NEW reset \in BOOLEAN,
         NEW long \in BOOLEAN, NEW summed \in BOOLEAN, iso \in [Turns -> BOOLEAN],
         long => Len(Begins(r, t, reset).trunk) >= MinMessages
  PROVE  LET y == Begins(r, t, reset)
             w == Started(r, t, reset, long, summed)
         IN  /\ ~long => w = y
             /\ w.lane = y.lane /\ w.mark = y.mark /\ w.found = y.found
             /\ long => w.trunk = Shorter(y.trunk, summed) /\ KeepRecent < Len(y.trunk)
<1>1. PICK y : y = Begins(r, t, reset)
  OBVIOUS
<1>2. y \in Session /\ Tidy(y)
  BY <1>1, BeginsFacts
<1>3. PICK w : w = Started(r, t, reset, long, summed)
  OBVIOUS
<1>4. CASE ~long
  BY <1>1, <1>3, <1>4 DEF Started
<1>5. CASE long
  <2>1. w = Compacted(y, summed) /\ Len(y.trunk) >= MinMessages
    BY <1>1, <1>3, <1>5 DEF Started
  <2>2. w.lane = y.lane /\ w.mark = y.mark /\ w.found = y.found
    BY <1>2, <2>1, CompactedFacts
  <2>3. w.trunk = Shorter(y.trunk, summed)
    BY <1>2, <2>1 DEF Compacted, Shorter, Session
  <2>4. KeepRecent < Len(y.trunk)
    BY <1>2, SessionFacts, <2>1, ConstantFacts
  <2> QED BY <1>1, <1>3, <1>5, <2>2, <2>3, <2>4
<1> QED BY <1>4, <1>5

(* What a compaction leaves stands further to the front than it did.       *)
LEMMA ShorterFacts ==
  ASSUME NEW q \in Seq(Messages), NEW summed \in BOOLEAN, KeepRecent < Len(q)
  PROVE  LET p == Shorter(q, summed)
         IN  /\ p \in Seq(Messages)
             /\ Neat(q) => Neat(p)
             /\ \A j \in (Len(q) - KeepRecent + 1)..Len(q) :
                   \E i \in 1..Len(p) : i <= j /\ p[i] = q[j]
<1>1. Len(q) \in Nat /\ KeepRecent \in Nat
  BY ConstantFacts
<1>2. PICK p : p = KeepLast(q, KeepRecent)
  OBVIOUS
<1>3. p \in Seq(Messages) /\ Len(p) = KeepRecent
  BY <1>1, <1>2, KeepLastFacts
<1>4. \A i \in 1..Len(p) : p[i] = q[Len(q) - KeepRecent + i]
  <2>1. \A i \in 1..Len(p) : p[i] = q[Len(q) - Len(p) + i]
    BY <1>1, <1>2, KeepLastFacts
  <2> QED BY <1>3, <2>1
<1>5. CASE ~summed
  <2>1. Shorter(q, summed) = p
    BY <1>2, <1>3, <1>5 DEF Shorter
  <2>2. \A j \in (Len(q) - KeepRecent + 1)..Len(q) :
           \E i \in 1..Len(p) : i <= j /\ p[i] = q[j]
    <3>1. SUFFICES ASSUME NEW j \in (Len(q) - KeepRecent + 1)..Len(q)
                   PROVE  \E i \in 1..Len(p) : i <= j /\ p[i] = q[j]
      OBVIOUS
    <3>2. PICK i : i = j - (Len(q) - KeepRecent)
      OBVIOUS
    <3>3. i \in 1..KeepRecent /\ i <= j /\ Len(q) - KeepRecent + i = j
      BY <1>1, <3>2
    <3> QED BY <1>3, <1>4, <3>3
  <2>3. Neat(q) => Neat(p)
    BY <1>1, <1>2, NeatCut
  <2> QED BY <1>3, <2>1, <2>2, <2>3
<1>6. CASE summed
  <2>1. PICK c : c = <<Note>> \o p
    OBVIOUS
  <2>2. Shorter(q, summed) = c
    BY <1>2, <1>6, <2>1 DEF Shorter
  <2>3. PICK n \in Seq(Messages) : n = <<Note>>
    BY ShortFacts
  <2>4. /\ c \in Seq(Messages) /\ Len(c) = Len(n) + Len(p)
        /\ \A i \in 1..Len(c) : c[i] = IF i <= Len(n) THEN n[i] ELSE p[i - Len(n)]
    BY <1>3, <2>1, <2>3, ConcatFacts
  <2>5. Len(n) = 1
    BY <2>3
  <2>6. Len(c) = KeepRecent + 1 /\ \A i \in 1..KeepRecent : c[i + 1] = p[i]
    BY <1>1, <1>3, <2>4, <2>5
  <2>7. \A j \in (Len(q) - KeepRecent + 1)..Len(q) :
           \E i \in 1..Len(c) : i <= j /\ c[i] = q[j]
    <3>1. SUFFICES ASSUME NEW j \in (Len(q) - KeepRecent + 1)..Len(q)
                   PROVE  \E i \in 1..Len(c) : i <= j /\ c[i] = q[j]
      OBVIOUS
    <3>2. PICK i : i = j - (Len(q) - KeepRecent)
      OBVIOUS
    <3>3. i \in 1..KeepRecent /\ i + 1 <= j /\ Len(q) - KeepRecent + i = j
      BY <1>1, <3>2
    <3>4. i + 1 \in 1..Len(c)
      BY <1>1, <2>6, <3>3
    <3>5. c[i + 1] = q[j]
      BY <1>3, <1>4, <2>6, <3>3
    <3> QED BY <3>3, <3>4, <3>5
  <2>8. Neat(q) => Neat(c)
    BY <1>1, <1>2, <2>1, NeatSummed
  <2> QED BY <2>2, <2>4, <2>7, <2>8
<1> QED BY <1>5, <1>6

-----------------------------------------------------------------------------
(* Neatness, and how long a conversation may be.                           *)

NeatTrunks == /\ \A s \in Sids : Neat(sess[s].trunk)
              /\ \A k \in Keys : json[k] # None => Neat(json[k].trunk)
              /\ \A w \in queue : Neat(w.file.trunk)
OnlyAdmitted == \A t \in Turns : pc[t] # "new" => t <= scene.turns

(* What a turn says is nowhere before it was heard.                        *)
LEMMA Unsaid ==
  ASSUME NEW t \in Turns, pc[t] \notin Heard
  PROVE  Exchange(t) \cap Kept = {} /\ Exchange(t) \cap Accepted = {}
<1>1. \A u \in HeardTurns : u \in Turns /\ u # t
  BY DEF HeardTurns
<1>2. \A u \in HeardTurns : Exchange(t) \cap Exchange(u) = {}
  BY <1>1, MessageFacts
<1>3. Accepted \subseteq Kept
  BY DEF Accepted, Kept
<1> QED BY <1>2, <1>3 DEF Kept

(* The conversation a turn starts is as neat as it was.                    *)
LEMMA NeatStarted ==
  ASSUME NEW r \in Session, Tidy(r), NEW t \in Turns, NEW reset \in BOOLEAN,
         NEW long \in BOOLEAN, NEW summed \in BOOLEAN, iso \in [Turns -> BOOLEAN],
         long => Len(Begins(r, t, reset).trunk) >= MinMessages,
         Neat(r.trunk), Question(t) \notin Said(r.trunk)
  PROVE  Neat(Started(r, t, reset, long, summed).trunk)
<1>1. PICK x, b, y, w : /\ x = Ready(r, t) /\ b = Fresh(Ready(r, t), reset)
                        /\ y = Begins(r, t, reset) /\ w = Started(r, t, reset, long, summed)
  OBVIOUS
<1>2. /\ x \in Session /\ Tidy(x)
      /\ x.trunk = r.trunk \/ (r.mark # None /\ x.trunk = Cut(r.trunk, r.mark.trunk))
  BY <1>1, ReadyFacts
<1>3. /\ b \in Session /\ y \in Session
      /\ ~reset => b = x
      /\ reset => (b.trunk = <<>> \/ b.trunk = <<Note>>) /\ Len(b.lane) = 0
      /\ y.trunk = Append(b.trunk, Question(t)) /\ Said(b.trunk) \subseteq Said(r.trunk)
  <2>1. ~reset => b = x
    BY <1>1, BeginsAs
  <2>2. reset => (b.trunk = <<>> \/ b.trunk = <<Note>>) /\ Len(b.lane) = 0
    BY ZenonT(40), <1>1, BeginsAs
  <2>3. b \in Session /\ y \in Session
    BY <1>1, BeginsAs
  <2>4. Said(b.trunk) \subseteq Said(r.trunk)
    BY <1>1, BeginsAs
  <2>5. y.trunk = Append(b.trunk, Question(t))
    <3>1. Begins(r, t, reset).trunk = Append(Fresh(Ready(r, t), reset).trunk, Question(t))
      BY BeginsAs
    <3> QED BY <1>1, <3>1
  <2> QED BY <2>1, <2>2, <2>3, <2>4, <2>5
<1>4. Neat(x.trunk)
  BY SessionFacts, <1>2, NeatCut
<1>5. Neat(b.trunk)
  BY <1>3, <1>4, NeatShort
<1>6. Neat(y.trunk)
  BY <1>3, SessionFacts, MessageFacts, <1>5, NeatAppend
<1>7. y.trunk \in Seq(Messages)
  BY <1>3, SessionFacts
<1>8. (~long => w = y) /\ (long => w.trunk = Shorter(y.trunk, summed) /\ KeepRecent < Len(y.trunk))
  BY <1>1, StartedAs
<1>9. Neat(w.trunk)
  BY <1>6, <1>7, <1>8, ShorterFacts
<1> QED BY <1>1, <1>9

(* Every conversation in memory stays neat.                                *)
LEMMA NextNeatSession ==
  ASSUME ConvTyped, Locks, Course, Messaging, NeatTrunks, Next, NEW s \in Sids
  PROVE  Neat(sess'[s].trunk)
<1>1. /\ sess[s] \in Session /\ Tidy(sess[s]) /\ Neat(sess[s].trunk)
      /\ sess[s].trunk \in Seq(Messages) /\ sess[s].lock \in Turns \cup {None}
  BY SessionFacts DEF ConvTyped, StoreTyped, NeatTrunks
<1>2. pc \in [Turns -> States] /\ iso \in [Turns -> BOOLEAN] /\ isolated \in BOOLEAN
  BY DEF ConvTyped, TurnsTyped, RestTyped
<1>3. /\ Unlocked(s) => Said(sess[s].trunk) \subseteq Accepted
      /\ Said(Settled(s)) \subseteq Accepted
  BY SettledFacts DEF Messaging, InSessions
<1>4. PICK r : r = sess[s]
  OBVIOUS
<1>5. r \in Session /\ Tidy(r) /\ Neat(r.trunk) /\ r.trunk \in Seq(Messages)
  BY <1>1, <1>4
<1>6. ASSUME Untouched(s) \/ Dropped(s) \/ Cleaned(s) PROVE Neat(sess'[s].trunk)
  <2>1. CASE Untouched(s)
    BY <1>1, <2>1 DEF Untouched
  <2>2. CASE Dropped(s)
    BY <2>2, NeatShort, NewSessionFacts DEF Dropped
  <2>3. CASE Cleaned(s)
    BY <1>1, <2>3, SetDirtyFacts DEF Cleaned
  <2> QED BY <1>6, <2>1, <2>2, <2>3
<1>7. ASSUME Emptied(s) PROVE Neat(sess'[s].trunk)
  <2>1. PICK b : b = Begun(r)
    OBVIOUS
  <2>2. b \in Session /\ Tidy(b) /\ (b.trunk = <<>> \/ b.trunk = <<Note>>)
    BY <1>5, <2>1, BegunFacts
  <2>3. sess'[s].trunk = b.trunk
    BY <1>4, <1>7, <2>1, <2>2, SetDirtyFacts DEF Emptied
  <2> QED BY <2>2, <2>3, NeatShort
<1>8. ASSUME Read(s) PROVE Neat(sess'[s].trunk)
  <2>1. PICK k \in Keys : json[k] # None /\ sess'[s] = Loaded(json[k])
    BY <1>8 DEF Read
  <2>2. json[k] \in Files /\ Tidy(json[k]) /\ Neat(json[k].trunk)
    BY <2>1 DEF ConvTyped, FilesTyped, TidyFiles, NeatTrunks
  <2> QED BY <2>1, <2>2, LoadedFacts
<1>9. ASSUME NEW t \in Turns, ref[t] = s, StartsAt(t, s) PROVE Neat(sess'[s].trunk)
  <2>1. PICK reset \in BOOLEAN, long \in BOOLEAN, summed \in BOOLEAN :
            /\ long => Len(Begins(sess[s], t, reset).trunk) >= MinMessages
            /\ sess'[s] = Started(sess[s], t, reset, long, summed)
    BY <1>9 DEF StartsAt
  <2>2. pc[t] \notin Heard /\ Unlocked(s)
    BY <1>9 DEF StartsAt, Heard
  <2>3. Question(t) \notin Said(r.trunk)
    BY <1>3, <1>4, <2>2, Unsaid DEF Exchange
  <2>4. (long => Len(Begins(r, t, reset).trunk) >= MinMessages)
    BY <1>4, <2>1
  <2>5. Neat(Started(r, t, reset, long, summed).trunk)
    BY <1>2, <1>5, <2>3, <2>4, NeatStarted
  <2> QED BY <1>4, <2>1, <2>5
<1>10. ASSUME NEW t \in Turns, ref[t] = s, pc[t] = "running"
       PROVE  /\ WithMine(r, t) /\ sess[s].lock = t
              /\ Settled(s) = Cut(r.trunk, Len(r.trunk) - 1) /\ Len(r.trunk) \in Nat
              /\ Said(r.trunk) \subseteq Accepted \cup {Question(t)}
  <2>1. sess[s].lock = t /\ WithMine(r, t)
    BY <1>4, <1>10 DEF Locks, Holding
  <2>2. Settled(s) = Cut(r.trunk, Len(r.trunk) - 1)
    BY <1>4, <1>10, <2>1, ConstantFacts DEF Settled
  <2>3. Said(r.trunk) = Said(Cut(r.trunk, Len(r.trunk) - 1)) \cup ({Question(t)} \ {Note})
    BY <1>5, <2>1, MessageFacts, HeadFacts DEF WithMine
  <2> QED BY <1>3, <1>5, <2>1, <2>2, <2>3
<1>11. ASSUME NEW t \in Turns, ref[t] = s, FailsAt(t, s) PROVE Neat(sess'[s].trunk)
  <2>1. WithMine(r, t) /\ Len(r.trunk) \in Nat
    BY <1>10, <1>11 DEF FailsAt
  <2>2. PICK w : w = RolledBack(r)
    OBVIOUS
  <2>3. w \in Session /\ Tidy(w) /\ w.trunk = Cut(r.trunk, Len(r.trunk) - 1)
    BY <1>5, <2>1, <2>2, RolledBackFacts DEF WithMine
  <2>4. sess'[s].trunk = w.trunk
    BY <1>4, <1>11, <2>2, <2>3, ReleasedFacts DEF FailsAt
  <2>5. Len(r.trunk) - 1 \in Nat
    BY <2>1 DEF WithMine
  <2> QED BY <1>5, <2>3, <2>4, <2>5, NeatCut
<1>12. ASSUME NEW t \in Turns, ref[t] = s, AnswersAt(t, s) PROVE Neat(sess'[s].trunk)
  <2>1. /\ WithMine(r, t) /\ Len(r.trunk) \in Nat
        /\ Said(r.trunk) \subseteq Accepted \cup {Question(t)} /\ pc[t] \notin Heard
    BY <1>10, <1>12 DEF AnswersAt, Heard
  <2>2. PICK shed \in BOOLEAN : shed = (iso[t] \/ isolated)
    OBVIOUS
  <2>3. PICK q \in BOOLEAN : /\ q => r.fallbacks < MaxFallbacks
                             /\ sess'[s] = Answers(r, t, shed, q)
    BY <1>4, <1>12, <2>2 DEF AnswersAt
  <2>4. PICK told, w : told = Told(r, t, q) /\ w = sess'[s]
    OBVIOUS
  <2>5. w.trunk = told.trunk
    BY <1>5, <2>1, <2>3, <2>4, AnswersFacts
  <2>6. /\ ~q => told.trunk = Append(r.trunk, Reply(t))
        /\ q => told.trunk = Cut(r.trunk, Len(r.trunk) - 1)
    BY <1>5, <2>1, <2>3, <2>4, ToldFacts
  <2>7. Reply(t) \notin Said(r.trunk) /\ Reply(t) \in Messages /\ Reply(t) # Note
    BY <2>1, Unsaid, MessageFacts
  <2>8. Len(r.trunk) - 1 \in Nat
    BY <2>1 DEF WithMine
  <2>9. Neat(told.trunk)
    BY <1>5, <2>6, <2>7, <2>8, NeatAppend, NeatCut
  <2> QED BY <2>4, <2>5, <2>9
<1>13. ASSUME NEW t \in Turns, ref[t] = s, LogsAt(t, s) PROVE Neat(sess'[s].trunk)
  BY SMTT(40), <1>2, ConversationsAssumption, <1>4, <1>13, <1>5, TrimmedFacts, NeatCut DEF ConvTyped,
     RestTyped, LogsAt
<1>14. ASSUME NEW t \in Turns, ref[t] = s, LeavesAt(t, s) PROVE Neat(sess'[s].trunk)
  <2>1. PICK dirty \in BOOLEAN : sess'[s] = Released([r EXCEPT !.dirty = dirty])
    BY <1>4, <1>14 DEF LeavesAt
  <2>2. PICK w : w = [r EXCEPT !.dirty = dirty]
    OBVIOUS
  <2>3. w \in Session /\ Tidy(w) /\ w.trunk = r.trunk
    BY <1>5, <2>2, SetDirtyFacts
  <2>4. sess'[s].trunk = r.trunk
    BY <2>1, <2>2, <2>3, ReleasedFacts
  <2> QED BY <1>5, <2>4
<1>15. SessionMove(s)
  BY SessionMoves
<1> QED BY <1>6, <1>7, <1>8, <1>9, <1>11, <1>12, <1>13, <1>14, <1>15 DEF SessionMove, TurnMove

(* And so do the session files and the writes of them.                     *)
LEMMA NextNeat ==
  ASSUME ConvTyped, Locks, Course, Messaging, NeatTrunks, Next
  PROVE  NeatTrunks'
<1>1. \A s \in Sids : Neat(sess'[s].trunk)
  BY NextNeatSession
<1>2. FilesMove
  BY FilesMoves
<1>3. \A k \in Keys : json'[k] # None => Neat(json'[k].trunk)
  BY <1>2 DEF FilesMove, NeatTrunks
<1>4. \A w \in queue' : Neat(w.file.trunk)
  <2>1. SUFFICES ASSUME NEW w \in queue' PROVE Neat(w.file.trunk)
    OBVIOUS
  <2>2. CASE w \in queue
    BY <2>2 DEF NeatTrunks
  <2>3. CASE w \notin queue
    <3>1. PICK k \in Live : w = WriteOf(k, live[k])
      BY <1>2, <2>1, <2>3 DEF FilesMove
    <3>2. live[k] \in Sids
      BY DEF ConvTyped, StoreTyped, Live
    <3>3. w.file.trunk = sess[live[k]].trunk
      BY <3>1 DEF WriteOf, FileOf
    <3> QED BY <3>2, <3>3 DEF NeatTrunks
  <2> QED BY <2>2, <2>3
<1> QED BY <1>1, <1>3, <1>4 DEF NeatTrunks

(* Only turns up to the bound are admitted.                                *)
LEMMA Admits ==
  ASSUME ConvTyped, Next, NEW u \in Turns, pc[u] = "new", pc'[u] # "new"
  PROVE  u <= scene.turns /\ stage = "up" /\ iso'[u] = isolated
<1>1. pc \in [Turns -> States] /\ iso \in [Turns -> BOOLEAN]
  BY DEF ConvTyped, TurnsTyped
<1>2. ASSUME NEW t \in Turns, NEW k \in Keys, Admit(t, k)
      PROVE  u <= scene.turns /\ stage = "up" /\ iso'[u] = isolated
  BY <1>2, <1>1 DEF Admit
<1>3. ASSUME NEW t \in Turns, NEW x, pc[t] # "new", pc' = [pc EXCEPT ![t] = x] PROVE FALSE
  BY <1>1, <1>3
<1>4. \A t \in Turns : ~TurnStep(t)
  <2>1. SUFFICES ASSUME NEW t \in Turns, TurnStep(t) PROVE FALSE
    OBVIOUS
  <2>2. CASE OpenLive(t)
    BY <1>3, <2>2 DEF OpenLive
  <2>3. CASE OpenNew(t)
    BY <1>3, <2>3 DEF OpenNew
  <2>4. CASE Start(t)
    BY <1>3, <2>4 DEF Start
  <2>5. CASE Fail(t)
    BY <1>3, <2>5 DEF Fail, Leave
  <2>6. CASE GiveUp(t)
    BY <1>3, <2>6 DEF GiveUp
  <2>7. CASE Answer(t)
    BY <1>3, <2>7 DEF Answer
  <2>8. CASE LogReply(t)
    BY <1>3, <2>8 DEF LogReply
  <2>9. CASE Finish(t)
    BY <1>3, <2>9 DEF Finish, Leave
  <2>10. CASE PersistTurn(t)
    BY <1>3, <2>10 DEF PersistTurn
  <2>11. CASE Abandon(t)
    BY <1>3, <2>11 DEF Abandon, Leave
  <2> QED BY <2>1, <2>2, <2>3, <2>4, <2>5, <2>6, <2>7, <2>8, <2>9, <2>10, <2>11 DEF TurnStep
<1>5. pc' # pc
  OBVIOUS
<1>6. ~Crash /\ ~Exit
  BY DEF Crash, Exit, Die
<1>7. \A w \in queue : ~WriteFile(w)
  BY <1>5 DEF WriteFile, turnVars
<1>8. \A k \in Keys : ~Reset(k) /\ ~PersistReset(k)
  BY <1>5 DEF Reset, PersistReset, turnVars
<1>9. \A expired \in SUBSET Live : ~SweepCollect(expired)
  BY <1>5 DEF SweepCollect, turnVars
<1>10. ~Flip /\ ~SweepRemove /\ ~Stop /\ ~ArchiveSessions /\ ~CleanUpWal /\ ~Restart
  BY <1>5 DEF Flip, SweepRemove, Stop, ArchiveSessions, CleanUpWal, Restart, turnVars
<1> QED BY <1>2, <1>4, <1>6, <1>7, <1>8, <1>9, <1>10 DEF Next

(* So whoever was admitted is of the first turns.                          *)
LEMMA NextOnlyAdmitted ==
  ASSUME ConvTyped, OnlyAdmitted, Next
  PROVE  OnlyAdmitted'
<1>1. scene' = scene
  BY DEF Next
<1> QED BY <1>1, Admits DEF OnlyAdmitted

(* No conversation is longer than what was admitted has to say.            *)
LEMMA TrunkLength ==
  ASSUME ConvTyped, Locks, Messaging, NeatTrunks, OnlyAdmitted, NEW s \in Sids
  PROVE  Len(sess[s].trunk) <= 2 * scene.turns + 1
<1>1. PICK q : q = sess[s].trunk
  OBVIOUS
<1>2. q \in Seq(Messages) /\ Neat(q)
  BY <1>1, SessionFacts DEF ConvTyped, StoreTyped, NeatTrunks
<1>3. PICK n : n = scene.turns
  OBVIOUS
<1>4. n \in Nat
  BY <1>3, ConversationsAssumption DEF ConvTyped, RestTyped
<1>5. Said(q) \subseteq Accepted \cup {Question(t) : t \in {u \in Turns : pc[u] = "running"}}
  <2>1. sess[s].lock \in Turns \cup {None} /\ sess[s] \in Session
    BY SessionFacts DEF ConvTyped, StoreTyped
  <2>2. CASE sess[s].lock # None /\ pc[sess[s].lock] = "running"
    <3>1. PICK t \in Turns : t = sess[s].lock
      BY <2>1, <2>2
    <3>2. ref[t] = s /\ WithMine(sess[s], t) /\ pc[t] = "running"
      BY <2>2, <3>1 DEF Locks
    <3>3. Said(q) = Said(Cut(q, Len(q) - 1)) \cup ({Question(t)} \ {Note})
      BY <1>1, <1>2, <3>2, MessageFacts, HeadFacts DEF WithMine
    <3>4. Said(Cut(q, Len(q) - 1)) \subseteq Accepted
      BY <1>1, <2>2 DEF Messaging, InSessions, Settled
    <3> QED BY <3>2, <3>3, <3>4
  <2>3. CASE ~(sess[s].lock # None /\ pc[sess[s].lock] = "running")
    BY <1>1, <2>3 DEF Messaging, InSessions, Settled
  <2> QED BY <2>2, <2>3
<1>6. \A i \in 1..Len(q) : q[i] = Note \/ \E t \in Turns : t <= n /\ q[i] \in Exchange(t)
  <2>1. SUFFICES ASSUME NEW i \in 1..Len(q), q[i] # Note
                 PROVE  \E t \in Turns : t <= n /\ q[i] \in Exchange(t)
    OBVIOUS
  <2>2. q[i] \in Said(q)
    BY <1>2, <2>1, SaidAt
  <2>3. \E t \in Turns : pc[t] # "new" /\ q[i] \in Exchange(t)
    BY <1>5, <2>2 DEF Accepted, HeardTurns, Heard, Exchange
  <2> QED BY <1>3, <2>3 DEF OnlyAdmitted
<1> QED BY <1>1, <1>2, <1>3, <1>4, <1>6, NeatLength

-----------------------------------------------------------------------------
(* What conditions say of the past: no step makes one true again.          *)

Untroubled == spent.stop = 0 /\ (NeverCrashed \/ NothingDropped)
Windows == NeverCrashed /\ spent.stop = 0 /\ HeadKept

(* Only Spend changes what is used of a bound.                             *)
LEMMA Spending ==
  ASSUME RestTyped, NEW what \in BoundNames, Spend(what)
  PROVE  /\ \A x \in BoundNames : spent[x] <= spent'[x]
         /\ spent'[what] > 0 /\ \A x \in BoundNames \ {what} : spent'[x] = spent[x]
<1>1. spent \in [BoundNames -> Nat] /\ spent' = [spent EXCEPT ![what] = @ + 1]
  BY DEF RestTyped, Spend
<1>2. spent'[what] = spent[what] + 1 /\ \A x \in BoundNames \ {what} : spent'[x] = spent[x]
  BY <1>1
<1>3. \A x \in BoundNames : spent[x] \in Nat
  BY <1>1
<1> QED BY <1>2, <1>3

(* A turn's steps spend nothing.                                           *)
LEMMA TurnsSpendNothing ==
  ASSUME NEW t \in Turns, TurnStep(t)
  PROVE  spent' = spent /\ stage' = stage /\ background' = background
<1>1. CASE OpenLive(t)
  BY <1>1 DEF OpenLive, background
<1>2. CASE OpenNew(t)
  BY <1>2 DEF OpenNew, background
<1>3. CASE Start(t)
  BY <1>3 DEF Start, background
<1>4. CASE Fail(t)
  BY <1>4 DEF Fail, background
<1>5. CASE GiveUp(t)
  BY <1>5 DEF GiveUp, background
<1>6. CASE Answer(t)
  BY <1>6 DEF Answer, background
<1>7. CASE LogReply(t)
  BY <1>7 DEF LogReply, background
<1>8. CASE Finish(t)
  BY <1>8 DEF Finish, background
<1>9. CASE PersistTurn(t)
  BY <1>9 DEF PersistTurn, background
<1>10. CASE Abandon(t)
  BY <1>10 DEF Abandon, background
<1> QED BY <1>1, <1>2, <1>3, <1>4, <1>5, <1>6, <1>7, <1>8, <1>9, <1>10 DEF TurnStep

(* What is used of a bound only grows.                                     *)
LEMMA SpentOnce ==
  ASSUME Next
  PROVE  spent' = spent \/ \E what \in BoundNames : Spend(what)
<1>1. CASE \E t \in Turns, k \in Keys : Admit(t, k)
  BY <1>1 DEF Admit
<1>2. CASE \E t \in Turns : TurnStep(t)
  BY <1>2, TurnsSpendNothing
<1>3. CASE \E w \in queue : WriteFile(w)
  BY <1>3 DEF WriteFile
<1>4. CASE Flip
  BY <1>4 DEF Flip, BoundNames
<1>5. CASE \E expired \in SUBSET Live : SweepCollect(expired)
  BY <1>5 DEF SweepCollect, BoundNames
<1>6. CASE SweepRemove
  BY <1>6 DEF SweepRemove
<1>7. CASE \E k \in Keys : Reset(k) \/ PersistReset(k)
  BY <1>7 DEF Reset, PersistReset, BoundNames
<1>8. CASE Crash \/ Stop
  BY <1>8 DEF Crash, Stop, BoundNames
<1>9. CASE ArchiveSessions \/ CleanUpWal \/ Exit
  BY <1>9 DEF ArchiveSessions, CleanUpWal, Exit
<1>10. CASE Restart
  BY <1>10 DEF Restart, BoundNames
<1> QED BY <1>1, <1>2, <1>3, <1>4, <1>5, <1>6, <1>7, <1>8, <1>9, <1>10 DEF Next

(* So what holds of the past held before.                                  *)
LEMMA Back ==
  ASSUME ConvTyped, Next
  PROVE  /\ scene' = scene /\ scene \in Scenes
         /\ NeverCrashed' => NeverCrashed
         /\ spent'.stop = 0 => spent.stop = 0
         /\ spent'.expire = 0 => spent.expire = 0
         /\ NeverCut' => NeverCut
         /\ NeverForgotten' => NeverForgotten
         /\ CapIsFar' = CapIsFar
         /\ NothingDropped' => NothingDropped
         /\ HeadKept' => HeadKept
         /\ Untroubled' => Untroubled
         /\ Windows' => Windows
         /\ spent.stop > 0 => spent'.stop > 0
         /\ spent.crash > 0 => spent'.crash > 0
<1>1. PICK a, b, c, d, e, f, g, h :
         /\ a = spent["crash"] /\ b = spent["stop"] /\ c = spent["expire"] /\ d = spent["reset"]
         /\ e = spent'["crash"] /\ f = spent'["stop"] /\ g = spent'["expire"] /\ h = spent'["reset"]
  OBVIOUS
<1>2. /\ a \in Nat /\ b \in Nat /\ c \in Nat /\ d \in Nat
      /\ a <= e /\ b <= f /\ c <= g /\ d <= h
      /\ e \in Nat /\ f \in Nat /\ g \in Nat /\ h \in Nat
  <2>1. spent \in [BoundNames -> Nat]
    BY DEF ConvTyped, RestTyped
  <2>2. \A x \in BoundNames : spent[x] \in Nat /\ (spent'[x] = spent[x] \/ spent'[x] = spent[x] + 1)
    BY SpentOnce, <2>1 DEF Spend
  <2> QED BY <1>1, <2>2 DEF BoundNames
<1>3. scene' = scene /\ scene \in Scenes
  BY DEF Next, ConvTyped, RestTyped
<1>4. /\ NeverCrashed' => NeverCrashed
      /\ spent'.stop = 0 => spent.stop = 0
      /\ spent'.expire = 0 => spent.expire = 0
      /\ spent'.reset = 0 => spent.reset = 0
      /\ spent.stop > 0 => spent'.stop > 0
      /\ spent.crash > 0 => spent'.crash > 0
  BY <1>1, <1>2 DEF NeverCrashed
<1>5. CapIsFar' = CapIsFar
  BY <1>3 DEF CapIsFar
<1> QED
  BY <1>3, <1>4, <1>5
  DEF NeverCut, NeverForgotten, NothingDropped, HeadKept, Untroubled, Windows

-----------------------------------------------------------------------------
(* Whose sessions are whose, and what a shutdown waits for.                *)

\* Every identity has a session of its own.
OwnSessions == \A j, k \in Keys : live[j] = live[k] /\ live[j] # None => j = k

\* Where no session is evicted and none expires a turn's session is the
\* identity's.
SameSession == NeverForgotten =>
    /\ sweep = {}
    /\ \A t \in Turns : ref[t] # None => live[keyOf[t]] = ref[t]

\* How a day ends: what the shutdown waited for, and what it removed.
Ends ==
    /\ stage \notin {"up", "down"} => spent.stop > 0
    /\ stage = "down" => spent.crash > 0 \/ spent.stop > 0
    /\ stage \in {"archived", "exiting"} /\ ~scene.slow => \A t \in Turns : pc[t] \notin InFlight
    /\ stage \in {"exiting", "down"} /\ ~scene.slow /\ NeverCrashed =>
          \A k \in Keys : wal[k] = <<>> /\ ckpt[k] = 0

Placed == OwnSessions /\ SameSession /\ Ends

\* What most steps leave alone: the sessions identities have, and a turn its.
Settling == /\ live' = live
            /\ \A t \in Turns : /\ ref'[t] \in {ref[t], None}
                                /\ ref[t] # None => keyOf'[t] = keyOf[t]
Died == /\ stage' = "down" /\ live' = [k \in Keys |-> None] /\ ref' = [t \in Turns |-> None]
        /\ json' = json /\ wal' = wal /\ ckpt' = ckpt /\ archived' = archived

(* The steps that change who has which session.                            *)
LEMMA LiveMoves ==
  ASSUME ConvTyped, Locks, Next
  PROVE  \/ Settling \/ SweepRemove \/ Died \/ Restart
         \/ \E t \in Turns : OpenLive(t) \/ OpenNew(t)
<1>1. ref \in [Turns -> Sids \cup {None}] /\ pc \in [Turns -> States] /\ keyOf \in [Turns -> Keys \cup {None}]
  BY DEF ConvTyped, TurnsTyped
<1>2. CASE \E t \in Turns, k \in Keys : Admit(t, k)
  <2>1. PICK t \in Turns, k \in Keys : Admit(t, k)
    BY <1>2
  <2>2. live' = live /\ ref' = ref /\ keyOf' = [keyOf EXCEPT ![t] = k] /\ pc[t] = "new"
    BY <2>1 DEF Admit, mind
  <2>3. ref[t] = None
    BY <2>2 DEF Locks, Holding
  <2> QED BY <1>1, <2>2, <2>3 DEF Settling
<1>3. ASSUME NEW t \in Turns, TurnStep(t), ~OpenLive(t), ~OpenNew(t) PROVE Settling
  <2>1. live' = live /\ keyOf' = keyOf => (ref' = ref \/ ref' = [ref EXCEPT ![t] = None] => Settling)
    BY <1>1 DEF Settling
  <2>2. CASE Start(t)
    BY <2>1, <2>2 DEF Start
  <2>3. CASE Fail(t)
    BY <2>1, <2>3 DEF Fail, Leave
  <2>4. CASE GiveUp(t)
    BY <2>1, <2>4 DEF GiveUp
  <2>5. CASE Answer(t)
    BY <2>1, <2>5 DEF Answer
  <2>6. CASE LogReply(t)
    BY <2>1, <2>6 DEF LogReply
  <2>7. CASE Finish(t)
    BY <2>1, <2>7 DEF Finish, Leave
  <2>8. CASE PersistTurn(t)
    BY <2>1, <2>8 DEF PersistTurn
  <2>9. CASE Abandon(t)
    BY <2>1, <2>9 DEF Abandon, Leave, mind
  <2> QED BY <1>3, <2>2, <2>3, <2>4, <2>5, <2>6, <2>7, <2>8, <2>9 DEF TurnStep
<1>4. live' = live /\ ref' = ref /\ keyOf' = keyOf => Settling
  BY DEF Settling
<1>5. CASE \E w \in queue : WriteFile(w)
  BY <1>4, <1>5 DEF WriteFile, turnVars, mind
<1>6. CASE Flip \/ \E expired \in SUBSET Live : SweepCollect(expired)
  BY <1>4, <1>6 DEF Flip, SweepCollect, turnVars, mind
<1>7. CASE \E k \in Keys : Reset(k) \/ PersistReset(k)
  BY <1>4, <1>7 DEF Reset, PersistReset, turnVars
<1>8. CASE Crash \/ Exit
  BY <1>8 DEF Crash, Exit, Die, Died, archives
<1>9. CASE Stop
  BY <1>4, <1>9 DEF Stop, turnVars, mind
<1>10. CASE ArchiveSessions
  BY <1>4, <1>10 DEF ArchiveSessions, turnVars
<1>11. CASE CleanUpWal
  BY <1>4, <1>11 DEF CleanUpWal, turnVars, mind
<1> QED BY <1>2, <1>3, <1>5, <1>6, <1>7, <1>8, <1>9, <1>10, <1>11 DEF Next

(* No two identities come to share a session.                              *)
LEMMA NextOwn ==
  ASSUME ConvTyped, Locks, Course, OwnSessions, Next
  PROVE  OwnSessions'
<1>1. live \in [Keys -> Sids \cup {None}]
  BY DEF ConvTyped, StoreTyped
<1>2. CASE Settling
  BY <1>2 DEF Settling, OwnSessions
<1>3. CASE SweepRemove
  BY <1>3 DEF SweepRemove, OwnSessions
<1>4. CASE Died
  BY <1>4 DEF Died, OwnSessions
<1>5. CASE Restart
  <2>1. PICK loaded \in SUBSET {k \in Keys : json[k] # None} : Load(loaded)
    BY <1>5 DEF Restart
  <2>2. PICK arc : arc = Arc(loaded)
    OBVIOUS
  <2>3. live' = [k \in Keys |-> IF k \in loaded THEN arc[k] ELSE None]
    BY <2>1, <2>2 DEF Load, Arc
  <2>4. \A j, k \in loaded : arc[j] = arc[k] => j = k
    BY <2>2, ArcFacts
  <2> QED BY <2>3, <2>4 DEF OwnSessions
<1>6. ASSUME NEW t \in Turns, OpenLive(t) PROVE OwnSessions'
  BY <1>6 DEF OpenLive, mind, OwnSessions
<1>7. ASSUME NEW t \in Turns, OpenNew(t) PROVE OwnSessions'
  <2>1. ref[t] = None /\ keyOf[t] \in Keys /\ live[keyOf[t]] = None
    BY <1>7 DEF OpenNew, Locks, Holding, Course
  <2>2. Idle(FreshSid)
    BY <2>1, FreshFacts
  <2>3. \A j \in Keys : live'[j] = FreshSid \/ live'[j] \in {None, live[j]}
    BY <1>7 DEF OpenNew
  <2>4. \A j \in Keys : live'[j] = FreshSid => j = keyOf[t] \/ live[j] = FreshSid \/ FreshSid = None
    BY <1>7 DEF OpenNew
  <2>5. FreshSid # None
    BY <2>1, FreshFacts, ConstantFacts
  <2> QED BY <2>2, <2>3, <2>4, <2>5 DEF OwnSessions, Idle
<1> QED BY <1>2, <1>3, <1>4, <1>5, <1>6, <1>7, LiveMoves

(* Where there is room for every session, none is evicted.                 *)
LEMMA NeverFull ==
  ASSUME ConvTyped, NEW k \in Keys, live[k] = None, scene.sessions >= Cardinality(Keys)
  PROVE  ~(Cardinality(Live) >= scene.sessions)
<1>1. /\ IsFiniteSet(Keys) /\ Live \subseteq Keys /\ k \notin Live
  BY ConstantFacts DEF Live
<1>2. Live \subseteq Keys \ {k} /\ IsFiniteSet(Keys \ {k}) /\ Cardinality(Keys \ {k}) = Cardinality(Keys) - 1
  BY <1>1, FS_RemoveElement
<1>3. Cardinality(Live) <= Cardinality(Keys \ {k})
  BY <1>2, FS_Subset
<1>4. Cardinality(Live) \in Nat /\ Cardinality(Keys) \in Nat
  BY <1>1, <1>2, FS_Subset, FS_CardinalityType
<1>5. scene.sessions \in Nat
  BY ConversationsAssumption DEF ConvTyped, RestTyped
<1> QED BY <1>2, <1>3, <1>4, <1>5

(* A turn's session stays its identity's.                                  *)
LEMMA NextSame ==
  ASSUME ConvTyped, Locks, Course, SameSession, Next
  PROVE  SameSession'
<1>1. SUFFICES ASSUME NeverForgotten'
               PROVE  /\ sweep' = {}
                      /\ \A t \in Turns : ref'[t] # None => live'[keyOf'[t]] = ref'[t]
  BY DEF SameSession
<1>2. /\ sweep = {} /\ scene' = scene /\ spent'.expire = 0
      /\ \A t \in Turns : ref[t] # None => live[keyOf[t]] = ref[t]
      /\ scene.sessions >= Cardinality(Keys)
  BY <1>1, Back DEF SameSession, NeverForgotten
<1>3. live \in [Keys -> Sids \cup {None}] /\ ref \in [Turns -> Sids \cup {None}]
  BY DEF ConvTyped, StoreTyped, TurnsTyped
<1>4. ~SweepRemove
  BY <1>2 DEF SweepRemove
<1>5. sweep' = {}
  <2>1. CASE \E t \in Turns, k \in Keys : Admit(t, k)
    BY <1>2, <2>1 DEF Admit, background
  <2>2. CASE \E t \in Turns : TurnStep(t)
    BY <1>2, <2>2, TurnsSpendNothing DEF background
  <2>3. CASE \E w \in queue : WriteFile(w)
    BY <1>2, <2>3 DEF WriteFile, background
  <2>4. ~(\E expired \in SUBSET Live : SweepCollect(expired))
    BY Spending, <1>2 DEF ConvTyped, BoundNames, SweepCollect
  <2>5. CASE Flip
    BY <1>2, <2>5 DEF Flip, background
  <2>6. CASE \E k \in Keys : Reset(k) \/ PersistReset(k)
    BY <1>2, <2>6 DEF Reset, PersistReset
  <2>7. CASE Crash \/ Exit
    BY <2>7 DEF Crash, Exit, Die
  <2>8. CASE Stop \/ ArchiveSessions \/ CleanUpWal \/ Restart
    BY <1>2, <2>8 DEF Stop, ArchiveSessions, CleanUpWal, Restart, background
  <2> QED BY <1>4, <2>1, <2>2, <2>3, <2>4, <2>5, <2>6, <2>7, <2>8 DEF Next
<1>6. ASSUME NEW u \in Turns, ref'[u] # None PROVE live'[keyOf'[u]] = ref'[u]
  <2>1. CASE Settling
    BY <1>2, <1>6, <2>1 DEF Settling
  <2>2. CASE Died
    BY <1>6, <2>2 DEF Died
  <2>3. CASE Restart
    BY <2>3, <1>6 DEF Restart, turnVars, Course, Locks, Holding, InFlight
  <2>4. ASSUME NEW t \in Turns, OpenLive(t) PROVE live'[keyOf'[u]] = ref'[u]
    BY <2>4, <1>3, <1>2, <1>6 DEF OpenLive, mind
  <2>5. ASSUME NEW t \in Turns, OpenNew(t) PROVE live'[keyOf'[u]] = ref'[u]
    <3>1. pc[t] = "admitted" /\ live[keyOf[t]] = None /\ keyOf' = keyOf
          /\ ref' = [ref EXCEPT ![t] = FreshSid]
      BY <2>5 DEF OpenNew
    <3>2. keyOf[t] \in Keys
      BY <3>1 DEF Course
    <3>3. ~(Cardinality(Live) >= scene.sessions)
      BY <1>2, <3>1, <3>2, NeverFull
    <3>4. live' = [j \in Keys |-> IF j = keyOf[t] THEN FreshSid ELSE live[j]]
      BY <2>5, <3>3 DEF OpenNew
    <3>5. CASE u = t
      BY <1>3, <3>1, <3>2, <3>4, <3>5
    <3>6. CASE u # t
      BY <1>2, <1>3, <1>6, <3>1, <3>6, <3>4 DEF Locks, Course, Holding
    <3> QED BY <3>5, <3>6
  <2> QED BY <1>4, <2>1, <2>2, <2>3, <2>4, <2>5, LiveMoves
<1> QED BY <1>5, <1>6

-----------------------------------------------------------------------------
(* How logs and archives move.                                             *)

LogSame == wal' = wal /\ ckpt' = ckpt
LogsAs(t, m) ==
    /\ ~iso[t] /\ ref[t] \in Sids /\ keyOf[t] \in Keys /\ ckpt' = ckpt
    /\ wal' = [wal EXCEPT ![keyOf[t]] = Append(@, [seq |-> sess[ref[t]].seq + 1, said |-> m])]
LogsQuestion(t) == Answer(t) /\ ~isolated /\ LogsAs(t, Question(t))
LogsReply(t) == LogReply(t) /\ LogsAs(t, Reply(t))
Checkpoints(t) ==
    /\ pc[t] = "committing" /\ ~iso[t] /\ ref[t] \in Sids /\ keyOf[t] \in Keys
    /\ wal' = wal /\ live' = live
    /\ ckpt' = [ckpt EXCEPT ![keyOf[t]] = sess[ref[t]].seq]
    /\ Said(sess[ref[t]].trunk) \subseteq archived'
LogTurn(t) == LogsQuestion(t) \/ LogsReply(t) \/ Checkpoints(t)

(* A turn that has the lock has a session and an identity.                 *)
LEMMA AtHand ==
  ASSUME ConvTyped, Locks, Course, NEW t \in Turns, pc[t] \in Holding
  PROVE  /\ ref[t] \in Sids /\ keyOf[t] \in Keys /\ sess[ref[t]].lock = t /\ sess[ref[t]] \in Session
         /\ Tidy(sess[ref[t]])
         /\ pc[t] = "running" => WithMine(sess[ref[t]], t)
<1>1. ref[t] # None /\ sess[ref[t]].lock = t /\ pc[t] # "new"
  BY DEF Locks, Holding
<1>2. ref[t] \in Sids /\ keyOf[t] \in Keys
  BY <1>1 DEF ConvTyped, TurnsTyped, Course
<1> QED BY <1>1, <1>2 DEF ConvTyped, StoreTyped, Locks

(* What an answer appends to the log, when neither sample saw isolation.   *)
LEMMA AnswerLogs ==
  ASSUME ConvTyped, Locks, Course, NEW t \in Turns, Answer(t)
  PROVE  \/ LogSame /\ iso'[t]
         \/ LogsQuestion(t) /\ ~iso'[t]
<1>1. pc[t] = "running" /\ pc[t] \in Holding
  BY DEF Answer, Holding
<1>2. /\ ref[t] \in Sids /\ keyOf[t] \in Keys /\ sess[ref[t]] \in Session
      /\ Tidy(sess[ref[t]]) /\ WithMine(sess[ref[t]], t)
  BY <1>1, AtHand
<1>3. iso[t] \in BOOLEAN /\ isolated \in BOOLEAN /\ iso \in [Turns -> BOOLEAN]
  BY DEF ConvTyped, TurnsTyped, RestTyped
<1>4. PICK shed \in BOOLEAN : shed = (iso[t] \/ isolated)
  OBVIOUS
<1>5. ckpt' = ckpt /\ iso' = [iso EXCEPT ![t] = shed]
  BY <1>4 DEF Answer
<1>6. PICK q \in BOOLEAN :
         /\ q => sess[ref[t]].fallbacks < MaxFallbacks
         /\ ~shed => wal' = Logged(Told(sess[ref[t]], t, q), t, Question(t), shed)
         /\ shed => wal' = wal
  BY <1>4 DEF Answer, Logged, Told, MayFallBack
<1>7. Told(sess[ref[t]], t, q).seq = sess[ref[t]].seq
  BY <1>2, <1>6, ToldFacts DEF SameCursor
<1>8. CASE shed
  BY <1>3, <1>5, <1>6, <1>8 DEF LogSame
<1>9. CASE ~shed
  BY <1>6, <1>7, <1>9, <1>3, <1>4, <1>5, <1>2 DEF Logged, LogsQuestion, LogsAs
<1> QED BY <1>8, <1>9

(* What is appended with the reply.                                        *)
LEMMA ReplyLogs ==
  ASSUME ConvTyped, Locks, Course, NEW t \in Turns, LogReply(t)
  PROVE  \/ LogSame /\ iso[t]
         \/ LogsReply(t)
<1>1. pc[t] \in Holding
  BY DEF LogReply, Holding
<1>2. ref[t] \in Sids /\ keyOf[t] \in Keys
  BY <1>1, AtHand
<1>3. ckpt' = ckpt /\ wal' = Logged(sess[ref[t]], t, Reply(t), iso[t])
  BY DEF LogReply
<1> QED BY <1>2, <1>3 DEF LogSame, LogsReply, LogsAs, Logged

(* The checkpoint: the trunk is archived before the marker is written.     *)
LEMMA CommitLogs ==
  ASSUME ConvTyped, Locks, Course, NEW t \in Turns, pc[t] = "committing",
         MaybeCheckpoint(t), wal' = wal, live' = live
  PROVE  LogSame \/ Checkpoints(t)
<1>1. pc[t] \in Holding
  BY DEF Holding
<1>2. ref[t] \in Sids /\ keyOf[t] \in Keys
  BY <1>1, AtHand
<1>3. PICK due \in BOOLEAN, ok \in scene.archive :
         IF due /\ ok /\ ~iso[t] /\ sess[ref[t]].trunk # <<>>
         THEN /\ archived' = Archived(ok, Said(sess[ref[t]].trunk))
              /\ ckpt' = [ckpt EXCEPT ![keyOf[t]] = sess[ref[t]].seq]
         ELSE UNCHANGED <<archived, ckpt>>
  BY DEF MaybeCheckpoint
<1>4. CASE due /\ ok /\ ~iso[t] /\ sess[ref[t]].trunk # <<>>
  BY <1>3, <1>4, <1>2 DEF Archived, Checkpoints
<1>5. CASE ~(due /\ ok /\ ~iso[t] /\ sess[ref[t]].trunk # <<>>)
  BY <1>3, <1>5 DEF LogSame
<1> QED BY <1>4, <1>5

(* Every step leaves log and marker alone, or is one of these.             *)
LEMMA LogSteps ==
  ASSUME ConvTyped, Locks, Course, Next
  PROVE  LogSame \/ CleanUpWal \/ Restart \/ \E t \in Turns : LogTurn(t)
<1>1. ASSUME NEW t \in Turns, TurnStep(t) PROVE LogSame \/ LogTurn(t)
  <2>1. CASE OpenLive(t) \/ OpenNew(t)
    BY <2>1 DEF OpenLive, OpenNew, LogSame, files
  <2>2. CASE Start(t)
    BY <2>2 DEF Start, LogSame
  <2>3. CASE Fail(t) \/ GiveUp(t)
    BY <2>3 DEF Fail, GiveUp, LogSame, files
  <2>4. CASE Answer(t)
    BY <2>4, AnswerLogs DEF LogTurn
  <2>5. CASE LogReply(t)
    BY <2>5, ReplyLogs DEF LogTurn
  <2>6. CASE Finish(t)
    BY <2>6, CommitLogs DEF Finish, LogTurn, Leave
  <2>7. CASE PersistTurn(t)
    BY <2>7 DEF PersistTurn, LogSame
  <2>8. CASE Abandon(t)
    <3>1. CASE pc[t] = "committing"
      BY <2>8, <3>1, CommitLogs DEF Abandon, Leave, LogTurn
    <3>2. CASE pc[t] # "committing"
      BY <2>8, <3>2 DEF Abandon, LogSame, files
    <3> QED BY <3>1, <3>2
  <2> QED BY <1>1, <2>1, <2>2, <2>3, <2>4, <2>5, <2>6, <2>7, <2>8 DEF TurnStep
<1>2. CASE \E t \in Turns, k \in Keys : Admit(t, k)
  BY <1>2 DEF Admit, LogSame, files
<1>3. CASE \E w \in queue : WriteFile(w)
  BY <1>3 DEF WriteFile, LogSame
<1>4. CASE Flip \/ \E expired \in SUBSET Live : SweepCollect(expired)
  BY <1>4 DEF Flip, SweepCollect, LogSame, files
<1>5. CASE SweepRemove
  BY <1>5 DEF SweepRemove, LogSame
<1>6. CASE \E k \in Keys : Reset(k) \/ PersistReset(k)
  BY <1>6 DEF Reset, PersistReset, LogSame
<1>7. CASE Crash \/ Exit
  BY <1>7 DEF Crash, Exit, Die, LogSame
<1>8. CASE Stop \/ ArchiveSessions
  BY <1>8 DEF Stop, ArchiveSessions, LogSame, files
<1> QED BY <1>1, <1>2, <1>3, <1>4, <1>5, <1>6, <1>7, <1>8 DEF Next

(* Nothing is taken out of an archive.                                     *)
LEMMA ArchivesGrow ==
  ASSUME Next
  PROVE  archived \subseteq archived'
<1>1. \A ok : \A m : archived \subseteq Archived(ok, m)
  BY DEF Archived
<1>2. archived' = archived => archived \subseteq archived'
  OBVIOUS
<1>3. ASSUME NEW t \in Turns, MaybeCheckpoint(t) PROVE archived \subseteq archived'
  BY <1>3 DEF MaybeCheckpoint, Archived
<1>4. ASSUME NEW t \in Turns, TurnStep(t) PROVE archived \subseteq archived'
  BY <1>2, <1>3, <1>4 DEF Start, Archived, Finish, Abandon, files, archives, OpenLive, OpenNew,
     Fail, GiveUp, Answer, LogReply, PersistTurn, TurnStep
<1>5. CASE \E t \in Turns, k \in Keys : Admit(t, k)
  BY <1>2, <1>5 DEF Admit, files, archives
<1>6. CASE \E w \in queue : WriteFile(w)
  BY <1>2, <1>6 DEF WriteFile, archives
<1>7. CASE Flip \/ \E expired \in SUBSET Live : SweepCollect(expired)
  BY <1>2, <1>7 DEF Flip, SweepCollect, files, archives
<1>8. CASE SweepRemove
  BY <1>8 DEF SweepRemove, Archived
<1>9. CASE \E k \in Keys : Reset(k)
  BY <1>9 DEF Reset, ArchiveBoth, Archived
<1>10. CASE \E k \in Keys : PersistReset(k)
  BY <1>2, <1>10 DEF PersistReset, archives
<1>11. CASE Crash \/ Exit \/ Stop \/ CleanUpWal
  BY <1>2, <1>11 DEF Crash, Exit, Die, Stop, CleanUpWal, files, archives
<1>12. CASE ArchiveSessions
  BY <1>2, <1>12 DEF ArchiveSessions, ArchiveAll, ArchiveBoth, Archived, archives
<1>13. CASE Restart
  BY <1>13 DEF Restart, Archived
<1> QED BY <1>4, <1>5, <1>6, <1>7, <1>8, <1>9, <1>10, <1>11, <1>12, <1>13 DEF Next

(* The steps of a shutdown, and where they lead.                           *)
LEMMA StageSteps ==
  ASSUME ConvTyped, Next
  PROVE  stage' = stage \/ Crash \/ Stop \/ ArchiveSessions \/ CleanUpWal \/ Exit \/ Restart
<1>1. CASE \E t \in Turns, k \in Keys : Admit(t, k)
  BY <1>1 DEF Admit
<1>2. CASE \E t \in Turns : TurnStep(t)
  BY <1>2, TurnsSpendNothing
<1>3. CASE \E w \in queue : WriteFile(w)
  BY <1>3 DEF WriteFile
<1>4. CASE Flip \/ SweepRemove \/ \E expired \in SUBSET Live : SweepCollect(expired)
  BY <1>4 DEF Flip, SweepRemove, SweepCollect
<1>5. CASE \E k \in Keys : Reset(k) \/ PersistReset(k)
  BY <1>5 DEF Reset, PersistReset
<1> QED BY <1>1, <1>2, <1>3, <1>4, <1>5 DEF Next

(* A crash and a shutdown are counted.                                     *)
LEMMA Counting ==
  ASSUME ConvTyped
  PROVE  /\ Crash => spent'.crash > 0
         /\ Stop => spent'.stop > 0
<1>1. "crash" \in BoundNames /\ "stop" \in BoundNames /\ RestTyped
  BY DEF BoundNames, ConvTyped
<1>2. Spend("crash") => spent'["crash"] > 0
  BY <1>1, Spending
<1>3. Spend("stop") => spent'["stop"] > 0
  BY <1>1, Spending
<1> QED BY <1>2, <1>3 DEF Crash, Stop

(* No turn comes into flight once the shutdown waited for them.            *)
LEMMA NobodyTakesOff ==
  ASSUME ConvTyped, Locks, Course, Next, stage # "up", \A t \in Turns : pc[t] \notin InFlight
  PROVE  /\ \A t \in Turns : pc'[t] \notin InFlight
         /\ \A t \in Turns : ~LogTurn(t)
<1>1. ASSUME NEW u \in Turns PROVE pc'[u] \notin InFlight
  BY TurnPaths, Admits DEF TurnPath, StartsAt, AnswersAt, LogsAt, InFlight
<1>2. ASSUME NEW t \in Turns PROVE ~LogTurn(t)
  BY DEF LogTurn, LogsQuestion, LogsReply, Checkpoints, Answer, LogReply, InFlight
<1> QED BY <1>1, <1>2

(* Every step keeps the order a day ends in.                               *)
LEMMA NextEnds ==
  ASSUME ConvTyped, Locks, Course, Ends, Next
  PROVE  Ends'
<1>1. /\ scene' = scene
      /\ spent.stop > 0 => spent'.stop > 0
      /\ spent.crash > 0 => spent'.crash > 0
      /\ NeverCrashed' => NeverCrashed
  BY Back
<1>2. stage' \notin {"up", "down"} => spent'.stop > 0
  BY <1>1, StageSteps, Counting DEF Ends, Crash, Exit, Die, ArchiveSessions, CleanUpWal, Restart
<1>3. stage' = "down" => spent'.crash > 0 \/ spent'.stop > 0
  BY <1>1, StageSteps, Counting DEF Ends, Exit, ArchiveSessions, CleanUpWal, Restart, Stop
<1>4. ASSUME stage' \in {"archived", "exiting"}, ~scene.slow
      PROVE  \A t \in Turns : pc'[t] \notin InFlight
  <2>1. CASE stage \in {"archived", "exiting"}
    BY <1>4, <2>1, NobodyTakesOff DEF Ends
  <2>2. CASE stage \notin {"archived", "exiting"}
    BY <1>4, <2>2, StageSteps DEF Crash, Stop, Exit, Die, CleanUpWal, Restart, ArchiveSessions,
       Drained, turnVars
  <2> QED BY <2>1, <2>2
<1>5. ASSUME stage' \in {"exiting", "down"}, ~scene.slow, NeverCrashed', NEW k \in Keys
      PROVE  wal'[k] = <<>> /\ ckpt'[k] = 0
  <2>1. CASE CleanUpWal
    BY <2>1 DEF CleanUpWal
  <2>2. CASE ~CleanUpWal
    <3>1. ~Crash /\ ~Restart
      BY <1>5, Counting DEF NeverCrashed, Restart
    <3>2. stage \in {"exiting", "down"}
      BY <1>5, <2>2, <3>1, StageSteps DEF Stop, ArchiveSessions, Exit
    <3>3. wal[k] = <<>> /\ ckpt[k] = 0
      BY <1>1, <1>5, <3>2 DEF Ends
    <3>4. \A t \in Turns : pc[t] \notin InFlight
      BY <1>5, <3>2 DEF Ends, Course
    <3>5. LogSame
      BY <2>2, <3>1, <3>2, <3>4, LogSteps, NobodyTakesOff
    <3> QED BY <3>3, <3>5 DEF LogSame
  <2> QED BY <2>1, <2>2
<1> QED BY <1>1, <1>2, <1>3, <1>4, <1>5 DEF Ends

-----------------------------------------------------------------------------
(* What stands in a conversation where no watermark cuts it off.           *)

\* As far as r.trunk is there to stay: up to the watermark or, while a turn
\* works on r, up to where it found the conversation and may put one.
Reach(r, working) == IF r.mark # None THEN r.mark.trunk
                     ELSE IF working THEN r.found.trunk ELSE Len(r.trunk)
InHead(m, r, working) == Among(m, r.trunk, Reach(r, working))

(* Places of a conversation are numbers.                                   *)
LEMMA ReachFacts ==
  ASSUME NEW r \in Session
  PROVE  /\ \A b \in BOOLEAN : Reach(r, b) \in Nat
         /\ r.mark # None => \A b \in BOOLEAN : Reach(r, b) = r.mark.trunk
         /\ r.mark = None => Reach(r, TRUE) = r.found.trunk /\ Reach(r, FALSE) = Len(r.trunk)
  BY SessionFacts DEF Reach

(* Watermark and conversation left alone.                                  *)
LEMMA HeadSame ==
  ASSUME NEW r \in Session, NEW w \in Session, w.trunk = r.trunk, w.mark = r.mark,
         NEW m, InHead(m, r, FALSE)
  PROVE  InHead(m, w, FALSE)
  BY DEF InHead, Reach

(* The turn finds all of it (track_isolation_window).                      *)
LEMMA HeadReady ==
  ASSUME NEW r \in Session, Tidy(r), NEW t \in Turns, iso \in [Turns -> BOOLEAN],
         NEW m, InHead(m, r, FALSE)
  PROVE  InHead(m, Ready(r, t), TRUE)
<1>1. PICK x : x = Ready(r, t)
  OBVIOUS
<1>2. iso[t] \in BOOLEAN /\ r.trunk \in Seq(Messages) /\ Len(r.trunk) \in Nat
  BY SessionFacts
<1>3. PICK i \in 1..Len(r.trunk) : i <= Reach(r, FALSE) /\ r.trunk[i] = m
  BY DEF InHead, Among
<1>4. x \in Session /\ x.found = Lens(x)
  BY <1>1, ReadyFacts
<1>5. CASE iso[t]
  <2>1. x.trunk = r.trunk /\ x.mark # None
    BY <1>1, <1>5, ReadyFacts
  <2>2. Reach(x, TRUE) = x.mark.trunk
    BY <1>4, <2>1, ReachFacts
  <2>3. x.mark.trunk = Reach(r, FALSE)
    <3>1. CASE r.mark # None
      <4>1. x.mark = r.mark
        BY <1>1, <1>5, <3>1, ReadyFacts
      <4> QED BY <3>1, <4>1, ReachFacts
    <3>2. CASE r.mark = None
      <4>1. x.mark = Lens(r)
        BY <1>1, <1>5, <3>2, ReadyFacts
      <4> QED BY <3>2, <4>1, ReachFacts, SessionFacts
    <3> QED BY <3>1, <3>2
  <2> QED BY <1>1, <1>3, <2>1, <2>2, <2>3 DEF InHead, Among
<1>6. CASE ~iso[t]
  <2>1. x.mark = None
    BY <1>1, <1>6, ReadyFacts
  <2>2. Reach(x, TRUE) = Len(x.trunk)
    BY <1>4, <2>1, ReachFacts, SessionFacts
  <2>3. i \in 1..Len(x.trunk) /\ x.trunk[i] = m
    <3>1. CASE r.mark = None
      BY <1>1, <1>3, <1>6, <3>1, ReadyFacts
    <3>2. CASE r.mark # None
      <4>1. x.trunk = Cut(r.trunk, r.mark.trunk)
        BY <1>1, <1>6, <3>2, ReadyFacts
      <4>2. r.mark.trunk \in Nat /\ i <= r.mark.trunk
        BY <1>3, <3>2, ReachFacts, SessionFacts
      <4>3. /\ Len(x.trunk) = IF r.mark.trunk < Len(r.trunk) THEN r.mark.trunk ELSE Len(r.trunk)
            /\ \A j \in 1..Len(x.trunk) : x.trunk[j] = r.trunk[j]
        BY <1>2, <4>1, <4>2, CutFacts
      <4>4. i \in 1..Len(x.trunk)
        BY <1>2, <1>3, <4>2, <4>3
      <4> QED BY <1>3, <4>3, <4>4
    <3> QED BY <3>1, <3>2
  <2>4. i <= Len(x.trunk)
    BY <2>3
  <2> QED BY <1>1, <2>2, <2>3, <2>4 DEF InHead, Among
<1> QED BY <1>5, <1>6

(* A turn that starts leaves it there, or takes it off with all the rest.  *)
LEMMA HeadStarts ==
  ASSUME NEW r \in Session, Tidy(r), NEW t \in Turns, NEW reset \in BOOLEAN,
         NEW long \in BOOLEAN, NEW summed \in BOOLEAN, iso \in [Turns -> BOOLEAN],
         long => Len(Begins(r, t, reset).trunk) >= MinMessages, long => ~iso[t],
         NEW m \in Messages, m # Note, InHead(m, r, FALSE)
  PROVE  \/ reset /\ m \in Said(Ready(r, t).trunk)
         \/ long /\ m \in Said(Older(Begins(r, t, reset)))
         \/ InHead(m, Started(r, t, reset, long, summed), TRUE)
<1>1. PICK x, y, w : x = Ready(r, t) /\ y = Begins(r, t, reset) /\ w = Started(r, t, reset, long, summed)
  OBVIOUS
<1>2. x \in Session /\ y \in Session /\ w \in Session
  BY <1>1, BeginsFacts, StartedFacts
<1>3. x.trunk \in Seq(Messages) /\ y.trunk \in Seq(Messages) /\ Len(x.trunk) \in Nat
      /\ Len(y.trunk) \in Nat
  BY <1>2, SessionFacts
<1>8. InHead(m, Ready(r, t), TRUE)
  BY HeadReady
<1>9. InHead(m, x, TRUE)
  BY <1>1, <1>8
<1>4. PICK i \in 1..Len(x.trunk) : i <= Reach(x, TRUE) /\ x.trunk[i] = m
  BY <1>9 DEF InHead, Among
<1>5. CASE reset
  BY <1>3, <1>4, SaidAt, <1>1, <1>5
<1>6. CASE ~reset
  <2>1. y.trunk = Append(x.trunk, Question(t))
    BY <1>1, <1>6, BeginsAs DEF Fresh
  <2>2. y.mark = x.mark /\ y.found = x.found
    BY <1>1, BeginsAs
  <2>3. Reach(y, TRUE) = Reach(x, TRUE)
    BY <2>2 DEF Reach
  <2>4. i \in 1..Len(y.trunk) /\ y.trunk[i] = m /\ i <= Reach(y, TRUE)
    <3>1. Question(t) \in Messages /\ Question(t) # Note
      BY MessageFacts
    <3>2. Len(y.trunk) = Len(x.trunk) + 1 /\ y.trunk[i] = x.trunk[i]
      BY <1>3, <1>4, <2>1, <3>1, AppendFacts
    <3>3. i \in 1..Len(y.trunk)
      BY <1>3, <3>2
    <3> QED BY <1>4, <2>3, <3>2, <3>3
  <2>5. CASE ~long
    <3>1. w = y
      BY <1>1, <2>5, StartedAs
    <3> QED BY <1>1, <2>4, <3>1 DEF InHead, Among
  <2>6. CASE long
    <3>1. w.mark = y.mark /\ w.found = y.found
      BY <1>1, StartedAs
    <3>2. Reach(w, TRUE) = Reach(y, TRUE)
      <4>1. y.mark = None
        BY <1>1, <2>2, <2>6, ReadyFacts
      <4> QED BY <3>1, <4>1 DEF Reach
    <3>3. w.trunk = Shorter(y.trunk, summed) /\ KeepRecent < Len(y.trunk)
      <4>1. /\ Started(r, t, reset, long, summed).trunk = Shorter(Begins(r, t, reset).trunk, summed)
            /\ KeepRecent < Len(Begins(r, t, reset).trunk)
        BY ZenonT(60), <2>6, StartedAs
      <4> QED BY <1>1, <4>1
    <3>4. KeepRecent \in Nat /\ Reach(y, TRUE) \in Nat
      BY <1>2, ConstantFacts, ReachFacts
    <3>5. CASE i \in (Len(y.trunk) - KeepRecent + 1)..Len(y.trunk)
      <4>1. w.trunk \in Seq(Messages)
        BY <1>2, SessionFacts
      <4>2. PICK j \in 1..Len(w.trunk) : j <= i /\ w.trunk[j] = y.trunk[i]
        BY SMTT(40), <1>3, <3>3, <3>5, ShorterFacts
      <4>3. j \in Nat /\ Len(w.trunk) \in Nat
        BY <4>1, <4>2
      <4>4. j <= Reach(w, TRUE)
        <5>1. PICK n : n = Reach(y, TRUE)
          OBVIOUS
        <5>4. n \in Nat /\ i <= n
          BY <2>4, <3>4, <5>1
        <5>5. i \in Nat
          BY <1>3, <1>4
        <5>2. n \in Nat /\ i <= n /\ i \in Nat
          BY <5>4, <5>5
        <5>3. j <= n
          BY <4>2, <4>3, <5>2
        <5> QED BY <3>2, <5>1, <5>3
      <4> QED BY <1>1, <2>4, <4>2, <4>4 DEF InHead, Among
    <3>6. CASE i \notin (Len(y.trunk) - KeepRecent + 1)..Len(y.trunk)
      <4>1. PICK n : n = Len(y.trunk) - KeepRecent
        OBVIOUS
      <4>2. n \in Nat /\ n < Len(y.trunk) /\ i \in 1..n
        BY <1>3, <2>4, <3>3, <3>4, <3>6, <4>1, ConstantFacts
      <4>3. PICK c : c = Cut(y.trunk, n)
        OBVIOUS
      <4>4. c \in Seq(Messages) /\ Len(c) = n /\ \A j \in 1..Len(c) : c[j] = y.trunk[j]
        BY <1>3, <4>2, <4>3, CutFacts
      <4>5. m \in Said(c)
        BY <2>4, <4>2, <4>4, SaidAt
      <4>6. Older(y) = c
        BY <4>1, <4>3 DEF Older
      <4> QED BY <1>1, <2>6, <4>5, <4>6
    <3> QED BY <3>5, <3>6
  <2> QED BY <2>5, <2>6
<1> QED BY <1>5, <1>6

(* A rollback takes off what the turn put there.                           *)
LEMMA HeadRollsBack ==
  ASSUME NEW r \in Session, Tidy(r), NEW t \in Turns, WithMine(r, t),
         NEW m, m # Question(t), InHead(m, r, TRUE)
  PROVE  InHead(m, Released(RolledBack(r)), FALSE)
<1>1. PICK i \in 1..Len(r.trunk) : i <= Reach(r, TRUE) /\ r.trunk[i] = m
  BY DEF InHead, Among
<1>2. r.trunk \in Seq(Messages) /\ Len(r.trunk) \in Nat /\ Len(r.trunk) >= 1
      /\ r.trunk[Len(r.trunk)] = Question(t) /\ Question(t) \in Messages
  BY SessionFacts, MessageFacts DEF WithMine
<1>3. i # Len(r.trunk)
  BY <1>1, <1>2
<1>4. PICK w : w = RolledBack(r)
  OBVIOUS
<1>5. /\ w \in Session /\ Tidy(w) /\ w.trunk = Cut(r.trunk, Len(r.trunk) - 1) /\ w.mark = r.mark
  BY <1>2, <1>4, RolledBackFacts
<1>6. PICK v : v = Released(w)
  OBVIOUS
<1>7. v \in Session /\ v.trunk = w.trunk /\ v.mark = w.mark
  BY <1>5, <1>6, ReleasedFacts
<1>8. /\ Len(v.trunk) = Len(r.trunk) - 1
      /\ \A j \in 1..Len(r.trunk) - 1 : v.trunk[j] = r.trunk[j]
  <2>1. /\ Len(Cut(r.trunk, Len(r.trunk) - 1)) = Len(r.trunk) - 1
        /\ \A j \in 1..Len(r.trunk) - 1 : Cut(r.trunk, Len(r.trunk) - 1)[j] = r.trunk[j]
    BY <1>2, HeadFacts
  <2> QED BY <1>5, <1>7, <2>1
<1>9. i \in 1..Len(v.trunk) /\ v.trunk[i] = m
  BY <1>1, <1>2, <1>3, <1>8
<1>10. i <= Reach(v, FALSE)
  <2>1. CASE r.mark = None
    BY <1>5, <1>7, <2>1, SessionFacts, <1>9 DEF Reach
  <2>2. CASE r.mark # None
    BY <1>1, <1>5, <1>7, <2>2 DEF Reach
  <2> QED BY <2>1, <2>2
<1> QED BY <1>4, <1>6, <1>9, <1>10 DEF InHead, Among

(* An answer puts the reply behind it, and a watermark nowhere before.     *)
LEMMA HeadAnswers ==
  ASSUME NEW r \in Session, Tidy(r), NEW t \in Turns, WithMine(r, t),
         NEW q \in BOOLEAN, NEW shed \in BOOLEAN, q => r.fallbacks < MaxFallbacks,
         NEW m, m # Question(t), InHead(m, r, TRUE)
  PROVE  InHead(m, Answers(r, t, shed, q), FALSE)
<1>1. PICK i \in 1..Len(r.trunk) : i <= Reach(r, TRUE) /\ r.trunk[i] = m
  BY DEF InHead, Among
<1>2. r.trunk \in Seq(Messages) /\ Len(r.trunk) \in Nat /\ Len(r.trunk) >= 1
      /\ r.trunk[Len(r.trunk)] = Question(t) /\ Question(t) \in Messages
      /\ Reply(t) \in Messages /\ Reply(t) # Note
  BY SessionFacts, MessageFacts DEF WithMine
<1>3. i \in 1..Len(r.trunk) - 1
  BY <1>1, <1>2
<1>4. PICK w, told : w = Answers(r, t, shed, q) /\ told = Told(r, t, q)
  OBVIOUS
<1>5. w \in Session /\ w.trunk = told.trunk
  BY <1>4, AnswersFacts
<1>6. w.mark = IF shed THEN (IF r.mark = None THEN r.found ELSE r.mark) ELSE r.mark
  BY <1>4, AnswersFacts
<1>7. i \in 1..Len(w.trunk) /\ w.trunk[i] = m
  <2>1. CASE q
    <3>1. told.trunk = Cut(r.trunk, Len(r.trunk) - 1)
      BY <1>4, <2>1, ToldFacts
    <3>2. Len(told.trunk) = Len(r.trunk) - 1 /\ told.trunk[i] = r.trunk[i]
      BY <1>2, <1>3, <3>1, HeadFacts
    <3> QED BY <1>1, <1>3, <1>5, <3>2
  <2>2. CASE ~q
    <3>1. told.trunk = Append(r.trunk, Reply(t))
      BY <1>4, <2>2, ToldFacts
    <3>2. Len(told.trunk) = Len(r.trunk) + 1 /\ told.trunk[i] = r.trunk[i]
      BY <1>1, <1>2, <3>1, AppendFacts
    <3> QED BY <1>1, <1>2, <1>5, <3>2
  <2> QED BY <2>1, <2>2
<1>8. i <= Reach(w, FALSE)
  <2>1. CASE w.mark = None
    BY <2>1, <1>5, SessionFacts, <1>7 DEF Reach
  <2>2. CASE w.mark # None
    BY <2>2, <1>6, <1>1 DEF Reach
  <2> QED BY <2>1, <2>2
<1> QED BY <1>4, <1>7, <1>8 DEF InHead, Among

(* What a turn that is not isolated said itself is there as well.          *)
LEMMA HeadSays ==
  ASSUME NEW r \in Session, Tidy(r), NEW t \in Turns, WithMine(r, t), r.mark = None
  PROVE  LET w == Answers(r, t, FALSE, FALSE)
         IN  w.mark = None /\ \A m \in Exchange(t) : InHead(m, w, FALSE)
<1>1. r.trunk \in Seq(Messages) /\ Len(r.trunk) \in Nat /\ Len(r.trunk) >= 1
      /\ r.trunk[Len(r.trunk)] = Question(t) /\ Question(t) \in Messages
      /\ Reply(t) \in Messages /\ Reply(t) # Note
  BY SessionFacts, MessageFacts DEF WithMine
<1>2. PICK w, told : w = Answers(r, t, FALSE, FALSE) /\ told = Told(r, t, FALSE)
  OBVIOUS
<1>3. w.trunk = told.trunk /\ w.mark = None
  BY <1>2, AnswersFacts
<1>4. told.trunk = Append(r.trunk, Reply(t))
  BY <1>2, ToldFacts
<1>5. /\ Len(w.trunk) = Len(r.trunk) + 1 /\ w.trunk[Len(r.trunk)] = Question(t)
      /\ w.trunk[Len(r.trunk) + 1] = Reply(t)
  BY <1>1, <1>3, <1>4, AppendFacts
<1>6. Reach(w, FALSE) = Len(w.trunk)
  BY <1>3 DEF Reach
<1>7. /\ Len(r.trunk) \in 1..Len(w.trunk) /\ Len(r.trunk) <= Len(w.trunk)
      /\ Len(r.trunk) + 1 \in 1..Len(w.trunk) /\ Len(r.trunk) + 1 <= Len(w.trunk)
  BY <1>1, <1>5
<1>8. InHead(Question(t), w, FALSE) /\ InHead(Reply(t), w, FALSE)
  BY <1>5, <1>6, <1>7 DEF InHead, Among
<1> QED BY <1>2, <1>3, <1>8 DEF Exchange

(* And so it is after the message cap, where that is far.                  *)
LEMMA HeadLogs ==
  ASSUME NEW r \in Session, Tidy(r), NEW shed \in BOOLEAN, NEW cap \in Nat, cap >= Len(r.trunk),
         NEW m, InHead(m, r, FALSE)
  PROVE  InHead(m, Trimmed(r, shed, cap), FALSE)
<1>1. PICK w : w = Trimmed(r, shed, cap)
  OBVIOUS
<1>2. w \in Session /\ w.trunk = r.trunk /\ w.mark = r.mark
  BY <1>1, TrimmedFacts
<1> QED BY <1>1, <1>2, HeadSame

-----------------------------------------------------------------------------
(* The invariant: what is on record.                                       *)

\* Identity k was logged under one count of numbers: no session of it was
\* evicted, expired, or loaded from a file an older one had left.
Counted(k) == /\ NeverForgotten
              /\ NeverCut \/ (spent.stop = 0 /\ json[k] = None /\ scene.archive = {TRUE})
Covered(k) == NothingDropped /\ Counted(k)

\* A session's numbers go on from its log's.
Numbered(k) == Counted(k) =>
    /\ wal[k] = <<>> => ckpt[k] = 0
    /\ \A i, j \in 1..Len(wal[k]) : i < j => wal[k][i].seq < wal[k][j].seq
    /\ \A i \in 1..Len(wal[k]) : wal[k][i].seq > 0
    /\ live[k] = None /\ stage # "down" => wal[k] = <<>>
    /\ live[k] # None => /\ ckpt[k] <= sess[live[k]].seq
                         /\ \A e \in ToSet(wal[k]) : e.seq <= sess[live[k]].seq
    /\ \A t \in Turns : pc[t] \in {"logging", "committing"} /\ ~iso[t] /\ keyOf[t] = k
                        => wal[k] # <<>>

\* What the log has is archived or refused, or stands in the conversation
\* where no watermark cuts it off.
Safe(m) == \A t \in Turns : m \in Exchange(t) => refused[t] \/ m \in archived
Working(s) == sess[s].lock # None /\ pc[sess[s].lock] = "running"
Remembered(k) == Covered(k) =>
    \A e \in ToSet(wal[k]) :
       /\ e.seq <= ckpt[k] => Safe(e.said)
       /\ live[k] # None => Safe(e.said) \/ InHead(e.said, sess[live[k]], Working(live[k]))

\* A turn that is not isolated leaves no watermark and knows its reply.
Unmarked == \A t \in Turns : pc[t] \in Holding /\ ~iso[t] => sess[ref[t]].mark = None
KnowsReply == \A t \in Turns : pc[t] = "logging" /\ ~refused[t] =>
                 \E i \in 1..Len(sess[ref[t]].trunk) : sess[ref[t]].trunk[i] = Reply(t)

\* What a turn that was not shed said is in the log, or in an archive.
Recorded(m) == m \in InLogs \cup archived
OnRecord == Untroubled =>
    \A t \in Turns : ~iso[t] /\ pc[t] \in Heard /\ ~LaneForgotten(t) =>
       /\ Recorded(Question(t))
       /\ pc[t] \in {"committing", "persisting", "done"} => Recorded(Reply(t))

LogInvariant == /\ NeatTrunks /\ OnlyAdmitted /\ Placed /\ OnRecord
                /\ \A k \in Keys : Numbered(k) /\ Remembered(k)
                /\ Unmarked /\ KnowsReply

-----------------------------------------------------------------------------
(* What holds of a step whatever it is.                                    *)

(* Session files come and go in three ways.                                *)
LEMMA JsonSteps ==
  ASSUME Next
  PROVE  json' = json \/ (\E w \in queue : WriteFile(w)) \/ SweepRemove \/ Restart
<1>1. CASE \E t \in Turns, k \in Keys : Admit(t, k)
  BY <1>1 DEF Admit, files
<1>2. CASE \E t \in Turns : TurnStep(t)
  BY <1>2 DEF TurnStep, OpenLive, OpenNew, Start, Fail, GiveUp, Answer, LogReply, Finish,
     PersistTurn, Abandon, files
<1>3. CASE \E expired \in SUBSET Live : SweepCollect(expired)
  BY <1>3 DEF SweepCollect, files
<1>4. CASE \E k \in Keys : Reset(k) \/ PersistReset(k)
  BY <1>4 DEF Reset, PersistReset
<1>5. CASE Crash \/ Exit
  BY <1>5 DEF Crash, Exit, Die
<1>6. CASE Flip \/ Stop \/ ArchiveSessions \/ CleanUpWal
  BY <1>6 DEF Flip, Stop, ArchiveSessions, CleanUpWal, files
<1> QED BY <1>1, <1>2, <1>3, <1>4, <1>5, <1>6 DEF Next

(* Where nothing expires a session file stays once it is written.          *)
LEMMA JsonStays ==
  ASSUME ConvTyped, SameSession, Next, NeverForgotten', NEW k \in Keys, json'[k] = None
  PROVE  json[k] = None
<1>1. json \in [Keys -> TidyFiles \cup {None}] /\ queue \subseteq [key : Keys, file : TidyFiles]
      /\ None \notin TidyFiles /\ NeverForgotten
  BY ConstantFacts, Back DEF ConvTyped, FilesTyped, TidyFiles
<1>2. CASE json' = json
  BY <1>2
<1>3. ASSUME NEW w \in queue, WriteFile(w)
      PROVE  json[k] = None
  BY <1>1, <1>3 DEF WriteFile
<1>4. CASE SweepRemove
  BY <1>1, <1>4 DEF SweepRemove, SameSession
<1>5. CASE Restart
  <2>1. PICK expired \in SUBSET {j \in Keys : json[j] # None} :
           /\ IF expired = {} THEN UNCHANGED spent ELSE Spend("expire")
           /\ Load({j \in Keys : json[j] # None} \ expired)
    BY <1>5 DEF Restart
  <2>2. expired = {}
    BY Spending, <2>1 DEF ConvTyped, BoundNames, NeverForgotten
  <2>3. json' = [j \in Keys |-> IF j \in {i \in Keys : json[i] # None} \ expired
                                THEN json[j] ELSE None]
    BY <2>1 DEF Load
  <2> QED BY <2>2, <2>3
<1> QED BY <1>2, <1>3, <1>4, <1>5, JsonSteps

(* So what counts of an identity counted before.                           *)
LEMMA CountedBack ==
  ASSUME ConvTyped, SameSession, Next, NEW k \in Keys
  PROVE  /\ Counted(k)' => Counted(k)
         /\ Covered(k)' => Covered(k)
<1>1. ASSUME Counted(k)'
      PROVE  Counted(k)
  <2>1. NeverForgotten' /\ NeverForgotten
    BY <1>1, Back DEF Counted
  <2>2. CASE NeverCut'
    BY <2>1, <2>2, Back DEF Counted
  <2>3. CASE ~NeverCut'
    BY <1>1, <2>3, Back, <2>1, JsonStays DEF Counted
  <2> QED BY <2>2, <2>3
<1> QED BY <1>1, Back DEF Covered

(* A turn is heard by its answer and has its reply logged by LogReply; what*)
(* else happens lets it go on or ends it.                                  *)
LEMMA Phases ==
  ASSUME ConvTyped, Locks, Course, Next, NEW u \in Turns
  PROVE  \/ Answer(u) \/ LogReply(u)
         \/ /\ pc'[u] \in Heard => pc[u] \in Heard
            /\ pc'[u] \in {"committing", "persisting", "done"} =>
                  pc[u] \in {"committing", "persisting", "done"}
            /\ pc'[u] \in {"logging", "committing"} => pc'[u] = pc[u]
<1> DEFINE Rest == /\ pc'[u] \in Heard => pc[u] \in Heard
                   /\ pc'[u] \in {"committing", "persisting", "done"} =>
                         pc[u] \in {"committing", "persisting", "done"}
                   /\ pc'[u] \in {"logging", "committing"} => pc'[u] = pc[u]
<1>1. pc \in [Turns -> States]
  BY DEF ConvTyped, TurnsTyped
<1>2. pc' = pc => Rest
  OBVIOUS
<1>3. ASSUME NEW t \in Turns, NEW x, pc' = [pc EXCEPT ![t] = x],
             x \in {"admitted", "opened", "running", "failed"}
      PROVE  Rest
  BY <1>1, <1>3 DEF Heard
<1>4. ASSUME NEW t \in Turns, NEW x, pc' = [pc EXCEPT ![t] = x],
             pc[t] \in {"committing", "persisting"}, x \in {"persisting", "done", "cut"}
      PROVE  Rest
  BY <1>1, <1>4 DEF Heard
<1>5. ASSUME NEW t \in Turns, TurnStep(t)
      PROVE  Answer(u) \/ LogReply(u) \/ Rest
  <2>1. CASE OpenLive(t) \/ OpenNew(t) \/ Start(t) \/ Fail(t) \/ GiveUp(t)
    BY <2>1, <1>3 DEF OpenLive, OpenNew, Start, Fail, GiveUp, Leave
  <2>2. CASE Finish(t) \/ PersistTurn(t) \/ Abandon(t)
    BY <2>2, <1>4 DEF Finish, PersistTurn, Abandon, Leave
  <2>3. CASE Answer(t) \/ LogReply(t)
    <3>1. CASE t = u
      BY <2>3, <3>1
    <3>2. CASE t # u
      BY <1>1, <2>3, <3>2 DEF Answer, LogReply
    <3> QED BY <3>1, <3>2
  <2> QED BY <1>5, <2>1, <2>2, <2>3 DEF TurnStep
<1>6. ASSUME NEW t \in Turns, NEW k \in Keys, Admit(t, k)
      PROVE  Rest
  BY <1>3, <1>6 DEF Admit
<1>7. CASE Crash \/ Exit
  BY <1>7 DEF Crash, Exit, Die, Heard
<1>8. CASE \/ \E w \in queue : WriteFile(w)
           \/ Flip \/ SweepRemove
           \/ \E expired \in SUBSET Live : SweepCollect(expired)
           \/ \E k \in Keys : Reset(k) \/ PersistReset(k)
           \/ Stop \/ ArchiveSessions \/ CleanUpWal \/ Restart
  BY <1>8, <1>2 DEF WriteFile, Flip, SweepRemove, SweepCollect, Reset, PersistReset, Stop,
     ArchiveSessions, CleanUpWal, Restart, turnVars
<1> QED BY <1>5, <1>6, <1>7, <1>8 DEF Next

(* So a session's turn that answers is answered, and one that logs logs.   *)
LEMMA MovesAre ==
  ASSUME ConvTyped, Locks, Course, Next, NEW t \in Turns
  PROVE  /\ AnswersAt(t, ref[t]) => Answer(t)
         /\ LogsAt(t, ref[t]) => LogReply(t)
<1>1. pc \in [Turns -> States]
  BY DEF ConvTyped, TurnsTyped
<1>2. ASSUME AnswersAt(t, ref[t])
      PROVE  Answer(t)
  BY <1>1, <1>2, Phases DEF AnswersAt, LogReply
<1>3. ASSUME LogsAt(t, ref[t])
      PROVE  LogReply(t)
  BY <1>1, <1>3, Phases DEF LogsAt, Answer
<1> QED BY <1>2, <1>3

(* Once refused, always refused; once archived, always archived.           *)
LEMMA SafeGrows ==
  ASSUME ConvTyped, Locks, Course, OnlyRefusedWhenHeard, Next
  PROVE  /\ \A t \in Turns : refused[t] => refused'[t]
         /\ \A m : Safe(m) => Safe(m)'
         /\ \A m \in archived' : Safe(m)'
<1>1. ASSUME NEW t \in Turns, refused[t]
      PROVE  refused'[t]
  BY <1>1, TurnPaths DEF OnlyRefusedWhenHeard, AnswersAt, Heard, TurnKeeps
<1>2. archived \subseteq archived'
  BY ArchivesGrow
<1>3. ASSUME NEW m, Safe(m)
      PROVE  Safe(m)'
  BY <1>1, <1>2, <1>3 DEF Safe
<1>4. ASSUME NEW m \in archived'
      PROVE  Safe(m)'
  BY <1>4 DEF Safe
<1> QED BY <1>1, <1>3, <1>4

(* While a session is held its numbers only grow.                          *)
LEMMA SeqGrows ==
  ASSUME ConvTyped, Locks, Course, Next, NEW s \in Sids, ~Dropped(s), ~Read(s)
  PROVE  sess[s].seq \in Nat /\ sess'[s].seq \in Nat /\ sess[s].seq <= sess'[s].seq
<1>1. PICK r : r = sess[s]
  OBVIOUS
<1>2. r \in Session /\ Tidy(r) /\ r.seq \in Nat /\ iso \in [Turns -> BOOLEAN]
  BY <1>1, SessionFacts DEF ConvTyped, StoreTyped, TurnsTyped
<1>3. sess'[s] \in Session /\ sess'[s].seq \in Nat
  BY NextSession, SessionFacts
<1>4. CASE Untouched(s)
  BY <1>1, <1>2, <1>4 DEF Untouched
<1>5. CASE Cleaned(s)
  BY <1>1, <1>2, <1>5, SetDirtyFacts DEF Cleaned
<1>6. CASE Emptied(s)
  <2>1. PICK w : w = Begun(r)
    OBVIOUS
  <2>2. w \in Session /\ Tidy(w) /\ w.seq = r.seq
    BY <1>2, <2>1, BegunFacts DEF SameCursor
  <2>3. sess'[s] = [w EXCEPT !.dirty = TRUE]
    BY <1>1, <1>6, <2>1 DEF Emptied
  <2>4. sess'[s].seq = w.seq
    BY <2>2, <2>3, SetDirtyFacts
  <2> QED BY <1>1, <1>2, <2>2, <2>4
<1>7. ASSUME NEW t \in Turns, ref[t] = s,
             StartsAt(t, s) \/ FailsAt(t, s) \/ AnswersAt(t, s) \/ LogsAt(t, s) \/ LeavesAt(t, s)
      PROVE  sess[s].seq <= sess'[s].seq
  <2>1. CASE StartsAt(t, s)
    <3>1. PICK reset, long, summed \in BOOLEAN :
             /\ long => Len(Begins(r, t, reset).trunk) >= MinMessages
             /\ sess'[s] = Started(r, t, reset, long, summed)
      BY <1>1, <2>1 DEF StartsAt
    <3>2. Started(r, t, reset, long, summed).seq = r.seq
      BY <1>2, <3>1, StartedFacts
    <3> QED BY <1>1, <1>2, <3>1, <3>2
  <2>2. CASE FailsAt(t, s)
    <3>1. pc[t] = "running" /\ sess'[s] = Released(RolledBack(r))
      BY <1>1, <2>2 DEF FailsAt
    <3>2. Len(r.trunk) >= 1
      BY <1>1, <1>7, <3>1 DEF Locks, WithMine
    <3>3. PICK w : w = RolledBack(r)
      OBVIOUS
    <3>4. w \in Session /\ Tidy(w) /\ w.seq = r.seq
      BY <1>2, <3>2, <3>3, RolledBackFacts DEF SameCursor
    <3>5. Released(w).seq = w.seq
      BY <3>4, ReleasedFacts
    <3> QED BY <1>1, <1>2, <3>1, <3>3, <3>4, <3>5
  <2>3. CASE AnswersAt(t, s)
    <3>1. pc[t] = "running"
      BY <2>3 DEF AnswersAt
    <3>2. PICK q \in BOOLEAN : /\ q => r.fallbacks < MaxFallbacks
                               /\ sess'[s] = Answers(r, t, iso[t] \/ isolated, q)
      BY <1>1, <2>3 DEF AnswersAt
    <3>3. PICK b \in BOOLEAN : b = (iso[t] \/ isolated)
      OBVIOUS
    <3>4. WithMine(r, t)
      BY <1>1, <1>7, <3>1 DEF Locks
    <3>5. sess'[s] = Answers(r, t, b, q)
      BY <3>2, <3>3
    <3>6. Answers(r, t, b, q).seq = IF b THEN r.seq ELSE r.seq + 1
      BY <1>2, <3>2, <3>4, AnswersFacts
    <3> QED BY <1>1, <1>2, <3>5, <3>6
  <2>4. CASE LogsAt(t, s)
    BY <1>2, ConversationsAssumption, <1>1, <2>4, TrimmedFacts DEF ConvTyped, RestTyped, LogsAt
  <2>5. CASE LeavesAt(t, s)
    <3>1. PICK dirty \in BOOLEAN : sess'[s] = Released([r EXCEPT !.dirty = dirty])
      BY <1>1, <2>5 DEF LeavesAt
    <3>2. PICK w : w = [r EXCEPT !.dirty = dirty]
      OBVIOUS
    <3>3. w \in Session /\ Tidy(w) /\ w.seq = r.seq
      BY <1>2, <3>2, SetDirtyFacts
    <3>4. Released(w).seq = w.seq
      BY <3>3, ReleasedFacts
    <3> QED BY <1>1, <1>2, <3>1, <3>2, <3>3, <3>4
  <2> QED BY <1>7, <2>1, <2>2, <2>3, <2>4, <2>5
<1> QED BY <1>1, <1>2, <1>3, <1>4, <1>5, <1>6, <1>7, SessionMoves DEF SessionMove, TurnMove

-----------------------------------------------------------------------------
(* What the log has stays safe.                                            *)

(* Whether a turn works on a session, after each thing that happens to it. *)
LEMMA Workers ==
  ASSUME ConvTyped, Locks, Course, Next, NEW s \in Sids
  PROVE  /\ Untouched(s) => Working(s)' = Working(s)
         /\ Cleaned(s) \/ Emptied(s) => ~Working(s) /\ ~Working(s)'
         /\ \A t \in Turns : ref[t] = s =>
               /\ StartsAt(t, s) => ~Working(s) /\ Working(s)'
               /\ FailsAt(t, s) \/ AnswersAt(t, s) => Working(s) /\ ~Working(s)'
               /\ LogsAt(t, s) \/ LeavesAt(t, s) => ~Working(s) /\ ~Working(s)'
<1>1. /\ sess[s] \in Session /\ Tidy(sess[s]) /\ pc \in [Turns -> States] /\ None \notin Turns
      /\ sess[s].lock \in Turns \cup {None}
  BY ConstantFacts, SessionFacts DEF ConvTyped, StoreTyped, TurnsTyped
<1>2. ASSUME Untouched(s)
      PROVE  Working(s)' = Working(s)
  <2>1. CASE sess[s].lock = None
    BY <1>2, <2>1 DEF Untouched, Working
  <2>2. CASE sess[s].lock # None
    BY <1>1, <1>2, <2>2 DEF Untouched, Working
  <2> QED BY <2>1, <2>2
<1>3. ASSUME Cleaned(s) \/ Emptied(s)
      PROVE  ~Working(s) /\ ~Working(s)'
  <2>1. sess[s].lock = None
    BY <1>3 DEF Cleaned, Emptied, Unlocked
  <2>2. sess'[s].lock = None
    <3>1. CASE Cleaned(s)
      BY <1>1, <2>1, <3>1, SetDirtyFacts DEF Cleaned
    <3>2. CASE Emptied(s)
      <4>1. PICK w : w = Begun(sess[s])
        OBVIOUS
      <4>2. w \in Session /\ Tidy(w) /\ w.lock = None
        BY <1>1, <2>1, <4>1, BegunFacts DEF SameCursor
      <4>3. sess'[s] = [w EXCEPT !.dirty = TRUE]
        BY <3>2, <4>1 DEF Emptied
      <4> QED BY <4>2, <4>3, SetDirtyFacts
    <3> QED BY <1>3, <3>1, <3>2
  <2> QED BY <2>1, <2>2 DEF Working
<1>4. ASSUME NEW t \in Turns, ref[t] = s
      PROVE  /\ StartsAt(t, s) => ~Working(s) /\ Working(s)'
             /\ FailsAt(t, s) \/ AnswersAt(t, s) => Working(s) /\ ~Working(s)'
             /\ LogsAt(t, s) \/ LeavesAt(t, s) => ~Working(s) /\ ~Working(s)'
  <2>1. ASSUME StartsAt(t, s)
        PROVE  ~Working(s) /\ Working(s)'
    BY <1>1, <1>4, <2>1, MovedLock DEF StartsAt, Unlocked, Working
  <2>2. ASSUME pc[t] \in Holding
        PROVE  sess[s].lock = t /\ t # None
    BY <1>1, <1>4, <2>2 DEF Locks
  <2>3. ASSUME FailsAt(t, s)
        PROVE  Working(s) /\ ~Working(s)'
    BY <1>4, <2>3, MovedLock, <2>2 DEF FailsAt, Working, Holding
  <2>4. ASSUME AnswersAt(t, s)
        PROVE  Working(s) /\ ~Working(s)'
    <3>1. pc[t] = "running" /\ pc'[t] = "logging" /\ sess'[s].lock = t
      BY <1>1, <1>4, <2>4, MovedLock DEF AnswersAt
    <3> QED BY <2>2, <3>1 DEF Working, Holding
  <2>5. ASSUME LogsAt(t, s)
        PROVE  ~Working(s) /\ ~Working(s)'
    BY <1>1, <1>4, <2>5, MovedLock, <2>2 DEF LogsAt, Working, Holding
  <2>6. ASSUME LeavesAt(t, s)
        PROVE  ~Working(s) /\ ~Working(s)'
    BY <1>4, <2>6, MovedLock, <2>2 DEF LeavesAt, Working, Holding
  <2> QED BY <2>1, <2>3, <2>4, <2>5, <2>6
<1> QED BY <1>2, <1>3, <1>4

(* A message that stands where no watermark cuts it off goes on to stand   *)
(* there, or is archived when it is taken off.                             *)
LEMMA HeadMoves ==
  ASSUME ConvTyped, Locks, Course, Messaging, NeatTrunks, OnlyAdmitted, NothingDropped, Next,
         NEW s \in Sids, ~Dropped(s), ~Read(s),
         NEW m \in Kept, InHead(m, sess[s], Working(s))
  PROVE  Safe(m)' \/ InHead(m, sess'[s], Working(s)')
<1>1. PICK r, w : r = sess[s] /\ w = sess'[s]
  OBVIOUS
<1>2. r \in Session /\ Tidy(r) /\ w \in Session /\ Tidy(w) /\ iso \in [Turns -> BOOLEAN]
  BY <1>1, NextSession DEF ConvTyped, StoreTyped, TurnsTyped
<1>3. /\ scene.archive = {TRUE} /\ scene.cap \in Nat /\ scene.turns \in Nat
      /\ scene.cap > 2 * scene.turns
  BY ConversationsAssumption DEF NothingDropped, CapIsFar, ConvTyped, RestTyped
<1>4. m \in Messages /\ m # Note
  <2>1. PICK t \in Turns : m \in Exchange(t)
    BY DEF Kept, HeardTurns
  <2> QED BY <2>1, MessageFacts
<1>5. \A b \in BOOLEAN : InHead(m, r, b) => m \in Said(r.trunk)
  BY <1>2, <1>4, SaidAt, SessionFacts DEF InHead, Among
<1>6. CASE Untouched(s)
  BY <1>1, <1>6, Workers DEF Untouched
<1>7. CASE Cleaned(s)
  <2>1. Working(s) = FALSE /\ Working(s)' = FALSE
    BY <1>7, Workers DEF Working
  <2>2. w.trunk = r.trunk /\ w.mark = r.mark
    BY <1>1, <1>2, <1>7, SetDirtyFacts DEF Cleaned
  <2>3. InHead(m, r, FALSE)
    BY <1>1, <2>1
  <2>4. InHead(m, w, FALSE)
    BY <1>2, <2>2, <2>3, HeadSame
  <2> QED BY <1>1, <2>1, <2>4
<1>8. CASE Emptied(s)
  BY <1>8, Workers, <1>1, <1>5, <1>3, SafeGrows DEF Working, Emptied, ResetSession, Messaging
<1>9. ASSUME NEW t \in Turns, ref[t] = s,
             StartsAt(t, s) \/ FailsAt(t, s) \/ AnswersAt(t, s) \/ LogsAt(t, s) \/ LeavesAt(t, s)
      PROVE  Safe(m)' \/ InHead(m, sess'[s], Working(s)')
  <2>1. CASE StartsAt(t, s)
    <3>1. PICK reset, long, summed \in BOOLEAN :
             /\ long => Len(Begins(r, t, reset).trunk) >= MinMessages
             /\ w = Started(r, t, reset, long, summed)
             /\ TakesOff(r, t, reset, long)
      BY <1>1, <2>1 DEF StartsAt
    <3>2. Working(s) = FALSE /\ Working(s)' = TRUE
      BY <1>9, <2>1, Workers DEF Working
    <3>3. InHead(m, r, FALSE) /\ (long => ~iso[t])
      BY <1>1, <3>1, <3>2 DEF TakesOff
    <3>4. \/ reset /\ m \in Said(Ready(r, t).trunk)
          \/ long /\ m \in Said(Older(Begins(r, t, reset)))
          \/ InHead(m, Started(r, t, reset, long, summed), TRUE)
      BY <1>2, <1>4, <3>1, <3>3, HeadStarts
    <3>5. m \in archived' \/ InHead(m, w, TRUE)
      BY <1>3, <3>1, <3>4 DEF TakesOff
    <3> QED BY <1>1, <3>2, <3>5, SafeGrows DEF Messaging
  <2>2. ASSUME pc[t] = "running"
        PROVE  WithMine(r, t) /\ m # Question(t)
    BY <2>2, Unsaid, <1>1, <1>9 DEF Heard, Locks, Exchange
  <2>3. CASE FailsAt(t, s)
    BY <1>1, <2>2, <2>3, <1>9, Workers, <1>2, HeadRollsBack DEF FailsAt, Working
  <2>4. CASE AnswersAt(t, s)
    <3>1. WithMine(r, t) /\ m # Question(t)
      BY <2>2, <2>4 DEF AnswersAt
    <3>2. PICK q, b \in BOOLEAN : /\ q => r.fallbacks < MaxFallbacks
                                  /\ w = Answers(r, t, b, q)
      <4>1. PICK b \in BOOLEAN : b = (iso[t] \/ isolated)
        OBVIOUS
      <4> QED BY <1>1, <2>4, <4>1 DEF AnswersAt
    <3>3. Working(s) = TRUE /\ Working(s)' = FALSE
      BY <1>9, <2>4, Workers DEF Working
    <3>4. InHead(m, r, TRUE)
      BY <1>1, <3>3
    <3>5. InHead(m, Answers(r, t, b, q), FALSE)
      BY <1>2, <3>1, <3>2, <3>4, HeadAnswers
    <3> QED BY <1>1, <3>2, <3>3, <3>5
  <2>5. CASE LogsAt(t, s)
    <3>1. w = Trimmed(r, iso[t], scene.cap) /\ iso[t] \in BOOLEAN
      BY <1>1, <1>2, <2>5 DEF LogsAt
    <3>2. Working(s) = FALSE /\ Working(s)' = FALSE
      BY <1>9, <2>5, Workers DEF Working
    <3>3. InHead(m, r, FALSE)
      BY <1>1, <3>2
    <3>4. scene.cap >= Len(r.trunk)
      BY <1>1, TrunkLength, <1>2, SessionFacts, <1>3
    <3>5. InHead(m, Trimmed(r, iso[t], scene.cap), FALSE)
      BY <1>2, <1>3, <3>1, <3>3, <3>4, HeadLogs
    <3> QED BY <1>1, <3>1, <3>2, <3>5
  <2>6. CASE LeavesAt(t, s)
    <3>1. PICK dirty \in BOOLEAN : w = Released([r EXCEPT !.dirty = dirty])
      BY <1>1, <2>6 DEF LeavesAt
    <3>2. PICK v : v = [r EXCEPT !.dirty = dirty]
      OBVIOUS
    <3>3. v \in Session /\ Tidy(v) /\ v.trunk = r.trunk /\ v.mark = r.mark
      BY <1>2, <3>2, SetDirtyFacts
    <3>4. w.trunk = r.trunk /\ w.mark = r.mark
      BY <3>3, ReleasedFacts, <3>1, <3>2
    <3>5. Working(s) = FALSE /\ Working(s)' = FALSE
      BY <1>9, <2>6, Workers DEF Working
    <3>6. InHead(m, r, FALSE)
      BY <1>1, <3>5
    <3>7. InHead(m, w, FALSE)
      BY <1>2, <3>4, <3>6, HeadSame
    <3> QED BY <1>1, <3>5, <3>7
  <2> QED BY <1>9, <2>1, <2>3, <2>4, <2>5, <2>6
<1> QED BY <1>6, <1>7, <1>8, <1>9, SessionMoves DEF SessionMove, TurnMove

-----------------------------------------------------------------------------
(* The numbers of a log.                                                   *)

(* A log with one entry more.                                              *)
LEMMA EntryAppended ==
  ASSUME NEW q \in Seq(Entry), NEW e \in Entry
  PROVE  /\ Append(q, e) \in Seq(Entry) /\ Len(q) \in Nat /\ Len(Append(q, e)) = Len(q) + 1
         /\ Append(q, e) # <<>>
         /\ \A i \in 1..Len(q) : Append(q, e)[i] = q[i]
         /\ Append(q, e)[Len(q) + 1] = e
         /\ \A x : x \in ToSet(Append(q, e)) <=> x \in ToSet(q) \/ x = e
<1>1. /\ Append(q, e) \in Seq(Entry) /\ Len(q) \in Nat /\ Len(Append(q, e)) = Len(q) + 1
      /\ \A i \in 1..Len(q) : Append(q, e)[i] = q[i]
      /\ Append(q, e)[Len(q) + 1] = e
  OBVIOUS
<1>2. PICK p : p = Append(q, e)
  OBVIOUS
<1>3. \A x : x \in ToSet(q) <=> \E i \in 1..Len(q) : q[i] = x
  BY EntriesFacts
<1>4. \A x : x \in ToSet(p) <=> \E i \in 1..Len(p) : p[i] = x
  BY <1>1, <1>2, EntriesFacts
<1>5. ASSUME NEW x, x \in ToSet(p)
      PROVE  x \in ToSet(q) \/ x = e
  <2>1. PICK i \in 1..Len(p) : p[i] = x
    BY <1>4, <1>5
  <2>2. CASE i = Len(q) + 1
    BY <1>1, <1>2, <2>1, <2>2
  <2>3. CASE i # Len(q) + 1
    BY <1>1, <1>2, <2>1, <2>3, <1>3
  <2> QED BY <2>2, <2>3
<1>6. ASSUME NEW x, x \in ToSet(q) \/ x = e
      PROVE  x \in ToSet(p)
  <2>1. CASE x = e
    BY <1>1, <1>2, <1>4, <2>1
  <2>2. CASE x \in ToSet(q)
    <3>1. PICK i \in 1..Len(q) : q[i] = x
      BY <1>3, <2>2
    <3>2. i \in 1..Len(p) /\ p[i] = x
      BY <1>1, <1>2, <3>1
    <3> QED BY <1>4, <3>2
  <2> QED BY <1>6, <2>1, <2>2
<1>7. p # <<>>
  BY <1>1, <1>2
<1> QED BY <1>1, <1>2, <1>5, <1>6, <1>7

(* Where no session is evicted and none expires an identity keeps its own  *)
(* until the process ends.                                                 *)
LEMMA StaysHeld ==
  ASSUME ConvTyped, Locks, Course, SameSession, NeverForgotten, Next, ~Restart, NEW k \in Keys
  PROVE  /\ live'[k] # None =>
               \/ live[k] = None /\ stage # "down" /\ LogSame
               \/ /\ live[k] \in Sids /\ live'[k] = live[k]
                  /\ ~Dropped(live[k]) /\ ~Read(live[k])
         /\ live'[k] = None /\ stage' # "down" => live[k] = None /\ stage # "down"
<1>1. live \in [Keys -> Sids \cup {None}] /\ None \notin Sids /\ pc \in [Turns -> States]
  BY ConstantFacts DEF ConvTyped, StoreTyped, TurnsTyped
<1>2. ~SweepRemove
  BY DEF SweepRemove, SameSession
<1>3. ASSUME NEW t \in Turns, OpenNew(t)
      PROVE  /\ live[k] # None => live'[k] = live[k]
             /\ stage # "down" /\ stage' = stage /\ LogSame
  <2>1. pc[t] = "admitted" /\ live[keyOf[t]] = None
    BY <1>3 DEF OpenNew
  <2>2. keyOf[t] \in Keys /\ stage # "down"
    BY <2>1 DEF Course, InFlight
  <2>3. stage' = stage /\ LogSame
    BY <1>3 DEF OpenNew, LogSame
  <2>4. ~(Cardinality(Live) >= scene.sessions)
    BY <2>1, <2>2, NeverFull DEF NeverForgotten
  <2>5. live' = [j \in Keys |-> IF j = keyOf[t] THEN FreshSid
                                ELSE IF j \in {} THEN None ELSE live[j]]
    BY <1>3, <2>4 DEF OpenNew
  <2> QED BY <2>1, <2>2, <2>3, <2>5
<1>4. ASSUME NEW t \in Turns, OpenLive(t)
      PROVE  live' = live
  BY <1>4 DEF OpenLive, mind
<1>5. stage = "down" => live[k] = None
  BY DEF Course
<1>6. stage = "down" => stage' = "down"
  BY StageSteps DEF Crash, Stop, ArchiveSessions, CleanUpWal, Exit
<1>7. Course'
  BY NextCourse
<1>8. stage' = "down" => live'[k] = None
  BY <1>7 DEF Course
<1>9. \/ live' = live \/ stage' = "down"
      \/ \E t \in Turns : OpenNew(t)
  BY <1>2, <1>4, LiveMoves DEF Settling, Died
<1>10. ASSUME live'[k] # None
       PROVE  \/ live[k] = None /\ stage # "down" /\ LogSame
              \/ /\ live[k] \in Sids /\ live'[k] = live[k]
                 /\ ~Dropped(live[k]) /\ ~Read(live[k])
  <2>1. CASE live[k] = None
    BY <1>3, <1>8, <1>9, <1>10, <2>1
  <2>2. CASE live[k] # None
    BY <1>1, <1>3, <1>8, <1>9, <1>10, <2>2, <1>5 DEF Dropped, Idle, Read
  <2> QED BY <2>1, <2>2
<1>11. ASSUME live'[k] = None, stage' # "down"
       PROVE  live[k] = None /\ stage # "down"
  BY <1>3, <1>6, <1>9, <1>11
<1> QED BY <1>10, <1>11

(* What happens to the log of one identity.                                *)
LEMMA LogOf ==
  ASSUME ConvTyped, Locks, Course, SameSession, NeverForgotten, Next, NEW k \in Keys
  PROVE  \/ wal'[k] = wal[k] /\ ckpt'[k] = ckpt[k]
         \/ CleanUpWal \/ Restart
         \/ \E t \in Turns : /\ LogTurn(t) /\ keyOf[t] = k
                             /\ live[k] = ref[t] /\ ref[t] \in Sids /\ live' = live
<1>1. wal \in [Keys -> Seq(Entry)] /\ ckpt \in [Keys -> Nat] /\ None \notin Sids
  BY ConstantFacts DEF ConvTyped, FilesTyped
<1>2. ASSUME NEW t \in Turns, LogTurn(t)
      PROVE  \/ wal'[k] = wal[k] /\ ckpt'[k] = ckpt[k]
             \/ keyOf[t] = k /\ live[k] = ref[t] /\ ref[t] \in Sids /\ live' = live
  <2>1. keyOf[t] \in Keys /\ ref[t] \in Sids
    BY <1>2 DEF LogTurn, LogsQuestion, LogsReply, LogsAs, Checkpoints
  <2>2. live' = live
    BY <1>2 DEF LogTurn, LogsQuestion, LogsReply, Checkpoints, Answer, LogReply
  <2>3. CASE keyOf[t] = k
    BY <1>1, <2>1, <2>2, <2>3 DEF SameSession
  <2>4. CASE keyOf[t] # k
    BY <1>1, <2>1, <2>4, <1>2 DEF Checkpoints, LogsQuestion, LogsReply, LogsAs, LogTurn
  <2> QED BY <2>3, <2>4
<1> QED BY <1>2, LogSteps DEF LogSame

(* Each entry takes the next number of the session.                        *)
LEMMA LogsNext ==
  ASSUME ConvTyped, Locks, Course, NEW t \in Turns, LogsQuestion(t) \/ LogsReply(t)
  PROVE  /\ ref[t] \in Sids /\ keyOf[t] \in Keys /\ sess[ref[t]].seq \in Nat
         /\ sess'[ref[t]].seq = sess[ref[t]].seq + 1
         /\ ckpt'[keyOf[t]] = ckpt[keyOf[t]]
         /\ \E m \in Messages :
               wal'[keyOf[t]] = Append(wal[keyOf[t]], [seq |-> sess[ref[t]].seq + 1, said |-> m])
<1>1. PICK s, r : s = ref[t] /\ r = sess[ref[t]]
  OBVIOUS
<1>2. pc[t] \in Holding
  BY DEF LogsQuestion, LogsReply, Answer, LogReply, Holding
<1>3. s \in Sids /\ r \in Session /\ Tidy(r) /\ keyOf[t] \in Keys /\ r.seq \in Nat
  BY <1>1, <1>2, AtHand, SessionFacts
<1>4. ~iso[t] /\ wal \in [Keys -> Seq(Entry)] /\ iso \in [Turns -> BOOLEAN]
  BY DEF LogsQuestion, LogsReply, LogsAs, ConvTyped, FilesTyped, TurnsTyped
<1>5. sess'[s].seq = r.seq + 1
  <2>1. CASE LogsQuestion(t)
    <3>1. pc[t] = "running" /\ ~isolated /\ Answer(t)
      BY <2>1 DEF LogsQuestion, Answer
    <3>2. WithMine(r, t)
      BY <1>1, <3>1 DEF Locks
    <3>3. AnswersAt(t, s)
      BY <1>1, <3>1, AnswerMoves
    <3>4. (iso[t] \/ isolated) = FALSE
      BY <1>4, <3>1
    <3>5. PICK q \in BOOLEAN : /\ q => r.fallbacks < MaxFallbacks
                               /\ sess'[s] = Answers(r, t, FALSE, q)
      BY <1>1, <3>3, <3>4 DEF AnswersAt
    <3>6. Answers(r, t, FALSE, q).seq = IF FALSE THEN r.seq ELSE r.seq + 1
      BY <1>3, <3>2, <3>5, AnswersFacts
    <3> QED BY <3>5, <3>6
  <2>2. CASE LogsReply(t)
    <3>1. LogsAt(t, s)
      BY <1>1, <2>2, LogMoves DEF LogsReply
    <3>2. scene.cap \in Nat
      BY ConversationsAssumption DEF ConvTyped, RestTyped
    <3>3. iso[t] = FALSE
      BY <1>4
    <3>4. sess'[s] = Trimmed(r, FALSE, scene.cap)
      BY <1>1, <3>1, <3>3 DEF LogsAt
    <3>5. Trimmed(r, FALSE, scene.cap).seq = IF FALSE THEN r.seq ELSE r.seq + 1
      BY <1>3, <3>2, TrimmedFacts
    <3> QED BY <3>4, <3>5
  <2> QED BY <2>1, <2>2
<1>6. \E m \in Messages :
         wal'[keyOf[t]] = Append(wal[keyOf[t]], [seq |-> sess[ref[t]].seq + 1, said |-> m])
  BY MessageFacts, <1>3, <1>4 DEF LogsQuestion, LogsReply, LogsAs
<1>7. ckpt' = ckpt
  BY DEF LogsQuestion, LogsReply, LogsAs
<1> QED BY <1>1, <1>3, <1>5, <1>6, <1>7

(* A boot removes the log of an identity that has no session file, and a   *)
(* shutdown in time has removed them all.                                  *)
LEMMA RestartClears ==
  ASSUME ConvTyped, Course, Placed, Restart, Next, NEW k \in Keys, Numbered(k), Counted(k)'
  PROVE  wal'[k] = <<>> /\ ckpt'[k] = 0
<1>1. Counted(k) /\ stage = "down"
  BY CountedBack DEF Placed, Restart
<1>2. wal[k] = <<>> => ckpt[k] = 0
  BY <1>1 DEF Numbered
<1>3. PICK expired \in SUBSET {j \in Keys : json[j] # None}, ok \in scene.archive :
         LET orphans == {j \in Keys \ ({i \in Keys : json[i] # None} \ expired) : wal[j] # <<>>}
             cleared == {j \in orphans : ok \/ PastCheckpoint(j) = {}}
         IN  /\ Load({j \in Keys : json[j] # None} \ expired)
             /\ wal' = [j \in Keys |-> IF j \in cleared THEN <<>> ELSE wal[j]]
             /\ ckpt' = [j \in Keys |-> IF j \in cleared THEN 0 ELSE ckpt[j]]
  BY DEF Restart
<1>4. \/ wal'[k] = wal[k] /\ ckpt'[k] = ckpt[k]
      \/ wal'[k] = <<>> /\ ckpt'[k] = 0
  BY <1>3
<1>5. CASE wal[k] = <<>>
  BY <1>2, <1>4, <1>5
<1>6. CASE wal[k] # <<>>
  <2>1. ~NeverCut
    BY <1>1, <1>6 DEF NeverCut, NeverCrashed, Placed, Ends, ConvTyped, RestTyped, BoundNames
  <2>2. ~NeverCut'
    BY <2>1, Back
  <2>3. json'[k] = None /\ scene'.archive = {TRUE} /\ NeverForgotten'
    BY <2>2 DEF Counted
  <2>4. json[k] = None
    BY <2>3, JsonStays DEF Placed
  <2>5. scene' = scene
    BY Back
  <2>6. ok = TRUE
    BY <1>3, <2>3, <2>5
  <2>7. k \in {j \in {j \in Keys \ ({i \in Keys : json[i] # None} \ expired) : wal[j] # <<>>} :
                 ok \/ PastCheckpoint(j) = {}}
    BY <1>6, <2>4, <2>6
  <2> QED BY <1>3, <2>7
<1> QED BY <1>5, <1>6

(* An entry goes behind all the others.                                    *)
LEMMA NumberedAppends ==
  ASSUME ConvTyped, Locks, Course, Next, NEW k \in Keys, Numbered(k), Counted(k),
         NEW t \in Turns, LogsQuestion(t) \/ LogsReply(t), keyOf[t] = k, live[k] = ref[t],
         live' = live
  PROVE  Numbered(k)'
<1>1. PICK s, n, q, p, c : /\ s = ref[t] /\ n = sess[ref[t]].seq /\ q = wal[k] /\ p = wal'[k]
                           /\ c = ckpt[k]
  OBVIOUS
<1>2. PICK m \in Messages : p = Append(q, [seq |-> n + 1, said |-> m])
  BY <1>1, LogsNext
<1>3. PICK e : e = [seq |-> n + 1, said |-> m]
  OBVIOUS
<1>4. /\ s \in Sids /\ n \in Nat /\ q \in Seq(Entry) /\ c \in Nat /\ s # None
      /\ sess'[s].seq = n + 1 /\ ckpt'[k] = c
  BY <1>1, LogsNext, ConstantFacts DEF ConvTyped, FilesTyped
<1>5. e \in Entry /\ e.seq = n + 1
  BY <1>3, <1>4 DEF Entry
<1>6. /\ Len(q) \in Nat /\ Len(p) = Len(q) + 1 /\ p # <<>>
      /\ \A i \in 1..Len(q) : p[i] = q[i]
      /\ p[Len(q) + 1] = e
      /\ \A x : x \in ToSet(p) <=> x \in ToSet(q) \/ x = e
  BY <1>2, <1>3, <1>4, <1>5, EntryAppended
<1>7. /\ \A i, j \in 1..Len(q) : i < j => q[i].seq < q[j].seq
      /\ \A i \in 1..Len(q) : q[i].seq > 0
      /\ c <= n
      /\ \A x \in ToSet(q) : x.seq <= n
  BY <1>1, <1>4 DEF Numbered
<1>8. \A i \in 1..Len(q) : q[i] \in ToSet(q) /\ q[i].seq \in Nat
  BY <1>4, EntriesFacts
<1>9. \A i, j \in 1..Len(p) : i < j => p[i].seq < p[j].seq
  <2>1. SUFFICES ASSUME NEW i \in 1..Len(p), NEW j \in 1..Len(p), i < j
                 PROVE  p[i].seq < p[j].seq
    OBVIOUS
  <2>2. i \in 1..Len(q) /\ p[i] = q[i]
    BY <1>6, <2>1
  <2>3. CASE j = Len(q) + 1
    BY <1>7, <1>8, <2>2, <1>5, <1>6, <2>3, <1>4
  <2>4. CASE j # Len(q) + 1
    <3>1. j \in 1..Len(q) /\ p[j] = q[j]
      BY <1>6, <2>1, <2>4
    <3> QED BY <1>7, <2>1, <2>2, <3>1
  <2> QED BY <2>3, <2>4
<1>10. \A i \in 1..Len(p) : p[i].seq > 0
  <2>1. SUFFICES ASSUME NEW i \in 1..Len(p)
                 PROVE  p[i].seq > 0
    OBVIOUS
  <2>2. CASE i = Len(q) + 1
    BY <1>5, <1>6, <2>2, <1>4
  <2>3. CASE i # Len(q) + 1
    BY <1>6, <2>1, <2>3, <1>7
  <2> QED BY <2>2, <2>3
<1>11. \A x \in ToSet(p) : x.seq <= n + 1
  BY <1>4, <1>7, EntriesFacts, <1>5, <1>6
<1>12. c <= n + 1
  BY <1>4, <1>7
<1>13. wal'[k] = p /\ live'[k] = s /\ sess'[live'[k]].seq = n + 1 /\ ckpt'[k] = c
  BY <1>1, <1>4
<1> QED BY <1>4, <1>6, <1>9, <1>10, <1>11, <1>12, <1>13 DEF Numbered

(* Whoever is committing, and not isolated, has logged something.          *)
LEMMA CommittingHasLogged ==
  ASSUME ConvTyped, Locks, Course, NEW k \in Keys, Numbered(k), Counted(k), Next,
         wal'[k] = wal[k], NEW t \in Turns, pc'[t] \in {"logging", "committing"}, ~iso'[t],
         keyOf'[t] = k
  PROVE  wal[k] # <<>>
<1>1. wal \in [Keys -> Seq(Entry)] /\ pc \in [Turns -> States] /\ iso \in [Turns -> BOOLEAN]
  BY DEF ConvTyped, FilesTyped, TurnsTyped
<1>2. ASSUME LogsQuestion(t) \/ LogsReply(t), keyOf[t] = k
      PROVE  FALSE
  <2>1. PICK m \in Messages : /\ sess[ref[t]].seq \in Nat
                              /\ wal'[k] = Append(wal[k], [seq |-> sess[ref[t]].seq + 1, said |-> m])
    BY <1>2, LogsNext
  <2>2. [seq |-> sess[ref[t]].seq + 1, said |-> m] \in Entry
    BY <2>1 DEF Entry
  <2>3. Len(wal'[k]) = Len(wal[k]) + 1 /\ Len(wal[k]) \in Nat
    BY <1>1, <2>1, <2>2, EntryAppended
  <2> QED BY <2>3
<1>3. CASE Answer(t)
  BY <1>3, <1>2, AnswerLogs DEF Answer
<1>4. CASE LogReply(t)
  BY <1>4, <1>2, ReplyLogs DEF LogReply
<1>5. CASE ~Answer(t) /\ ~LogReply(t)
  <2>1. pc'[t] = pc[t]
    BY <1>5, Phases
  <2>2. keyOf'[t] = keyOf[t] /\ iso'[t] = iso[t]
    BY <1>5, MovesAre, TurnPaths, <2>1 DEF TurnKeeps
  <2> QED BY <2>1, <2>2 DEF Numbered
<1> QED BY <1>3, <1>4, <1>5

(* A checkpoint marks the last number given.                               *)
LEMMA NumberedSame ==
  ASSUME ConvTyped, Locks, Course, SameSession, Next, ~Restart, NEW k \in Keys,
         Numbered(k), Counted(k), wal'[k] = wal[k],
         \/ ckpt'[k] = ckpt[k]
         \/ \E t \in Turns : Checkpoints(t) /\ keyOf[t] = k /\ live[k] = ref[t]
  PROVE  Numbered(k)'
<1>1. PICK q : q = wal[k]
  OBVIOUS
<1>2. q \in Seq(Entry) /\ wal'[k] = q /\ NeverForgotten
  BY <1>1 DEF ConvTyped, FilesTyped, Counted
<1>3. ckpt[k] \in Nat /\ \A x \in ToSet(q) : x.seq \in Nat
  BY <1>2, EntriesFacts DEF ConvTyped, FilesTyped
<1>4. \A t \in Turns : pc'[t] \in {"logging", "committing"} /\ ~iso'[t] /\ keyOf'[t] = k
                       => wal'[k] # <<>>
  BY <1>1, <1>2, CommittingHasLogged
<1>5. wal'[k] = <<>> => ckpt'[k] = 0
  <2>1. ASSUME NEW t \in Turns, Checkpoints(t), keyOf[t] = k
        PROVE  q # <<>>
    BY <1>1, <2>1 DEF Checkpoints, Numbered
  <2> QED BY <1>1, <1>2, <2>1 DEF Numbered
<1>6. live'[k] = None /\ stage' # "down" => wal'[k] = <<>>
  BY <1>1, <1>2, StaysHeld DEF Numbered
<1>7. ASSUME live'[k] # None
      PROVE  /\ ckpt'[k] <= sess'[live'[k]].seq
             /\ \A e \in ToSet(wal'[k]) : e.seq <= sess'[live'[k]].seq
  <2>1. CASE live[k] = None /\ stage # "down" /\ LogSame
    <3>1. wal[k] = <<>> /\ ckpt[k] = 0
      BY <2>1 DEF Numbered
    <3>2. wal'[k] = <<>> /\ ckpt'[k] = 0
      BY <2>1, <3>1 DEF LogSame
    <3>3. ToSet(<<>>) = {}
      BY DEF ToSet
    <3>4. live'[k] \in Sids
      BY NextTyped, <1>7 DEF ConvTyped, StoreTyped
    <3>5. sess'[live'[k]].seq \in Nat
      BY <3>4, NextSession, SessionFacts
    <3> QED BY <3>2, <3>3, <3>5
  <2>2. ASSUME live[k] \in Sids, live'[k] = live[k], ~Dropped(live[k]), ~Read(live[k])
        PROVE  /\ ckpt'[k] <= sess'[live'[k]].seq
               /\ \A e \in ToSet(wal'[k]) : e.seq <= sess'[live'[k]].seq
    <3>1. PICK n, o : n = sess[live[k]].seq /\ o = sess'[live[k]].seq
      OBVIOUS
    <3>2. n \in Nat /\ o \in Nat /\ n <= o
      BY <2>2, <3>1, SeqGrows
    <3>3. ckpt[k] <= n /\ \A e \in ToSet(q) : e.seq <= n
      BY <1>1, <1>7, <2>2, <3>1 DEF Numbered
    <3>4. ckpt'[k] <= o
      <4>1. CASE ckpt'[k] = ckpt[k]
        BY <1>3, <3>2, <3>3, <4>1
      <4>2. ASSUME NEW t \in Turns, Checkpoints(t), keyOf[t] = k, live[k] = ref[t]
            PROVE  ckpt'[k] <= o
        BY <3>1, <4>2, <3>2 DEF Checkpoints, ConvTyped, FilesTyped
      <4> QED BY <4>1, <4>2
    <3>5. \A e \in ToSet(q) : e.seq <= o
      <4>1. SUFFICES ASSUME NEW e \in ToSet(q)
                     PROVE  e.seq <= o
        OBVIOUS
      <4> QED BY <1>3, <3>2, <3>3
    <3> QED BY <1>2, <2>2, <3>1, <3>4, <3>5
  <2> QED BY <1>2, <1>7, <2>1, <2>2, StaysHeld
<1>8. /\ \A i, j \in 1..Len(q) : i < j => q[i].seq < q[j].seq
      /\ \A i \in 1..Len(q) : q[i].seq > 0
  BY <1>1 DEF Numbered
<1> QED BY <1>2, <1>4, <1>5, <1>6, <1>7, <1>8 DEF Numbered

(* An empty log starts anew.                                               *)
LEMMA NumberedEmpty ==
  ASSUME ConvTyped, Locks, Course, Next, NEW k \in Keys, wal'[k] = <<>>, ckpt'[k] = 0,
         \A t \in Turns : pc'[t] \notin InFlight
  PROVE  Numbered(k)'
<1>1. \A t \in Turns : pc'[t] \notin {"logging", "committing"}
  BY DEF InFlight
<1>2. Len(<<>>) = 0 /\ ToSet(<<>>) = {}
  BY DEF ToSet
<1>3. ASSUME live'[k] # None
      PROVE  0 <= sess'[live'[k]].seq
  BY NextTyped, <1>3, NextSession, SessionFacts DEF ConvTyped, StoreTyped
<1> QED BY <1>1, <1>2, <1>3 DEF Numbered

(* Every step keeps the numbers in order.                                  *)
LEMMA NextNumbered ==
  ASSUME ConvTyped, Locks, Course, Placed, Next, NEW k \in Keys, Numbered(k)
  PROVE  Numbered(k)'
<1>1. CASE ~Counted(k)'
  BY <1>1 DEF Numbered
<1>2. CASE Counted(k)'
  <2>1. Counted(k) /\ NeverForgotten /\ SameSession
    BY <1>2, CountedBack DEF Placed, Counted
  <2>2. CASE Restart
    BY <1>2, <2>2, RestartClears, NumberedEmpty DEF Restart, Course, turnVars
  <2>3. CASE CleanUpWal
    <3>1. wal'[k] = <<>> /\ ckpt'[k] = 0 /\ stage = "archived" /\ pc' = pc
      BY <2>3 DEF CleanUpWal, turnVars
    <3>2. spent.stop > 0
      BY <3>1 DEF Placed, Ends
    <3>3. spent.stop # 0
      BY <3>2
    <3>5. NeverCut
      BY <2>1, <3>3 DEF Counted
    <3>6. ~scene.slow
      BY <3>3, <3>5 DEF NeverCut
    <3>4. \A t \in Turns : pc'[t] \notin InFlight
      BY <3>1, <3>6 DEF Placed, Ends
    <3> QED BY <3>1, <3>4, NumberedEmpty
  <2>4. CASE ~Restart /\ wal'[k] = wal[k] /\ ckpt'[k] = ckpt[k]
    BY <2>1, <2>4, NumberedSame
  <2>5. ASSUME ~Restart, NEW t \in Turns, LogTurn(t), keyOf[t] = k, live[k] = ref[t], live' = live
        PROVE  Numbered(k)'
    <3>1. CASE LogsQuestion(t) \/ LogsReply(t)
      BY <2>1, <2>5, <3>1, NumberedAppends
    <3>2. CASE Checkpoints(t)
      BY <3>2, <2>1, <2>5, NumberedSame DEF Checkpoints
    <3> QED BY <2>5, <3>1, <3>2 DEF LogTurn
  <2> QED BY <2>1, <2>2, <2>3, <2>4, <2>5, LogOf
<1> QED BY <1>1, <1>2

-----------------------------------------------------------------------------
(* What a log's entries and a turn's own messages rest on.                 *)

(* A turn that is not isolated has taken the watermarks, and sets none.    *)
LEMMA NextUnmarked ==
  ASSUME ConvTyped, Locks, Course, Unmarked, Next
  PROVE  Unmarked'
<1>1. SUFFICES ASSUME NEW t \in Turns, pc'[t] \in Holding, ~iso'[t]
               PROVE  sess'[ref'[t]].mark = None
  BY DEF Unmarked
<1>2. /\ pc \in [Turns -> States] /\ iso \in [Turns -> BOOLEAN] /\ None \notin Sids
      /\ ref \in [Turns -> Sids \cup {None}]
  BY ConstantFacts DEF ConvTyped, TurnsTyped
<1>3. TurnPath(t) /\ TurnKeeps(t)
  BY TurnPaths
<1>4. PICK s, r : s = ref[t] /\ r = sess[s]
  OBVIOUS
<1>5. s \in Sids => r \in Session /\ Tidy(r)
  BY <1>4 DEF ConvTyped, StoreTyped
<1>6. pc[t] \in {"opened"} \cup Holding => s \in Sids
  BY <1>2, <1>4 DEF Locks
<1>7. pc[t] # "running" /\ pc[t] # "new" => iso'[t] = iso[t]
  BY <1>3 DEF TurnKeeps, AnswersAt
<1>8. CASE pc'[t] = pc[t] /\ ref'[t] = ref[t]
  BY <1>1, <1>4, <1>8, AtWork, <1>2, <1>3 DEF TurnKeeps, AnswersAt, Holding, Unmarked
<1>9. CASE StartsAt(t, s)
  <2>1. pc[t] = "opened" /\ ref' = ref
    BY <1>9 DEF StartsAt
  <2>2. s \in Sids /\ ~iso[t]
    BY <1>1, <1>6, <1>7, <2>1
  <2>3. PICK reset, long, summed \in BOOLEAN :
           /\ long => Len(Begins(r, t, reset).trunk) >= MinMessages
           /\ sess'[s] = Started(r, t, reset, long, summed)
    BY <1>4, <1>9 DEF StartsAt
  <2>4. Started(r, t, reset, long, summed).mark = Begins(r, t, reset).mark
    BY <1>2, <1>5, <2>2, <2>3, StartedAs
  <2>5. Begins(r, t, reset).mark = Ready(r, t).mark
    BY <1>2, <1>5, <2>2, BeginsAs
  <2>6. Ready(r, t).mark = None
    BY <1>2, <1>5, <2>2, ReadyFacts
  <2> QED BY <1>4, <2>1, <2>3, <2>4, <2>5, <2>6
<1>10. CASE AnswersAt(t, s)
  <2>1. pc[t] = "running" /\ ref' = ref
    BY <1>10 DEF AnswersAt
  <2>2. s \in Sids /\ WithMine(r, t)
    BY <1>4, <1>6, <2>1 DEF Locks, Holding
  <2>3. Answer(t)
    BY <1>4, <1>10, MovesAre
  <2>4. iso'[t] = (iso[t] \/ isolated)
    BY <1>2, <2>3 DEF Answer
  <2>5. (iso[t] \/ isolated) = FALSE
    BY <1>1, <2>4
  <2>6. PICK q \in BOOLEAN : /\ q => r.fallbacks < MaxFallbacks
                             /\ sess'[s] = Answers(r, t, FALSE, q)
    BY <1>4, <1>10, <2>5 DEF AnswersAt
  <2>9. Answers(r, t, FALSE, q).mark =
           IF FALSE THEN (IF r.mark = None THEN r.found ELSE r.mark) ELSE r.mark
    BY <1>5, <2>2, <2>6, AnswersFacts
  <2>10. r.mark = None
    BY <1>4, <2>1, <2>5 DEF Unmarked, Holding
  <2> QED BY <1>4, <2>1, <2>6, <2>9, <2>10
<1>11. CASE LogsAt(t, s)
  <2>1. pc[t] = "logging" /\ ref' = ref /\ sess'[s] = Trimmed(r, iso[t], scene.cap)
    BY <1>4, <1>11 DEF LogsAt
  <2>2. s \in Sids /\ ~iso[t] /\ iso[t] \in BOOLEAN
    BY <1>1, <1>2, <1>6, <1>7, <2>1 DEF Holding
  <2>3. r.mark = None
    BY <1>4, <2>1, <2>2 DEF Unmarked, Holding
  <2>4. scene.cap \in Nat
    BY ConversationsAssumption DEF ConvTyped, RestTyped
  <2>5. Trimmed(r, iso[t], scene.cap).mark = r.mark
    BY <1>5, <2>2, <2>4, TrimmedFacts
  <2> QED BY <1>4, <2>1, <2>3, <2>5
<1> QED BY <1>1, <1>3, <1>4, <1>8, <1>9, <1>10, <1>11 DEF TurnPath, Holding

(* Between the answer and its logging the reply stands in the conversation *)
(* unless the fallback gave it.                                            *)
LEMMA NextKnowsReply ==
  ASSUME ConvTyped, Locks, Course, KnowsReply, Next
  PROVE  KnowsReply'
<1>1. SUFFICES ASSUME NEW t \in Turns, pc'[t] = "logging", ~refused'[t]
               PROVE  \E i \in 1..Len(sess'[ref'[t]].trunk) : sess'[ref'[t]].trunk[i] = Reply(t)
  BY DEF KnowsReply
<1>2. /\ pc \in [Turns -> States] /\ refused \in [Turns -> BOOLEAN] /\ None \notin Sids
      /\ ref \in [Turns -> Sids \cup {None}]
  BY ConstantFacts DEF ConvTyped, TurnsTyped
<1>3. TurnPath(t) /\ TurnKeeps(t)
  BY TurnPaths
<1>4. PICK s, r : s = ref[t] /\ r = sess[s]
  OBVIOUS
<1>5. CASE pc'[t] = pc[t] /\ ref'[t] = ref[t]
  BY <1>1, <1>4, <1>5, AtWork, <1>3 DEF Holding, TurnKeeps, AnswersAt, KnowsReply
<1>6. CASE AnswersAt(t, s)
  <2>1. pc[t] = "running" /\ ref' = ref
    BY <1>6 DEF AnswersAt
  <2>2. s \in Sids /\ WithMine(r, t) /\ r \in Session /\ Tidy(r)
    BY <1>2, <1>4, <2>1 DEF Locks, Holding, ConvTyped, StoreTyped
  <2>3. PICK b \in BOOLEAN : b = (iso[t] \/ isolated)
    OBVIOUS
  <2>4. PICK q \in BOOLEAN : /\ q => r.fallbacks < MaxFallbacks
                             /\ refused' = [refused EXCEPT ![t] = q]
                             /\ sess'[s] = Answers(r, t, b, q)
    BY <1>4, <1>6, <2>3 DEF AnswersAt
  <2>5. q = FALSE
    BY <1>1, <1>2, <2>4
  <2>6. PICK w : w = Answers(r, t, b, FALSE)
    OBVIOUS
  <2>7. w.trunk = Told(r, t, FALSE).trunk
    BY <2>2, <2>6, AnswersFacts
  <2>8. Told(r, t, FALSE).trunk = Append(r.trunk, Reply(t))
    BY <2>2, ToldFacts
  <2>9. r.trunk \in Seq(Messages) /\ Len(r.trunk) \in Nat /\ Reply(t) \in Messages /\ Reply(t) # Note
    BY <2>2, SessionFacts, MessageFacts
  <2>10. Len(w.trunk) = Len(r.trunk) + 1 /\ w.trunk[Len(r.trunk) + 1] = Reply(t)
    <3>1. PICK q0, m : q0 = r.trunk /\ m = Reply(t)
      OBVIOUS
    <3>2. Len(Append(q0, m)) = Len(q0) + 1 /\ Append(q0, m)[Len(q0) + 1] = m
      BY <2>9, <3>1, AppendFacts
    <3>3. w.trunk = Append(q0, m)
      BY <2>7, <2>8, <3>1
    <3> QED BY <3>1, <3>2, <3>3
  <2>11. Len(r.trunk) + 1 \in 1..Len(w.trunk)
    BY <2>9, <2>10
  <2>12. \E i \in 1..Len(w.trunk) : w.trunk[i] = Reply(t)
    BY <2>10, <2>11
  <2>13. sess'[ref'[t]] = w
    BY <1>4, <2>1, <2>4, <2>5, <2>6
  <2> QED BY <2>12, <2>13
<1> QED BY <1>2, <1>1, <1>3, <1>4, <1>5, <1>6 DEF StartsAt, LogsAt, TurnPath

(* What a log has heard.                                                   *)
LEMMA LogFacts ==
  ASSUME ConvTyped, Messaging, NEW k \in Keys, NEW e \in ToSet(wal[k])
  PROVE  e.said \in Kept /\ e.seq \in Nat /\ e.said # Note
<1>1. wal[k] \in Seq(Entry)
  BY DEF ConvTyped, FilesTyped
<1>2. e.said \in InLogs
  BY DEF InLogs
<1>3. e.said \in Kept
  BY <1>2 DEF Messaging, InRecords
<1>4. PICK t \in Turns : e.said \in Exchange(t)
  BY <1>3 DEF Kept, HeardTurns
<1> QED BY <1>1, <1>3, <1>4, EntriesFacts, MessageFacts

(* An entry of before goes on to be safe or in the conversation.           *)
LEMMA RememberedStays ==
  ASSUME ConvTyped, Locks, Course, Messaging, NeatTrunks, OnlyAdmitted, SameSession, Next, ~Restart,
         NEW k \in Keys, Numbered(k), Remembered(k), Covered(k), NEW e \in ToSet(wal[k])
  PROVE  /\ e.seq <= ckpt[k] => Safe(e.said)'
         /\ live'[k] # None => Safe(e.said)' \/ InHead(e.said, sess'[live'[k]], Working(live[k])')
<1>1. NeverForgotten /\ NothingDropped /\ Counted(k)
  BY DEF Covered, Counted
<1>2. e.said \in Kept
  BY LogFacts
<1>3. PICK m, s : m = e.said /\ s = live[k]
  OBVIOUS
<1>4. Safe(m) => Safe(m)'
  BY SafeGrows DEF Messaging
<1>5. e.seq <= ckpt[k] => Safe(m)'
  BY <1>3, <1>4 DEF Remembered
<1>6. ASSUME live'[k] # None
      PROVE  Safe(m)' \/ (live'[k] = s /\ InHead(m, sess'[s], Working(s)'))
  BY <1>1, <1>3, <1>6, StaysHeld, <1>2, <1>4, HeadMoves DEF ToSet, Numbered, Remembered
<1> QED BY <1>3, <1>5, <1>6 DEF Working

(* The entry a turn adds was refused or stands in the conversation.        *)
LEMMA RememberedNew ==
  ASSUME ConvTyped, Locks, Course, Messaging, NeatTrunks, OnlyAdmitted, Unmarked, KnowsReply, Next,
         CapIsFar, NEW t \in Turns, NEW s \in Sids, ref[t] = s,
         NEW m, (LogsQuestion(t) /\ m = Question(t)) \/ (LogsReply(t) /\ m = Reply(t))
  PROVE  Safe(m)' \/ InHead(m, sess'[s], FALSE)
<1>1. PICK r : r = sess[s]
  OBVIOUS
<1>2. r \in Session /\ Tidy(r) /\ ~iso[t] /\ iso \in [Turns -> BOOLEAN]
      /\ refused \in [Turns -> BOOLEAN]
  BY <1>1 DEF LogsQuestion, LogsReply, LogsAs, ConvTyped, StoreTyped, TurnsTyped
<1>3. m \in Exchange(t) /\ (\A u \in Turns : m \in Exchange(u) => u = t)
  BY MessageFacts
<1>4. refused'[t] => Safe(m)'
  BY <1>3 DEF Safe
<1>5. r.mark = None
  BY <1>1, <1>2 DEF Unmarked, Holding, LogsQuestion, LogsReply, Answer, LogReply
<1>6. CASE LogsQuestion(t) /\ m = Question(t)
  <2>1. AnswersAt(t, s) /\ pc[t] = "running" /\ ~isolated
    BY <1>6, AnswerMoves DEF LogsQuestion, Answer
  <2>2. (iso[t] \/ isolated) = FALSE /\ WithMine(r, t)
    BY <1>1, <1>2, <2>1 DEF Locks
  <2>3. PICK q \in BOOLEAN : /\ refused' = [refused EXCEPT ![t] = q]
                             /\ sess'[s] = Answers(r, t, FALSE, q)
    BY <1>1, <2>1, <2>2 DEF AnswersAt
  <2>4. CASE q = TRUE
    BY <1>2, <1>4, <2>3, <2>4
  <2>5. CASE q = FALSE
    BY <1>2, <1>5, <2>2, HeadSays, <1>3, <2>3, <2>5
  <2> QED BY <2>4, <2>5
<1>7. CASE LogsReply(t) /\ m = Reply(t)
  <2>1. LogsAt(t, s) /\ pc[t] = "logging" /\ refused' = refused
    BY <1>7, LogMoves DEF LogsReply, LogReply
  <2>2. CASE refused[t]
    BY <1>4, <2>1, <2>2
  <2>3. CASE ~refused[t]
    <3>1. PICK i \in 1..Len(r.trunk) : r.trunk[i] = m
      BY <1>1, <1>7, <2>1, <2>3 DEF KnowsReply
    <3>2. Len(r.trunk) \in Nat /\ Reach(r, FALSE) = Len(r.trunk)
      BY <1>2, <1>5, ReachFacts, SessionFacts
    <3>3. i <= Len(r.trunk)
      BY <3>1, <3>2
    <3>4. InHead(m, r, FALSE)
      BY <3>1, <3>2, <3>3 DEF InHead, Among
    <3>5. scene.cap \in Nat /\ scene.cap >= Len(r.trunk)
      <4>1. Len(r.trunk) <= 2 * scene.turns + 1
        BY <1>1, TrunkLength
      <4>2. scene.cap \in Nat /\ scene.turns \in Nat /\ scene.cap > 2 * scene.turns
        BY ConversationsAssumption DEF CapIsFar, ConvTyped, RestTyped
      <4> QED BY <3>2, <4>1, <4>2
    <3>6. (iso[t]) = FALSE
      BY <1>2
    <3>7. InHead(m, Trimmed(r, FALSE, scene.cap), FALSE)
      BY <1>2, <3>4, <3>5, HeadLogs
    <3>8. sess'[s] = Trimmed(r, FALSE, scene.cap)
      BY <1>1, <2>1, <3>6 DEF LogsAt
    <3> QED BY <3>7, <3>8
  <2> QED BY <2>2, <2>3
<1> QED BY <1>6, <1>7

(* Every step leaves what a log has archived, refused or remembered.       *)
LEMMA NextRemembered ==
  ASSUME ConvTyped, Locks, Course, Messaging, NeatTrunks, OnlyAdmitted, Placed, Unmarked, KnowsReply,
         Next, NEW k \in Keys, Numbered(k), Remembered(k)
  PROVE  Remembered(k)'
<1>1. SUFFICES ASSUME Covered(k)', NEW e \in ToSet(wal'[k])
               PROVE  /\ e.seq <= ckpt'[k] => Safe(e.said)'
                      /\ live'[k] # None =>
                            Safe(e.said)' \/ InHead(e.said, sess'[live'[k]], Working(live[k])')
  BY DEF Remembered
<1>2. Covered(k) /\ Counted(k) /\ Counted(k)' /\ NeverForgotten /\ NothingDropped /\ CapIsFar
      /\ SameSession
  BY <1>1, CountedBack DEF Placed, Covered, Counted, NothingDropped
<1>3. wal \in [Keys -> Seq(Entry)] /\ ckpt \in [Keys -> Nat] /\ ToSet(<<>>) = {}
  BY DEF ConvTyped, FilesTyped, ToSet
<1>4. ~Restart
  BY <1>1, <1>2, <1>3, RestartClears
<1>5. ~CleanUpWal
  BY <1>1, <1>3 DEF CleanUpWal
<1>6. CASE wal'[k] = wal[k] /\ ckpt'[k] = ckpt[k]
  BY <1>1, <1>2, <1>4, <1>6, RememberedStays
<1>7. ASSUME NEW t \in Turns, LogTurn(t), keyOf[t] = k, live[k] = ref[t], ref[t] \in Sids,
             live' = live
      PROVE  /\ e.seq <= ckpt'[k] => Safe(e.said)'
             /\ live'[k] # None =>
                   Safe(e.said)' \/ InHead(e.said, sess'[live'[k]], Working(live[k])')
  <2>1. PICK s : s = ref[t]
    OBVIOUS
  <2>2. s \in Sids /\ live[k] = s /\ live'[k] = s /\ s # None
    BY <1>7, <2>1, ConstantFacts
  <2>3. CASE Checkpoints(t)
    <3>1. wal'[k] = wal[k] /\ Said(sess[s].trunk) \subseteq archived'
      BY <2>1, <2>3 DEF Checkpoints
    <3>2. Safe(e.said) \/ InHead(e.said, sess[s], Working(s))
      BY <1>1, <1>2, <2>2, <3>1 DEF Remembered
    <3>3. Safe(e.said)'
      <4>1. CASE Safe(e.said)
        BY <4>1, SafeGrows DEF Messaging
      <4>2. CASE InHead(e.said, sess[s], Working(s))
        BY <1>1, <3>1, LogFacts, <2>2, SessionFacts, <4>2, SaidAt, SafeGrows DEF ConvTyped,
           StoreTyped, InHead, Among, Messaging
      <4> QED BY <3>2, <4>1, <4>2
    <3> QED BY <3>3
  <2>4. CASE LogsQuestion(t) \/ LogsReply(t)
    <3>1. PICK n : n = sess[s].seq
      OBVIOUS
    <3>2. n \in Nat /\ ckpt'[k] = ckpt[k]
      BY <1>7, <2>1, <2>4, <3>1, LogsNext
    <3>3. PICK m : /\ (LogsQuestion(t) /\ m = Question(t)) \/ (LogsReply(t) /\ m = Reply(t))
                   /\ wal'[k] = Append(wal[k], [seq |-> n + 1, said |-> m])
      <4>1. CASE LogsQuestion(t)
        BY <1>7, <2>1, <3>1, <4>1, <1>3 DEF LogsQuestion, LogsAs
      <4>2. CASE LogsReply(t)
        BY <1>7, <2>1, <3>1, <4>2, <1>3 DEF LogsReply, LogsAs
      <4> QED BY <2>4, <4>1, <4>2
    <3>4. PICK new : new = [seq |-> n + 1, said |-> m]
      OBVIOUS
    <3>5. new \in Entry /\ new.seq = n + 1 /\ new.said = m
      BY <3>2, <3>3, <3>4, MessageFacts DEF Entry
    <3>6. e \in ToSet(wal[k]) \/ e = new
      BY <1>3, <3>3, <3>4, <3>5, EntryAppended, <1>1
    <3>7. CASE e \in ToSet(wal[k])
      BY <1>2, <1>4, <3>2, <3>7, RememberedStays
    <3>8. CASE e = new
      <4>1. ckpt[k] <= n /\ ckpt[k] \in Nat
        BY <1>2, <1>3, <2>2, <3>1 DEF Numbered
      <4>2. ~(e.seq <= ckpt'[k])
        BY <3>2, <3>5, <3>8, <4>1
      <4>3. Safe(m)' \/ InHead(m, sess'[s], FALSE)
        BY <1>2, <2>1, <2>2, <3>3, RememberedNew
      <4>4. Working(s)' = FALSE
        BY <2>1, AnswerMoves, LogMoves, <2>2, <2>4, Workers DEF LogsQuestion, LogsReply, Working
      <4>5. Safe(e.said)' \/ InHead(e.said, sess'[s], Working(s)')
        BY <3>5, <3>8, <4>3, <4>4
      <4> QED BY <2>2, <4>2, <4>5 DEF Working
    <3> QED BY <3>6, <3>7, <3>8
  <2> QED BY <1>7, <2>3, <2>4 DEF LogTurn
<1> QED BY <1>2, <1>4, <1>5, <1>6, <1>7, LogOf

-----------------------------------------------------------------------------
(* What was answered stays on record.                                      *)

(* What is in a log stays there, or is archived when the log is removed.   *)
LEMMA RecordedStays ==
  ASSUME ConvTyped, Locks, Course, Messaging, Placed, \A k \in Keys : Numbered(k) /\ Remembered(k),
         Next, Untroubled', NEW t \in Turns, ~LaneForgotten(t), NEW m \in Exchange(t), Recorded(m)
  PROVE  Recorded(m)'
<1>1. Untroubled /\ spent.stop = 0
  BY Back DEF Untroubled
<1>2. wal \in [Keys -> Seq(Entry)] /\ \A k \in Keys : wal[k] \in Seq(Entry)
  BY DEF ConvTyped, FilesTyped
<1>3. CASE m \in archived
  BY <1>3, ArchivesGrow DEF Recorded
<1>4. CASE m \notin archived
  <2>7. PICK k \in Keys : m \in {e.said : e \in ToSet(wal[k])}
    BY <1>4 DEF Recorded, InLogs
  <2>8. PICK e \in ToSet(wal[k]) : e.said = m
    BY <2>7
  <2>1. k \in Keys /\ e \in ToSet(wal[k]) /\ e.said = m
    BY <2>8
  <2>2. ASSUME e \in ToSet(wal'[k])
        PROVE  Recorded(m)'
    BY <2>1, <2>2 DEF Recorded, InLogs
  <2>3. CASE LogSame
    BY <2>1, <2>2, <2>3 DEF LogSame
  <2>4. ~CleanUpWal
    BY <1>1 DEF CleanUpWal, Placed, Ends
  <2>5. CASE Restart
    <3>1. stage = "down" /\ ~NeverCrashed /\ NothingDropped /\ NothingDropped'
      BY <2>5, <1>1, Back DEF Restart, Placed, Ends, NeverCrashed, Untroubled
    <3>2. scene.archive = {TRUE} /\ NeverForgotten /\ NeverForgotten'
      BY <3>1 DEF NothingDropped
    <3>3. PICK expired \in SUBSET {j \in Keys : json[j] # None}, ok \in scene.archive :
             LET orphans == {j \in Keys \ ({i \in Keys : json[i] # None} \ expired) : wal[j] # <<>>}
                 cleared == {j \in orphans : ok \/ PastCheckpoint(j) = {}}
             IN  /\ IF expired = {} THEN UNCHANGED spent ELSE Spend("expire")
                 /\ archived' = Archived(ok,
                                   (UNION {Said(json[j].trunk) : j \in expired})
                                   \cup {x.said : x \in UNION {PastCheckpoint(j) : j \in orphans}})
                 /\ wal' = [j \in Keys |-> IF j \in cleared THEN <<>> ELSE wal[j]]
      BY <2>5 DEF Restart
    <3>4. ok = TRUE
      BY <3>2, <3>3
    <3>5. expired = {}
      BY Spending, <3>2, <3>3 DEF ConvTyped, BoundNames, NeverForgotten
    <3>6. CASE json[k] # None
      BY <3>3, <3>5, <3>6, <2>1, <2>2
    <3>7. CASE json[k] = None
      <4>1. wal[k] # <<>>
        BY <2>1 DEF ToSet
      <4>2. CASE e \in PastCheckpoint(k)
        BY <3>7, <4>1, <2>1, <4>2, <3>3, <3>4 DEF Archived, Recorded
      <4>3. CASE e \notin PastCheckpoint(k)
        <5>1. e.seq <= ckpt[k]
          BY <1>2, <2>1, EntriesFacts, <4>3 DEF ConvTyped, FilesTyped, PastCheckpoint
        <5>2. Covered(k)
          BY <1>1, <3>1, <3>2, <3>7 DEF Covered, Counted
        <5>3. Safe(m)
          BY <2>1, <5>1, <5>2 DEF Remembered
        <5>4. refused[t]
          BY <1>4, <5>3 DEF Safe
        <5>5. spent.crash > 0
          BY <1>1, <3>1 DEF Placed, Ends
        <5> QED BY <5>4, <5>5 DEF LaneForgotten
      <4> QED BY <4>2, <4>3
    <3> QED BY <3>6, <3>7
  <2>6. ASSUME NEW u \in Turns, LogTurn(u)
        PROVE  Recorded(m)'
    <3>1. CASE Checkpoints(u)
      BY <2>1, <2>2, <3>1 DEF Checkpoints
    <3>2. CASE LogsQuestion(u) \/ LogsReply(u)
      <4>1. CASE keyOf[u] = k
        <5>1. PICK new \in Entry : wal'[k] = Append(wal[k], new)
          <6>1. PICK x \in Messages : /\ sess[ref[u]].seq \in Nat
                   /\ wal'[k] = Append(wal[k], [seq |-> sess[ref[u]].seq + 1, said |-> x])
            BY <3>2, <4>1, LogsNext
          <6>2. [seq |-> sess[ref[u]].seq + 1, said |-> x] \in Entry
            BY <6>1 DEF Entry
          <6> QED BY <6>1, <6>2
        <5>2. \A x : x \in ToSet(Append(wal[k], new)) <=> x \in ToSet(wal[k]) \/ x = new
          BY <1>2, <2>1, EntryAppended
        <5> QED BY <2>1, <2>2, <5>1, <5>2
      <4>2. CASE keyOf[u] # k
        BY <1>2, <3>2, <4>2, <2>1, <2>2 DEF LogsQuestion, LogsReply, LogsAs
      <4> QED BY <4>1, <4>2
    <3> QED BY <2>6, <3>1, <3>2 DEF LogTurn
  <2> QED BY <2>3, <2>4, <2>5, <2>6, LogSteps
<1> QED BY <1>3, <1>4

(* An entry added now is in the log.                                       *)
LEMMA RecordedNow ==
  ASSUME ConvTyped, Locks, Course, Next, NEW t \in Turns
  PROVE  /\ LogsQuestion(t) => Recorded(Question(t))'
         /\ LogsReply(t) => Recorded(Reply(t))'
<1>1. ASSUME NEW m \in Messages, LogsAs(t, m)
      PROVE  Recorded(m)'
  <2>1. PICK k, q, e : k = keyOf[t] /\ q = wal[k] /\ e = [seq |-> sess[ref[t]].seq + 1, said |-> m]
    OBVIOUS
  <2>2. wal \in [Keys -> Seq(Entry)] /\ k \in Keys /\ ref[t] \in Sids
    BY <1>1, <2>1 DEF LogsAs, ConvTyped, FilesTyped
  <2>3. sess[ref[t]].seq \in Nat
    BY <2>2, SessionFacts DEF ConvTyped, StoreTyped
  <2>8. q \in Seq(Entry)
    BY <2>1, <2>2
  <2>9. PICK n \in Nat : n = sess[ref[t]].seq
    BY <2>3
  <2>10. e = [seq |-> n + 1, said |-> m]
    BY <2>1, <2>9
  <2>11. n + 1 \in Nat
    OBVIOUS
  <2>12. e \in Entry /\ e.said = m
    BY <2>10, <2>11 DEF Entry
  <2>4. q \in Seq(Entry) /\ e \in Entry /\ e.said = m
    BY <2>8, <2>12
  <2>5. wal'[k] = Append(q, e)
    BY <1>1, <2>1, <2>2 DEF LogsAs
  <2>6. e \in ToSet(Append(q, e))
    BY <2>4, EntryAppended
  <2>7. e \in ToSet(wal'[k])
    BY <2>5, <2>6
  <2> QED BY <2>2, <2>4, <2>7 DEF Recorded, InLogs
<1> QED BY <1>1, MessageFacts DEF LogsQuestion, LogsReply

(* So every step keeps on record what turns that were not shed said.       *)
LEMMA NextOnRecord ==
  ASSUME ConvTyped, Locks, Course, Messaging, Placed, \A k \in Keys : Numbered(k) /\ Remembered(k),
         OnRecord, Next
  PROVE  OnRecord'
<1>1. SUFFICES ASSUME Untroubled', NEW t \in Turns, ~iso'[t], pc'[t] \in Heard, ~LaneForgotten(t)'
               PROVE  /\ Recorded(Question(t))'
                      /\ pc'[t] \in {"committing", "persisting", "done"} => Recorded(Reply(t))'
  BY DEF OnRecord, Recorded
<1>2. Untroubled
  BY <1>1, Back
<1>3. ~LaneForgotten(t)
  BY <1>1, SafeGrows, Back DEF LaneForgotten, Messaging
<1>4. Question(t) \in Exchange(t) /\ Reply(t) \in Exchange(t)
  BY MessageFacts
<1>5. /\ Recorded(Question(t)) => Recorded(Question(t))'
      /\ Recorded(Reply(t)) => Recorded(Reply(t))'
  BY <1>1, <1>3, <1>4, RecordedStays
<1>6. pc \in [Turns -> States] /\ iso \in [Turns -> BOOLEAN]
  BY DEF ConvTyped, TurnsTyped
<1>7. pc[t] # "new" /\ ~AnswersAt(t, ref[t]) => iso'[t] = iso[t]
  BY TurnPaths DEF TurnKeeps
<1>8. CASE Answer(t)
  BY <1>1, <1>8, AnswerLogs, <1>6, RecordedNow DEF Answer
<1>9. CASE LogReply(t)
  BY <1>9, <1>1, ReplyLogs, <1>2, <1>3, <1>5, RecordedNow DEF LogReply, OnRecord, Heard
<1>10. CASE ~Answer(t) /\ ~LogReply(t)
  BY <1>1, <1>10, Phases, <1>7, MovesAre, <1>2, <1>3, <1>5 DEF Heard, OnRecord
<1> QED BY <1>8, <1>9, <1>10

-----------------------------------------------------------------------------
(* The invariant of the log, and what it says.                             *)

(* It holds at first.                                                      *)
LEMMA InitLog == Init => LogInvariant
<1> SUFFICES ASSUME Init
             PROVE  LogInvariant
  OBVIOUS
<1>1. NeatTrunks /\ OnlyAdmitted
  BY NeatShort, NewSessionFacts DEF Init, NeatTrunks, OnlyAdmitted
<1>2. Placed
  BY DEF Init, Placed, OwnSessions, SameSession, Ends, NeverForgotten
<1>3. OnRecord
  BY DEF Init, OnRecord, Heard
<1>4. ASSUME NEW k \in Keys
      PROVE  Numbered(k) /\ Remembered(k)
  BY <1>4 DEF Init, ToSet, Numbered, Remembered
<1>5. Unmarked /\ KnowsReply
  BY DEF Init, Unmarked, KnowsReply, Holding
<1> QED BY <1>1, <1>2, <1>3, <1>4, <1>5 DEF LogInvariant

(* And every step keeps it.                                                *)
LEMMA NextLog == ConvIInv /\ LogInvariant /\ [Next]_vars => LogInvariant'
<1> SUFFICES ASSUME ConvIInv, LogInvariant, [Next]_vars
             PROVE  LogInvariant'
  OBVIOUS
<1>1. CASE Next
  <2>1. ConvTyped /\ Locks /\ Course /\ Messaging
    BY DEF ConvIInv
  <2>2. /\ NeatTrunks /\ OnlyAdmitted /\ Placed /\ OnRecord /\ Unmarked /\ KnowsReply
        /\ \A k \in Keys : Numbered(k) /\ Remembered(k)
    BY DEF LogInvariant
  <2>3. OwnSessions /\ SameSession /\ Ends
    BY <2>2 DEF Placed
  <2>4. NeatTrunks' /\ OnlyAdmitted'
    BY <1>1, <2>1, <2>2, NextNeat, NextOnlyAdmitted
  <2>5. OwnSessions' /\ SameSession' /\ Ends'
    BY <1>1, <2>1, <2>3, NextOwn, NextSame, NextEnds
  <2>6. Placed'
    BY <2>5 DEF Placed
  <2>7. Unmarked' /\ KnowsReply'
    BY <1>1, <2>1, <2>2, NextUnmarked, NextKnowsReply
  <2>8. OnRecord'
    BY <1>1, <2>1, <2>2, NextOnRecord
  <2>9. \A k \in Keys : Numbered(k)'
    BY <1>1, <2>1, <2>2, NextNumbered
  <2>10. \A k \in Keys : Remembered(k)'
    BY <1>1, <2>1, <2>2, NextRemembered
  <2> QED BY <2>4, <2>6, <2>7, <2>8, <2>9, <2>10 DEF LogInvariant
<1>2. CASE UNCHANGED vars
  <2>1. /\ scene' = scene /\ stage' = stage /\ pc' = pc /\ keyOf' = keyOf /\ iso' = iso
        /\ refused' = refused /\ ref' = ref /\ sess' = sess /\ live' = live /\ json' = json
        /\ queue' = queue /\ wal' = wal /\ ckpt' = ckpt /\ archived' = archived
        /\ sweep' = sweep /\ spent' = spent
    BY <1>2 DEF vars
  <2>2. NeatTrunks' /\ OnlyAdmitted'
    BY <2>1 DEF LogInvariant, NeatTrunks, OnlyAdmitted
  <2>3. Placed'
    BY <2>1 DEF LogInvariant, Placed, OwnSessions, SameSession, Ends, NeverForgotten, NeverCrashed
  <2>4. OnRecord'
    BY <2>1 DEF LogInvariant, OnRecord, Untroubled, NeverCrashed, NothingDropped, NeverForgotten,
       CapIsFar, LaneForgotten, Recorded, InLogs
  <2>5. ASSUME NEW k \in Keys
        PROVE  Numbered(k)' /\ Remembered(k)'
    <3>1. Counted(k)' = Counted(k) /\ Covered(k)' = Covered(k)
      BY <2>1 DEF Counted, Covered, NeverForgotten, NeverCut, NeverCrashed, NothingDropped, CapIsFar
    <3>2. Numbered(k)'
      BY <2>1, <2>5, <3>1 DEF LogInvariant, Numbered
    <3>3. Remembered(k)'
      BY <2>1, <2>5, <3>1 DEF LogInvariant, Remembered, Safe, Working
    <3> QED BY <3>2, <3>3
  <2>6. Unmarked' /\ KnowsReply'
    BY <2>1 DEF LogInvariant, Unmarked, KnowsReply
  <2> QED BY <2>2, <2>3, <2>4, <2>5, <2>6 DEF LogInvariant
<1> QED BY <1>1, <1>2

(* The inductive invariant of the log: numbers go on from those of the     *)
(* log, and what a log has is archived, refused, or stands in its          *)
(* conversation where no watermark cuts it off (append_wal,                *)
(* maybe_checkpoint, begin_fresh, recover_orphans).                        *)
THEOREM LogInvariance == Spec => []LogInvariant
<1>1. Init => LogInvariant
  BY InitLog
<1>2. ConvIInv /\ LogInvariant /\ [Next]_vars => LogInvariant'
  BY NextLog
<1> QED BY <1>1, <1>2, ConvInvariance, PTL DEF Spec

(* An answered exchange is in the log or in an archive.                    *)
LEMMA AnsweredFacts == ConvIInv /\ LogInvariant => AnsweredStaysOnRecord
<1> SUFFICES ASSUME LogInvariant, Untroubled,
                    NEW t \in Turns, Answered(t), ~LaneForgotten(t)
             PROVE  Exchange(t) \subseteq InLogs \cup archived
  BY DEF AnsweredStaysOnRecord, Untroubled
<1>1. Recorded(Question(t)) /\ Recorded(Reply(t))
  BY DEF LogInvariant, OnRecord, Answered, Heard
<1> QED BY <1>1 DEF Recorded, Exchange

(* The order of a log, and what its marker covers.                         *)
LEMMA PromiseFacts == ConvIInv /\ LogInvariant => LogHolds
<1> SUFFICES ASSUME ConvIInv, LogInvariant
             PROVE  LogHolds
  OBVIOUS
<1>1. TypeOK
  BY TypeFacts
<1>2. CheckpointCovers
  <2>1. SUFFICES ASSUME NeverCut, NothingDropped, NEW k \in Keys, NEW e \in ToSet(wal[k]),
                        e.seq <= ckpt[k], NEW t \in Turns, e.said \in Exchange(t)
                 PROVE  refused[t] \/ e.said \in archived
    BY DEF CheckpointCovers
  <2>2. Covered(k)
    BY <2>1 DEF Covered, Counted, NothingDropped
  <2>3. Safe(e.said)
    BY <2>1, <2>2 DEF LogInvariant, Remembered
  <2> QED BY <2>1, <2>3 DEF Safe
<1>3. LogIncreases
  BY DEF LogIncreases, LogInvariant, Numbered, Counted
<1> QED BY <1>1, <1>2, <1>3 DEF LogHolds

(* An exchange whose reply was delivered, and that was not made in         *)
(* isolation, stays on record while no shutdown removed the logs and, when *)
(* a process died, nothing had been dropped: a lane the checkpoint covers  *)
(* apart (commit_to_wal, recover_orphans).                                 *)
THEOREM AnsweredStay == Spec => []AnsweredStaysOnRecord
<1>1. ConvIInv /\ LogInvariant => AnsweredStaysOnRecord
  BY AnsweredFacts
<1> QED BY <1>1, ConvInvariance, LogInvariance, PTL

(* The numbers of a log increase, and what its checkpoint hides is         *)
(* archived (append_wal, maybe_checkpoint, begin_fresh).                   *)
THEOREM LogKeepsItsPromises == Spec => []LogHolds
<1>1. ConvIInv /\ LogInvariant => LogHolds
  BY PromiseFacts
<1> QED BY <1>1, ConvInvariance, LogInvariance, PTL

-----------------------------------------------------------------------------
(* The watermarks of isolation mode.                                       *)

\* No turn that is isolated by f said m, nor one of the first n of q.
Normal(m, f) == \A u \in Turns : m \in Exchange(u) => ~f[u]
Plain(q, n, f) == \A i \in 1..Len(q) : i <= n => Normal(q[i], f)

\* As far as r.lane is there to stay.
LaneReach(r, working) == IF r.mark # None THEN r.mark.lane
                         ELSE IF working THEN r.found.lane ELSE Len(r.lane)

\* What isolated turns said is behind the watermarks, and those, or what the
\* turn at work would make of them, are lengths the conversations have.
Fenced(r, working, f) ==
    /\ Plain(r.trunk, Reach(r, FALSE), f) /\ Plain(r.lane, LaneReach(r, FALSE), f)
    /\ r.mark # None => r.mark.trunk <= Len(r.trunk) /\ r.mark.lane <= Len(r.lane)
    /\ working => Reach(r, TRUE) < Len(r.trunk) /\ LaneReach(r, TRUE) <= Len(r.lane)
WindowsHold == Windows => \A s \in Sids : Fenced(sess[s], Working(s), iso)

(* Places of a lane are numbers.                                           *)
LEMMA LaneReachFacts ==
  ASSUME NEW r \in Session
  PROVE  /\ \A b \in BOOLEAN : LaneReach(r, b) \in Nat
         /\ r.mark # None => \A b \in BOOLEAN : LaneReach(r, b) = r.mark.lane
         /\ r.mark = None => LaneReach(r, TRUE) = r.found.lane /\ LaneReach(r, FALSE) = Len(r.lane)
  BY SessionFacts DEF LaneReach

(* An empty session is fenced, and one whose conversations and watermarks  *)
(* are those of another, when no turn works on it.                         *)
LEMMA FencedNew ==
  ASSUME NEW f
  PROVE  Fenced(NewSession, FALSE, f)
<1>1. NewSession.trunk = <<>> /\ NewSession.lane = <<>> /\ NewSession.mark = None
  BY NewSessionFacts
<1>2. Len(<<>>) = 0
  OBVIOUS
<1> QED BY <1>1, <1>2 DEF Fenced, Plain

(* What changes nothing of a session but its lock and its numbers.         *)
LEMMA FencedSame ==
  ASSUME NEW r, NEW w, w.trunk = r.trunk, w.lane = r.lane, w.mark = r.mark,
         NEW f, NEW b, Fenced(r, b, f)
  PROVE  Fenced(w, FALSE, f)
<1>1. Reach(w, FALSE) = Reach(r, FALSE) /\ LaneReach(w, FALSE) = LaneReach(r, FALSE)
  BY DEF Reach, LaneReach
<1> QED BY <1>1 DEF Fenced

(* A turn that starts sets the watermarks, or takes them with all that is  *)
(* behind them (track_isolation_window).                                   *)
LEMMA FencedStarts ==
  ASSUME NEW r \in Session, Tidy(r), NEW t \in Turns, iso \in [Turns -> BOOLEAN],
         Fenced(r, FALSE, iso)
  PROVE  Fenced(Begins(r, t, FALSE), TRUE, iso)
<1>1. PICK x, y, f : x = Ready(r, t) /\ y = Begins(r, t, FALSE) /\ f = iso
  OBVIOUS
<1>2. x \in Session /\ y \in Session
  BY <1>1, BeginsFacts
<1>3. /\ x.trunk \in Seq(Messages) /\ Len(x.trunk) \in Nat /\ Len(x.lane) \in Nat
      /\ r.trunk \in Seq(Messages) /\ r.lane \in Seq(Messages)
      /\ Len(r.trunk) \in Nat /\ Len(r.lane) \in Nat
  BY <1>2, SessionFacts
<1>4. y.trunk = Append(x.trunk, Question(t)) /\ y.lane = x.lane /\ y.mark = x.mark
  BY <1>1, BeginsAs DEF Fresh
<1>5. y.found.trunk = Len(x.trunk) /\ y.found.lane = Len(x.lane)
  <2>1. y.found = x.found
    BY <1>1, BeginsAs
  <2>2. x.found = Lens(x)
    BY <1>1, ReadyFacts
  <2>3. Lens(x).trunk = Len(x.trunk) /\ Lens(x).lane = Len(x.lane)
    BY <1>2, SessionFacts
  <2> QED BY <2>1, <2>2, <2>3
<1>6. /\ Len(y.trunk) = Len(x.trunk) + 1
      /\ \A i \in 1..Len(x.trunk) : y.trunk[i] = x.trunk[i]
      /\ y.trunk[Len(x.trunk) + 1] = Question(t)
  BY <1>3, <1>4, AppendFacts, MessageFacts
<1>7. /\ Plain(r.trunk, Reach(r, FALSE), f) /\ Plain(r.lane, LaneReach(r, FALSE), f)
      /\ r.mark # None => r.mark.trunk <= Len(r.trunk) /\ r.mark.lane <= Len(r.lane)
  BY <1>1 DEF Fenced
<1>8. CASE iso[t]
  <2>1. x.trunk = r.trunk /\ x.lane = r.lane /\ x.mark # None
    BY <1>1, <1>8, ReadyFacts
  <2>2. PICK a, b : a = Reach(r, FALSE) /\ b = LaneReach(r, FALSE)
    OBVIOUS
  <2>3. x.mark.trunk = a /\ x.mark.lane = b /\ a <= Len(r.trunk) /\ b <= Len(r.lane)
    <3>1. CASE r.mark # None
      <4>1. x.mark = r.mark
        BY <1>1, <1>8, <3>1, ReadyFacts
      <4>2. a = r.mark.trunk /\ b = r.mark.lane
        BY <2>2, <3>1, ReachFacts, LaneReachFacts
      <4> QED BY <1>7, <3>1, <4>1, <4>2
    <3>2. CASE r.mark = None
      <4>1. x.mark = Lens(r)
        BY <1>1, <1>8, <3>2, ReadyFacts
      <4>2. Lens(r).trunk = Len(r.trunk) /\ Lens(r).lane = Len(r.lane)
        BY SessionFacts
      <4>3. a = Len(r.trunk) /\ b = Len(r.lane)
        BY <2>2, <3>2, ReachFacts, LaneReachFacts
      <4> QED BY <1>3, <4>1, <4>2, <4>3
    <3> QED BY <3>1, <3>2
  <2>4. a \in Nat /\ b \in Nat
    BY <2>2, ReachFacts, LaneReachFacts
  <2>5. \A c \in BOOLEAN : Reach(y, c) = a /\ LaneReach(y, c) = b
    BY <1>4, <2>1, <2>3 DEF Reach, LaneReach
  <2>6. Plain(y.trunk, a, f)
    <3>1. SUFFICES ASSUME NEW i \in 1..Len(y.trunk), i <= a
                   PROVE  Normal(y.trunk[i], f)
      BY DEF Plain
    <3>2. i \in 1..Len(r.trunk)
      BY <1>3, <1>6, <2>1, <2>3, <2>4, <3>1
    <3>3. y.trunk[i] = r.trunk[i] /\ Normal(r.trunk[i], f)
      BY <1>6, <1>7, <2>1, <2>2, <3>1, <3>2 DEF Plain
    <3> QED BY <3>3
  <2>7. Plain(y.lane, b, f)
    BY <1>4, <1>7, <2>1, <2>2
  <2>8. a < Len(y.trunk) /\ b <= Len(y.lane) /\ a <= Len(y.trunk)
    BY <1>3, <1>4, <1>6, <2>1, <2>3, <2>4
  <2>9. y.mark.trunk = a /\ y.mark.lane = b
    BY <1>4, <2>3
  <2> QED BY <1>1, <2>5, <2>6, <2>7, <2>8, <2>9 DEF Fenced
<1>9. CASE ~iso[t]
  <2>1. y.mark = None
    BY <1>1, <1>4, <1>9, ReadyFacts
  <2>2. (\A i \in 1..Len(x.trunk) : Normal(x.trunk[i], f))
        /\ (\A i \in 1..Len(x.lane) : Normal(x.lane[i], f))
    <3>1. CASE r.mark = None
      <4>1. x.trunk = r.trunk /\ x.lane = r.lane
        BY <1>1, <1>9, <3>1, ReadyFacts
      <4>2. Reach(r, FALSE) = Len(r.trunk) /\ LaneReach(r, FALSE) = Len(r.lane)
        BY <3>1, ReachFacts, LaneReachFacts
      <4>3. (\A i \in 1..Len(r.trunk) : i <= Len(r.trunk)) /\ (\A i \in 1..Len(r.lane) : i <= Len(r.lane))
        BY <1>3
      <4> QED BY <1>7, <4>1, <4>2, <4>3 DEF Plain
    <3>2. CASE r.mark # None
      <4>1. PICK a, b \in Nat : a = r.mark.trunk /\ b = r.mark.lane
        BY <3>2, SessionFacts
      <4>2. x.trunk = Cut(r.trunk, a) /\ x.lane = Cut(r.lane, b)
        BY <1>1, <1>9, <3>2, ReadyFacts, <4>1
      <4>3. Reach(r, FALSE) = a /\ LaneReach(r, FALSE) = b /\ a <= Len(r.trunk) /\ b <= Len(r.lane)
        BY <1>7, <3>2, <4>1, ReachFacts, LaneReachFacts
      <4>4. ASSUME NEW q \in Seq(Messages), NEW n \in Nat, n <= Len(q), Plain(q, n, f)
            PROVE  \A i \in 1..Len(Cut(q, n)) : Normal(Cut(q, n)[i], f)
        <5>1. PICK c : c = Cut(q, n)
          OBVIOUS
        <5>2. /\ Len(q) \in Nat /\ Len(c) = IF n < Len(q) THEN n ELSE Len(q)
              /\ \A i \in 1..Len(c) : c[i] = q[i]
          BY <5>1, CutFacts
        <5>3. \A i \in 1..Len(c) : i \in 1..Len(q) /\ i <= n
          BY <4>4, <5>2
        <5> QED BY <4>4, <5>1, <5>2, <5>3 DEF Plain
      <4> QED BY <1>3, <1>7, <4>1, <4>2, <4>3, <4>4
    <3> QED BY <3>1, <3>2
  <2>3. Normal(Question(t), f)
    BY <1>1, <1>9, MessageFacts DEF Normal
  <2>4. Plain(y.trunk, Reach(y, FALSE), f)
    <3>1. SUFFICES ASSUME NEW i \in 1..Len(y.trunk)
                   PROVE  Normal(y.trunk[i], f)
      BY DEF Plain
    <3>2. CASE i = Len(x.trunk) + 1
      BY <1>6, <2>3, <3>2
    <3>3. CASE i # Len(x.trunk) + 1
      <4>1. i \in 1..Len(x.trunk)
        BY <1>3, <1>6, <3>1, <3>3
      <4> QED BY <1>6, <2>2, <4>1
    <3> QED BY <3>2, <3>3
  <2>5. Plain(y.lane, LaneReach(y, FALSE), f)
    BY <1>4, <2>2 DEF Plain
  <2>6. PICK n, l \in Nat : n = Len(x.trunk) /\ l = Len(x.lane)
    BY <1>3
  <2>9. Reach(y, TRUE) = n /\ LaneReach(y, TRUE) = l
    BY <1>5, <2>1, <2>6 DEF Reach, LaneReach
  <2>10. Len(y.trunk) = n + 1 /\ Len(y.lane) = l
    BY <1>4, <1>6, <2>6
  <2>11. n < n + 1 /\ l <= l
    OBVIOUS
  <2>7. Reach(y, TRUE) < Len(y.trunk)
    BY <2>9, <2>10, <2>11
  <2>8. LaneReach(y, TRUE) <= Len(y.lane)
    BY <2>9, <2>10, <2>11
  <2> QED BY <1>1, <2>1, <2>4, <2>5, <2>7, <2>8 DEF Fenced
<1> QED BY <1>8, <1>9

(* A rollback goes no further than the watermark.                          *)
LEMMA FencedRollsBack ==
  ASSUME NEW r \in Session, Tidy(r), NEW t \in Turns, WithMine(r, t), NEW f, Fenced(r, TRUE, f)
  PROVE  Fenced(Released(RolledBack(r)), FALSE, f)
<1>1. PICK w, v : w = RolledBack(r) /\ v = Released(w)
  OBVIOUS
<1>2. r.trunk \in Seq(Messages) /\ Len(r.trunk) \in Nat /\ Len(r.trunk) >= 1
      /\ r.trunk[Len(r.trunk)] = Question(t) /\ Question(t) \in Messages
  BY SessionFacts, MessageFacts DEF WithMine
<1>3. /\ w \in Session /\ Tidy(w) /\ w.trunk = Cut(r.trunk, Len(r.trunk) - 1)
      /\ w.mark = r.mark /\ w.lane = r.lane
  BY <1>1, <1>2, RolledBackFacts
<1>4. v \in Session /\ v.trunk = w.trunk /\ v.mark = r.mark /\ v.lane = r.lane
  BY <1>1, <1>3, ReleasedFacts
<1>5. /\ Len(v.trunk) = Len(r.trunk) - 1
      /\ \A j \in 1..Len(r.trunk) - 1 : v.trunk[j] = r.trunk[j]
  <2>1. /\ Len(Cut(r.trunk, Len(r.trunk) - 1)) = Len(r.trunk) - 1
        /\ \A j \in 1..Len(r.trunk) - 1 : Cut(r.trunk, Len(r.trunk) - 1)[j] = r.trunk[j]
    BY <1>2, HeadFacts
  <2> QED BY <1>3, <1>4, <2>1
<1>6. Plain(r.trunk, Reach(r, FALSE), f) /\ Plain(r.lane, LaneReach(r, FALSE), f)
  BY DEF Fenced
<1>7. LaneReach(v, FALSE) = LaneReach(r, FALSE)
  BY <1>4 DEF LaneReach
<1>8. Plain(v.trunk, Reach(v, FALSE), f)
  <2>1. SUFFICES ASSUME NEW i \in 1..Len(v.trunk), i <= Reach(v, FALSE)
                 PROVE  Normal(v.trunk[i], f)
    BY DEF Plain
  <2>2. i \in 1..Len(r.trunk) - 1 /\ i \in 1..Len(r.trunk) /\ i <= Len(r.trunk)
    BY <1>2, <1>5, <2>1
  <2>3. i <= Reach(r, FALSE)
    BY <2>2, ReachFacts, <1>4, <2>1 DEF Reach
  <2> QED BY <1>5, <1>6, <2>2, <2>3 DEF Plain
<1>9. v.mark # None => v.mark.trunk <= Len(v.trunk) /\ v.mark.lane <= Len(v.lane)
  <2>1. SUFFICES ASSUME r.mark # None
                 PROVE  r.mark.trunk <= Len(r.trunk) - 1 /\ r.mark.lane <= Len(r.lane)
    BY <1>4, <1>5
  <2>2. r.mark.trunk \in Nat /\ Reach(r, TRUE) = r.mark.trunk
    BY <2>1, ReachFacts, SessionFacts
  <2>3. r.mark.trunk < Len(r.trunk) /\ r.mark.lane <= Len(r.lane)
    BY <2>1, <2>2 DEF Fenced
  <2> QED BY <1>2, <2>2, <2>3
<1> QED BY <1>1, <1>4, <1>6, <1>7, <1>8, <1>9 DEF Fenced

(* An answer in isolation leaves a watermark where the turn found the      *)
(* conversation, and one outside adds only what it says itself             *)
(* (anchor_isolation_after_turn).                                          *)
LEMMA FencedAnswers ==
  ASSUME NEW r \in Session, Tidy(r), NEW t \in Turns, WithMine(r, t),
         NEW q \in BOOLEAN, NEW shed \in BOOLEAN, q => r.fallbacks < MaxFallbacks,
         ~shed => r.mark = None,
         NEW f, Fenced(r, TRUE, f), NEW g,
         ~shed => Normal(Question(t), g) /\ Normal(Reply(t), g),
         \A i \in 1..Len(r.trunk) - 1 : Normal(r.trunk[i], f) => Normal(r.trunk[i], g),
         \A i \in 1..Len(r.lane) : Normal(r.lane[i], f) => Normal(r.lane[i], g)
  PROVE  Fenced(Answers(r, t, shed, q), FALSE, g)
<1>1. PICK w, told, n, l : /\ w = Answers(r, t, shed, q) /\ told = Told(r, t, q)
                           /\ n = Len(r.trunk) /\ l = Len(r.lane)
  OBVIOUS
<1>2. /\ r.trunk \in Seq(Messages) /\ n \in Nat /\ n >= 1 /\ r.trunk[n] = Question(t)
      /\ r.lane \in Seq(Messages) /\ l \in Nat
      /\ Question(t) \in Messages /\ Reply(t) \in Messages /\ Reply(t) # Note
  BY <1>1, SessionFacts, MessageFacts DEF WithMine
<1>3. w \in Session /\ w.trunk = told.trunk
  BY <1>1, AnswersFacts
<1>4. w.mark = IF shed THEN (IF r.mark = None THEN r.found ELSE r.mark) ELSE r.mark
  BY <1>1, AnswersFacts
<1>5. w.lane = IF shed /\ q THEN Cut(told.lane, (IF r.mark = None THEN r.found ELSE r.mark).lane)
                            ELSE told.lane
  BY <1>1, AnswersFacts
<1>6. PICK a, b \in Nat : a = Reach(r, TRUE) /\ b = LaneReach(r, TRUE)
  BY ReachFacts, LaneReachFacts
<1>17. a \in Nat /\ b \in Nat
  BY <1>6
<1>18. PICK c, d \in Nat : c = Reach(r, FALSE) /\ d = LaneReach(r, FALSE)
  BY ReachFacts, LaneReachFacts
<1>19. c \in Nat /\ d \in Nat
  BY <1>18
<1>7. a < n /\ b <= l
  BY <1>1, <1>6 DEF Fenced
<1>8. \A i \in 1..n : i <= c => Normal(r.trunk[i], f)
  BY <1>1, <1>18 DEF Fenced, Plain
<1>9. \A i \in 1..l : i <= d => Normal(r.lane[i], f)
  BY <1>1, <1>18 DEF Fenced, Plain
<1>10. a <= c /\ b <= d
  <2>1. CASE r.mark = None
    BY <1>1, <1>18, <2>1, <1>2, <1>7, <1>17 DEF Reach, LaneReach
  <2>2. CASE r.mark # None
    BY <1>6, <1>18, <2>2, <1>17 DEF Reach, LaneReach
  <2> QED BY <2>1, <2>2
\* What was there before the turn.
<1>11. ASSUME NEW i \in 1..n - 1, i <= c
       PROVE  Normal(r.trunk[i], g)
  BY <1>2, <1>8, <1>11, <1>1
<1>12. ASSUME NEW i \in 1..l, i <= d
       PROVE  Normal(r.lane[i], g)
  BY <1>9, <1>12, <1>1
\* What the turn adds.
<1>13. /\ q => /\ Len(w.trunk) = n - 1
               /\ \A i \in 1..n - 1 : w.trunk[i] = r.trunk[i]
       /\ ~q => /\ Len(w.trunk) = n + 1
                /\ \A i \in 1..n : w.trunk[i] = r.trunk[i]
                /\ w.trunk[n + 1] = Reply(t)
  <2>1. CASE q
    <3>1. told.trunk = Cut(r.trunk, Len(r.trunk) - 1)
      BY <1>1, <2>1, ToldFacts
    <3>2. /\ Len(Cut(r.trunk, Len(r.trunk) - 1)) = Len(r.trunk) - 1
          /\ \A i \in 1..Len(r.trunk) - 1 : Cut(r.trunk, Len(r.trunk) - 1)[i] = r.trunk[i]
      BY <1>1, <1>2, HeadFacts
    <3> QED BY <1>1, <1>3, <2>1, <3>1, <3>2
  <2>2. CASE ~q
    <3>1. told.trunk = Append(r.trunk, Reply(t))
      BY <1>1, <2>2, ToldFacts
    <3>2. PICK p, m : p = r.trunk /\ m = Reply(t)
      OBVIOUS
    <3>3. /\ Len(Append(p, m)) = Len(p) + 1 /\ Append(p, m)[Len(p) + 1] = m
          /\ \A i \in 1..Len(p) : Append(p, m)[i] = p[i]
      BY <1>2, <3>2, AppendFacts
    <3>4. w.trunk = Append(p, m)
      BY <1>3, <3>1, <3>2
    <3> QED BY <1>1, <2>2, <3>2, <3>3, <3>4
  <2> QED BY <2>1, <2>2
<1>14. /\ q => /\ told.lane \in Seq(Messages) /\ Len(told.lane) = l + 2
               /\ \A i \in 1..l : told.lane[i] = r.lane[i]
               /\ told.lane[l + 1] = Question(t) /\ told.lane[l + 2] = Reply(t)
       /\ ~q => told.lane = r.lane
  <2>1. CASE q
    <3>1. PICK x : x = <<Question(t), Reply(t)>>
      OBVIOUS
    <3>2. x \in Seq(Messages) /\ Len(x) = 2 /\ x[1] = Question(t) /\ x[2] = Reply(t)
      BY <1>2, <3>1
    <3>3. told.lane = r.lane \o x
      BY <1>1, <2>1, <3>1, ToldFacts
    <3>8. PICK z : z = r.lane
      OBVIOUS
    <3>9. /\ z \o x \in Seq(Messages) /\ Len(z \o x) = Len(z) + Len(x)
          /\ \A i \in 1..Len(z \o x) : (z \o x)[i] = IF i <= Len(z) THEN z[i] ELSE x[i - Len(z)]
      BY <1>2, <3>2, <3>8, ConcatFacts
    <3>10. told.lane = z \o x /\ Len(z) = l /\ Len(x) = 2
      BY <1>1, <3>2, <3>3, <3>8
    <3>4. /\ told.lane \in Seq(Messages) /\ Len(told.lane) = l + 2
          /\ \A i \in 1..l + 2 : told.lane[i] = IF i <= l THEN r.lane[i] ELSE x[i - l]
      BY <3>8, <3>9, <3>10
    <3>5. \A i \in 1..l : told.lane[i] = r.lane[i]
      BY <1>2, <3>4
    <3>6. told.lane[l + 1] = Question(t)
      BY <1>2, <3>2, <3>4
    <3>7. told.lane[l + 2] = Reply(t)
      BY <1>2, <3>2, <3>4
    <3> QED BY <2>1, <3>4, <3>5, <3>6, <3>7
  <2>2. CASE ~q
    BY <1>1, <2>2, ToldFacts
  <2> QED BY <2>1, <2>2
<1>15. CASE shed
  <2>1. PICK mark : mark = IF r.mark = None THEN r.found ELSE r.mark
    OBVIOUS
  <2>2. mark.trunk = a /\ mark.lane = b /\ w.mark = mark /\ mark # None
    BY <2>1, SessionFacts, ConstantFacts, <1>6, <1>4, <1>15 DEF Reach, LaneReach
  <2>3. \A x \in BOOLEAN : Reach(w, x) = a /\ LaneReach(w, x) = b
    BY <2>2 DEF Reach, LaneReach
  <2>4. Plain(w.trunk, a, g)
    <3>1. SUFFICES ASSUME NEW i \in 1..Len(w.trunk), i <= a
                   PROVE  Normal(w.trunk[i], g)
      BY DEF Plain
    <3>2. i \in Nat /\ i >= 1
      BY <1>2, <1>13, <3>1
    <3>3. i \in 1..n - 1 /\ i \in 1..n
      BY <1>2, <1>7, <1>17, <3>1, <3>2
    <3>4. i <= c
      BY <1>10, <1>17, <1>19, <3>1, <3>2
    <3>5. w.trunk[i] = r.trunk[i]
      BY <1>13, <3>3
    <3> QED BY <1>11, <3>3, <3>4, <3>5
  <2>5. Len(w.lane) \in Nat /\ b <= Len(w.lane) /\ \A i \in 1..Len(w.lane) : i <= b => w.lane[i] = r.lane[i]
    <3>1. CASE q
      <4>1. w.lane = Cut(told.lane, b)
        BY <1>5, <1>15, <2>1, <2>2, <3>1
      <4>2. /\ Len(w.lane) = IF b < l + 2 THEN b ELSE l + 2
            /\ \A i \in 1..Len(w.lane) : w.lane[i] = told.lane[i]
        BY <1>14, <1>17, <3>1, <4>1, CutFacts
      <4>3. Len(w.lane) = b
        BY <1>2, <1>7, <1>17, <4>2
      <4>4. \A i \in 1..b : i \in 1..l
        BY <1>2, <1>7, <1>17
      <4> QED BY <1>14, <1>17, <3>1, <4>2, <4>3, <4>4
    <3>2. CASE ~q
      BY <1>1, <1>2, <1>5, <1>7, <1>14, <3>2
    <3> QED BY <3>1, <3>2
  <2>6. Plain(w.lane, b, g)
    <3>1. SUFFICES ASSUME NEW i \in 1..Len(w.lane), i <= b
                   PROVE  Normal(w.lane[i], g)
      BY DEF Plain
    <3>2. i \in 1..l
      BY <1>2, <1>7, <1>17, <2>5, <3>1
    <3>3. i <= d
      BY <1>2, <1>10, <1>17, <1>19, <3>1, <3>2
    <3> QED BY <1>12, <2>5, <3>1, <3>2, <3>3
  <2>7. a <= Len(w.trunk)
    BY <1>2, <1>7, <1>13, <1>17
  <2> QED BY <1>1, <2>2, <2>3, <2>4, <2>5, <2>6, <2>7 DEF Fenced
<1>16. CASE ~shed
  <2>1. w.mark = None /\ r.mark = None /\ w.lane = told.lane
    BY <1>4, <1>5, <1>16
  <2>2. c = n /\ d = l
    BY <1>1, <1>18, <2>1 DEF Reach, LaneReach
  <2>3. Normal(Question(t), g) /\ Normal(Reply(t), g)
    BY <1>16
  <2>4. \A i \in 1..n - 1 : Normal(r.trunk[i], g)
    BY <1>2, <1>11, <2>2
  <2>5. \A i \in 1..Len(w.trunk) : Normal(w.trunk[i], g)
    <3>1. SUFFICES ASSUME NEW i \in 1..Len(w.trunk)
                   PROVE  Normal(w.trunk[i], g)
      OBVIOUS
    <3>2. CASE q
      BY <1>13, <2>4, <3>2
    <3>3. CASE ~q
      <4>1. CASE i = n + 1
        BY <1>13, <2>3, <3>3, <4>1
      <4>2. CASE i = n
        BY <1>2, <1>13, <2>3, <3>3, <4>2
      <4>3. CASE i # n /\ i # n + 1
        BY <1>2, <1>13, <3>3, <4>3, <2>4
      <4> QED BY <4>1, <4>2, <4>3
    <3> QED BY <3>2, <3>3
  <2>6. \A i \in 1..l : Normal(r.lane[i], g)
    BY <1>2, <1>12, <2>2
  <2>7. \A i \in 1..Len(w.lane) : Normal(w.lane[i], g)
    <3>1. SUFFICES ASSUME NEW i \in 1..Len(w.lane)
                   PROVE  Normal(w.lane[i], g)
      OBVIOUS
    <3>2. CASE ~q
      BY <1>1, <1>14, <2>1, <2>6, <3>2
    <3>3. CASE q
      BY <1>2, <1>14, <2>1, <3>3, <2>3, <2>6
    <3> QED BY <3>2, <3>3
  <2>8. Plain(w.trunk, Reach(w, FALSE), g) /\ Plain(w.lane, LaneReach(w, FALSE), g)
    BY <2>5, <2>7 DEF Plain
  <2> QED BY <1>1, <2>1, <2>8 DEF Fenced
<1> QED BY <1>15, <1>16

(* Who stands in a conversation, and in a lane: besides what turns that    *)
(* were heard said, the message of the turn at work.                       *)
LEMMA Standing ==
  ASSUME ConvTyped, Locks, Messaging, NEW s \in Sids
  PROVE  /\ \A i \in 1..Len(sess[s].trunk) :
              \/ sess[s].trunk[i] = Note \/ sess[s].trunk[i] \in Kept
              \/ Working(s) /\ i = Len(sess[s].trunk) /\ sess[s].trunk[i] = Question(sess[s].lock)
         /\ \A i \in 1..Len(sess[s].lane) : sess[s].lane[i] = Note \/ sess[s].lane[i] \in Kept
<1>1. PICK r : r = sess[s]
  OBVIOUS
<1>2. /\ r \in Session /\ r.trunk \in Seq(Messages) /\ r.lane \in Seq(Messages)
      /\ Len(r.trunk) \in Nat
  BY <1>1, SessionFacts DEF ConvTyped, StoreTyped
<1>3. Said(Settled(s)) \subseteq Kept /\ Said(r.lane) \subseteq Kept
  BY <1>1, SettledFacts DEF Messaging, InSessions
<1>4. ASSUME NEW i \in 1..Len(r.lane)
      PROVE  r.lane[i] = Note \/ r.lane[i] \in Kept
  BY <1>2, <1>3, <1>4, SaidAt
<1>5. ASSUME NEW i \in 1..Len(r.trunk)
      PROVE  \/ r.trunk[i] = Note \/ r.trunk[i] \in Kept
             \/ Working(s) /\ i = Len(r.trunk) /\ r.trunk[i] = Question(r.lock)
  <2>1. CASE ~Working(s)
    BY <1>1, <2>1, <1>2, <1>3, <1>5, SaidAt DEF Settled, Working
  <2>2. CASE Working(s)
    <3>1. PICK t : t = r.lock
      OBVIOUS
    <3>2. t \in Turns /\ pc[t] = "running" /\ ref[t] = s
      BY <1>1, <1>2, <2>2, <3>1, SessionFacts DEF Working, Locks
    <3>3. WithMine(r, t)
      BY <1>1, <3>2 DEF Locks
    <3>4. Question(t) \in Messages
      BY <3>2, MessageFacts
    <3>5. CASE i = Len(r.trunk)
      BY <2>2, <3>1, <3>3, <3>5 DEF WithMine
    <3>6. CASE i # Len(r.trunk)
      <4>1. PICK c : c = Cut(r.trunk, Len(r.trunk) - 1)
        OBVIOUS
      <4>2. i \in 1..Len(r.trunk) - 1
        BY <1>2, <1>5, <3>6
      <4>3. c \in Seq(Messages) /\ Len(c) = Len(r.trunk) - 1
            /\ \A j \in 1..Len(r.trunk) - 1 : c[j] = r.trunk[j]
        BY <1>2, <3>3, <3>4, <4>1, HeadFacts DEF WithMine
      <4>4. Settled(s) = c
        BY <1>1, <2>2, <4>1 DEF Settled, Working
      <4>5. i \in 1..Len(c) /\ c[i] = r.trunk[i]
        BY <4>2, <4>3
      <4> QED BY <1>3, <4>3, <4>4, <4>5, SaidAt
    <3> QED BY <3>5, <3>6
  <2> QED BY <2>1, <2>2
<1> QED BY <1>1, <1>4, <1>5

(* A turn that was heard is not isolated later.                            *)
LEMMA NormalStays ==
  ASSUME ConvTyped, Locks, Course, Next, NEW m, m = Note \/ m \in Kept, Normal(m, iso)
  PROVE  Normal(m, iso')
<1>1. SUFFICES ASSUME NEW u \in Turns, m \in Exchange(u)
               PROVE  ~iso'[u]
  BY DEF Normal
<1>2. m # Note
  BY <1>1, MessageFacts
<1>3. pc[u] \in Heard
  BY <1>1, <1>2, Unsaid
<1>4. TurnKeeps(u)
  BY TurnPaths
<1>5. iso'[u] = iso[u]
  BY <1>3, <1>4 DEF TurnKeeps, AnswersAt, Heard
<1> QED BY <1>1, <1>5 DEF Normal

(* What holds of a session's places goes on to hold of them.               *)
LEMMA PlacesStay ==
  ASSUME ConvTyped, Locks, Course, Messaging, Next, NEW s \in Sids
  PROVE  /\ \A i \in 1..Len(sess[s].trunk) - 1 :
               Normal(sess[s].trunk[i], iso) => Normal(sess[s].trunk[i], iso')
         /\ ~Working(s) \/ Untouched(s) => \A i \in 1..Len(sess[s].trunk) :
               Normal(sess[s].trunk[i], iso) => Normal(sess[s].trunk[i], iso')
         /\ \A i \in 1..Len(sess[s].lane) :
               Normal(sess[s].lane[i], iso) => Normal(sess[s].lane[i], iso')
<1>1. PICK r : r = sess[s]
  OBVIOUS
<1>2. Len(r.trunk) \in Nat
  BY <1>1, SessionFacts DEF ConvTyped, StoreTyped
<1>3. ASSUME NEW i \in 1..Len(r.trunk) - 1, Normal(r.trunk[i], iso)
      PROVE  Normal(r.trunk[i], iso')
  BY <1>2, <1>3, <1>1, Standing, NormalStays
<1>4. ASSUME NEW i \in 1..Len(r.lane), Normal(r.lane[i], iso)
      PROVE  Normal(r.lane[i], iso')
  BY <1>1, <1>4, Standing, NormalStays
<1>5. ASSUME ~Working(s) \/ Untouched(s), NEW i \in 1..Len(r.trunk), Normal(r.trunk[i], iso)
      PROVE  Normal(r.trunk[i], iso')
  <2>1. CASE r.trunk[i] = Note \/ r.trunk[i] \in Kept
    BY <1>5, <2>1, NormalStays
  <2>2. CASE ~(r.trunk[i] = Note \/ r.trunk[i] \in Kept)
    <3>1. Working(s) /\ r.trunk[i] = Question(r.lock)
      BY <1>1, <1>5, <2>2, Standing
    <3>2. PICK v : v = r.lock
      OBVIOUS
    <3>3. v \in Turns /\ pc[v] = "running" /\ pc'[v] = pc[v]
      BY <1>1, <1>5, <3>1, <3>2, SessionFacts DEF Working, Untouched, ConvTyped, StoreTyped
    <3>4. iso'[v] = iso[v]
      BY <3>3, TurnPaths DEF ConvTyped, TurnsTyped, TurnKeeps, AnswersAt
    <3>5. \A u \in Turns : Question(v) \in Exchange(u) => u = v
      BY <3>3, MessageFacts
    <3>6. Question(v) \in Exchange(v)
      BY <3>3, MessageFacts
    <3> QED BY <1>5, <3>1, <3>2, <3>3, <3>4, <3>5, <3>6 DEF Normal
  <2> QED BY <2>1, <2>2
<1> QED BY <1>1, <1>3, <1>4, <1>5

(* So a fence goes on to hold, by what is isolated now.                    *)
LEMMA FencedOn ==
  ASSUME NEW r \in Session, NEW b \in BOOLEAN, NEW f, NEW g, Fenced(r, b, f),
         \A i \in 1..Len(r.trunk) : Normal(r.trunk[i], f) => Normal(r.trunk[i], g),
         \A i \in 1..Len(r.lane) : Normal(r.lane[i], f) => Normal(r.lane[i], g)
  PROVE  Fenced(r, b, g)
  BY DEF Fenced, Plain

(* A turn that starts or fails isolates nobody.                            *)
LEMMA IsolationKept ==
  ASSUME ConvTyped, Locks, Course, Next, NEW t \in Turns, NEW x \in {"running", "failed"},
         pc' = [pc EXCEPT ![t] = x], pc[t] # "new"
  PROVE  iso' = iso
<1>1. iso \in [Turns -> BOOLEAN] /\ iso' \in [Turns -> BOOLEAN] /\ pc \in [Turns -> States]
  BY NextTyped DEF ConvTyped, TurnsTyped
<1>2. ASSUME NEW u \in Turns
      PROVE  iso'[u] = iso[u]
  <2>1. TurnKeeps(u)
    BY TurnPaths
  <2>2. CASE u = t
    BY <1>1, <2>2, <2>1 DEF AnswersAt, TurnKeeps
  <2>3. CASE u # t
    BY <1>1, <2>3, <2>1 DEF AnswersAt, TurnKeeps
  <2> QED BY <2>2, <2>3
<1> QED BY <1>1, <1>2

(* Each thing that happens to a session leaves what isolated turns said    *)
(* behind its watermarks.                                                  *)
LEMMA NextFenced ==
  ASSUME ConvTyped, Locks, Course, Messaging, NeatTrunks, OnlyAdmitted, Placed, Unmarked, Next,
         Windows, Windows', NEW s \in Sids, Fenced(sess[s], Working(s), iso)
  PROVE  Fenced(sess'[s], Working(s)', iso')
<1>1. PICK r, w, f, g : r = sess[s] /\ w = sess'[s] /\ f = iso /\ g = iso'
  OBVIOUS
<1>2. r \in Session /\ Tidy(r) /\ iso \in [Turns -> BOOLEAN]
  BY <1>1 DEF ConvTyped, StoreTyped, TurnsTyped
<1>3. scene.due = {FALSE} /\ scene.budgets = {FALSE} /\ CapIsFar /\ ~(spent'.reset > 0)
  BY DEF Windows, HeadKept
<1>4. stage # "down"
  BY DEF Windows, NeverCrashed, Placed, Ends
<1>5. \A i \in 1..Len(r.lane) : Normal(r.lane[i], f) => Normal(r.lane[i], g)
  BY <1>1, PlacesStay
<1>6. ASSUME ~Working(s) \/ Untouched(s)
      PROVE  \A b \in BOOLEAN : Fenced(r, b, f) => Fenced(r, b, g)
  BY <1>1, <1>6, PlacesStay, <1>2, <1>5, FencedOn
<1>7. ASSUME Working(s) = FALSE, Working(s)' = FALSE,
             w.trunk = r.trunk, w.lane = r.lane, w.mark = r.mark
      PROVE  Fenced(sess'[s], Working(s)', iso')
  BY <1>1, <1>6, <1>7, FencedSame
<1>8. CASE Untouched(s)
  BY <1>1, <1>8, Workers, <1>6 DEF Untouched, Working
<1>9. CASE Dropped(s)
  BY <1>1, <1>9, NewSessionFacts, FencedNew DEF Dropped, Working
<1>10. CASE Cleaned(s)
  <2>1. Working(s) = FALSE /\ Working(s)' = FALSE
    BY <1>10, Workers DEF Working
  <2>2. w.trunk = r.trunk /\ w.lane = r.lane /\ w.mark = r.mark
    BY <1>1, <1>2, <1>10, SetDirtyFacts DEF Cleaned
  <2> QED BY <1>7, <2>1, <2>2
<1>11. ~Emptied(s)
  BY <1>3 DEF Emptied, ResetSession
<1>12. ~Read(s)
  BY <1>4 DEF Read
<1>13. ASSUME NEW t \in Turns, ref[t] = s,
              StartsAt(t, s) \/ FailsAt(t, s) \/ AnswersAt(t, s) \/ LogsAt(t, s) \/ LeavesAt(t, s)
       PROVE  Fenced(sess'[s], Working(s)', iso')
  <2>1. CASE StartsAt(t, s)
    <3>1. Working(s) = FALSE /\ Working(s)' = TRUE
      BY <1>13, <2>1, Workers DEF Working
    <3>2. PICK reset, long, summed \in BOOLEAN :
             w = Started(r, t, reset, long, summed) /\ TakesOff(r, t, reset, long)
      BY <1>1, <2>1 DEF StartsAt
    <3>3. reset = FALSE /\ long = FALSE
      BY <1>3, <3>2 DEF TakesOff
    <3>4. w = Begins(r, t, FALSE)
      BY <3>2, <3>3 DEF Started
    <3>5. Fenced(Begins(r, t, FALSE), TRUE, iso)
      BY <1>1, <1>2, <3>1, FencedStarts
    <3>6. iso' = iso
      BY <1>13, <2>1, IsolationKept DEF StartsAt
    <3> QED BY <1>1, <3>1, <3>4, <3>5, <3>6
  <2>2. ASSUME pc[t] = "running"
        PROVE  WithMine(r, t)
    BY <1>1, <1>13, <2>2 DEF Locks
  <2>3. CASE FailsAt(t, s)
    <3>1. pc[t] = "running" /\ w = Released(RolledBack(r))
      BY <1>1, <2>3 DEF FailsAt
    <3>2. Working(s) = TRUE /\ Working(s)' = FALSE
      BY <1>13, <2>3, Workers DEF Working
    <3>3. Fenced(r, TRUE, f)
      BY <1>1, <3>2
    <3>4. Fenced(Released(RolledBack(r)), FALSE, f)
      BY <1>2, <2>2, <3>1, <3>3, FencedRollsBack
    <3>5. iso' = iso
      BY <1>13, <2>3, IsolationKept DEF FailsAt
    <3> QED BY <1>1, <3>1, <3>2, <3>4, <3>5
  <2>4. CASE AnswersAt(t, s)
    <3>1. Answer(t) /\ pc[t] = "running"
      BY <1>13, <2>4, MovesAre DEF AnswersAt
    <3>2. PICK b \in BOOLEAN : b = (iso[t] \/ isolated)
      OBVIOUS
    <3>3. PICK q \in BOOLEAN : /\ q => r.fallbacks < MaxFallbacks
                               /\ w = Answers(r, t, b, q)
      BY <1>1, <2>4, <3>2 DEF AnswersAt
    <3>4. g[t] = b
      BY <1>1, <1>2, <3>1, <3>2 DEF Answer
    <3>5. ~b => r.mark = None
      BY <1>1, <1>13, <3>1, <3>2 DEF Unmarked, Holding
    <3>6. ~b => Normal(Question(t), g) /\ Normal(Reply(t), g)
      BY <3>4, MessageFacts DEF Normal
    <3>7. \A i \in 1..Len(r.trunk) - 1 : Normal(r.trunk[i], f) => Normal(r.trunk[i], g)
      BY <1>1, PlacesStay
    <3>8. Working(s) = TRUE /\ Working(s)' = FALSE
      BY <1>13, <2>4, Workers DEF Working
    <3>9. Fenced(r, TRUE, f)
      BY <1>1, <3>8
    <3>10. Fenced(Answers(r, t, b, q), FALSE, g)
      BY <1>2, <1>5, <2>2, <3>1, <3>3, <3>5, <3>6, <3>7, <3>9, FencedAnswers
    <3> QED BY <1>1, <3>3, <3>8, <3>10
  <2>5. CASE LogsAt(t, s)
    <3>1. w = Trimmed(r, iso[t], scene.cap) /\ iso[t] \in BOOLEAN
      BY <1>1, <1>2, <2>5 DEF LogsAt
    <3>2. Working(s) = FALSE /\ Working(s)' = FALSE
      BY <1>13, <2>5, Workers DEF Working
    <3>3. scene.cap \in Nat /\ scene.cap >= Len(r.trunk)
      BY <1>1, TrunkLength, <1>2, SessionFacts, <1>3, ConversationsAssumption DEF CapIsFar,
         ConvTyped, RestTyped
    <3>4. w.trunk = r.trunk /\ w.lane = r.lane /\ w.mark = r.mark
      BY <1>2, <3>1, <3>3, TrimmedFacts
    <3> QED BY <1>7, <3>2, <3>4
  <2>6. CASE LeavesAt(t, s)
    <3>1. PICK dirty \in BOOLEAN : w = Released([r EXCEPT !.dirty = dirty])
      BY <1>1, <2>6 DEF LeavesAt
    <3>2. PICK v : v = [r EXCEPT !.dirty = dirty]
      OBVIOUS
    <3>3. /\ v \in Session /\ Tidy(v) /\ v.trunk = r.trunk /\ v.lane = r.lane /\ v.mark = r.mark
      BY <1>2, <3>2, SetDirtyFacts
    <3>4. /\ Released(v).trunk = v.trunk /\ Released(v).lane = v.lane /\ Released(v).mark = v.mark
      BY <3>3, ReleasedFacts
    <3>5. w.trunk = r.trunk /\ w.lane = r.lane /\ w.mark = r.mark
      BY <3>1, <3>2, <3>3, <3>4
    <3>6. Working(s) = FALSE /\ Working(s)' = FALSE
      BY <1>13, <2>6, Workers DEF Working
    <3> QED BY <1>7, <3>5, <3>6
  <2> QED BY <1>13, <2>1, <2>3, <2>4, <2>5, <2>6
<1> QED BY <1>8, <1>9, <1>10, <1>11, <1>12, <1>13, SessionMoves DEF SessionMove, TurnMove

(* The fences hold at first, and every step keeps them.                    *)
LEMMA InitWindows == Init => WindowsHold
<1> SUFFICES ASSUME Init, NEW s \in Sids
             PROVE  Fenced(sess[s], Working(s), iso)
  BY DEF WindowsHold
<1>1. sess[s] = NewSession
  BY DEF Init
<1>2. Working(s) = FALSE
  BY <1>1, NewSessionFacts DEF Working
<1> QED BY <1>1, <1>2, FencedNew

(* Every step keeps the fences.                                            *)
LEMMA NextWindows == ConvIInv /\ LogInvariant /\ WindowsHold /\ [Next]_vars => WindowsHold'
<1> SUFFICES ASSUME ConvIInv, LogInvariant, WindowsHold, [Next]_vars
             PROVE  WindowsHold'
  OBVIOUS
<1>1. CASE Next
  <2>1. ConvTyped /\ Locks /\ Course /\ Messaging
    BY DEF ConvIInv
  <2>2. NeatTrunks /\ OnlyAdmitted /\ Placed /\ Unmarked
    BY DEF LogInvariant
  <2>3. SUFFICES ASSUME Windows', NEW s \in Sids
                 PROVE  Fenced(sess'[s], Working(s)', iso')
    BY DEF WindowsHold
  <2>4. Windows
    BY <1>1, <2>1, <2>3, Back
  <2>5. Fenced(sess[s], Working(s), iso)
    BY <2>4 DEF WindowsHold
  <2> QED BY <1>1, <2>1, <2>2, <2>3, <2>4, <2>5, NextFenced
<1>2. CASE UNCHANGED vars
  BY <1>2 DEF vars, Windows, NeverCrashed, HeadKept, CapIsFar, Working, WindowsHold
<1> QED BY <1>1, <1>2

(* The inductive invariant of isolation mode: what isolated turns said is  *)
(* behind the watermarks of its session, and a watermark is where a        *)
(* conversation is cut (track_isolation_window,                            *)
(* anchor_isolation_after_turn).                                           *)
THEOREM WindowInvariance == Spec => []WindowsHold
<1>1. Init => WindowsHold
  BY InitWindows
<1>2. ConvIInv /\ LogInvariant /\ WindowsHold /\ [Next]_vars => WindowsHold'
  BY NextWindows
<1> QED BY <1>1, <1>2, ConvInvariance, LogInvariance, PTL DEF Spec

(* A normal turn at work has no watermark, so nothing of what it shows was *)
(* said in isolation.                                                      *)
LEMMA IsolatedFacts == ConvIInv /\ LogInvariant /\ WindowsHold => IsolatedTailDropped
<1> SUFFICES ASSUME ConvIInv, LogInvariant, WindowsHold, Windows,
                    NEW t \in Turns, pc[t] = "running", ~iso[t],
                    NEW u \in Turns, iso[u], NEW m \in Exchange(u)
             PROVE  m \notin Said(sess[ref[t]].trunk) /\ m \notin Said(sess[ref[t]].lane)
  BY DEF IsolatedTailDropped, ShownNothingIsolated, Windows
<1>1. ConvTyped /\ Locks /\ Unmarked
  BY DEF ConvIInv, LogInvariant
<1>2. PICK s : s = ref[t]
  OBVIOUS
<1>3. s \in Sids
  BY <1>1, <1>2 DEF Locks, Holding, ConvTyped, TurnsTyped
<1>4. PICK r : r = sess[s]
  OBVIOUS
<1>5. /\ r \in Session /\ r.trunk \in Seq(Messages) /\ r.lane \in Seq(Messages)
      /\ Len(r.trunk) \in Nat /\ Len(r.lane) \in Nat
  BY <1>1, <1>3, <1>4, SessionFacts DEF ConvTyped, StoreTyped
<1>6. r.mark = None
  BY <1>1, <1>2, <1>4 DEF Unmarked, Holding
<1>7. Reach(r, FALSE) = Len(r.trunk) /\ LaneReach(r, FALSE) = Len(r.lane)
  BY <1>5, <1>6, ReachFacts, LaneReachFacts
<1>8. Plain(r.trunk, Len(r.trunk), iso) /\ Plain(r.lane, Len(r.lane), iso)
  BY <1>3, <1>4, <1>7 DEF WindowsHold, Fenced
<1>9. ASSUME NEW q \in Seq(Messages), Plain(q, Len(q), iso)
      PROVE  m \notin Said(q)
  <2>1. SUFFICES ASSUME NEW i \in 1..Len(q), q[i] = m
                 PROVE  FALSE
    BY <1>9, SaidAt
  <2>2. Len(q) \in Nat /\ i <= Len(q)
    BY <1>9, <2>1, SaidAt
  <2> QED BY <1>9, <2>1, <2>2 DEF Plain, Normal
<1> QED BY <1>2, <1>4, <1>5, <1>8, <1>9

(* While no head is dropped and the process lives, a normal turn shows the *)
(* provider nothing that was said in isolation (close_isolation_window,    *)
(* anchor_isolation_after_turn).                                           *)
THEOREM IsolatedTailsAreDropped == Spec => []IsolatedTailDropped
<1>1. ConvIInv /\ LogInvariant /\ WindowsHold => IsolatedTailDropped
  BY IsolatedFacts
<1> QED BY <1>1, ConvInvariance, LogInvariance, WindowInvariance, PTL
===============================================================================
