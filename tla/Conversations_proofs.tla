------------------------- MODULE Conversations_proofs -------------------------
(***************************************************************************)
(* Proofs about the conversations of a pulse, for any identities, turns    *)
(* and circumstances.                                                      *)
(***************************************************************************)
EXTENDS Conversations, SequenceTheorems, FiniteSetTheorems, TLAPS

-----------------------------------------------------------------------------
(* Constants and messages.                                                 *)

(* The constants, and that None is none of what it stands for the absence  *)
(* of.                                                                     *)
LEMMA ConstantFacts ==
  /\ MaxTurns \in Nat /\ Turns \subseteq Nat \ {0} /\ IsFiniteSet(Keys)
  /\ None \notin Keys /\ None \notin Turns /\ None \notin Sids /\ None \notin Lens01
  /\ None \notin Files /\ Sids \subseteq Nat
  /\ KeepRecent \in Nat \ {0} /\ MinMessages \in Nat /\ KeepRecent <= MinMessages - 2
  /\ MaxQuarantine \in Nat /\ MaxFallbacks \in Nat /\ 2 * MaxFallbacks <= MaxQuarantine
<1>1. /\ MaxTurns \in Nat /\ MinMessages \in Nat /\ KeepRecent \in 1..(MinMessages - 2)
      /\ MaxQuarantine \in Nat /\ MaxFallbacks \in Nat /\ 2 * MaxFallbacks <= MaxQuarantine
      /\ IsFiniteSet(Keys) /\ None \notin Keys \cup Nat
      /\ None \notin [trunk : Nat, lane : Nat]
      /\ None \notin [trunk : Seq(Messages), lane : Seq(Messages), fallbacks : Nat, seq : Nat]
  BY ConversationsAssumption
<1>2. Turns \subseteq Nat \ {0}
  BY <1>1 DEF Turns
<1>3. Sids \subseteq Nat
  BY <1>1, FS_CardinalityType DEF Sids
<1>4. None \notin Files
  BY <1>1 DEF Files
<1>5. None \notin Keys /\ None \notin Nat
  BY <1>1
<1>6. None \notin Turns /\ None \notin Sids
  BY <1>2, <1>3, <1>5
<1>7. None \notin Lens01
  BY <1>1 DEF Lens01
<1>8. KeepRecent \in Nat \ {0} /\ KeepRecent <= MinMessages - 2
  BY <1>1
<1> QED BY <1>1, <1>2, <1>3, <1>4, <1>5, <1>6, <1>7, <1>8

(* Every message is the code's own note or of one turn.                    *)
LEMMA MessageFacts ==
  /\ Note \in Messages
  /\ \A t \in Turns : /\ Question(t) \in Messages /\ Reply(t) \in Messages
                      /\ Question(t) # Note /\ Reply(t) # Note /\ Question(t) # Reply(t)
                      /\ Exchange(t) = {Question(t), Reply(t)}
  /\ \A t, u \in Turns : t # u => Exchange(t) \cap Exchange(u) = {}
<1>1. \A t \in Turns : t \in Nat /\ t # 0
  BY ConstantFacts
<1>2. \A t \in Turns : Question(t) # Note /\ Reply(t) # Note /\ Question(t) # Reply(t)
  BY <1>1 DEF Question, Reply, Note
<1>3. \A t \in Turns : Question(t) \in Messages /\ Reply(t) \in Messages
  BY DEF Messages, Exchange
<1>4. \A t, u \in Turns : t # u => Exchange(t) \cap Exchange(u) = {}
  BY DEF Exchange, Question, Reply
<1> QED BY <1>2, <1>3, <1>4 DEF Exchange, Messages

-----------------------------------------------------------------------------
(* Sequences of messages.                                                  *)

(* What a conversation says is what stands at one of its places.           *)
LEMMA SaidAt ==
  ASSUME NEW q \in Seq(Messages)
  PROVE  /\ Len(q) \in Nat /\ Said(q) \subseteq Messages
         /\ \A m : m \in Said(q) <=> m # Note /\ \E i \in 1..Len(q) : q[i] = m
  BY DEF Said, ToSet

(* Cutting keeps a head (Vec::truncate).                                   *)
LEMMA CutFacts ==
  ASSUME NEW q \in Seq(Messages), NEW n \in Nat
  PROVE  /\ Cut(q, n) \in Seq(Messages)
         /\ Len(Cut(q, n)) = IF n < Len(q) THEN n ELSE Len(q)
         /\ \A i \in 1..Len(Cut(q, n)) : Cut(q, n)[i] = q[i]
         /\ Said(Cut(q, n)) \subseteq Said(q)
<1>1. Len(q) \in Nat /\ \A i \in 1..Len(q) : q[i] \in Messages
  OBVIOUS
<1>2. CASE ~(n < Len(q))
  BY <1>1, <1>2 DEF Cut
<1>3. CASE n < Len(q)
  <2>1. PICK c : c = SubSeq(q, 1, n)
    OBVIOUS
  <2>2. 1 \in Int /\ n \in Int /\ \A i \in 1..n : q[i] \in Messages
    BY <1>1, <1>3
  <2>3. /\ c \in Seq(Messages) /\ Len(c) = IF 1 <= n THEN n - 1 + 1 ELSE 0
        /\ \A i \in 1..(n - 1 + 1) : c[i] = q[1 + i - 1]
    BY <2>1, <2>2, SubSeqProperties
  <2>4. Len(c) = n /\ \A i \in 1..n : c[i] = q[i]
    BY <1>3, <2>3
  <2>5. Said(c) \subseteq Said(q)
    BY <1>1, <1>3, <2>3, <2>4, SaidAt
  <2>6. Cut(q, n) = c
    BY <1>3, <2>1 DEF Cut
  <2> QED BY <1>3, <2>3, <2>4, <2>5, <2>6
<1> QED BY <1>2, <1>3

(* Keeping the last ones keeps a tail (Vec::drain).                        *)
LEMMA KeepLastFacts ==
  ASSUME NEW q \in Seq(Messages), NEW n \in Nat
  PROVE  /\ KeepLast(q, n) \in Seq(Messages)
         /\ Len(KeepLast(q, n)) = IF n < Len(q) THEN n ELSE Len(q)
         /\ \A i \in 1..Len(KeepLast(q, n)) :
              KeepLast(q, n)[i] = q[Len(q) - Len(KeepLast(q, n)) + i]
         /\ Said(KeepLast(q, n)) \subseteq Said(q)
         /\ n >= Len(q) => KeepLast(q, n) = q
<1>1. Len(q) \in Nat /\ \A i \in 1..Len(q) : q[i] \in Messages
  OBVIOUS
<1>2. CASE ~(n < Len(q))
  BY <1>1, <1>2 DEF KeepLast
<1>3. CASE n < Len(q)
  <2> DEFINE a == Len(q) - n + 1
  <2>1. PICK c : c = SubSeq(q, a, Len(q))
    OBVIOUS
  <2>2. a \in Int /\ Len(q) \in Int /\ a >= 1 /\ \A i \in a..Len(q) : q[i] \in Messages
    BY <1>1, <1>3
  <2> HIDE DEF a
  <2>3. /\ c \in Seq(Messages) /\ Len(c) = IF a <= Len(q) THEN Len(q) - a + 1 ELSE 0
        /\ \A i \in 1..(Len(q) - a + 1) : c[i] = q[a + i - 1]
    BY <2>1, <2>2, SubSeqProperties
  <2>4. Len(c) = n /\ \A i \in 1..n : c[i] = q[Len(q) - n + i]
    BY <1>1, <1>3, <2>3 DEF a
  <2>5. Said(c) \subseteq Said(q)
    <3>1. SUFFICES ASSUME NEW m \in Said(c) PROVE m \in Said(q)
      OBVIOUS
    <3>2. PICK i \in 1..Len(c) : c[i] = m
      BY <2>3, SaidAt
    <3>3. m # Note
      BY <2>3, <3>1, SaidAt
    <3>4. Len(q) - n + i \in 1..Len(q) /\ q[Len(q) - n + i] = m
      BY <1>1, <1>3, <2>4, <3>2
    <3> QED BY <3>3, <3>4, SaidAt
  <2>6. KeepLast(q, n) = c
    BY <1>3, <2>1 DEF KeepLast, a
  <2>7. ~(n >= Len(q))
    BY <1>1, <1>3
  <2>8. \A i \in 1..Len(c) : c[i] = q[Len(q) - Len(c) + i]
    BY <2>4
  <2> QED BY <1>3, <2>3, <2>4, <2>5, <2>6, <2>7, <2>8
<1> QED BY <1>2, <1>3

(* A message joins a conversation at its end (Vec::push).                  *)
LEMMA AppendFacts ==
  ASSUME NEW q \in Seq(Messages), NEW m \in Messages, m # Note
  PROVE  /\ Append(q, m) \in Seq(Messages) /\ Len(Append(q, m)) = Len(q) + 1
         /\ \A i \in 1..Len(q) : Append(q, m)[i] = q[i]
         /\ Append(q, m)[Len(q) + 1] = m
         /\ Said(Append(q, m)) = Said(q) \cup {m}
<1>1. /\ Append(q, m) \in Seq(Messages) /\ Len(Append(q, m)) = Len(q) + 1 /\ Len(q) \in Nat
      /\ \A i \in 1..Len(q) : Append(q, m)[i] = q[i]
      /\ Append(q, m)[Len(q) + 1] = m
  OBVIOUS
<1>2. Said(Append(q, m)) = Said(q) \cup {m}
  <2>1. PICK a \in Seq(Messages) : a = Append(q, m)
    BY <1>1
  <2>2. \A i \in 1..Len(a) : i \in 1..Len(q) \/ i = Len(q) + 1
    BY <1>1, <2>1
  <2>3. \A x : x \in Said(a) <=> x # Note /\ \E i \in 1..Len(a) : a[i] = x
    BY SaidAt
  <2>4. \A x : x \in Said(q) <=> x # Note /\ \E i \in 1..Len(q) : q[i] = x
    BY SaidAt
  <2>5. Said(a) \subseteq Said(q) \cup {m}
    BY <1>1, <2>1, <2>2, <2>3, <2>4
  <2>6. m \in Said(a)
    BY <1>1, <2>1, <2>3
  <2>7. Said(q) \subseteq Said(a)
    BY <1>1, <2>1, <2>3, <2>4
  <2> QED BY <2>1, <2>5, <2>6, <2>7
<1> QED BY <1>1, <1>2

(* One conversation after another.                                         *)
LEMMA ConcatFacts ==
  ASSUME NEW p \in Seq(Messages), NEW q \in Seq(Messages)
  PROVE  /\ p \o q \in Seq(Messages) /\ Len(p \o q) = Len(p) + Len(q)
         /\ \A i \in 1..Len(p \o q) : (p \o q)[i] = IF i <= Len(p) THEN p[i] ELSE q[i - Len(p)]
         /\ Said(p \o q) = Said(p) \cup Said(q)
<1>1. Len(p) \in Nat /\ Len(q) \in Nat
  OBVIOUS
<1>2. PICK c : c = p \o q
  OBVIOUS
<1>3. /\ c \in Seq(Messages) /\ Len(c) = Len(p) + Len(q)
      /\ \A i \in 1..(Len(p) + Len(q)) : c[i] = IF i <= Len(p) THEN p[i] ELSE q[i - Len(p)]
  BY <1>2, ConcatProperties
<1>4. Said(c) \subseteq Said(p) \cup Said(q)
  <2>1. \A i \in 1..Len(c) : i \in 1..Len(p) \/ (~(i <= Len(p)) /\ i - Len(p) \in 1..Len(q))
    BY <1>1, <1>3
  <2> QED BY <1>3, <2>1, SaidAt
<1>5. Said(p) \subseteq Said(c)
  <2>1. \A i \in 1..Len(p) : i \in 1..Len(c) /\ c[i] = p[i]
    BY <1>1, <1>3
  <2> QED BY <1>3, <2>1, SaidAt
<1>6. Said(q) \subseteq Said(c)
  <2>1. SUFFICES ASSUME NEW m \in Said(q) PROVE m \in Said(c)
    OBVIOUS
  <2>2. PICK i \in 1..Len(q) : q[i] = m
    BY SaidAt
  <2>3. m # Note
    BY <2>1, SaidAt
  <2>4. PICK j : j = Len(p) + i
    OBVIOUS
  <2>5. j \in 1..(Len(p) + Len(q)) /\ ~(j <= Len(p)) /\ j - Len(p) = i
    BY <1>1, <2>4
  <2>6. c[j] = m
    BY <1>3, <2>2, <2>5
  <2> QED BY <1>3, <2>3, <2>5, <2>6, SaidAt
<1> QED BY <1>2, <1>3, <1>4, <1>5, <1>6

(* The notes and the exchange that are put into conversations.             *)
LEMMA ShortFacts ==
  /\ <<>> \in Seq(Messages) /\ Len(<<>>) = 0 /\ Said(<<>>) = {}
  /\ <<Note>> \in Seq(Messages) /\ Len(<<Note>>) = 1 /\ Said(<<Note>>) = {} /\ <<Note>>[1] = Note
  /\ \A t \in Turns : LET x == <<Question(t), Reply(t)>>
                      IN  x \in Seq(Messages) /\ Len(x) = 2 /\ Said(x) = Exchange(t)
<1>1. <<>> \in Seq(Messages) /\ Len(<<>>) = 0 /\ Said(<<>>) = {}
  BY DEF Said, ToSet
<1>2. <<Note>> \in Seq(Messages) /\ Len(<<Note>>) = 1 /\ <<Note>>[1] = Note
  BY MessageFacts
<1>3. Said(<<Note>>) = {}
  BY DEF Said, ToSet
<1>4. ASSUME NEW t \in Turns
      PROVE  /\ <<Question(t), Reply(t)>> \in Seq(Messages) /\ Len(<<Question(t), Reply(t)>>) = 2
             /\ Said(<<Question(t), Reply(t)>>) = Exchange(t)
  BY MessageFacts DEF ToSet, Said
<1> QED BY <1>1, <1>2, <1>3, <1>4


-----------------------------------------------------------------------------
(* Sessions, and what each step of a turn makes of one.                    *)

Session == [trunk : Seq(Messages), lane : Seq(Messages), fallbacks : 0..MaxFallbacks,
            mark : Lens01 \cup {None}, found : Lens01, seq : Nat, dirty : BOOLEAN,
            lock : Turns \cup {None}]

\* The quarantine is so short that nothing is ever drained from it.
Tidy(c) == Len(c.lane) <= 2 * c.fallbacks

\* What of a session only its turn and its log change.
SameCursor(r, q) == r.seq = q.seq /\ r.dirty = q.dirty /\ r.lock = q.lock

(* What a session is made of, and how long its conversations are.          *)
LEMMA SessionFacts ==
  ASSUME NEW r \in Session
  PROVE  /\ r.trunk \in Seq(Messages) /\ Len(r.trunk) \in Nat
         /\ r.lane \in Seq(Messages) /\ Len(r.lane) \in Nat
         /\ r.fallbacks \in Nat /\ r.fallbacks <= MaxFallbacks
         /\ r.found \in Lens01 /\ r.found.trunk \in Nat /\ r.found.lane \in Nat
         /\ r.mark \in Lens01 \cup {None} /\ r.seq \in Nat /\ r.dirty \in BOOLEAN
         /\ r.mark # None => r.mark \in Lens01 /\ r.mark.trunk \in Nat /\ r.mark.lane \in Nat
         /\ r.lock \in Turns \cup {None}
         /\ Lens(r) \in Lens01 /\ Lens(r).trunk = Len(r.trunk) /\ Lens(r).lane = Len(r.lane)
<1>1. /\ r.trunk \in Seq(Messages) /\ r.lane \in Seq(Messages)
      /\ r.fallbacks \in 0..MaxFallbacks /\ r.found \in Lens01
      /\ r.mark \in Lens01 \cup {None} /\ r.seq \in Nat /\ r.dirty \in BOOLEAN
      /\ r.lock \in Turns \cup {None}
  BY DEF Session
<1>2. Len(r.trunk) \in Nat /\ Len(r.lane) \in Nat
  BY <1>1
<1>3. Lens(r) \in Lens01 /\ Lens(r).trunk = Len(r.trunk) /\ Lens(r).lane = Len(r.lane)
  BY <1>2 DEF Lens, Lens01
<1>4. \A x \in Lens01 : x.trunk \in Nat /\ x.lane \in Nat
  BY DEF Lens01
<1>5. r.fallbacks \in Nat /\ r.fallbacks <= MaxFallbacks
  BY <1>1, ConstantFacts
<1> QED BY <1>1, <1>2, <1>3, <1>4, <1>5

(* An empty session.                                                       *)
LEMMA NewSessionFacts ==
  /\ NewSession \in Session /\ Tidy(NewSession) /\ NewSession.trunk = <<>>
  /\ NewSession.lane = <<>> /\ NewSession.seq = 0 /\ NewSession.dirty = FALSE
  /\ NewSession.lock = None /\ NewSession.mark = None /\ NewSession.found = NoLens
  /\ NewSession.fallbacks = 0
<1>1. NoLens \in Lens01
  BY DEF NoLens, Lens01
<1>2. NewSession \in Session
  BY <1>1, ShortFacts, ConstantFacts DEF NewSession, Session
<1>3. Tidy(NewSession)
  BY ShortFacts DEF NewSession, Tidy
<1> QED BY <1>2, <1>3 DEF NewSession

(* track_isolation_window.                                                 *)
LEMMA WindowedFacts ==
  ASSUME NEW r \in Session, Tidy(r), NEW b \in BOOLEAN
  PROVE  LET w == Windowed(r, b)
         IN  /\ w \in Session /\ Tidy(w) /\ SameCursor(w, r) /\ w.fallbacks = r.fallbacks
             /\ Said(w.trunk) \subseteq Said(r.trunk) /\ Said(w.lane) \subseteq Said(r.lane)
             /\ Len(w.trunk) <= Len(r.trunk)
             /\ b => w.trunk = r.trunk /\ w.lane = r.lane
                     /\ w.mark = IF r.mark = None THEN Lens(r) ELSE r.mark
             /\ ~b /\ r.mark # None => /\ w.trunk = Cut(r.trunk, r.mark.trunk)
                                       /\ w.lane = Cut(r.lane, r.mark.lane)
             /\ ~b => w.mark = None
             /\ ~b /\ r.mark = None => w = r
<1> USE SessionFacts DEF SameCursor, Tidy
<1>1. CASE b
  <2>1. Windowed(r, b) = [r EXCEPT !.mark = IF @ = None THEN Lens(r) ELSE @]
    BY <1>1 DEF Windowed
  <2>2. Windowed(r, b) \in Session
    BY <2>1 DEF Session
  <2>3. /\ Windowed(r, b).trunk = r.trunk /\ Windowed(r, b).lane = r.lane
        /\ Windowed(r, b).fallbacks = r.fallbacks /\ SameCursor(Windowed(r, b), r)
        /\ Windowed(r, b).mark = IF r.mark = None THEN Lens(r) ELSE r.mark
    BY <2>1 DEF Session
  <2>4. PICK w : w = Windowed(r, b)
    OBVIOUS
  <2>5. Tidy(w) /\ Len(w.trunk) <= Len(r.trunk)
    BY <2>3, <2>4
  <2> QED BY <1>1, <2>2, <2>3, <2>4, <2>5
<1>2. CASE ~b /\ r.mark = None
  BY <1>2 DEF Windowed
<1>3. CASE ~b /\ r.mark # None
  <2>1. Windowed(r, b) = [r EXCEPT !.trunk = Cut(r.trunk, r.mark.trunk),
                                   !.lane = Cut(r.lane, r.mark.lane), !.mark = None]
    BY <1>3 DEF Windowed, Session
  <2>2. r.mark.trunk \in Nat /\ r.mark.lane \in Nat
    BY <1>3
  <2>3. /\ Cut(r.trunk, r.mark.trunk) \in Seq(Messages) /\ Cut(r.lane, r.mark.lane) \in Seq(Messages)
        /\ Len(Cut(r.trunk, r.mark.trunk)) <= Len(r.trunk)
        /\ Len(Cut(r.lane, r.mark.lane)) <= Len(r.lane)
        /\ Len(Cut(r.lane, r.mark.lane)) \in Nat
        /\ Said(Cut(r.trunk, r.mark.trunk)) \subseteq Said(r.trunk)
        /\ Said(Cut(r.lane, r.mark.lane)) \subseteq Said(r.lane)
    BY <2>2, CutFacts
  <2>4. Windowed(r, b) \in Session
    BY <2>1, <2>3 DEF Session
  <2>5. /\ Windowed(r, b).trunk = Cut(r.trunk, r.mark.trunk)
        /\ Windowed(r, b).lane = Cut(r.lane, r.mark.lane) /\ Windowed(r, b).mark = None
        /\ Windowed(r, b).fallbacks = r.fallbacks /\ SameCursor(Windowed(r, b), r)
    BY <2>1 DEF Session
  <2>6. Tidy(Windowed(r, b))
    BY <2>3, <2>5
  <2> QED BY <1>3, <2>3, <2>4, <2>5, <2>6
<1> QED BY <1>1, <1>2, <1>3

(* begin_fresh.                                                            *)
LEMMA BegunFacts ==
  ASSUME NEW r \in Session, Tidy(r)
  PROVE  LET w == Begun(r)
         IN  /\ w \in Session /\ Tidy(w) /\ SameCursor(w, r) /\ w.mark = r.mark
             /\ w.found = r.found
             /\ Said(w.trunk) = {} /\ Said(w.lane) = {}
             /\ Len(w.trunk) <= Len(r.trunk) /\ Len(w.trunk) <= 1 /\ Len(w.lane) = 0
             /\ w.trunk = <<>> \/ w.trunk = <<Note>>
<1> USE SessionFacts DEF SameCursor, Tidy
<1>1. CASE r.trunk = <<>> /\ r.lane = <<>>
  BY <1>1, ShortFacts DEF Begun
<1>2. CASE ~(r.trunk = <<>> /\ r.lane = <<>>)
  <2> DEFINE e == IF r.trunk = <<>> THEN <<>> ELSE <<Note>>
  <2>8. e \in Seq(Messages) /\ <<>> \in Seq(Messages) /\ 0 \in 0..MaxFallbacks
    BY ShortFacts, ConstantFacts
  <2>9. Begun(r) = [r EXCEPT !.trunk = e, !.lane = <<>>, !.fallbacks = 0]
    BY <1>2 DEF Begun, Session
  <2> HIDE DEF e
  <2>2. Begun(r) \in Session
    BY <2>8, <2>9 DEF Session
  <2> USE DEF e
  <2>1. Begun(r) = [r EXCEPT !.trunk = IF r.trunk = <<>> THEN <<>> ELSE <<Note>>,
                             !.lane = <<>>, !.fallbacks = 0]
    BY <2>9
  <2>3. /\ Begun(r).trunk = IF r.trunk = <<>> THEN <<>> ELSE <<Note>>
        /\ Begun(r).lane = <<>> /\ Begun(r).fallbacks = 0 /\ SameCursor(Begun(r), r)
        /\ Begun(r).mark = r.mark /\ Begun(r).found = r.found
    BY <2>1 DEF Session
  <2>4. r.trunk # <<>> => Len(r.trunk) >= 1
    BY EmptySeq
  <2>5. PICK w : w = Begun(r)
    OBVIOUS
  <2>6. CASE r.trunk = <<>>
    BY <2>2, <2>3, <2>5, <2>6, ShortFacts
  <2>7. CASE r.trunk # <<>>
    BY <2>2, <2>3, <2>4, <2>5, <2>7, ShortFacts
  <2> QED BY <2>6, <2>7
<1> QED BY <1>1, <1>2


(* The session as a turn finds it, PreTurnMarks taken.                     *)
Ready(r, t) == [Windowed(r, iso[t]) EXCEPT !.found = Lens(Windowed(r, iso[t]))]

(* PreTurnMarks change nothing else.                                       *)
LEMMA MarkedFacts ==
  ASSUME NEW r \in Session, Tidy(r)
  PROVE  LET w == [r EXCEPT !.found = Lens(r)]
         IN  /\ w \in Session /\ Tidy(w) /\ SameCursor(w, r)
             /\ w.trunk = r.trunk /\ w.lane = r.lane /\ w.fallbacks = r.fallbacks
             /\ w.mark = r.mark /\ w.found = Lens(r)
<1>1. PICK w : w = [r EXCEPT !.found = Lens(r)]
  OBVIOUS
<1>2. w \in Session
  BY <1>1, SessionFacts DEF Session
<1>3. /\ w.trunk = r.trunk /\ w.lane = r.lane /\ w.fallbacks = r.fallbacks
      /\ w.mark = r.mark /\ w.found = Lens(r) /\ SameCursor(w, r)
  BY <1>1 DEF Session, SameCursor
<1> QED BY <1>1, <1>2, <1>3 DEF Tidy

(* push_user_turn.                                                         *)
LEMMA PushedFacts ==
  ASSUME NEW r \in Session, Tidy(r), NEW t \in Turns
  PROVE  LET w == Pushed(r, t)
         IN  /\ w \in Session /\ Tidy(w) /\ w.lock = t /\ w.trunk = Append(r.trunk, Question(t))
             /\ Len(w.trunk) = Len(r.trunk) + 1 /\ w.trunk[Len(w.trunk)] = Question(t)
             /\ \A i \in 1..Len(r.trunk) : w.trunk[i] = r.trunk[i]
             /\ Said(w.trunk) = Said(r.trunk) \cup {Question(t)}
             /\ w.lane = r.lane /\ w.fallbacks = r.fallbacks /\ w.mark = r.mark
             /\ w.found = r.found /\ w.seq = r.seq /\ w.dirty = r.dirty
<1>1. PICK w : w = Pushed(r, t)
  OBVIOUS
<1>2. Question(t) \in Messages /\ Question(t) # Note
  BY MessageFacts
<1>3. PICK q : q = Append(r.trunk, Question(t))
  OBVIOUS
<1>4. /\ q \in Seq(Messages) /\ Len(q) = Len(r.trunk) + 1 /\ q[Len(r.trunk) + 1] = Question(t)
      /\ \A i \in 1..Len(r.trunk) : q[i] = r.trunk[i]
      /\ Said(q) = Said(r.trunk) \cup {Question(t)}
  BY <1>2, <1>3, AppendFacts, SessionFacts
<1>5. w = [r EXCEPT !.trunk = q, !.lock = t]
  BY <1>1, <1>3 DEF Pushed, Session
<1>6. w \in Session
  BY <1>4, <1>5, SessionFacts DEF Session
<1>7. /\ w.trunk = q /\ w.lane = r.lane /\ w.fallbacks = r.fallbacks /\ w.mark = r.mark
      /\ w.found = r.found /\ w.seq = r.seq /\ w.dirty = r.dirty /\ w.lock = t
  BY <1>5 DEF Session
<1>8. Tidy(w)
  BY <1>7 DEF Tidy
<1> QED BY <1>1, <1>3, <1>4, <1>6, <1>7, <1>8

(* Without its last message a conversation is its head.                    *)
LEMMA HeadFacts ==
  ASSUME NEW q \in Seq(Messages), Len(q) >= 1, NEW m \in Messages, q[Len(q)] = m
  PROVE  /\ Cut(q, Len(q) - 1) \in Seq(Messages) /\ Len(Cut(q, Len(q) - 1)) = Len(q) - 1
         /\ \A i \in 1..Len(q) - 1 : Cut(q, Len(q) - 1)[i] = q[i]
         /\ Said(q) = Said(Cut(q, Len(q) - 1)) \cup ({m} \ {Note})
<1>1. Len(q) - 1 \in Nat /\ Len(q) - 1 < Len(q) /\ Len(q) \in Nat
  OBVIOUS
<1>2. PICK c : c = Cut(q, Len(q) - 1)
  OBVIOUS
<1>3. /\ c \in Seq(Messages) /\ Len(c) = Len(q) - 1 /\ Said(c) \subseteq Said(q)
      /\ \A i \in 1..Len(q) - 1 : c[i] = q[i]
  BY <1>1, <1>2, CutFacts
<1>4. \A x \in {m} \ {Note} : x \in Said(q)
  BY <1>1, SaidAt
<1>5. ASSUME NEW x \in Said(q), x # m
      PROVE  x \in Said(c)
  <2>1. PICK i \in 1..Len(q) : q[i] = x
    BY SaidAt
  <2>2. i \in 1..Len(c) /\ c[i] = x
    BY <1>1, <1>3, <1>5, <2>1
  <2>3. x # Note
    BY SaidAt
  <2> QED BY <1>3, <2>2, <2>3, SaidAt
<1>6. \A x \in Said(q) : x # Note
  BY SaidAt
<1> QED BY <1>2, <1>3, <1>4, <1>5, <1>6

(* compact_context: the last message stays, and those before the ones it   *)
(* keeps are of the head.                                                  *)
LEMMA CompactedFacts ==
  ASSUME NEW r \in Session, Tidy(r), NEW summed \in BOOLEAN, Len(r.trunk) >= MinMessages
  PROVE  LET w == Compacted(r, summed)
             n == Len(w.trunk)
             head == Cut(r.trunk, Len(r.trunk) - 1)
         IN  /\ w \in Session /\ Tidy(w) /\ w.lane = r.lane /\ w.fallbacks = r.fallbacks
             /\ w.mark = r.mark /\ w.found = r.found /\ w.seq = r.seq /\ w.dirty = r.dirty
             /\ w.lock = r.lock
             /\ n >= 1 /\ n < Len(r.trunk) /\ w.trunk[n] = r.trunk[Len(r.trunk)]
             /\ Said(Cut(w.trunk, n - 1)) \subseteq Said(head)
             /\ Said(Older(r)) \subseteq Said(head)
             /\ Said(r.trunk) \subseteq Said(Older(r)) \cup Said(w.trunk)
<1> DEFINE N == Len(r.trunk)
           p == IF summed THEN <<Note>> ELSE <<>>
           k == KeepLast(r.trunk, KeepRecent)
           h == Cut(r.trunk, N - 1)
           o == Cut(r.trunk, N - KeepRecent)
           q == p \o k
<1>1. /\ N \in Nat /\ N >= MinMessages /\ KeepRecent \in Nat \ {0} /\ KeepRecent <= MinMessages - 2
      /\ MinMessages \in Nat /\ r.trunk \in Seq(Messages)
  BY SessionFacts, ConstantFacts
<1>2. /\ KeepRecent < N /\ N - KeepRecent \in Nat /\ N - KeepRecent < N /\ N - 1 \in Nat /\ N - 1 < N
      /\ N - KeepRecent <= N - 1
  BY <1>1
<1> HIDE DEF N
<1>3. /\ k \in Seq(Messages) /\ Len(k) = KeepRecent
      /\ \A i \in 1..KeepRecent : k[i] = r.trunk[N - KeepRecent + i]
      /\ Said(k) \subseteq Said(r.trunk)
  <2>1. /\ k \in Seq(Messages) /\ Len(k) = IF KeepRecent < N THEN KeepRecent ELSE N
        /\ \A i \in 1..Len(k) : k[i] = r.trunk[N - Len(k) + i]
        /\ Said(k) \subseteq Said(r.trunk)
    <3> HIDE DEF k
    <3> QED BY <1>1, KeepLastFacts DEF N, k
  <2> HIDE DEF k
  <2> QED BY <2>1, <1>2
<1>4. p \in Seq(Messages) /\ Len(p) \in {0, 1} /\ Said(p) = {}
  BY ShortFacts
<1> HIDE DEF p, k
<1>5. /\ q \in Seq(Messages) /\ Len(q) = Len(p) + KeepRecent /\ Said(q) = Said(k)
      /\ \A i \in 1..Len(q) : q[i] = IF i <= Len(p) THEN p[i] ELSE k[i - Len(p)]
  <2>1. /\ p \o k \in Seq(Messages) /\ Len(p \o k) = Len(p) + Len(k)
        /\ \A i \in 1..Len(p \o k) : (p \o k)[i] = IF i <= Len(p) THEN p[i] ELSE k[i - Len(p)]
        /\ Said(p \o k) = Said(p) \cup Said(k)
    BY <1>3, <1>4, ConcatFacts
  <2> QED BY <1>3, <1>4, <2>1
<1>6. /\ h \in Seq(Messages) /\ Len(h) = N - 1 /\ \A i \in 1..Len(h) : h[i] = r.trunk[i]
  BY <1>1, <1>2, CutFacts DEF N
<1>7. /\ o \in Seq(Messages) /\ Len(o) = N - KeepRecent /\ \A i \in 1..Len(o) : o[i] = r.trunk[i]
  BY <1>1, <1>2, CutFacts DEF N
<1> HIDE DEF q, h, o
<1>8. Len(q) >= 1 /\ Len(q) < N /\ Len(q) \in Nat /\ ~(Len(q) <= Len(p)) /\ Len(q) - Len(p) = KeepRecent
  BY <1>1, <1>4, <1>5
<1>9. q[Len(q)] = r.trunk[N]
  <2>1. q[Len(q)] = k[KeepRecent]
    BY <1>5, <1>8
  <2>2. KeepRecent \in 1..KeepRecent /\ N - KeepRecent + KeepRecent = N
    BY <1>1
  <2> QED BY <1>3, <2>1, <2>2
<1>10. Said(Cut(q, Len(q) - 1)) \subseteq Said(h)
  <2>1. /\ Cut(q, Len(q) - 1) \in Seq(Messages) /\ Len(Cut(q, Len(q) - 1)) = Len(q) - 1
        /\ \A i \in 1..Len(Cut(q, Len(q) - 1)) : Cut(q, Len(q) - 1)[i] = q[i]
    BY <1>5, <1>8, CutFacts
  <2>2. PICK c : c = Cut(q, Len(q) - 1)
    OBVIOUS
  <2>3. SUFFICES ASSUME NEW x \in Said(c) PROVE x \in Said(h)
    BY <2>2
  <2>4. PICK i \in 1..Len(c) : c[i] = x /\ x # Note
    BY <2>1, <2>2, <2>3, SaidAt
  <2>5. i \in 1..Len(q) /\ i <= Len(q) - 1 /\ q[i] = x
    BY <1>8, <2>1, <2>2, <2>4
  <2>6. CASE i <= Len(p)
    <3>0. p[i] = x /\ i \in 1..Len(p)
      BY <1>4, <1>5, <2>4, <2>5, <2>6
    <3>1. p[i] \in Said(p)
      BY <1>4, <2>4, <3>0, SaidAt
    <3> QED BY <1>4, <3>1
  <2>7. CASE ~(i <= Len(p))
    <3>1. PICK j : j = i - Len(p)
      OBVIOUS
    <3>2. j \in 1..KeepRecent /\ j <= KeepRecent - 1 /\ k[j] = x
      BY <1>4, <1>5, <1>8, <2>5, <2>7, <3>1
    <3>3. PICK l : l = N - KeepRecent + j
      OBVIOUS
    <3>4. l \in 1..Len(h) /\ r.trunk[l] = x
      BY <1>1, <1>2, <1>3, <1>6, <3>2, <3>3
    <3> QED BY <1>6, <2>4, <3>4, SaidAt
  <2> QED BY <2>6, <2>7
<1>11. Said(o) \subseteq Said(h)
  <2>1. SUFFICES ASSUME NEW x \in Said(o) PROVE x \in Said(h)
    OBVIOUS
  <2>2. PICK i \in 1..Len(o) : o[i] = x /\ x # Note
    BY <1>7, <2>1, SaidAt
  <2>3. i \in 1..Len(h) /\ h[i] = x
    BY <1>1, <1>2, <1>6, <1>7, <2>2
  <2> QED BY <1>6, <2>2, <2>3, SaidAt
<1>12. Said(r.trunk) \subseteq Said(o) \cup Said(q)
  <2>1. SUFFICES ASSUME NEW x \in Said(r.trunk), x \notin Said(o) PROVE x \in Said(k)
    BY <1>5
  <2>2. PICK i \in 1..N : r.trunk[i] = x /\ x # Note
    BY <1>1, <2>1, SaidAt DEF N
  <2>3. ~(i \in 1..Len(o))
    BY <1>7, <2>1, <2>2, SaidAt
  <2>4. PICK j : j = i - (N - KeepRecent)
    OBVIOUS
  <2>5. j \in 1..KeepRecent /\ N - KeepRecent + j = i
    BY <1>1, <1>2, <1>7, <2>2, <2>3, <2>4
  <2>6. k[j] = x
    BY <1>3, <2>2, <2>5
  <2> QED BY <1>3, <2>2, <2>5, <2>6, SaidAt
<1>13. PICK w : w = Compacted(r, summed)
  OBVIOUS
<1>14. w = [r EXCEPT !.trunk = q]
  BY <1>13 DEF Compacted, q, p, k, Session
<1>15. w \in Session
  BY <1>5, <1>14 DEF Session
<1>16. /\ w.trunk = q /\ w.lane = r.lane /\ w.fallbacks = r.fallbacks /\ w.mark = r.mark
       /\ w.found = r.found /\ w.seq = r.seq /\ w.dirty = r.dirty /\ w.lock = r.lock
  BY <1>14 DEF Session
<1>17. Tidy(w)
  BY <1>16 DEF Tidy
<1>18. Older(r) = o /\ Cut(r.trunk, Len(r.trunk) - 1) = h
  BY DEF Older, o, h, N
<1> QED BY <1>8, <1>9, <1>10, <1>11, <1>12, <1>13, <1>15, <1>16, <1>17, <1>18 DEF N


(* A session as Start leaves it: reset or not, compacted or not.           *)
Begins(r, t, reset) == Pushed(IF reset THEN Begun(Ready(r, t)) ELSE Ready(r, t), t)
Started(r, t, reset, long, summed) ==
    IF long THEN Compacted(Begins(r, t, reset), summed) ELSE Begins(r, t, reset)

(* A turn starts from what the conversation was, and puts its message last.*)
LEMMA BeginsFacts ==
  ASSUME NEW r \in Session, Tidy(r), NEW t \in Turns, NEW reset \in BOOLEAN,
         iso \in [Turns -> BOOLEAN]
  PROVE  LET w == Begins(r, t, reset)
             n == Len(w.trunk)
         IN  /\ w \in Session /\ Tidy(w) /\ w.lock = t /\ w.seq = r.seq /\ w.dirty = r.dirty
             /\ n \in Nat /\ n >= 1 /\ n <= Len(r.trunk) + 1 /\ w.trunk[n] = Question(t)
             /\ Said(Cut(w.trunk, n - 1)) \subseteq Said(r.trunk)
             /\ Said(w.lane) \subseteq Said(r.lane)
             /\ Said(Ready(r, t).trunk) \subseteq Said(r.trunk)
             /\ Said(Ready(r, t).lane) \subseteq Said(r.lane)
             /\ Ready(r, t) \in Session /\ Tidy(Ready(r, t))
<1>1. iso[t] \in BOOLEAN
  OBVIOUS
<1>2. PICK d : d = Ready(r, t)
  OBVIOUS
<1>3. /\ d \in Session /\ Tidy(d) /\ SameCursor(d, r)
      /\ Said(d.trunk) \subseteq Said(r.trunk) /\ Said(d.lane) \subseteq Said(r.lane)
      /\ Len(d.trunk) <= Len(r.trunk)
  <2>1. PICK v : v = Windowed(r, iso[t])
    OBVIOUS
  <2>2. /\ v \in Session /\ Tidy(v) /\ SameCursor(v, r)
        /\ Said(v.trunk) \subseteq Said(r.trunk) /\ Said(v.lane) \subseteq Said(r.lane)
        /\ Len(v.trunk) <= Len(r.trunk)
    BY <1>1, <2>1, WindowedFacts
  <2>3. d = [v EXCEPT !.found = Lens(v)]
    BY <1>2, <2>1 DEF Ready
  <2>4. /\ d \in Session /\ Tidy(d) /\ SameCursor(d, v) /\ d.trunk = v.trunk /\ d.lane = v.lane
    BY <2>2, <2>3, MarkedFacts
  <2> QED BY <2>2, <2>4 DEF SameCursor
<1>4. PICK b : b = IF reset THEN Begun(d) ELSE d
  OBVIOUS
<1>5. /\ b \in Session /\ Tidy(b) /\ SameCursor(b, r)
      /\ Said(b.trunk) \subseteq Said(r.trunk) /\ Said(b.lane) \subseteq Said(r.lane)
      /\ Len(b.trunk) <= Len(r.trunk)
  <2>1. CASE reset
    <3>1. /\ b \in Session /\ Tidy(b) /\ SameCursor(b, d) /\ Said(b.trunk) = {} /\ Said(b.lane) = {}
          /\ Len(b.trunk) <= Len(d.trunk)
      BY <1>3, <1>4, <2>1, BegunFacts
    <3>2. Len(b.trunk) \in Nat /\ Len(d.trunk) \in Nat /\ Len(r.trunk) \in Nat
      BY <1>3, <3>1, SessionFacts
    <3> QED BY <1>3, <3>1, <3>2 DEF SameCursor
  <2>2. CASE ~reset
    BY <1>3, <1>4, <2>2
  <2> QED BY <2>1, <2>2
<1>6. PICK w : w = Pushed(b, t)
  OBVIOUS
<1>7. w = Begins(r, t, reset)
  BY <1>2, <1>4, <1>6 DEF Begins
<1>8. /\ w \in Session /\ Tidy(w) /\ w.lock = t
      /\ Len(w.trunk) = Len(b.trunk) + 1 /\ w.trunk[Len(w.trunk)] = Question(t)
      /\ \A i \in 1..Len(b.trunk) : w.trunk[i] = b.trunk[i]
      /\ w.lane = b.lane /\ w.seq = b.seq /\ w.dirty = b.dirty
  BY <1>5, <1>6, PushedFacts
<1>9. Len(b.trunk) \in Nat /\ Len(r.trunk) \in Nat /\ w.trunk \in Seq(Messages) /\ b.trunk \in Seq(Messages)
  BY <1>5, <1>8, SessionFacts
<1>10. Said(Cut(w.trunk, Len(w.trunk) - 1)) \subseteq Said(r.trunk)
  <2>1. PICK c : c = Cut(w.trunk, Len(w.trunk) - 1)
    OBVIOUS
  <2>2. /\ Len(w.trunk) - 1 \in Nat /\ Len(w.trunk) - 1 = Len(b.trunk)
        /\ Len(w.trunk) - 1 < Len(w.trunk)
    BY <1>8, <1>9
  <2>3. /\ c \in Seq(Messages) /\ Len(c) = Len(b.trunk) /\ \A i \in 1..Len(b.trunk) : c[i] = b.trunk[i]
    BY <1>8, <1>9, <2>1, <2>2, CutFacts
  <2>4. Said(c) \subseteq Said(b.trunk)
    BY <1>9, <2>3, SaidAt
  <2> QED BY <1>5, <2>1, <2>4
<1> QED BY <1>2, <1>3, <1>5, <1>7, <1>8, <1>9, <1>10 DEF SameCursor

(* And so it is after the compaction.                                      *)
LEMMA StartedFacts ==
  ASSUME NEW r \in Session, Tidy(r), NEW t \in Turns, NEW reset \in BOOLEAN,
         NEW long \in BOOLEAN, NEW summed \in BOOLEAN, iso \in [Turns -> BOOLEAN],
         long => Len(Begins(r, t, reset).trunk) >= MinMessages
  PROVE  LET w == Started(r, t, reset, long, summed)
             n == Len(w.trunk)
         IN  /\ w \in Session /\ Tidy(w) /\ w.lock = t /\ w.seq = r.seq /\ w.dirty = r.dirty
             /\ n \in Nat /\ n >= 1 /\ n <= Len(r.trunk) + 1 /\ w.trunk[n] = Question(t)
             /\ Said(Cut(w.trunk, n - 1)) \subseteq Said(r.trunk)
             /\ Said(w.lane) \subseteq Said(r.lane)
             /\ long => Said(Older(Begins(r, t, reset))) \subseteq Said(r.trunk)
<1>1. PICK b : b = Begins(r, t, reset)
  OBVIOUS
<1>2. /\ b \in Session /\ Tidy(b) /\ b.lock = t /\ b.seq = r.seq /\ b.dirty = r.dirty
      /\ Len(b.trunk) \in Nat /\ Len(b.trunk) >= 1 /\ Len(b.trunk) <= Len(r.trunk) + 1
      /\ b.trunk[Len(b.trunk)] = Question(t)
      /\ Said(Cut(b.trunk, Len(b.trunk) - 1)) \subseteq Said(r.trunk)
      /\ Said(b.lane) \subseteq Said(r.lane)
  BY <1>1, BeginsFacts
<1>3. PICK w : w = Started(r, t, reset, long, summed)
  OBVIOUS
<1>4. CASE ~long
  BY <1>1, <1>2, <1>3, <1>4 DEF Started
<1>5. CASE long
  <2>1. w = Compacted(b, summed)
    BY <1>1, <1>3, <1>5 DEF Started
  <2>2. Len(b.trunk) >= MinMessages
    BY <1>1, <1>5
  <2>3. /\ w \in Session /\ Tidy(w) /\ w.lane = b.lane /\ w.seq = b.seq /\ w.dirty = b.dirty
        /\ w.lock = b.lock
        /\ Len(w.trunk) >= 1 /\ Len(w.trunk) < Len(b.trunk)
        /\ w.trunk[Len(w.trunk)] = b.trunk[Len(b.trunk)]
        /\ Said(Cut(w.trunk, Len(w.trunk) - 1)) \subseteq Said(Cut(b.trunk, Len(b.trunk) - 1))
        /\ Said(Older(b)) \subseteq Said(Cut(b.trunk, Len(b.trunk) - 1))
    BY <1>2, <2>1, <2>2, CompactedFacts
  <2>4. Len(w.trunk) \in Nat /\ Len(r.trunk) \in Nat
    BY <2>3, SessionFacts
  <2> QED BY <1>1, <1>2, <1>3, <2>3, <2>4
<1> QED BY <1>4, <1>5


(* A session as Fail, Answer and LogReply leave it, and as Leave lets go.  *)
RolledBack(r) == [r EXCEPT !.trunk = Cut(@, Armed(r))]
Told(r, t, quarantined) == IF quarantined THEN Quarantined(r, t) ELSE Replied(r, t)
Answers(r, t, shed, quarantined) ==
    Advanced(IF shed THEN Anchored(Told(r, t, quarantined), quarantined)
                     ELSE Told(r, t, quarantined), shed)
Trimmed(r, shed, cap) == [Advanced(r, shed) EXCEPT !.trunk = KeepLast(@, cap)]
Released(r) == [r EXCEPT !.lock = None, !.found = NoLens]
WithMine(r, t) == Len(r.trunk) >= 1 /\ r.trunk[Len(r.trunk)] = Question(t)

(* A rollback takes the user's message off (TurnGuard's Drop).             *)
LEMMA RolledBackFacts ==
  ASSUME NEW r \in Session, Tidy(r), Len(r.trunk) >= 1
  PROVE  LET w == RolledBack(r)
         IN  /\ w \in Session /\ Tidy(w) /\ SameCursor(w, r)
             /\ w.trunk = Cut(r.trunk, Len(r.trunk) - 1) /\ w.lane = r.lane
             /\ Len(w.trunk) = Len(r.trunk) - 1 /\ w.mark = r.mark /\ w.found = r.found
             /\ w.fallbacks = r.fallbacks
<1>1. PICK w : w = RolledBack(r)
  OBVIOUS
<1>2. PICK c : c = Cut(r.trunk, Len(r.trunk) - 1)
  OBVIOUS
<1>3. c \in Seq(Messages) /\ Len(c) = Len(r.trunk) - 1
  <2>1. Len(r.trunk) \in Nat /\ Len(r.trunk) - 1 \in Nat /\ Len(r.trunk) - 1 < Len(r.trunk)
    BY SessionFacts
  <2> QED BY <1>2, <2>1, CutFacts, SessionFacts
<1>4. w = [r EXCEPT !.trunk = c]
  BY <1>1, <1>2 DEF RolledBack, Armed, Session
<1>5. w \in Session
  BY <1>3, <1>4 DEF Session
<1>6. /\ w.trunk = c /\ w.lane = r.lane /\ w.mark = r.mark /\ w.found = r.found
      /\ w.fallbacks = r.fallbacks /\ SameCursor(w, r)
  BY <1>4 DEF Session, SameCursor
<1>7. Tidy(w)
  BY <1>6 DEF Tidy
<1> QED BY <1>1, <1>2, <1>3, <1>5, <1>6, <1>7

(* The reply joins the trunk, or the exchange the lane.                    *)
LEMMA ToldFacts ==
  ASSUME NEW r \in Session, Tidy(r), NEW t \in Turns, NEW quarantined \in BOOLEAN,
         WithMine(r, t), quarantined => r.fallbacks < MaxFallbacks
  PROVE  LET w == Told(r, t, quarantined)
             head == Cut(r.trunk, Len(r.trunk) - 1)
         IN  /\ w \in Session /\ Tidy(w) /\ SameCursor(w, r) /\ w.mark = r.mark /\ w.found = r.found
             /\ ~quarantined => /\ w.trunk = Append(r.trunk, Reply(t)) /\ w.lane = r.lane
                                /\ Said(w.trunk) = Said(head) \cup Exchange(t)
                                /\ Len(w.trunk) = Len(r.trunk) + 1
             /\ quarantined => /\ w.trunk = head /\ Len(w.trunk) = Len(r.trunk) - 1
                               /\ w.lane = r.lane \o <<Question(t), Reply(t)>>
                               /\ Said(w.lane) = Said(r.lane) \cup Exchange(t)
                               /\ Len(w.lane) = Len(r.lane) + 2
<1>1. PICK w : w = Told(r, t, quarantined)
  OBVIOUS
<1>2. PICK h : h = Cut(r.trunk, Len(r.trunk) - 1)
  OBVIOUS
<1>3. /\ h \in Seq(Messages) /\ Len(h) = Len(r.trunk) - 1
      /\ Said(r.trunk) = Said(h) \cup {Question(t)}
  <2>1. /\ Question(t) \in Messages /\ Question(t) # Note /\ r.trunk \in Seq(Messages)
        /\ Len(r.trunk) >= 1 /\ r.trunk[Len(r.trunk)] = Question(t)
    BY MessageFacts, SessionFacts DEF WithMine
  <2> QED BY <1>2, <2>1, HeadFacts
<1>4. CASE ~quarantined
  <2>1. PICK q : q = Append(r.trunk, Reply(t))
    OBVIOUS
  <2>2. q \in Seq(Messages) /\ Len(q) = Len(r.trunk) + 1 /\ Said(q) = Said(r.trunk) \cup {Reply(t)}
    BY <2>1, AppendFacts, MessageFacts, SessionFacts
  <2>3. w = [r EXCEPT !.trunk = q]
    BY <1>1, <1>4, <2>1 DEF Told, Replied, Session
  <2>4. w \in Session
    BY <2>2, <2>3 DEF Session
  <2>5. /\ w.trunk = q /\ w.lane = r.lane /\ w.mark = r.mark /\ w.found = r.found
        /\ w.fallbacks = r.fallbacks /\ SameCursor(w, r)
    BY <2>3 DEF Session, SameCursor
  <2>6. Tidy(w)
    BY <2>5 DEF Tidy
  <2>7. Said(w.trunk) = Said(h) \cup Exchange(t)
    BY <1>3, <2>2, <2>5, MessageFacts
  <2> QED BY <1>1, <1>2, <1>4, <2>1, <2>2, <2>4, <2>5, <2>6, <2>7
<1>5. CASE quarantined
  <2>1. PICK e : e = <<Question(t), Reply(t)>>
    OBVIOUS
  <2>2. e \in Seq(Messages) /\ Len(e) = 2 /\ Said(e) = Exchange(t)
    BY <2>1, ShortFacts
  <2>3. PICK l : l = r.lane \o e
    OBVIOUS
  <2>4. l \in Seq(Messages) /\ Len(l) = Len(r.lane) + 2 /\ Said(l) = Said(r.lane) \cup Exchange(t)
    <3>1. r.lane \in Seq(Messages)
      BY SessionFacts
    <3>2. /\ r.lane \o e \in Seq(Messages) /\ Len(r.lane \o e) = Len(r.lane) + Len(e)
          /\ Said(r.lane \o e) = Said(r.lane) \cup Said(e)
      BY <2>2, <3>1, ConcatFacts
    <3> QED BY <2>2, <2>3, <3>2
  <2>5. /\ r.fallbacks \in Nat /\ r.fallbacks < MaxFallbacks /\ Len(r.lane) <= 2 * r.fallbacks
        /\ Len(r.lane) \in Nat
    BY <1>5, SessionFacts DEF Tidy
  <2>6. KeepLast(l, MaxQuarantine) = l
    BY <2>4, <2>5, ConstantFacts, KeepLastFacts
  <2>7. w = [r EXCEPT !.trunk = h, !.lane = l, !.fallbacks = r.fallbacks + 1]
    BY <1>1, <1>2, <1>5, <2>1, <2>3, <2>6 DEF Told, Quarantined, Armed, Session
  <2>8. r.fallbacks + 1 \in 0..MaxFallbacks
    BY <2>5, ConstantFacts
  <2>9. w \in Session
    BY <1>3, <2>4, <2>7, <2>8 DEF Session
  <2>10. /\ w.trunk = h /\ w.lane = l /\ w.mark = r.mark /\ w.found = r.found
         /\ w.fallbacks = r.fallbacks + 1 /\ SameCursor(w, r)
    BY <2>7 DEF Session, SameCursor
  <2>11. Tidy(w)
    BY <2>4, <2>5, <2>10 DEF Tidy
  <2> QED BY <1>1, <1>2, <1>3, <1>5, <2>1, <2>3, <2>4, <2>9, <2>10, <2>11
<1> QED BY <1>4, <1>5

(* The watermarks and the cursor after the reply.                          *)
LEMMA AnswersFacts ==
  ASSUME NEW r \in Session, Tidy(r), NEW t \in Turns, NEW quarantined \in BOOLEAN,
         NEW shed \in BOOLEAN, WithMine(r, t), quarantined => r.fallbacks < MaxFallbacks
  PROVE  LET w == Answers(r, t, shed, quarantined)
             told == Told(r, t, quarantined)
             mark == IF r.mark = None THEN r.found ELSE r.mark
         IN  /\ w \in Session /\ Tidy(w) /\ w.lock = r.lock /\ w.dirty = r.dirty
             /\ w.seq = IF shed THEN r.seq ELSE r.seq + 1
             /\ w.trunk = told.trunk /\ w.found = r.found
             /\ w.mark = IF shed THEN mark ELSE r.mark
             /\ w.lane = IF shed /\ quarantined THEN Cut(told.lane, mark.lane) ELSE told.lane
             /\ Said(w.lane) \subseteq Said(told.lane)
<1>1. PICK d : d = Told(r, t, quarantined)
  OBVIOUS
<1>2. d \in Session /\ Tidy(d) /\ SameCursor(d, r) /\ d.mark = r.mark /\ d.found = r.found
  BY <1>1, ToldFacts
<1>3. PICK mark : mark = IF r.mark = None THEN r.found ELSE r.mark
  OBVIOUS
<1>4. mark \in Lens01 /\ mark.lane \in Nat
  BY <1>3, SessionFacts
<1>5. PICK l : l = IF quarantined THEN Cut(d.lane, mark.lane) ELSE d.lane
  OBVIOUS
<1>6. l \in Seq(Messages) /\ Len(l) \in Nat /\ Len(l) <= Len(d.lane) /\ Said(l) \subseteq Said(d.lane)
  BY <1>2, <1>4, CutFacts, SessionFacts, <1>5
<1>7. PICK w : w = Answers(r, t, shed, quarantined)
  OBVIOUS
<1>8. CASE shed
  <2>1. Anchored(d, quarantined) = [d EXCEPT !.mark = mark, !.lane = l]
    BY <1>2, <1>3, <1>5 DEF Anchored, Session
  <2>2. w = [d EXCEPT !.mark = mark, !.lane = l]
    BY <1>1, <1>7, <1>8, <2>1 DEF Answers, Advanced
  <2>3. w \in Session
    BY <1>2, <1>4, <1>6, <2>2 DEF Session
  <2>4. /\ w.trunk = d.trunk /\ w.lane = l /\ w.mark = mark /\ w.found = d.found
        /\ w.fallbacks = d.fallbacks /\ SameCursor(w, d)
    BY <1>2, <2>2 DEF Session, SameCursor
  <2>5. Tidy(w)
    BY <1>2, SessionFacts, <1>6, <2>4 DEF Tidy
  <2> QED BY <1>1, <1>2, <1>3, <1>5, <1>6, <1>7, <1>8, <2>3, <2>4, <2>5 DEF SameCursor
<1>9. CASE ~shed
  <2>1. w = [d EXCEPT !.seq = d.seq + 1]
    BY <1>1, <1>2, <1>7, <1>9 DEF Answers, Advanced, Session
  <2>2. d.seq + 1 \in Nat
    BY <1>2, SessionFacts
  <2>3. w \in Session
    BY <1>2, <2>1, <2>2 DEF Session
  <2>4. /\ w.trunk = d.trunk /\ w.lane = d.lane /\ w.mark = d.mark /\ w.found = d.found
        /\ w.fallbacks = d.fallbacks /\ w.seq = d.seq + 1 /\ w.lock = d.lock /\ w.dirty = d.dirty
    BY <1>2, <2>1 DEF Session
  <2>5. Tidy(w)
    BY <1>2, <2>4 DEF Tidy
  <2> QED BY <1>1, <1>2, <1>7, <1>9, <2>3, <2>4, <2>5 DEF SameCursor
<1> QED BY <1>8, <1>9

(* The cursor after the reply was logged, and the message cap.             *)
LEMMA TrimmedFacts ==
  ASSUME NEW r \in Session, Tidy(r), NEW shed \in BOOLEAN, NEW cap \in Nat
  PROVE  LET w == Trimmed(r, shed, cap)
         IN  /\ w \in Session /\ Tidy(w) /\ w.lock = r.lock /\ w.dirty = r.dirty
             /\ w.seq = IF shed THEN r.seq ELSE r.seq + 1
             /\ w.trunk = KeepLast(r.trunk, cap) /\ w.lane = r.lane /\ w.found = r.found
             /\ w.mark = r.mark /\ Said(w.trunk) \subseteq Said(r.trunk)
             /\ Len(w.trunk) <= Len(r.trunk)
             /\ cap >= Len(r.trunk) => w.trunk = r.trunk
<1>1. PICK w : w = Trimmed(r, shed, cap)
  OBVIOUS
<1>2. PICK k : k = KeepLast(r.trunk, cap)
  OBVIOUS
<1>3. /\ k \in Seq(Messages) /\ Said(k) \subseteq Said(r.trunk) /\ Len(k) <= Len(r.trunk)
      /\ cap >= Len(r.trunk) => k = r.trunk
  BY <1>2, KeepLastFacts, SessionFacts
<1>4. w = [r EXCEPT !.trunk = k, !.seq = IF shed THEN r.seq ELSE r.seq + 1]
  BY <1>1, <1>2 DEF Trimmed, Advanced, Session
<1>5. (IF shed THEN r.seq ELSE r.seq + 1) \in Nat
  BY SessionFacts
<1>6. w \in Session
  BY <1>3, <1>4, <1>5 DEF Session
<1>7. /\ w.lock = r.lock /\ w.dirty = r.dirty /\ w.seq = IF shed THEN r.seq ELSE r.seq + 1
      /\ w.trunk = k /\ w.lane = r.lane /\ w.found = r.found /\ w.mark = r.mark
      /\ w.fallbacks = r.fallbacks
  BY <1>4 DEF Session
<1>8. Tidy(w)
  BY <1>7 DEF Tidy
<1> QED BY <1>1, <1>2, <1>3, <1>6, <1>7, <1>8

(* Letting go of the lock.                                                 *)
LEMMA ReleasedFacts ==
  ASSUME NEW r \in Session, Tidy(r)
  PROVE  LET w == Released(r)
         IN  /\ w \in Session /\ Tidy(w) /\ w.lock = None /\ w.found = NoLens
             /\ w.trunk = r.trunk /\ w.lane = r.lane /\ w.fallbacks = r.fallbacks
             /\ w.seq = r.seq /\ w.mark = r.mark /\ w.dirty = r.dirty
<1>1. PICK w : w = Released(r)
  OBVIOUS
<1>2. w = [r EXCEPT !.lock = None, !.found = NoLens] /\ NoLens \in Lens01
  BY <1>1, NewSessionFacts, SessionFacts DEF Released
<1>3. w \in Session
  BY <1>2 DEF Session
<1>4. /\ w.lock = None /\ w.found = NoLens /\ w.trunk = r.trunk /\ w.lane = r.lane
      /\ w.fallbacks = r.fallbacks /\ w.seq = r.seq /\ w.mark = r.mark /\ w.dirty = r.dirty
  BY <1>2 DEF Session
<1>5. Tidy(w)
  BY <1>4 DEF Tidy
<1> QED BY <1>1, <1>3, <1>4, <1>5

(* Whether a session is dirty, and what is loaded from its file.           *)
LEMMA SetDirtyFacts ==
  ASSUME NEW r \in Session, Tidy(r), NEW b \in BOOLEAN
  PROVE  LET w == [r EXCEPT !.dirty = b]
         IN  /\ w \in Session /\ Tidy(w) /\ w.lock = r.lock /\ w.found = r.found
             /\ w.trunk = r.trunk /\ w.lane = r.lane /\ w.fallbacks = r.fallbacks
             /\ w.seq = r.seq /\ w.mark = r.mark /\ w.dirty = b
<1>1. PICK w : w = [r EXCEPT !.dirty = b]
  OBVIOUS
<1>2. w \in Session
  BY <1>1 DEF Session
<1>3. /\ w.lock = r.lock /\ w.found = r.found /\ w.trunk = r.trunk /\ w.lane = r.lane
      /\ w.fallbacks = r.fallbacks /\ w.seq = r.seq /\ w.mark = r.mark /\ w.dirty = b
  BY <1>1 DEF Session
<1>4. Tidy(w)
  BY <1>3 DEF Tidy
<1> QED BY <1>1, <1>2, <1>3, <1>4

(* A session taken from its file.                                          *)
LEMMA LoadedFacts ==
  ASSUME NEW f \in Files, Tidy(f)
  PROVE  LET w == Loaded(f)
         IN  /\ w \in Session /\ Tidy(w) /\ w.lock = None /\ w.found = NoLens /\ w.mark = None
             /\ w.trunk = f.trunk /\ w.lane = f.lane /\ w.fallbacks = f.fallbacks
             /\ w.seq = f.seq /\ w.dirty = FALSE
<1>1. PICK w : w = Loaded(f)
  OBVIOUS
<1>2. /\ f.trunk \in Seq(Messages) /\ f.lane \in Seq(Messages)
      /\ f.fallbacks \in 0..MaxFallbacks /\ f.seq \in Nat
  BY DEF Files
<1>3. w = [NewSession EXCEPT !.trunk = f.trunk, !.lane = f.lane, !.fallbacks = f.fallbacks,
                             !.seq = f.seq]
  BY <1>1 DEF Loaded
<1>4. w \in Session
  BY <1>2, <1>3, NewSessionFacts DEF Session
<1>5. /\ w.lock = None /\ w.found = NoLens /\ w.mark = None
      /\ w.trunk = f.trunk /\ w.lane = f.lane /\ w.fallbacks = f.fallbacks
      /\ w.seq = f.seq /\ w.dirty = FALSE
  BY <1>3, NewSessionFacts DEF Session
<1>6. Tidy(w)
  BY <1>5 DEF Tidy
<1> QED BY <1>1, <1>4, <1>5, <1>6

(* A session file holds what the session held.                             *)
LEMMA FileFacts ==
  ASSUME NEW s \in Sids, sess[s] \in Session, Tidy(sess[s])
  PROVE  LET f == FileOf(s)
         IN  /\ f \in Files /\ Tidy(f) /\ f.trunk = sess[s].trunk /\ f.lane = sess[s].lane
             /\ f.fallbacks = sess[s].fallbacks /\ f.seq = sess[s].seq
<1>1. PICK f : f = FileOf(s)
  OBVIOUS
<1>2. /\ f.trunk = sess[s].trunk /\ f.lane = sess[s].lane
      /\ f.fallbacks = sess[s].fallbacks /\ f.seq = sess[s].seq
  BY <1>1 DEF FileOf
<1>3. /\ sess[s].trunk \in Seq(Messages) /\ sess[s].lane \in Seq(Messages)
      /\ sess[s].fallbacks \in 0..MaxFallbacks /\ sess[s].seq \in Nat
  BY DEF Session
<1>4. f \in Files
  BY <1>1, <1>3 DEF FileOf, Files
<1>5. Tidy(f)
  BY <1>2 DEF Tidy
<1> QED BY <1>1, <1>2, <1>4, <1>5


-----------------------------------------------------------------------------
(* The invariants: types, locks, and where the messages of a turn may be.  *)

Stages == {"up", "draining", "archived", "exiting", "down"}
States == InFlight \cup {"new", "done", "cut", "failed", "killed"}
Holding == {"running", "logging", "committing"}
Entry == [seq : Nat, said : Messages]
TidyFiles == {f \in Files : Tidy(f)}

\* Types of every variable.
TurnsTyped ==
    /\ pc \in [Turns -> States]
    /\ keyOf \in [Turns -> Keys \cup {None}]
    /\ iso \in [Turns -> BOOLEAN] /\ refused \in [Turns -> BOOLEAN]
    /\ ref \in [Turns -> Sids \cup {None}]
StoreTyped ==
    /\ sess \in [Sids -> Session] /\ \A s \in Sids : Tidy(sess[s])
    /\ live \in [Keys -> Sids \cup {None}]
FilesTyped ==
    /\ json \in [Keys -> TidyFiles \cup {None}]
    /\ queue \subseteq [key : Keys, file : TidyFiles]
    /\ wal \in [Keys -> Seq(Entry)]
    /\ ckpt \in [Keys -> Nat]
    /\ archived \subseteq Messages /\ deadEnd \subseteq Messages
RestTyped ==
    /\ scene \in Scenes
    /\ isolated \in BOOLEAN /\ stage \in Stages
    /\ sweep \subseteq Keys /\ resetting \subseteq Keys
    /\ spent \in [BoundNames -> Nat]
    /\ \A what \in BoundNames : spent[what] <= scene.budget[what]
ConvTyped == TurnsTyped /\ StoreTyped /\ FilesTyped /\ RestTyped

\* Nobody has an Arc to the session.
Idle(s) == (\A k \in Keys : live[k] # s) /\ (\A t \in Turns : ref[t] # s)

\* A turn holds its session from the lock to Leave, and there is its message
\* while a provider works on it; who holds no session has none.
Locks ==
    /\ \A t \in Turns : ref[t] # None <=> pc[t] \in {"opened"} \cup Holding
    /\ \A t \in Turns : pc[t] \in Holding => sess[ref[t]].lock = t
    /\ \A s \in Sids : sess[s].lock # None =>
                          pc[sess[s].lock] \in Holding /\ ref[sess[s].lock] = s
    /\ \A t \in Turns : pc[t] = "running" => WithMine(sess[ref[t]], t)
    /\ \A s \in Sids : Idle(s) => sess[s] = NewSession

\* What a turn has once it was admitted, and what ends with the process.
Course ==
    /\ \A t \in Turns : pc[t] # "new" => keyOf[t] \in Keys
    /\ stage = "down" => /\ \A t \in Turns : pc[t] \notin InFlight
                         /\ \A k \in Keys : live[k] = None
                         /\ queue = {} /\ sweep = {} /\ resetting = {}

\* The messages of the turns a model answered, and of those the default
\* model answered.
Heard == {"logging", "committing", "persisting", "done", "cut"}
HeardTurns == {t \in Turns : pc[t] \in Heard}
Kept == UNION {Exchange(t) : t \in HeardTurns}
Accepted == UNION {Exchange(t) : t \in {u \in HeardTurns : ~refused[u]}}

\* The conversation but for the message of the turn at work on it.
Settled(s) == IF sess[s].lock # None /\ pc[sess[s].lock] = "running"
              THEN Cut(sess[s].trunk, Len(sess[s].trunk) - 1) ELSE sess[s].trunk

\* What memory, files, logs and archives hold.
InSessions == \A s \in Sids : Said(Settled(s)) \subseteq Accepted /\ Said(sess[s].lane) \subseteq Kept
InFiles == \A c \in Stored : Said(c.trunk) \subseteq Accepted /\ Said(c.lane) \subseteq Kept
InRecords ==
    /\ InLogs \subseteq Kept /\ archived \subseteq Kept /\ deadEnd \subseteq Kept
    /\ NeverCrashed /\ spent.stop = 0 => archived \subseteq Accepted /\ stage = "up"
OnlyRefusedWhenHeard == \A t \in Turns : refused[t] => pc[t] \in Heard
Messaging == InSessions /\ InFiles /\ InRecords /\ OnlyRefusedWhenHeard

ConvIInv == ConvTyped /\ Locks /\ Course /\ InOrder(staler, Live) /\ Messaging


-----------------------------------------------------------------------------
(* How a step moves one session.                                           *)

\* A turn that starts takes the head off a conversation of r when a reset is
\* due or the trunk is over the budget, and what it takes off is archived,
\* where archives do not fail.
TakesOff(r, t, reset, long) ==
    /\ reset => ~iso[t] /\ TRUE \in scene.due
    /\ long => ~iso[t] /\ TRUE \in scene.budgets
    /\ scene.archive = {TRUE} =>
          /\ reset => Said(Ready(r, t).trunk) \subseteq archived'
          /\ long => Said(Older(Begins(r, t, reset))) \subseteq archived'

\* And so does a reset asked for.
ResetSession(s) == /\ spent'.reset > 0
                   /\ scene.archive = {TRUE} => Said(sess[s].trunk) \subseteq archived'

\* What turn t makes of its session s.
StartsAt(t, s) ==
    /\ pc[t] = "opened" /\ Unlocked(s) /\ pc' = [pc EXCEPT ![t] = "running"] /\ ref' = ref
    /\ \E reset, long, summed \in BOOLEAN :
          /\ long => Len(Begins(sess[s], t, reset).trunk) >= MinMessages
          /\ sess'[s] = Started(sess[s], t, reset, long, summed)
          /\ TakesOff(sess[s], t, reset, long)
FailsAt(t, s) ==
    /\ pc[t] = "running" /\ pc' = [pc EXCEPT ![t] = "failed"] /\ ~Idle(s)'
    /\ sess'[s] = Released(RolledBack(sess[s]))
AnswersAt(t, s) ==
    /\ pc[t] = "running" /\ pc' = [pc EXCEPT ![t] = "logging"] /\ ref' = ref
    /\ \E quarantined \in BOOLEAN :
          /\ quarantined => sess[s].fallbacks < MaxFallbacks
          /\ refused' = [refused EXCEPT ![t] = quarantined]
          /\ sess'[s] = Answers(sess[s], t, iso[t] \/ isolated, quarantined)
LogsAt(t, s) ==
    /\ pc[t] = "logging" /\ pc' = [pc EXCEPT ![t] = "committing"] /\ ref' = ref
    /\ sess'[s] = Trimmed(sess[s], iso[t], scene.cap)
LeavesAt(t, s) ==
    /\ pc[t] = "committing" /\ ~Idle(s)'
    /\ \E state \in {"persisting", "done", "cut"} : pc' = [pc EXCEPT ![t] = state]
    /\ \E dirty \in BOOLEAN : sess'[s] = Released([sess[s] EXCEPT !.dirty = dirty])

TurnMove(s) == \E t \in Turns : /\ ref[t] = s
                                /\ \/ StartsAt(t, s) \/ FailsAt(t, s) \/ AnswersAt(t, s)
                                   \/ LogsAt(t, s) \/ LeavesAt(t, s)

\* All that may happen to session s.
Untouched(s) == /\ sess'[s] = sess[s] /\ (Idle(s)' => Idle(s))
                /\ \A t \in Turns : sess[s].lock = t => pc'[t] = pc[t] /\ ref'[t] = ref[t]
Dropped(s) == sess'[s] = NewSession /\ Idle(s)'
Cleaned(s) == Unlocked(s) /\ ~Idle(s)' /\ sess'[s] = [sess[s] EXCEPT !.dirty = FALSE]
Emptied(s) == /\ Unlocked(s) /\ ~Idle(s)' /\ sess'[s] = [Begun(sess[s]) EXCEPT !.dirty = TRUE]
              /\ ResetSession(s)
Read(s) == /\ stage = "down" /\ \A t \in Turns : ref[t] = None
           /\ \E k \in Keys : json[k] # None /\ live'[k] = s /\ sess'[s] = Loaded(json[k])

SessionMove(s) == Untouched(s) \/ Dropped(s) \/ Cleaned(s) \/ Emptied(s) \/ Read(s) \/ TurnMove(s)

(* Leave: of the session's own turn, and of nobody else's.                 *)
LEMMA LeaveMoves ==
  ASSUME TurnsTyped, StoreTyped, Locks, NEW s \in Sids, NEW t \in Turns,
         pc[t] \in Holding, NEW state, NEW r, Leave(t, state, r)
  PROVE  \/ Untouched(s) \/ Dropped(s)
         \/ ref[t] = s /\ sess'[s] = Released(r) /\ ~Idle(s)'
<1>1. ref[t] \in Sids
  BY ConstantFacts DEF TurnsTyped, Locks
<1>2. /\ pc' = [pc EXCEPT ![t] = state] /\ ref' = [ref EXCEPT ![t] = None]
      /\ sess' = Held([sess EXCEPT ![ref[t]] = [r EXCEPT !.lock = None, !.found = NoLens]])
  BY DEF Leave
<1>3. sess'[s] = IF \/ \E k \in Keys : live'[k] = s
                    \/ \E u \in Turns : ref'[u] = s
                 THEN [sess EXCEPT ![ref[t]] = Released(r)][s] ELSE NewSession
  BY <1>2 DEF Held, Released
<1>4. CASE ~((\E k \in Keys : live'[k] = s) \/ (\E u \in Turns : ref'[u] = s))
  BY <1>3, <1>4 DEF Dropped, Idle
<1>5. CASE (\E k \in Keys : live'[k] = s) \/ (\E u \in Turns : ref'[u] = s)
  <2>1. sess'[s] = [sess EXCEPT ![ref[t]] = Released(r)][s]
    BY <1>3, <1>5
  <2>4. ~Idle(s)'
    BY <1>5 DEF Idle
  <2>2. CASE ref[t] = s
    BY <2>1, <2>2, <2>4 DEF StoreTyped
  <2>3. CASE ref[t] # s
    BY <2>1, <2>3, ConstantFacts, <1>2, <2>4 DEF StoreTyped, Locks, TurnsTyped, Untouched
  <2> QED BY <2>2, <2>3
<1> QED BY <1>4, <1>5

(* A step that is no turn's at work and hands sess through Held.           *)
LEMMA HeldMoves ==
  ASSUME TurnsTyped, StoreTyped, Locks, NEW s \in Sids, sess' = Held(sess),
         \A u \in Turns : pc[u] \in Holding => pc'[u] = pc[u] /\ ref'[u] = ref[u]
  PROVE  Untouched(s) \/ Dropped(s)
<1>1. sess'[s] = IF \/ \E k \in Keys : live'[k] = s
                    \/ \E u \in Turns : ref'[u] = s
                 THEN sess[s] ELSE NewSession
  BY DEF Held
<1>2. \A u \in Turns : sess[s].lock = u => pc[u] \in Holding
  BY ConstantFacts DEF Locks
<1> QED BY <1>1, <1>2 DEF Untouched, Dropped, Idle

(* A step that leaves sess alone, and the turns at work.                   *)
LEMMA SameMoves ==
  ASSUME Locks, NEW s \in Sids, sess' = sess, live' = live,
         \A u \in Turns : ref'[u] = ref[u] \/ ref[u] = None,
         \A u \in Turns : pc[u] \in Holding => pc'[u] = pc[u] /\ ref'[u] = ref[u]
  PROVE  Untouched(s)
<1>1. \A u \in Turns : sess[s].lock = u => pc[u] \in Holding
  BY ConstantFacts DEF Locks
<1>2. Idle(s)' => Idle(s)
  BY ConstantFacts DEF Idle
<1> QED BY <1>1, <1>2 DEF Untouched

(* SessionStore::persist.                                                  *)
LEMMA PersistMoves ==
  ASSUME TurnsTyped, StoreTyped, Locks, NEW s \in Sids, NEW k \in Keys, Persist(k),
         live' = live, ref' = ref, \A u \in Turns : pc[u] \in Holding => pc'[u] = pc[u]
  PROVE  Untouched(s) \/ Cleaned(s)
<1>1. CASE live[k] = None
  BY <1>1, SameMoves DEF Persist
<1>2. CASE live[k] # None
  <2>1. Unlocked(live[k]) /\ sess' = Clean(sess, {k})
    BY <1>2 DEF Persist
  <2>2. CASE live[k] = s
    BY <2>1, <2>2 DEF Clean, Cleaned, Idle
  <2>3. CASE live[k] # s
    BY <2>1, <2>3, ConstantFacts DEF Clean, Locks, Untouched, Idle
  <2> QED BY <2>2, <2>3
<1> QED BY <1>1, <1>2

(* A step of a turn on its session leaves the other ones untouched.        *)
LEMMA OthersUntouched ==
  ASSUME ConvTyped, Locks, NEW t \in Turns, NEW x, pc' = [pc EXCEPT ![t] = x], ref' = ref,
         live' = live, \A s \in Sids : s # ref[t] => sess'[s] = sess[s]
  PROVE  \A s \in Sids : s # ref[t] => Untouched(s)
<1>1. \A s \in Sids : \A u \in Turns : sess[s].lock = u => ref[u] = s
  BY ConstantFacts DEF Locks
<1>2. \A u \in Turns : u # t => pc'[u] = pc[u]
  BY DEF ConvTyped, TurnsTyped
<1>3. \A s \in Sids : Idle(s)' => Idle(s)
  BY DEF Idle
<1> QED BY <1>1, <1>2, <1>3 DEF Untouched

(* The steps of a turn that keeps its session.                             *)
LEMMA StartMoves ==
  ASSUME ConvTyped, Locks, NEW t \in Turns, Start(t)
  PROVE  ref[t] \in Sids /\ StartsAt(t, ref[t]) /\ \A s \in Sids : s # ref[t] => Untouched(s)
<1>1. pc[t] = "opened" /\ Unlocked(ref[t]) /\ pc' = [pc EXCEPT ![t] = "running"] /\ ref' = ref /\ live' = live
  BY DEF Start
<1>2. ref[t] \in Sids /\ sess \in [Sids -> Session]
  BY <1>1 DEF ConvTyped, TurnsTyped, StoreTyped, Locks
<1>3. PICK due \in scene.due, over \in scene.budgets, ok \in scene.archive, summed \in BOOLEAN :
           LET w == Windowed(sess[ref[t]], iso[t])
               r == [w EXCEPT !.found = Lens(w)]
               reset == ResetDue(t, due)
               pushed == Pushed(IF reset THEN Begun(r) ELSE r, t)
               long == TooLong(pushed, t, over)
           IN  /\ sess' = [sess EXCEPT ![ref[t]] = IF long THEN Compacted(pushed, summed) ELSE pushed]
               /\ archived' = Archived(ok, (IF reset THEN Said(r.trunk) ELSE {})
                                           \cup IF long THEN Said(Older(pushed)) ELSE {})
  BY ZenonT(60) DEF Start
<1>14. due \in BOOLEAN /\ over \in BOOLEAN /\ ok \in BOOLEAN
  BY ConversationsAssumption DEF ConvTyped, RestTyped
<1>4. PICK reset : reset = ResetDue(t, due)
  OBVIOUS
<1>5. reset \in BOOLEAN
  BY <1>4 DEF ResetDue
<1>6. PICK long : long = TooLong(Begins(sess[ref[t]], t, reset), t, over)
  OBVIOUS
<1>7. long \in BOOLEAN /\ (long => Len(Begins(sess[ref[t]], t, reset).trunk) >= MinMessages)
  BY <1>6 DEF TooLong
<1>8. sess' = [sess EXCEPT ![ref[t]] = Started(sess[ref[t]], t, reset, long, summed)]
  BY <1>3, <1>4, <1>6 DEF Started, Begins, Ready
<1>11. archived' = Archived(ok, (IF reset THEN Said(Ready(sess[ref[t]], t).trunk) ELSE {})
                                  \cup IF long THEN Said(Older(Begins(sess[ref[t]], t, reset))) ELSE {})
  BY <1>3, <1>4, <1>6 DEF Begins, Ready
<1>12. TakesOff(sess[ref[t]], t, reset, long)
  <2>1. scene.archive = {TRUE} => ok = TRUE
    OBVIOUS
  <2>2. ok = TRUE => /\ reset => Said(Ready(sess[ref[t]], t).trunk) \subseteq archived'
                     /\ long => Said(Older(Begins(sess[ref[t]], t, reset))) \subseteq archived'
    BY <1>11 DEF Archived
  <2>3. /\ reset => ~iso[t] /\ TRUE \in scene.due
        /\ long => ~iso[t] /\ TRUE \in scene.budgets
    BY <1>4, <1>14, <1>6 DEF ResetDue, TooLong
  <2> QED BY <2>1, <2>2, <2>3 DEF TakesOff
<1>9. StartsAt(t, ref[t])
  BY <1>2, <1>8, <1>1, <1>5, <1>7, <1>12 DEF StartsAt
<1>10. \A s \in Sids : s # ref[t] => sess'[s] = sess[s]
  BY <1>2, <1>8
<1> QED BY <1>1, <1>2, <1>9, <1>10, OthersUntouched

(* An answer comes: one session moves, the one the turn has the lock of.   *)
LEMMA AnswerMoves ==
  ASSUME ConvTyped, Locks, NEW t \in Turns, Answer(t)
  PROVE  ref[t] \in Sids /\ AnswersAt(t, ref[t]) /\ \A s \in Sids : s # ref[t] => Untouched(s)
<1>1. pc[t] = "running" /\ ref' = ref /\ pc' = [pc EXCEPT ![t] = "logging"] /\ live' = live
  BY DEF Answer
<1>2. ref[t] \in Sids /\ sess \in [Sids -> Session]
  BY <1>1 DEF ConvTyped, TurnsTyped, StoreTyped, Locks, Holding
<1>3. PICK quarantined \in BOOLEAN :
        /\ quarantined => MayFallBack(t)
        /\ refused' = [refused EXCEPT ![t] = quarantined]
        /\ sess' = [sess EXCEPT ![ref[t]] =
                       Answers(sess[ref[t]], t, iso[t] \/ isolated, quarantined)]
  BY DEF Answer, Answers, Told
<1>4. AnswersAt(t, ref[t])
  BY <1>2, <1>3, <1>1 DEF AnswersAt, MayFallBack
<1>5. \A s \in Sids : s # ref[t] => sess'[s] = sess[s]
  BY <1>2, <1>3
<1> QED BY <1>1, <1>2, <1>4, <1>5, OthersUntouched

(* The reply is logged: that session moves, and no other.                  *)
LEMMA LogMoves ==
  ASSUME ConvTyped, Locks, NEW t \in Turns, LogReply(t)
  PROVE  ref[t] \in Sids /\ LogsAt(t, ref[t]) /\ \A s \in Sids : s # ref[t] => Untouched(s)
<1>1. /\ pc[t] = "logging" /\ ref' = ref /\ pc' = [pc EXCEPT ![t] = "committing"] /\ live' = live
      /\ sess' = [sess EXCEPT ![ref[t]] = Trimmed(sess[ref[t]], iso[t], scene.cap)]
  BY DEF LogReply, Trimmed
<1>2. ref[t] \in Sids /\ sess \in [Sids -> Session]
  BY <1>1 DEF ConvTyped, TurnsTyped, StoreTyped, Locks, Holding
<1>3. LogsAt(t, ref[t])
  BY <1>1, <1>2 DEF LogsAt
<1>4. \A s \in Sids : s # ref[t] => sess'[s] = sess[s]
  BY <1>1, <1>2
<1> QED BY <1>1, <1>2, <1>3, <1>4, OthersUntouched

(* Every step of a turn.                                                  *)
LEMMA TurnMoves ==
  ASSUME ConvTyped, Locks, Course, NEW t \in Turns, TurnStep(t), NEW s \in Sids
  PROVE  SessionMove(s)
<1> USE DEF ConvTyped
<1>1. pc[t] \in States /\ ref[t] \in Sids \cup {None} /\ pc \in [Turns -> States]
      /\ ref \in [Turns -> Sids \cup {None}] /\ sess \in [Sids -> Session]
  BY DEF TurnsTyped, StoreTyped
<1>2. \A u \in Turns : u # t => \A x : [pc EXCEPT ![t] = x][u] = pc[u] /\ [ref EXCEPT ![t] = x][u] = ref[u]
  BY <1>1
<1>3. sess[s] \in Session /\ Tidy(sess[s])
  BY DEF StoreTyped
<1>4. \A u \in Turns : sess[s].lock = u => ref[u] = s
  BY ConstantFacts DEF Locks
<1>5. ASSUME OpenLive(t) PROVE SessionMove(s)
  BY <1>2, <1>5, <1>1, SameMoves DEF OpenLive, Holding, Locks, mind, SessionMove
<1>6. ASSUME OpenNew(t) PROVE SessionMove(s)
  BY <1>6, <1>2, HeldMoves DEF OpenNew, Holding, SessionMove
<1>7. ASSUME Start(t) PROVE SessionMove(s)
  BY <1>7, StartMoves DEF SessionMove, TurnMove
<1>8. ASSUME Fail(t) PROVE SessionMove(s)
  <2>1. pc[t] = "running"
    BY <1>8 DEF Fail
  <2>2. Leave(t, "failed", RolledBack(sess[ref[t]]))
    BY <1>8 DEF Fail, RolledBack
  <2>3. \/ Untouched(s) \/ Dropped(s)
        \/ ref[t] = s /\ sess'[s] = Released(RolledBack(sess[ref[t]])) /\ ~Idle(s)'
    BY <2>1, <2>2, LeaveMoves DEF Holding
  <2>4. ref[t] = s /\ sess'[s] = Released(RolledBack(sess[ref[t]])) /\ ~Idle(s)' => FailsAt(t, s)
    BY <2>1, <2>2 DEF FailsAt, Leave
  <2> QED BY <2>3, <2>4 DEF SessionMove, TurnMove
<1>9. ASSUME GiveUp(t) PROVE SessionMove(s)
  BY <1>2, <1>9, HeldMoves DEF GiveUp, Holding, SessionMove
<1>10. ASSUME Answer(t) PROVE SessionMove(s)
  BY <1>10, AnswerMoves DEF SessionMove, TurnMove
<1>11. ASSUME LogReply(t) PROVE SessionMove(s)
  BY <1>11, LogMoves DEF SessionMove, TurnMove
<1>12. ASSUME Finish(t) PROVE SessionMove(s)
  <2>1. PICK r : r = sess[ref[t]]
    OBVIOUS
  <2>2. PICK state \in {"done", "persisting"} : state = IF iso[t] THEN "done" ELSE "persisting"
    OBVIOUS
  <2>3. PICK dirty : dirty = (r.dirty \/ ~iso[t])
    OBVIOUS
  <2>4. dirty \in BOOLEAN
    BY <2>3
  <2>5. pc[t] = "committing" /\ Leave(t, state, [r EXCEPT !.dirty = dirty])
    BY <1>12, <2>1, <2>2, <2>3 DEF Finish
  <2>6. \/ Untouched(s) \/ Dropped(s)
        \/ ref[t] = s /\ sess'[s] = Released([r EXCEPT !.dirty = dirty]) /\ ~Idle(s)'
    BY <2>5, LeaveMoves DEF Holding
  <2>7. ref[t] = s /\ sess'[s] = Released([r EXCEPT !.dirty = dirty]) /\ ~Idle(s)' => LeavesAt(t, s)
    BY <2>1, <2>4, <2>5 DEF LeavesAt, Leave
  <2> QED BY <2>6, <2>7 DEF SessionMove, TurnMove
<1>13. ASSUME PersistTurn(t) PROVE SessionMove(s)
  BY <1>2, <1>13, PersistMoves DEF PersistTurn, Holding, Course, SessionMove
<1>14. ASSUME Abandon(t) PROVE SessionMove(s)
  <2>1. CASE pc[t] = "committing"
    <3>1. Leave(t, "cut", sess[ref[t]])
      BY <1>14, <2>1 DEF Abandon
    <3>2. \/ Untouched(s) \/ Dropped(s)
          \/ ref[t] = s /\ sess'[s] = Released(sess[ref[t]]) /\ ~Idle(s)'
      BY <2>1, <3>1, LeaveMoves DEF Holding
    <3>3. sess[s] = [sess[s] EXCEPT !.dirty = sess[s].dirty] /\ sess[s].dirty \in BOOLEAN
      BY <1>3 DEF Session
    <3>4. ref[t] = s /\ sess'[s] = Released(sess[ref[t]]) /\ ~Idle(s)' => LeavesAt(t, s)
      BY <2>1, <3>1, <3>3 DEF LeavesAt, Leave
    <3> QED BY <3>2, <3>4 DEF SessionMove, TurnMove
  <2>2. CASE pc[t] # "committing"
    BY <1>2, <1>14, <2>2, SameMoves DEF Abandon, Holding, mind, SessionMove
  <2> QED BY <2>1, <2>2
<1> QED BY <1>5, <1>6, <1>7, <1>8, <1>9, <1>10, <1>11, <1>12, <1>13, <1>14 DEF TurnStep


\* The files load_persisted keeps, and a number for each of them.
Arc(loaded) == CHOOSE f \in [loaded -> Sids] : IsInjective(f)

(* There is one: sessions are as many as keys at least.                    *)
LEMMA ArcFacts ==
  ASSUME NEW loaded \in SUBSET Keys
  PROVE  /\ Arc(loaded) \in [loaded -> Sids]
         /\ \A j, k \in loaded : Arc(loaded)[j] = Arc(loaded)[k] => j = k
<1>1. IsFiniteSet(Keys) /\ IsFiniteSet(loaded)
  BY ConstantFacts, FS_Subset
<1>2. Cardinality(loaded) \in Nat /\ Cardinality(Keys) \in Nat /\ Cardinality(loaded) <= Cardinality(Keys)
  BY <1>1, FS_CardinalityType, FS_Subset
<1>3. PICK n \in Nat : n = Cardinality(loaded)
  BY <1>2
<1>4. 1..n \subseteq Sids
  BY <1>2, <1>3, ConstantFacts DEF Sids
<1>5. PICK g \in Bijection(1..n, loaded) : TRUE
  BY <1>1, <1>3, FS_CountingElements, FS_NatBijection DEF ExistsBijection
<1>6. g \in [1..n -> loaded] /\ \A x \in loaded : \E i \in 1..n : g[i] = x
  BY DEF Bijection, Injection, Surjection
<1>7. PICK f : f = [x \in loaded |-> CHOOSE i \in 1..n : g[i] = x]
  OBVIOUS
<1>8. f \in [loaded -> Sids] /\ \A x \in loaded : g[f[x]] = x
  BY <1>4, <1>6, <1>7
<1>9. IsInjective(f)
  BY <1>8 DEF IsInjective
<1>10. Arc(loaded) \in [loaded -> Sids] /\ IsInjective(Arc(loaded))
  BY <1>8, <1>9 DEF Arc
<1> QED BY <1>10 DEF IsInjective

(* load_persisted.                                                         *)
LEMMA LoadMoves ==
  ASSUME NEW loaded \in SUBSET {k \in Keys : json[k] # None}, Load(loaded), stage = "down",
         \A t \in Turns : ref[t] = None, ref' = ref, NEW s \in Sids
  PROVE  Read(s) \/ Dropped(s)
<1>1. PICK arc : arc = Arc(loaded)
  OBVIOUS
<1>2. arc \in [loaded -> Sids]
  BY <1>1, ArcFacts
<1>3. /\ live' = [k \in Keys |-> IF k \in loaded THEN arc[k] ELSE None]
      /\ sess' = [q \in Sids |-> IF \E k \in loaded : arc[k] = q
                                 THEN Loaded(json[CHOOSE k \in loaded : arc[k] = q])
                                 ELSE NewSession]
  BY <1>1 DEF Load, Arc
<1>4. CASE \E k \in loaded : arc[k] = s
  <2>1. PICK k \in loaded : k = CHOOSE j \in loaded : arc[j] = s
    BY <1>4
  <2>2. arc[k] = s
    BY <1>4, <2>1
  <2>3. sess'[s] = Loaded(json[k]) /\ live'[k] = s
    BY <1>3, <1>4, <2>1, <2>2
  <2> QED BY <2>3 DEF Read
<1>5. CASE ~(\E k \in loaded : arc[k] = s)
  BY <1>3, <1>5, ConstantFacts DEF Dropped, Idle
<1> QED BY <1>4, <1>5

(* Every step does to a session one of the things above.                   *)
LEMMA SessionMoves ==
  ASSUME ConvTyped, Locks, Course, Next, NEW s \in Sids
  PROVE  SessionMove(s)
<1> USE DEF ConvTyped
<1>1. sess[s] \in Session /\ Tidy(sess[s]) /\ sess \in [Sids -> Session]
  BY DEF StoreTyped
<1>2. \A u \in Turns : sess[s].lock = u => ref[u] = s
  BY ConstantFacts DEF Locks
<1>3. ASSUME sess' = sess, live' = live, ref' = ref, pc' = pc PROVE SessionMove(s)
  BY <1>3, SameMoves DEF SessionMove
<1>4. ASSUME Die PROVE SessionMove(s)
  BY <1>4, ConstantFacts DEF Die, Dropped, Idle, SessionMove
<1>5. ASSUME NEW t \in Turns, NEW k \in Keys, Admit(t, k) PROVE SessionMove(s)
  BY <1>5, SameMoves DEF Admit, Holding, TurnsTyped, mind, SessionMove
<1>6. ASSUME NEW t \in Turns, TurnStep(t) PROVE SessionMove(s)
  BY <1>6, TurnMoves
<1>7. ASSUME NEW w \in queue, WriteFile(w) PROVE SessionMove(s)
  BY <1>3, <1>7 DEF WriteFile, turnVars, mind
<1>8. ASSUME Flip PROVE SessionMove(s)
  BY <1>3, <1>8 DEF Flip, turnVars, mind
<1>9. ASSUME NEW expired \in SUBSET Live, SweepCollect(expired) PROVE SessionMove(s)
  BY <1>3, <1>9 DEF SweepCollect, turnVars, mind
<1>10. ASSUME SweepRemove PROVE SessionMove(s)
  <2>1. PICK rest \in SUBSET Live : sess' = Held(Clean(sess, rest))
    BY <1>10 DEF SweepRemove, DirtyKeys
  <2>2. AllUnlocked /\ ref' = ref /\ pc' = pc
    BY <1>10 DEF SweepRemove
  <2>3. sess'[s] = IF (\E k \in Keys : live'[k] = s) \/ (\E u \in Turns : ref'[u] = s)
                   THEN Clean(sess, rest)[s] ELSE NewSession
    BY <2>1 DEF Held
  <2>4. CASE ~((\E k \in Keys : live'[k] = s) \/ (\E u \in Turns : ref'[u] = s))
    BY <2>3, <2>4 DEF Dropped, Idle, SessionMove
  <2>5. CASE (\E k \in Keys : live'[k] = s) \/ (\E u \in Turns : ref'[u] = s)
    BY <2>3, <2>5, <2>2 DEF Clean, AllUnlocked, Idle, Untouched, Cleaned, SessionMove
  <2> QED BY <2>4, <2>5
<1>11. ASSUME NEW k \in Keys, Reset(k) PROVE SessionMove(s)
  <2>1. /\ k \in Live /\ Unlocked(live[k]) /\ ref' = ref /\ pc' = pc /\ live' = live
        /\ sess' = [sess EXCEPT ![live[k]] = [Begun(sess[live[k]]) EXCEPT !.dirty = TRUE]]
    BY <1>11 DEF Reset, turnVars
  <2>2. CASE live[k] = s
    <3>1. spent'.reset > 0
      BY <1>11 DEF Reset, Spend, RestTyped, BoundNames
    <3>2. scene.archive = {TRUE} => Said(sess[s].trunk) \subseteq archived'
      <4>1. PICK ok \in scene.archive : ArchiveBoth(ok, {live[k]})
        BY <1>11 DEF Reset
      <4>2. archived' = Archived(ok, UNION {Said(sess[q].trunk) : q \in {live[k]}})
        BY <4>1 DEF ArchiveBoth
      <4>3. Said(sess[s].trunk) \subseteq UNION {Said(sess[q].trunk) : q \in {live[k]}}
        BY <2>2
      <4> QED BY <4>2, <4>3 DEF Archived
    <3>3. live'[k] = s /\ k \in Keys
      BY <2>1, <2>2
    <3>4. sess'[s] = [Begun(sess[s]) EXCEPT !.dirty = TRUE]
      BY <1>1, <2>1, <2>2
    <3> QED BY <2>1, <2>2, <3>1, <3>2, <3>3, <3>4 DEF Emptied, ResetSession, Idle, SessionMove
  <2>3. CASE live[k] # s
    BY <1>1, <2>1, <2>3 DEF Untouched, Idle, SessionMove
  <2> QED BY <2>2, <2>3
<1>12. ASSUME NEW k \in Keys, PersistReset(k) PROVE SessionMove(s)
  BY <1>12, PersistMoves DEF PersistReset, turnVars, SessionMove
<1>13. ASSUME Crash \/ Exit PROVE SessionMove(s)
  BY <1>4, <1>13 DEF Crash, Exit
<1>14. ASSUME Stop \/ CleanUpWal PROVE SessionMove(s)
  BY <1>3, <1>14 DEF Stop, CleanUpWal, turnVars, mind
<1>15. ASSUME ArchiveSessions PROVE SessionMove(s)
  <2>1. CASE isolated
    BY <1>3, <1>15, <2>1 DEF ArchiveSessions, turnVars
  <2>2. CASE ~isolated
    <3>1. AllUnlocked /\ sess' = Clean(sess, Live) /\ ref' = ref /\ pc' = pc /\ live' = live
      BY <1>15, <2>2 DEF ArchiveSessions, ArchiveAll, turnVars
    <3>2. sess'[s] = IF \E k \in Live : live[k] = s THEN [sess[s] EXCEPT !.dirty = FALSE] ELSE sess[s]
      BY <3>1 DEF Clean
    <3>3. (\E k \in Live : live[k] = s) => Unlocked(s)
      BY <3>1 DEF AllUnlocked
    <3>4. sess'[s] = sess[s] => Untouched(s)
      BY <3>1 DEF Untouched, Idle
    <3>5. (\E k \in Live : live[k] = s) => ~Idle(s)'
      BY <3>1 DEF Live, Idle
    <3> QED BY <3>2, <3>3, <3>4, <3>5 DEF Cleaned, SessionMove
  <2> QED BY <2>1, <2>2
<1>16. ASSUME Restart PROVE SessionMove(s)
  <2>1. PICK loaded \in SUBSET {k \in Keys : json[k] # None} : Load(loaded)
    BY <1>16 DEF Restart
  <2>2. stage = "down" /\ ref' = ref
    BY <1>16 DEF Restart, turnVars
  <2>3. \A t \in Turns : ref[t] = None
    BY <2>2 DEF Course, Locks, Holding, InFlight
  <2> QED BY <2>1, <2>2, <2>3, LoadMoves DEF SessionMove
<1> QED BY <1>5, <1>6, <1>7, <1>8, <1>9, <1>10, <1>11, <1>12, <1>13, <1>14, <1>15, <1>16 DEF Next


-----------------------------------------------------------------------------
(* Types are kept.                                                         *)

(* Whatever happens to a session leaves a session.                         *)
LEMMA NextSession ==
  ASSUME ConvTyped, Locks, Course, Next, NEW s \in Sids
  PROVE  sess'[s] \in Session /\ Tidy(sess'[s])
<1> USE DEF ConvTyped
<1>1. sess[s] \in Session /\ Tidy(sess[s])
  BY DEF StoreTyped
<1>2. SessionMove(s)
  BY SessionMoves
<1>3. CASE Untouched(s)
  BY <1>1, <1>3 DEF Untouched
<1>4. CASE Dropped(s)
  BY <1>4, NewSessionFacts DEF Dropped
<1>5. CASE Cleaned(s)
  BY <1>1, <1>5, SetDirtyFacts DEF Cleaned
<1>6. CASE Emptied(s)
  <2>1. Begun(sess[s]) \in Session /\ Tidy(Begun(sess[s]))
    BY <1>1, BegunFacts
  <2> QED BY <1>6, <2>1, SetDirtyFacts DEF Emptied
<1>7. CASE Read(s)
  <2>1. PICK k \in Keys : json[k] # None /\ sess'[s] = Loaded(json[k])
    BY <1>7 DEF Read
  <2>2. json[k] \in Files /\ Tidy(json[k])
    BY <2>1 DEF FilesTyped, TidyFiles
  <2> QED BY <2>1, <2>2, LoadedFacts
<1>8. CASE TurnMove(s)
  <2>1. PICK t \in Turns : /\ ref[t] = s
                           /\ \/ StartsAt(t, s) \/ FailsAt(t, s) \/ AnswersAt(t, s)
                              \/ LogsAt(t, s) \/ LeavesAt(t, s)
    BY <1>8 DEF TurnMove
  <2>2. pc[t] = "running" => WithMine(sess[s], t)
    BY <2>1 DEF Locks
  <2>3. CASE StartsAt(t, s)
    <3>1. PICK reset \in BOOLEAN, long \in BOOLEAN, summed \in BOOLEAN :
              /\ long => Len(Begins(sess[s], t, reset).trunk) >= MinMessages
              /\ sess'[s] = Started(sess[s], t, reset, long, summed)
      BY <2>3 DEF StartsAt
    <3>2. iso \in [Turns -> BOOLEAN]
      BY DEF TurnsTyped
    <3> QED BY <1>1, <3>1, <3>2, StartedFacts
  <2>4. CASE FailsAt(t, s)
    BY <2>2, <2>4, <1>1, RolledBackFacts, ReleasedFacts DEF FailsAt, WithMine
  <2>5. CASE AnswersAt(t, s)
    <3>1. PICK quarantined \in BOOLEAN :
              /\ quarantined => sess[s].fallbacks < MaxFallbacks
              /\ sess'[s] = Answers(sess[s], t, iso[t] \/ isolated, quarantined)
      BY <2>5 DEF AnswersAt
    <3>2. PICK shed : shed = (iso[t] \/ isolated)
      OBVIOUS
    <3>3. shed \in BOOLEAN /\ WithMine(sess[s], t)
      BY <2>2, <2>5, <3>2 DEF AnswersAt
    <3>4. sess'[s] = Answers(sess[s], t, shed, quarantined)
      BY <3>1, <3>2
    <3> QED BY <1>1, <3>1, <3>3, <3>4, AnswersFacts
  <2>6. CASE LogsAt(t, s)
    BY ConversationsAssumption, <1>1, <2>6, TrimmedFacts DEF TurnsTyped, RestTyped, LogsAt
  <2>7. CASE LeavesAt(t, s)
    <3>1. PICK dirty \in BOOLEAN : sess'[s] = Released([sess[s] EXCEPT !.dirty = dirty])
      BY <2>7 DEF LeavesAt
    <3>2. [sess[s] EXCEPT !.dirty = dirty] \in Session /\ Tidy([sess[s] EXCEPT !.dirty = dirty])
      BY <1>1, SetDirtyFacts
    <3> QED BY <3>1, <3>2, ReleasedFacts
  <2> QED BY <2>1, <2>3, <2>4, <2>5, <2>6, <2>7
<1> QED BY <1>2, <1>3, <1>4, <1>5, <1>6, <1>7, <1>8 DEF SessionMove

(* No step changes which sessions there may be.                            *)
LEMMA SessDomain ==
  ASSUME ConvTyped, Next
  PROVE  sess' = [s \in Sids |-> sess'[s]]
<1> DEFINE Goal == sess' = [s \in Sids |-> sess'[s]]
<1>1. sess = [s \in Sids |-> sess[s]]
  BY DEF ConvTyped, StoreTyped
<1>2. sess' = sess => Goal
  BY <1>1
<1>3. \A f : sess' = Held(f) => Goal
  BY DEF Held
<1>4. \A ks : sess' = Clean(sess, ks) => Goal
  BY DEF Clean
<1>5. \A s, x : sess' = [sess EXCEPT ![s] = x] => Goal
  BY <1>1
<1> HIDE DEF Goal
<1>6. \A k : Persist(k) => Goal
  BY <1>2, <1>4 DEF Persist
<1>7. Die => Goal
  BY DEF Die, Goal
<1>8. \A ks : Load(ks) => Goal
  BY DEF Load, Goal
<1>9. ASSUME NEW t \in Turns, TurnStep(t) PROVE Goal
  <2>1. \A state, r : Leave(t, state, r) => Goal
    BY <1>3 DEF Leave
  <2>2. Start(t) \/ Answer(t) \/ LogReply(t) => Goal
    <3>1. Start(t) => Goal
      BY <1>5 DEF Start
    <3>2. ASSUME Answer(t) PROVE Goal
      <4>1. PICK q \in BOOLEAN : sess' = [sess EXCEPT ![ref[t]] =
                                             Answers(sess[ref[t]], t, iso[t] \/ isolated, q)]
        BY <3>2 DEF Answer, Answers, Told
      <4> QED BY <1>5, <4>1
    <3>3. LogReply(t) => Goal
      BY <1>5 DEF LogReply
    <3> QED BY <3>1, <3>2, <3>3
  <2>3. Fail(t) \/ Finish(t) => Goal
    BY <2>1 DEF Fail, Finish
  <2>4. Abandon(t) => Goal
    BY <1>2, <2>1 DEF Abandon, mind
  <2>5. OpenNew(t) \/ GiveUp(t) => Goal
    BY <1>3 DEF OpenNew, GiveUp
  <2>6. OpenLive(t) => Goal
    BY <1>2 DEF OpenLive, mind
  <2>7. PersistTurn(t) => Goal
    BY <1>6 DEF PersistTurn
  <2> QED BY <1>9, <2>2, <2>3, <2>4, <2>5, <2>6, <2>7 DEF TurnStep
<1>10. ASSUME NEW t \in Turns, NEW k \in Keys, Admit(t, k) PROVE Goal
  BY <1>2, <1>10 DEF Admit, mind
<1>11. ASSUME NEW w \in queue, WriteFile(w) PROVE Goal
  BY <1>2, <1>11 DEF WriteFile, mind
<1>12. Flip \/ Stop \/ CleanUpWal => Goal
  BY <1>2 DEF Flip, Stop, CleanUpWal, mind
<1>13. ASSUME NEW expired \in SUBSET Live, SweepCollect(expired) PROVE Goal
  BY <1>2, <1>13 DEF SweepCollect, mind
<1>14. SweepRemove => Goal
  BY <1>3 DEF SweepRemove
<1>15. ASSUME NEW k \in Keys, Reset(k) \/ PersistReset(k) PROVE Goal
  BY <1>5, <1>6, <1>15 DEF Reset, PersistReset
<1>16. Crash \/ Exit => Goal
  BY <1>7 DEF Crash, Exit
<1>17. ArchiveSessions => Goal
  BY <1>2, <1>4 DEF ArchiveSessions, ArchiveAll
<1>18. Restart => Goal
  BY <1>8 DEF Restart
<1> QED BY <1>9, <1>10, <1>11, <1>12, <1>13, <1>14, <1>15, <1>16, <1>17, <1>18 DEF Next, Goal

(* When open_session creates a session there is a number for it.           *)
LEMMA FreshFacts ==
  ASSUME ConvTyped, NEW t \in Turns, ref[t] = None, NEW k \in Keys, live[k] = None
  PROVE  FreshSid \in Sids /\ Idle(FreshSid)
<1>1. live \in [Keys -> Sids \cup {None}] /\ ref \in [Turns -> Sids \cup {None}]
  BY DEF ConvTyped, StoreTyped, TurnsTyped
<1> DEFINE K == Keys \ {k}
           T == Turns \ {t}
           A == {live[j] : j \in K}
           B == {ref[u] : u \in T}
<1>2. /\ IsFiniteSet(Keys) /\ IsFiniteSet(Turns) /\ Cardinality(Turns) = MaxTurns
      /\ Cardinality(Keys) \in Nat /\ MaxTurns \in Nat
  <2>1. MaxTurns \in Nat /\ IsFiniteSet(Keys)
    BY ConstantFacts
  <2>2. IsFiniteSet(1..MaxTurns) /\ Cardinality(1..MaxTurns) = MaxTurns
    BY <2>1, FS_Interval
  <2> QED BY <2>1, <2>2, FS_CardinalityType DEF Turns
<1>3. /\ IsFiniteSet(K) /\ Cardinality(K) = Cardinality(Keys) - 1
      /\ IsFiniteSet(T) /\ Cardinality(T) = MaxTurns - 1
  BY <1>2, FS_RemoveElement
<1>4. /\ IsFiniteSet(A) /\ Cardinality(A) <= Cardinality(K) /\ Cardinality(A) \in Nat
      /\ IsFiniteSet(B) /\ Cardinality(B) <= Cardinality(T) /\ Cardinality(B) \in Nat
  <2>1. IsFiniteSet(A) /\ Cardinality(A) <= Cardinality(K)
    <3>1. [j \in K |-> live[j]] \in Surjection(K, A)
      BY DEF Surjection
    <3> QED BY <1>3, <3>1, FS_Surjection
  <2>2. IsFiniteSet(B) /\ Cardinality(B) <= Cardinality(T)
    <3>1. [u \in T |-> ref[u]] \in Surjection(T, B)
      BY DEF Surjection
    <3> QED BY <1>3, <3>1, FS_Surjection
  <2> QED BY <2>1, <2>2, FS_CardinalityType
<1> HIDE DEF A, B
<1>5. IsFiniteSet(A \cup B) /\ Cardinality(A \cup B) <= Cardinality(A) + Cardinality(B)
  <2>1. /\ IsFiniteSet(A \cup B) /\ IsFiniteSet(A \cap B)
        /\ Cardinality(A \cup B) = Cardinality(A) + Cardinality(B) - Cardinality(A \cap B)
    BY <1>4, FS_Union, FS_Intersection
  <2>2. Cardinality(A \cap B) \in Nat
    BY <2>1, FS_CardinalityType
  <2> QED BY <1>4, <2>1, <2>2
<1>6. IsFiniteSet(Sids) /\ Cardinality(Sids) = Cardinality(Keys) + MaxTurns
  <2>1. Cardinality(Keys) + MaxTurns \in Nat
    BY <1>2
  <2>2. /\ IsFiniteSet(1..Cardinality(Keys) + MaxTurns)
        /\ Cardinality(1..Cardinality(Keys) + MaxTurns) = Cardinality(Keys) + MaxTurns
    BY <2>1, FS_Interval
  <2> QED BY <2>2 DEF Sids
<1>7. ~(Sids \subseteq A \cup B)
  <2>1. SUFFICES ASSUME Sids \subseteq A \cup B PROVE FALSE
    OBVIOUS
  <2>2. Cardinality(Sids) <= Cardinality(A \cup B)
    BY <1>5, <2>1, FS_Subset
  <2>3. Cardinality(A \cup B) \in Nat
    BY <1>5, FS_CardinalityType
  <2> QED BY <1>2, <1>3, <1>4, <1>5, <1>6, <2>2, <2>3
<1>8. PICK s \in Sids : s \notin A \cup B
  BY <1>7
<1>9. Idle(s)
  BY ConstantFacts, <1>8 DEF A, B, Idle
<1> QED BY <1>9 DEF FreshSid, Idle


(* The entries of a log.                                                   *)
LEMMA EntriesFacts ==
  ASSUME NEW q \in Seq(Entry)
  PROVE  /\ Len(q) \in Nat
         /\ \A e : e \in ToSet(q) <=> \E i \in 1..Len(q) : q[i] = e
         /\ \A e \in ToSet(q) : e \in Entry /\ e.seq \in Nat /\ e.said \in Messages
<1>1. Len(q) \in Nat /\ DOMAIN q = 1..Len(q) /\ \A i \in 1..Len(q) : q[i] \in Entry
  OBVIOUS
<1>2. \A e : e \in ToSet(q) <=> \E i \in 1..Len(q) : q[i] = e
  BY <1>1 DEF ToSet
<1>3. \A e \in Entry : e.seq \in Nat /\ e.said \in Messages
  BY DEF Entry
<1> QED BY <1>1, <1>2, <1>3

(* What a session hands to the archives and to the pool.                   *)
LEMMA StoreFacts ==
  ASSUME ConvTyped
  PROVE  /\ \A s \in Sids : /\ Said(sess[s].trunk) \subseteq Messages
                            /\ Said(sess[s].lane) \subseteq Messages
                            /\ FileOf(s) \in TidyFiles
         /\ \A k \in Keys, s \in Sids : WriteOf(k, s) \in [key : Keys, file : TidyFiles]
         /\ \A k \in Live : k \in Keys /\ live[k] \in Sids
         /\ \A k \in DirtyKeys : k \in Live
         /\ \A f \in TidyFiles : Said(f.trunk) \subseteq Messages /\ Said(f.lane) \subseteq Messages
<1>1. \A s \in Sids : sess[s] \in Session /\ Tidy(sess[s])
  BY DEF ConvTyped, StoreTyped
<1>2. \A s \in Sids : FileOf(s) \in TidyFiles
  BY <1>1, FileFacts DEF TidyFiles
<1>3. \A s \in Sids : Said(sess[s].trunk) \subseteq Messages /\ Said(sess[s].lane) \subseteq Messages
  BY <1>1, SaidAt, SessionFacts
<1>4. \A k \in Keys, s \in Sids : WriteOf(k, s) \in [key : Keys, file : TidyFiles]
  BY <1>2 DEF WriteOf
<1>5. \A k \in Live : k \in Keys /\ live[k] \in Sids
  BY DEF ConvTyped, StoreTyped, Live
<1>6. ASSUME NEW f \in TidyFiles
      PROVE  Said(f.trunk) \subseteq Messages /\ Said(f.lane) \subseteq Messages
  BY SaidAt DEF TidyFiles, Files
<1> QED BY <1>2, <1>3, <1>4, <1>5, <1>6 DEF DirtyKeys

(* Types hold at first.                                                    *)
LEMMA InitTyped == Init => ConvTyped
<1> SUFFICES ASSUME Init PROVE ConvTyped
  OBVIOUS
<1>1. TurnsTyped
  BY DEF Init, TurnsTyped, States
<1>2. StoreTyped
  BY NewSessionFacts DEF Init, StoreTyped
<1>3. FilesTyped
  BY DEF Init, FilesTyped
<1>4. RestTyped
  <2>1. scene.budget \in [BoundNames -> Nat]
    BY ConversationsAssumption DEF Init
  <2>2. \A what \in BoundNames : 0 <= scene.budget[what]
    BY <2>1
  <2> QED BY <2>2 DEF Init, RestTyped, Stages
<1> QED BY <1>1, <1>2, <1>3, <1>4 DEF ConvTyped

(* A turn's steps keep types, but of sess.                                 *)
LEMMA TurnTyped ==
  ASSUME ConvTyped, Locks, Course, NEW t \in Turns, TurnStep(t), scene' = scene
  PROVE  TurnsTyped' /\ live' \in [Keys -> Sids \cup {None}] /\ FilesTyped' /\ RestTyped'
<1> DEFINE T == TurnsTyped'
           L == live' \in [Keys -> Sids \cup {None}]
           F == FilesTyped'
           R == RestTyped'
<1> USE DEF ConvTyped
<1>1. pc' \in [Turns -> States] /\ keyOf' = keyOf /\ iso' = iso /\ refused' = refused
      /\ ref' \in [Turns -> Sids \cup {None}] => T
  BY DEF TurnsTyped
<1>2. live' = live => L
  BY DEF StoreTyped
<1>3. ASSUME json' = json, queue' \subseteq [key : Keys, file : TidyFiles],
             wal' \in [Keys -> Seq(Entry)], ckpt' \in [Keys -> Nat],
             archived' \subseteq Messages, deadEnd' \subseteq Messages
      PROVE  F
  BY <1>3 DEF FilesTyped
<1>4. /\ queue \subseteq [key : Keys, file : TidyFiles]
      /\ wal \in [Keys -> Seq(Entry)] /\ ckpt \in [Keys -> Nat]
      /\ archived \subseteq Messages /\ deadEnd \subseteq Messages
  BY DEF FilesTyped
<1>5. isolated' = isolated /\ stage' = stage /\ background' = background /\ spent' = spent => R
  BY DEF RestTyped, background
<1>6. /\ pc \in [Turns -> States] /\ ref \in [Turns -> Sids \cup {None}]
      /\ iso \in [Turns -> BOOLEAN] /\ refused \in [Turns -> BOOLEAN]
      /\ keyOf \in [Turns -> Keys \cup {None}]
  BY DEF TurnsTyped
<1>7. \A x \in States : [pc EXCEPT ![t] = x] \in [Turns -> States]
  BY <1>6
<1>8. \A x \in Sids \cup {None} : [ref EXCEPT ![t] = x] \in [Turns -> Sids \cup {None}]
  BY <1>6
<1>9. {"opened", "running", "logging", "committing", "persisting", "done", "cut", "failed"} \subseteq States
  BY DEF States, InFlight
<1> HIDE DEF T, L, F, R
<1>10. /\ \A s \in Sids : /\ Said(sess[s].trunk) \subseteq Messages
                          /\ Said(sess[s].lane) \subseteq Messages
       /\ \A k \in Keys, s \in Sids : WriteOf(k, s) \in [key : Keys, file : TidyFiles]
       /\ \A k \in Live : k \in Keys /\ live[k] \in Sids
  BY StoreFacts
<1>11. pc[t] \in {"opened"} \cup Holding => ref[t] \in Sids /\ keyOf[t] \in Keys
  BY <1>6 DEF Locks, Course, Holding
<1>12. ASSUME pc[t] \in Holding, NEW state \in States, NEW r, Leave(t, state, r)
       PROVE  pc' \in [Turns -> States] /\ ref' \in [Turns -> Sids \cup {None}] /\ live' = live
  BY <1>7, <1>8, <1>12 DEF Leave
<1>13. ASSUME pc[t] \in Holding, MaybeCheckpoint(t)
       PROVE  ckpt' \in [Keys -> Nat] /\ archived' \subseteq Messages /\ deadEnd' \subseteq Messages
  <2>1. sess[ref[t]] \in Session
    BY <1>11, <1>13 DEF StoreTyped
  <2>2. sess[ref[t]].seq \in Nat /\ Said(sess[ref[t]].trunk) \subseteq Messages
    BY <1>10, <1>11, <1>13, <2>1, SessionFacts
  <2> QED BY <1>4, <1>13, <2>2 DEF MaybeCheckpoint, Archived
<1>14. ASSUME OpenLive(t) PROVE T /\ L /\ F /\ R
  <2>1. live[keyOf[t]] \in Sids \cup {None}
    BY <1>14 DEF OpenLive, Course, StoreTyped
  <2> QED
    BY <1>1, <1>2, <1>3, <1>4, <1>5, <1>6, <1>7, <1>8, <1>9, <1>14, <2>1
    DEF OpenLive, mind, files, archives
<1>15. ASSUME OpenNew(t) PROVE T /\ L /\ F /\ R
  <2>1. keyOf[t] \in Keys /\ pc[t] = "admitted" /\ live[keyOf[t]] = None
    BY <1>15 DEF OpenNew, Course
  <2>2. ref[t] = None
    BY <2>1 DEF Locks, Holding
  <2>3. FreshSid \in Sids
    BY <2>1, <2>2, FreshFacts
  <2>4. PICK evicted \in SUBSET Live :
           /\ live' = [j \in Keys |-> IF j = keyOf[t] THEN FreshSid
                                      ELSE IF j \in evicted THEN None ELSE live[j]]
           /\ queue' = queue \cup {WriteOf(v, live[v]) : v \in evicted}
    BY <1>15 DEF OpenNew, Stalest
  <2>5. L
    BY <2>3, <2>4 DEF L, StoreTyped
  <2>6. queue' \subseteq [key : Keys, file : TidyFiles]
    BY <1>4, <1>10, <2>4
  <2>7. F
    BY <1>3, <1>4, <1>15, <2>6 DEF OpenNew, archives
  <2>8. T
    BY <1>1, <1>6, <1>7, <1>8, <1>9, <1>15, <2>3 DEF OpenNew
  <2> QED BY <1>5, <1>15, <2>5, <2>7, <2>8 DEF OpenNew
<1>16. ASSUME Start(t) PROVE T /\ L /\ F /\ R
  <2>1. /\ pc[t] = "opened" /\ ref[t] \in Sids
    BY <1>11, <1>16 DEF Start
  <2>2. PICK r : r = [Windowed(sess[ref[t]], iso[t]) EXCEPT !.found = Lens(Windowed(sess[ref[t]], iso[t]))]
    OBVIOUS
  <2>0. PICK due \in scene.due, over \in scene.budgets, ok \in scene.archive, summed \in BOOLEAN :
           LET w == Windowed(sess[ref[t]], iso[t])
               d == [w EXCEPT !.found = Lens(w)]
               reset == ResetDue(t, due)
               pushed == Pushed(IF reset THEN Begun(d) ELSE d, t)
               long == TooLong(pushed, t, over)
           IN  /\ archived' = Archived(ok, (IF reset THEN Said(d.trunk) ELSE {})
                                            \cup IF long THEN Said(Older(pushed)) ELSE {})
               /\ deadEnd' = deadEnd \cup IF reset /\ ok THEN Said(d.lane) ELSE {}
    BY <1>16 DEF Start
  <2>11. PICK reset : reset = ResetDue(t, due)
    OBVIOUS
  <2>12. PICK pushed : pushed = Pushed(IF reset THEN Begun(r) ELSE r, t)
    OBVIOUS
  <2>13. PICK long : long = TooLong(pushed, t, over)
    OBVIOUS
  <2>3. /\ archived' = Archived(ok, (IF reset THEN Said(r.trunk) ELSE {})
                                     \cup IF long THEN Said(Older(pushed)) ELSE {})
        /\ deadEnd' = deadEnd \cup IF reset /\ ok THEN Said(r.lane) ELSE {}
    BY <2>0, <2>2, <2>11, <2>12, <2>13
  <2>4. reset \in BOOLEAN /\ r = Ready(sess[ref[t]], t) /\ pushed = Begins(sess[ref[t]], t, reset)
    BY <2>2, <2>11, <2>12 DEF Ready, Begins, ResetDue
  <2>5. sess[ref[t]] \in Session /\ Tidy(sess[ref[t]])
    BY <2>1 DEF StoreTyped
  <2>6. /\ Said(r.trunk) \subseteq Said(sess[ref[t]].trunk) /\ Said(r.lane) \subseteq Said(sess[ref[t]].lane)
        /\ pushed \in Session /\ Len(pushed.trunk) \in Nat
    BY <1>6, <2>4, <2>5, BeginsFacts
  <2>7. long => Said(Older(pushed)) \subseteq Messages
    <3>1. pushed.trunk \in Seq(Messages) /\ MinMessages \in Nat /\ KeepRecent \in Nat /\ KeepRecent <= MinMessages
      BY <2>6, SessionFacts, ConstantFacts
    <3>4. long => Len(pushed.trunk) >= MinMessages
      BY <2>13 DEF TooLong
    <3>2. long => Len(pushed.trunk) - KeepRecent \in Nat
      BY <2>6, <3>1, <3>4
    <3>3. long => Older(pushed) \in Seq(Messages)
      BY <3>1, <3>2, CutFacts DEF Older
    <3> QED BY <3>3, SaidAt
  <2>8. archived' \subseteq Messages /\ deadEnd' \subseteq Messages
    BY <1>4, <1>10, <2>1, <2>3, <2>6, <2>7 DEF Archived
  <2>9. F
    BY <1>3, <1>4, <1>16, <2>8 DEF Start
  <2>10. T
    BY <1>1, <1>6, <1>7, <1>9, <1>16 DEF Start
  <2> QED BY <1>2, <1>5, <1>16, <2>9, <2>10 DEF Start
<1>17. ASSUME Fail(t) PROVE T /\ L /\ F /\ R
  BY <1>9, <1>12, <1>17, <1>1, <1>2, <1>3, <1>4, <1>5 DEF Fail, Holding, files, archives
<1>18. ASSUME GiveUp(t) PROVE T /\ L /\ F /\ R
  BY <1>1, <1>2, <1>3, <1>4, <1>5, <1>7, <1>8, <1>9, <1>18 DEF GiveUp, files, archives
<1>19. ASSUME pc[t] \in Holding, NEW seq \in Nat, NEW m \in Messages
       PROVE  [wal EXCEPT ![keyOf[t]] = Append(@, [seq |-> seq + 1, said |-> m])] \in [Keys -> Seq(Entry)]
  <2>1. keyOf[t] \in Keys /\ [seq |-> seq + 1, said |-> m] \in Entry
    BY <1>11, <1>19 DEF Entry
  <2>2. wal[keyOf[t]] \in Seq(Entry)
    BY <1>4, <2>1
  <2>3. Append(wal[keyOf[t]], [seq |-> seq + 1, said |-> m]) \in Seq(Entry)
    BY <2>1, <2>2
  <2> QED BY <1>4, <2>3
<1>20. ASSUME Answer(t) PROVE T /\ L /\ F /\ R
  <2>1. pc[t] = "running" /\ ref[t] \in Sids /\ WithMine(sess[ref[t]], t)
    BY <1>11, <1>20 DEF Answer, Holding, Locks
  <2>2. PICK shed : shed = (iso[t] \/ isolated)
    OBVIOUS
  <2>3. shed \in BOOLEAN
    BY <2>2
  <2>40. PICK q \in BOOLEAN : \E r :
           /\ r = IF shed THEN Anchored(Told(sess[ref[t]], t, q), q) ELSE Told(sess[ref[t]], t, q)
           /\ q => MayFallBack(t)
           /\ refused' = [refused EXCEPT ![t] = q]
           /\ wal' = Logged(r, t, Question(t), shed)
    BY <1>20, <2>2 DEF Answer, Told
  <2>4. PICK r :
           /\ r = IF shed THEN Anchored(Told(sess[ref[t]], t, q), q) ELSE Told(sess[ref[t]], t, q)
           /\ q => MayFallBack(t)
           /\ refused' = [refused EXCEPT ![t] = q]
           /\ wal' = Logged(r, t, Question(t), shed)
    BY <2>40
  <2>5. ~shed => r.seq \in Nat
    BY <2>4, <2>1, ToldFacts, SessionFacts DEF MayFallBack, StoreTyped
  <2>6. wal' \in [Keys -> Seq(Entry)]
    BY <1>4, <1>19, <2>1, <2>3, <2>4, <2>5, MessageFacts DEF Logged, Holding
  <2>7. F
    BY <1>3, <1>4, <1>20, <2>6 DEF Answer, archives
  <2>8. /\ pc' = [pc EXCEPT ![t] = "logging"] /\ iso' = [iso EXCEPT ![t] = shed]
        /\ keyOf' = keyOf /\ ref' = ref
    BY <1>20, <2>2 DEF Answer
  <2>9. T
    BY <1>7, <1>9, <2>8, <1>6, <2>3, <2>4 DEF T, TurnsTyped
  <2> QED BY <1>2, <1>5, <1>20, <2>7, <2>9 DEF Answer
<1>21. ASSUME LogReply(t) PROVE T /\ L /\ F /\ R
  <2>1. pc[t] = "logging" /\ ref[t] \in Sids
    BY <1>11, <1>21 DEF LogReply, Holding
  <2>2. sess[ref[t]].seq \in Nat
    BY <2>1, SessionFacts DEF StoreTyped
  <2>3. wal' = Logged(sess[ref[t]], t, Reply(t), iso[t])
    BY <1>21 DEF LogReply
  <2>4. wal' \in [Keys -> Seq(Entry)]
    BY <1>4, <1>19, <2>1, <2>2, <2>3, MessageFacts DEF Logged, Holding
  <2>5. F
    BY <1>3, <1>4, <1>21, <2>4 DEF LogReply, archives
  <2>6. T
    BY <1>1, <1>6, <1>7, <1>9, <1>21 DEF LogReply
  <2> QED BY <1>2, <1>5, <1>21, <2>5, <2>6 DEF LogReply
<1>22. ASSUME Finish(t) PROVE T /\ L /\ F /\ R
  <2>1. pc[t] \in Holding /\ MaybeCheckpoint(t)
    BY <1>22 DEF Finish, Holding
  <2>20. PICK state \in {"done", "persisting"} : \E r : Leave(t, state, r)
    BY <1>22 DEF Finish
  <2>2. PICK r : Leave(t, state, r)
    BY <2>20
  <2>3. pc' \in [Turns -> States] /\ ref' \in [Turns -> Sids \cup {None}] /\ live' = live
    BY <1>9, <1>12, <2>1, <2>2
  <2>4. F
    BY <1>3, <1>4, <1>13, <1>22, <2>1 DEF Finish
  <2> QED BY <1>1, <1>2, <1>5, <1>22, <2>3, <2>4 DEF Finish
<1>23. ASSUME NEW k \in Keys, Persist(k) PROVE queue' \subseteq [key : Keys, file : TidyFiles]
  BY <1>10, <1>4, <1>23 DEF Live, Persist
<1>24. ASSUME PersistTurn(t) PROVE T /\ L /\ F /\ R
  BY <1>24, <1>23, <1>3, <1>4, <1>1, <1>2, <1>5, <1>6, <1>7, <1>9 DEF PersistTurn, Course,
     archives
<1>25. ASSUME Abandon(t) PROVE T /\ L /\ F /\ R
  <2>1. CASE pc[t] = "committing"
    BY <1>25, <2>1, <1>9, <1>12, <1>3, <1>4, <1>13, <1>1, <1>2, <1>5 DEF Abandon, Holding
  <2>2. CASE pc[t] # "committing"
    BY <1>1, <1>2, <1>3, <1>4, <1>5, <1>6, <1>7, <1>9, <1>25, <2>2 DEF Abandon, mind, files, archives
  <2> QED BY <2>1, <2>2
<1> QED
  BY <1>14, <1>15, <1>16, <1>17, <1>18, <1>20, <1>21, <1>22, <1>24, <1>25
  DEF TurnStep, T, L, F, R


(* Every step keeps types.                                                 *)
LEMMA NextTyped ==
  ASSUME ConvTyped, Locks, Course, Next
  PROVE  ConvTyped'
<1> DEFINE T == TurnsTyped'
           L == live' \in [Keys -> Sids \cup {None}]
           F == FilesTyped'
           R == RestTyped'
<1> USE DEF ConvTyped
<1>1. sess' \in [Sids -> Session] /\ \A s \in Sids : Tidy(sess'[s])
  BY SessDomain, NextSession
<1>2. turnVars' = turnVars => T
  BY DEF TurnsTyped, turnVars
<1>3. live' = live => L
  BY DEF StoreTyped
<1>4. files' = files => F
  BY DEF FilesTyped, files, archives
<1>5. ASSUME json' \in [Keys -> TidyFiles \cup {None}], queue' \subseteq [key : Keys, file : TidyFiles],
             wal' \in [Keys -> Seq(Entry)], ckpt' \in [Keys -> Nat],
             archived' \subseteq Messages, deadEnd' \subseteq Messages
      PROVE  F
  BY <1>5 DEF FilesTyped
<1>6. /\ json \in [Keys -> TidyFiles \cup {None}]
      /\ queue \subseteq [key : Keys, file : TidyFiles]
      /\ wal \in [Keys -> Seq(Entry)] /\ ckpt \in [Keys -> Nat]
      /\ archived \subseteq Messages /\ deadEnd \subseteq Messages
  BY DEF FilesTyped
<1>7. scene' = scene /\ scene \in Scenes /\ scene.budget \in [BoundNames -> Nat]
  BY ConversationsAssumption DEF Next, RestTyped
<1>8. spent' = spent => spent' \in [BoundNames -> Nat] /\ \A what \in BoundNames : spent'[what] <= scene'.budget[what]
  BY <1>7 DEF RestTyped
<1>9. \A what \in BoundNames : Spend(what) =>
         spent' \in [BoundNames -> Nat] /\ \A x \in BoundNames : spent'[x] <= scene'.budget[x]
  BY <1>7 DEF RestTyped, Spend
<1>10. {"crash", "stop", "expire", "reset", "flip"} \subseteq BoundNames
  BY DEF BoundNames
<1>11. ASSUME isolated' \in BOOLEAN, stage' \in Stages, sweep' \subseteq Keys, resetting' \subseteq Keys,
              spent' \in [BoundNames -> Nat], \A what \in BoundNames : spent'[what] <= scene'.budget[what]
       PROVE  R
  BY <1>7, <1>11 DEF RestTyped
<1>12. isolated \in BOOLEAN /\ stage \in Stages /\ sweep \subseteq Keys /\ resetting \subseteq Keys
  BY DEF RestTyped
<1>13. /\ \A s \in Sids : /\ Said(sess[s].trunk) \subseteq Messages
                          /\ Said(sess[s].lane) \subseteq Messages
       /\ \A k \in Keys, s \in Sids : WriteOf(k, s) \in [key : Keys, file : TidyFiles]
       /\ \A k \in Live : k \in Keys /\ live[k] \in Sids
       /\ \A k \in DirtyKeys : k \in Live
       /\ \A f \in TidyFiles : Said(f.trunk) \subseteq Messages /\ Said(f.lane) \subseteq Messages
  BY StoreFacts
<1> HIDE DEF T, L, F, R
<1>14. ASSUME NEW k \in Keys, Persist(k) PROVE queue' \subseteq [key : Keys, file : TidyFiles]
  BY <1>13, <1>14, <1>6 DEF Live, Persist
<1>15. ASSUME NEW ok, NEW ended \in SUBSET Sids, ArchiveBoth(ok, ended)
       PROVE  archived' \subseteq Messages /\ deadEnd' \subseteq Messages
  BY <1>6, <1>13, <1>15 DEF ArchiveBoth, Archived
<1>16. ASSUME Die PROVE T /\ L /\ F
  <2>1. T
    BY <1>16 DEF Die, TurnsTyped, States, InFlight, T
  <2>2. L
    BY <1>16 DEF Die, L
  <2>3. F
    BY <1>5, <1>6, <1>16 DEF Die, archives
  <2> QED BY <2>1, <2>2, <2>3
<1>17. ASSUME NEW t \in Turns, NEW k \in Keys, Admit(t, k) PROVE T /\ L /\ F /\ R
  <2>1. T
    BY <1>17, <1>12 DEF Admit, TurnsTyped, States, InFlight, T
  <2> QED BY <1>3, <1>4, <1>8, <1>11, <1>12, <1>17, <2>1 DEF Admit, mind, background
<1>18. ASSUME NEW t \in Turns, TurnStep(t) PROVE T /\ L /\ F /\ R
  BY <1>7, <1>18, TurnTyped DEF T, L, F, R
<1>19. ASSUME NEW w \in queue, WriteFile(w) PROVE T /\ L /\ F /\ R
  BY <1>6, <1>19, <1>5, <1>2, <1>3, <1>8, <1>11, <1>12 DEF WriteFile, archives, mind, background
<1>20. ASSUME Flip PROVE T /\ L /\ F /\ R
  BY <1>20, <1>2, <1>3, <1>4, <1>9, <1>10, <1>11, <1>12 DEF Flip, mind, background
<1>21. ASSUME NEW expired \in SUBSET Live, SweepCollect(expired) PROVE T /\ L /\ F /\ R
  BY <1>13, <1>21, <1>2, <1>3, <1>4, <1>9, <1>10, <1>11, <1>12 DEF SweepCollect, mind
<1>22. ASSUME SweepRemove PROVE T /\ L /\ F /\ R
  <2>1. T
    BY <1>2, <1>22 DEF SweepRemove, turnVars
  <2>2. PICK gone \in SUBSET Live, rest \in SUBSET Live, ok \in scene.archive :
           /\ archived' = Archived(ok, UNION {Said(sess[live[k]].trunk) : k \in gone})
           /\ json' = [k \in Keys |-> IF k \in gone THEN None ELSE json[k]]
           /\ live' = [k \in Keys |-> IF k \in gone THEN None ELSE live[k]]
           /\ queue' = queue \cup {WriteOf(k, live[k]) : k \in rest}
    BY <1>13, <1>22 DEF SweepRemove
  <2>3. L
    BY <2>2 DEF L, StoreTyped
  <2>4. archived' \subseteq Messages
    BY <1>6, <1>13, <2>2 DEF Archived
  <2>5. queue' \subseteq [key : Keys, file : TidyFiles]
    BY <1>6, <1>13, <2>2
  <2>6. json' \in [Keys -> TidyFiles \cup {None}]
    BY <1>6, <2>2
  <2>7. F
    BY <1>5, <1>6, <1>22, <2>4, <2>5, <2>6 DEF SweepRemove
  <2>8. R
    BY <1>8, <1>11, <1>12, <1>22 DEF SweepRemove
  <2> QED BY <2>1, <2>3, <2>7, <2>8
<1>23. ASSUME NEW k \in Keys, Reset(k) PROVE T /\ L /\ F /\ R
  <2>1. k \in Live /\ resetting' = resetting \cup {k}
    BY <1>23 DEF Reset
  <2>2. archived' \subseteq Messages /\ deadEnd' \subseteq Messages
    <3>1. PICK ok \in scene.archive : ArchiveBoth(ok, {live[k]})
      BY <1>23 DEF Reset
    <3>2. {live[k]} \in SUBSET Sids
      BY <1>13, <2>1
    <3> QED BY <1>15, <3>1, <3>2
  <2>3. F
    BY <1>5, <1>6, <1>23, <2>2 DEF Reset
  <2>4. R
    BY <1>9, <1>10, <1>11, <1>12, <1>23, <2>1 DEF Reset
  <2> QED BY <1>2, <1>3, <1>23, <2>3, <2>4 DEF Reset
<1>24. ASSUME NEW k \in Keys, PersistReset(k) PROVE T /\ L /\ F /\ R
  BY <1>14, <1>24, <1>5, <1>6, <1>8, <1>11, <1>12, <1>2, <1>3 DEF PersistReset, archives
<1>25. ASSUME Crash \/ Exit PROVE T /\ L /\ F /\ R
  BY <1>25, <1>8, <1>9, <1>10, <1>11, <1>12, <1>16 DEF Crash, Exit, Die, Stages
<1>26. ASSUME Stop PROVE T /\ L /\ F /\ R
  BY <1>2, <1>3, <1>4, <1>9, <1>10, <1>11, <1>12, <1>26 DEF Stop, mind, background, Stages
<1>27. ASSUME ArchiveSessions PROVE T /\ L /\ F /\ R
  <2>1. archived' \subseteq Messages /\ deadEnd' \subseteq Messages /\ queue' \subseteq [key : Keys, file : TidyFiles]
    <3>1. CASE isolated
      BY <1>6, <1>27, <3>1 DEF ArchiveSessions, archives
    <3>2. CASE ~isolated
      <4>1. PICK ok \in scene.archive : ArchiveBoth(ok, {live[k] : k \in Live})
        BY <1>27, <3>2 DEF ArchiveSessions, ArchiveAll
      <4>2. {live[k] : k \in Live} \in SUBSET Sids
        BY <1>13
      <4>3. queue' = queue \cup {WriteOf(k, live[k]) : k \in DirtyKeys}
        BY <1>27, <3>2 DEF ArchiveSessions, ArchiveAll, DirtyWrites
      <4>4. \A k \in DirtyKeys : WriteOf(k, live[k]) \in [key : Keys, file : TidyFiles]
        BY <1>13
      <4> QED BY <1>6, <1>15, <4>1, <4>2, <4>3, <4>4
    <3> QED BY <3>1, <3>2
  <2>2. F
    BY <1>5, <1>6, <1>27, <2>1 DEF ArchiveSessions
  <2>3. R
    BY <1>8, <1>11, <1>12, <1>27 DEF ArchiveSessions, background, Stages
  <2> QED BY <1>2, <1>3, <1>27, <2>2, <2>3 DEF ArchiveSessions
<1>28. ASSUME CleanUpWal PROVE T /\ L /\ F /\ R
  BY <1>28, <1>5, <1>6, <1>8, <1>11, <1>12, <1>2, <1>3 DEF CleanUpWal, archives, background,
     Stages, mind
<1>29. ASSUME Restart PROVE T /\ L /\ F /\ R
  <2> DEFINE stored == {k \in Keys : json[k] # None}
  <2>0. PICK expired \in SUBSET stored, ok \in scene.archive :
           LET orphans == {k \in Keys \ (stored \ expired) : wal[k] # <<>>}
               cleared == {k \in orphans : ok \/ PastCheckpoint(k) = {}}
           IN  /\ IF expired = {} THEN UNCHANGED spent ELSE Spend("expire")
               /\ Load(stored \ expired)
               /\ archived' = Archived(ok, (UNION {Said(json[k].trunk) : k \in expired})
                                           \cup {e.said : e \in UNION {PastCheckpoint(k) : k \in orphans}})
               /\ wal' = [k \in Keys |-> IF k \in cleared THEN <<>> ELSE wal[k]]
               /\ ckpt' = [k \in Keys |-> IF k \in cleared THEN 0 ELSE ckpt[k]]
    BY <1>29 DEF Restart
  <2> DEFINE orphans == {k \in Keys \ (stored \ expired) : wal[k] # <<>>}
             cleared == {k \in orphans : ok \/ PastCheckpoint(k) = {}}
  <2>1. /\ orphans \subseteq Keys
        /\ IF expired = {} THEN UNCHANGED spent ELSE Spend("expire")
        /\ Load(stored \ expired)
        /\ archived' = Archived(ok, (UNION {Said(json[k].trunk) : k \in expired})
                                    \cup {e.said : e \in UNION {PastCheckpoint(k) : k \in orphans}})
        /\ wal' = [k \in Keys |-> IF k \in cleared THEN <<>> ELSE wal[k]]
        /\ ckpt' = [k \in Keys |-> IF k \in cleared THEN 0 ELSE ckpt[k]]
    BY <2>0
  <2> HIDE DEF orphans, cleared
  <2>2. PICK loaded \in SUBSET stored : loaded = stored \ expired
    OBVIOUS
  <2>3. L /\ json' \in [Keys -> TidyFiles \cup {None}]
    <3>1. Load(loaded)
      BY <2>1, <2>2
    <3>2. loaded \in SUBSET Keys
      BY <2>2
    <3>3. Arc(loaded) \in [loaded -> Sids]
      BY <3>2, ArcFacts
    <3>4. /\ json' = [k \in Keys |-> IF k \in loaded THEN json[k] ELSE None]
          /\ live' = [k \in Keys |-> IF k \in loaded THEN Arc(loaded)[k] ELSE None]
      BY <3>1 DEF Load, Arc
    <3> QED BY <1>6, <3>3, <3>4 DEF L
  <2>4. archived' \subseteq Messages
    <3>1. \A k \in expired : Said(json[k].trunk) \subseteq Messages
      BY <1>6, <1>13
    <3>2. \A k \in Keys : \A e \in PastCheckpoint(k) : e.said \in Messages
      BY <1>6, EntriesFacts DEF PastCheckpoint
    <3>3. UNION {Said(json[k].trunk) : k \in expired} \subseteq Messages
      BY <3>1
    <3>4. {e.said : e \in UNION {PastCheckpoint(k) : k \in orphans}} \subseteq Messages
      BY <2>1, <3>2
    <3> DEFINE A == UNION {Said(json[k].trunk) : k \in expired}
               B == {e.said : e \in UNION {PastCheckpoint(k) : k \in orphans}}
    <3>5. archived' = Archived(ok, A \cup B)
      BY <2>1
    <3>6. A \subseteq Messages /\ B \subseteq Messages
      BY <3>3, <3>4
    <3> HIDE DEF A, B
    <3> QED BY <1>6, <3>5, <3>6 DEF Archived
  <2>5. wal' \in [Keys -> Seq(Entry)] /\ ckpt' \in [Keys -> Nat]
    BY <1>6, <2>1
  <2>6. F
    BY <1>5, <1>6, <1>29, <2>3, <2>4, <2>5 DEF Restart
  <2>7. spent' \in [BoundNames -> Nat] /\ \A what \in BoundNames : spent'[what] <= scene'.budget[what]
    BY <1>8, <1>9, <1>10, <2>1
  <2>8. R
    BY <1>11, <1>12, <1>29, <2>7 DEF Restart, background, Stages
  <2> QED BY <1>2, <1>29, <2>3, <2>6, <2>8 DEF Restart
<1>30. T /\ L /\ F /\ R
  BY <1>17, <1>18, <1>19, <1>20, <1>21, <1>22, <1>23, <1>24, <1>25, <1>26, <1>27, <1>28, <1>29
  DEF Next
<1> QED BY <1>1, <1>30 DEF T, L, F, R, StoreTyped


-----------------------------------------------------------------------------
(* Locks are kept.                                                         *)

\* The ways of a turn.
TurnPath(u) ==
    \/ pc'[u] = pc[u] /\ ref'[u] = ref[u]
    \/ pc[u] = "new" /\ pc'[u] = "admitted" /\ ref'[u] = ref[u]
    \/ pc[u] = "admitted" /\ pc'[u] = "opened" /\ ref'[u] \in Sids
    \/ StartsAt(u, ref[u]) \/ AnswersAt(u, ref[u]) \/ LogsAt(u, ref[u])
    \/ pc[u] \in {"admitted", "opened", "running"} /\ pc'[u] \in {"failed", "killed"} /\ ref'[u] = None
    \/ /\ pc[u] \in {"logging", "committing", "persisting"}
       /\ pc'[u] \in {"persisting", "done", "cut"} /\ ref'[u] = None

\* What of a turn is settled once.
TurnKeeps(u) ==
    /\ refused'[u] = refused[u] \/ AnswersAt(u, ref[u])
    /\ keyOf'[u] = keyOf[u] \/ (pc[u] = "new" /\ pc'[u] = "admitted" /\ keyOf'[u] \in Keys)
    /\ iso'[u] = iso[u] \/ (pc[u] = "new" /\ pc'[u] = "admitted") \/ AnswersAt(u, ref[u])

(* Every step takes a turn one of these ways.                              *)
LEMMA TurnPaths ==
  ASSUME ConvTyped, Locks, Course, Next, NEW u \in Turns
  PROVE  TurnPath(u) /\ TurnKeeps(u) /\ (pc[u] = "new" /\ pc'[u] = "admitted" => keyOf'[u] \in Keys)
<1> DEFINE Goal == TurnPath(u) /\ TurnKeeps(u) /\ (pc[u] = "new" /\ pc'[u] = "admitted" => keyOf'[u] \in Keys)
<1>1. /\ pc \in [Turns -> States] /\ ref \in [Turns -> Sids \cup {None}]
      /\ iso \in [Turns -> BOOLEAN] /\ refused \in [Turns -> BOOLEAN]
      /\ keyOf \in [Turns -> Keys \cup {None}]
  BY DEF ConvTyped, TurnsTyped
<1>2. pc'[u] = pc[u] /\ ref'[u] = ref[u] /\ refused'[u] = refused[u]
      /\ keyOf'[u] = keyOf[u] /\ iso'[u] = iso[u] => Goal
  BY DEF TurnPath, TurnKeeps
<1>3. turnVars' = turnVars => Goal
  BY <1>2 DEF turnVars
<1>4. ASSUME NEW t \in Turns, NEW k \in Keys, Admit(t, k) PROVE Goal
  BY <1>4, <1>1, <1>2 DEF Admit, TurnPath, TurnKeeps
<1>5. ASSUME NEW t \in Turns, TurnStep(t) PROVE Goal
  <2>1. CASE u # t
    <3>1. /\ \A x : [pc EXCEPT ![t] = x][u] = pc[u] /\ [ref EXCEPT ![t] = x][u] = ref[u]
          /\ \A x : [iso EXCEPT ![t] = x][u] = iso[u] /\ [refused EXCEPT ![t] = x][u] = refused[u]
      BY <1>1, <2>1
    <3>2. \A x, r : Leave(t, x, r) => pc'[u] = pc[u] /\ ref'[u] = ref[u]
      BY <3>1 DEF Leave
    <3>3. OpenLive(t) \/ OpenNew(t) \/ Start(t) => Goal
      <4>1. OpenLive(t) => Goal
        BY <1>2, <3>1 DEF OpenLive
      <4>2. ASSUME OpenNew(t) PROVE Goal
        BY <4>2, <3>1, <1>2 DEF OpenNew
      <4>3. ASSUME Start(t) PROVE Goal
        BY <4>3, <1>2, <3>1 DEF Start
      <4> QED BY <4>1, <4>2, <4>3
    <3>4. Fail(t) \/ GiveUp(t) \/ Finish(t) => Goal
      BY <1>2, <3>1, <3>2 DEF Fail, GiveUp, Finish
    <3>5. ASSUME Answer(t) PROVE Goal
      <4>1. PICK shed : shed = (iso[t] \/ isolated)
        OBVIOUS
      <4>2. /\ pc' = [pc EXCEPT ![t] = "logging"] /\ ref' = ref /\ keyOf' = keyOf
            /\ iso' = [iso EXCEPT ![t] = shed]
        BY <3>5, <4>1 DEF Answer
      <4>3. PICK quarantined \in BOOLEAN : refused' = [refused EXCEPT ![t] = quarantined]
        BY <3>5 DEF Answer
      <4> QED BY <1>2, <3>1, <4>2, <4>3
    <3>6. LogReply(t) \/ PersistTurn(t) => Goal
      BY <1>2, <3>1 DEF LogReply, PersistTurn
    <3>7. Abandon(t) => Goal
      BY <1>2, <3>1, <3>2 DEF Abandon
    <3> QED BY <1>5, <3>3, <3>4, <3>5, <3>6, <3>7 DEF TurnStep
  <2>2. CASE u = t
    <3>1. /\ \A x : [pc EXCEPT ![u] = x][u] = x /\ [ref EXCEPT ![u] = x][u] = x
          /\ \A x : [iso EXCEPT ![u] = x][u] = x /\ [refused EXCEPT ![u] = x][u] = x
      BY <1>1
    <3>2. \A x, r : Leave(u, x, r) => pc'[u] = x /\ ref'[u] = None
      BY <3>1 DEF Leave
    <3>3. pc[u] = "persisting" => ref[u] = None
      BY DEF Locks, Holding
    <3>4. OpenLive(u) => Goal
      <4>1. ASSUME OpenLive(u) PROVE live[keyOf[u]] \in Sids
        BY <4>1 DEF OpenLive, Course, ConvTyped, StoreTyped
      <4>2. ASSUME OpenLive(u) PROVE TurnPath(u) /\ TurnKeeps(u) /\ pc[u] # "new"
        BY <3>1, <4>1, <4>2 DEF OpenLive, TurnPath, TurnKeeps
      <4> QED BY <4>2
    <3>5. OpenNew(u) => Goal
      <4>1. ASSUME OpenNew(u) PROVE FreshSid \in Sids
        BY <4>1, FreshFacts DEF OpenNew, Course, Locks, Holding
      <4>2. ASSUME OpenNew(u) PROVE TurnPath(u) /\ TurnKeeps(u) /\ pc[u] # "new"
        BY <4>2, <3>1, <4>1 DEF OpenNew, TurnPath, TurnKeeps
      <4> QED BY <4>2
    <3>6. ASSUME Start(u) PROVE Goal
      BY <3>6, StartMoves DEF Start, TurnPath, TurnKeeps
    <3>7. Fail(u) => Goal
      BY <3>2 DEF Fail, TurnPath, TurnKeeps
    <3>8. GiveUp(u) => Goal
      BY <3>1 DEF GiveUp, TurnPath, TurnKeeps
    <3>9. ASSUME Answer(u) PROVE Goal
      BY <3>9, AnswerMoves DEF Answer, TurnPath, TurnKeeps
    <3>10. ASSUME LogReply(u) PROVE Goal
      BY <3>10, LogMoves DEF LogReply, TurnPath, TurnKeeps
    <3>11. Finish(u) => Goal
      BY <3>2 DEF Finish, TurnPath, TurnKeeps
    <3>12. PersistTurn(u) => Goal
      BY <3>1, <3>3 DEF PersistTurn, TurnPath, TurnKeeps
    <3>13. Abandon(u) => Goal
      BY <3>1, <3>2, <3>3 DEF Abandon, TurnPath, TurnKeeps
    <3> QED
      BY <1>5, <2>2, <3>4, <3>5, <3>6, <3>7, <3>8, <3>9, <3>10, <3>11, <3>12, <3>13 DEF TurnStep
  <2> QED BY <2>1, <2>2
<1>6. ASSUME Die PROVE Goal
  <2>1. /\ pc'[u] = CASE pc[u] \in {"admitted", "opened", "running"} -> "killed"
                      [] pc[u] \in {"logging", "committing", "persisting"} -> "cut"
                      [] OTHER -> pc[u]
        /\ ref'[u] = None /\ refused' = refused /\ keyOf' = keyOf /\ iso' = iso
    BY <1>6 DEF Die
  <2>2. CASE pc[u] \in {"admitted", "opened", "running"}
    BY <2>1, <2>2 DEF TurnPath, TurnKeeps
  <2>3. CASE pc[u] \in {"logging", "committing", "persisting"}
    BY <2>1, <2>3 DEF TurnPath, TurnKeeps
  <2>4. CASE pc[u] \notin {"admitted", "opened", "running", "logging", "committing", "persisting"}
    BY <2>4, <2>1, <1>2 DEF Locks, Holding
  <2> QED BY <2>2, <2>3, <2>4
<1> HIDE DEF Goal
<1>7. ASSUME NEW w \in queue, WriteFile(w) PROVE Goal
  BY <1>3, <1>7 DEF WriteFile
<1>8. ASSUME NEW expired \in SUBSET Live, SweepCollect(expired) PROVE Goal
  BY <1>3, <1>8 DEF SweepCollect
<1>9. SweepRemove => Goal
  BY <1>3 DEF SweepRemove, turnVars
<1>10. ASSUME NEW k \in Keys, Reset(k) \/ PersistReset(k) PROVE Goal
  BY <1>3, <1>10 DEF Reset, PersistReset
<1>11. Flip \/ Stop \/ CleanUpWal => Goal
  BY <1>3 DEF Flip, Stop, CleanUpWal
<1>12. Crash \/ Exit => Goal
  BY <1>6 DEF Crash, Exit
<1>13. ArchiveSessions \/ Restart => Goal
  BY <1>3 DEF ArchiveSessions, Restart
<1> QED BY <1>4, <1>5, <1>7, <1>8, <1>9, <1>10, <1>11, <1>12, <1>13 DEF Next, Goal

(* What a turn at work keeps: its session, locked by it.                   *)
LEMMA AtWork ==
  ASSUME ConvTyped, Locks, Course, Next, NEW u \in Turns, pc[u] \in Holding,
         pc'[u] = pc[u], ref'[u] = ref[u]
  PROVE  ref[u] \in Sids /\ sess'[ref[u]] = sess[ref[u]]
<1>1. ref[u] \in Sids /\ sess[ref[u]].lock = u
  BY DEF ConvTyped, TurnsTyped, Locks
<1>2. PICK s \in Sids : s = ref[u]
  BY <1>1
<1>3. SessionMove(s)
  BY SessionMoves
<1>4. ~Dropped(s)
  BY <1>2 DEF Dropped, Idle
<1>5. ~Cleaned(s) /\ ~Emptied(s)
  BY <1>1, <1>2, ConstantFacts DEF Cleaned, Emptied, Unlocked
<1>6. ~Read(s)
  BY <1>1, ConstantFacts DEF Read
<1>7. ASSUME TurnMove(s) PROVE FALSE
  <2>1. PICK t \in Turns : /\ ref[t] = s
                           /\ \/ StartsAt(t, s) \/ FailsAt(t, s) \/ AnswersAt(t, s)
                              \/ LogsAt(t, s) \/ LeavesAt(t, s)
    BY <1>7 DEF TurnMove
  <2>2. ~StartsAt(t, s)
    BY <1>1, <1>2, ConstantFacts DEF StartsAt, Unlocked
  <2>3. pc[t] \in Holding
    BY <2>1, <2>2 DEF FailsAt, AnswersAt, LogsAt, LeavesAt, Holding
  <2>4. t = u
    BY <1>1, <1>2, <2>1, <2>3 DEF Locks
  <2>5. pc \in [Turns -> States]
    BY DEF ConvTyped, TurnsTyped
  <2> QED BY <2>1, <2>2, <2>4, <2>5 DEF FailsAt, AnswersAt, LogsAt, LeavesAt
<1> QED BY <1>1, <1>2, <1>3, <1>4, <1>5, <1>6, <1>7 DEF SessionMove, Untouched

(* The lock of a session a step of its turn ends in.                       *)
LEMMA MovedLock ==
  ASSUME ConvTyped, Locks, NEW u \in Turns, NEW s \in Sids, ref[u] = s
  PROVE  /\ StartsAt(u, s) => sess'[s].lock = u /\ WithMine(sess'[s], u)
         /\ AnswersAt(u, s) \/ LogsAt(u, s) => sess'[s].lock = u
         /\ FailsAt(u, s) \/ LeavesAt(u, s) => sess'[s].lock = None
<1>1. sess[s] \in Session /\ Tidy(sess[s])
  BY DEF ConvTyped, StoreTyped
<1>2. /\ pc[u] \in Holding => sess[s].lock = u
      /\ pc[u] = "running" => WithMine(sess[s], u)
  BY DEF Locks
<1>3. ASSUME StartsAt(u, s) PROVE sess'[s].lock = u /\ WithMine(sess'[s], u)
  <2>1. PICK reset \in BOOLEAN, long \in BOOLEAN, summed \in BOOLEAN :
            /\ long => Len(Begins(sess[s], u, reset).trunk) >= MinMessages
            /\ sess'[s] = Started(sess[s], u, reset, long, summed)
    BY <1>3 DEF StartsAt
  <2>2. iso \in [Turns -> BOOLEAN]
    BY DEF ConvTyped, TurnsTyped
  <2>3. PICK w : w = sess'[s]
    OBVIOUS
  <2>4. w.lock = u /\ Len(w.trunk) >= 1 /\ w.trunk[Len(w.trunk)] = Question(u)
    BY <1>1, <2>1, <2>2, <2>3, StartedFacts
  <2> QED BY <2>3, <2>4 DEF WithMine
<1>4. ASSUME AnswersAt(u, s) PROVE sess'[s].lock = u
  <2>1. PICK quarantined \in BOOLEAN :
            /\ quarantined => sess[s].fallbacks < MaxFallbacks
            /\ sess'[s] = Answers(sess[s], u, iso[u] \/ isolated, quarantined)
    BY <1>4 DEF AnswersAt
  <2>2. PICK shed \in BOOLEAN : shed = (iso[u] \/ isolated)
    OBVIOUS
  <2>3. WithMine(sess[s], u) /\ sess[s].lock = u
    BY <1>2, <1>4 DEF AnswersAt, Holding
  <2>4. sess'[s] = Answers(sess[s], u, shed, quarantined)
    BY <2>1, <2>2
  <2> QED BY <1>1, <2>1, <2>3, <2>4, AnswersFacts
<1>5. ASSUME LogsAt(u, s) PROVE sess'[s].lock = u
  BY ConversationsAssumption, <1>2, <1>5, <1>1, TrimmedFacts DEF ConvTyped, TurnsTyped, RestTyped,
     LogsAt, Holding
<1>6. ASSUME FailsAt(u, s) PROVE sess'[s].lock = None
  BY <1>2, <1>6, <1>1, RolledBackFacts, ReleasedFacts DEF FailsAt, WithMine
<1>7. ASSUME LeavesAt(u, s) PROVE sess'[s].lock = None
  <2>1. PICK dirty \in BOOLEAN : sess'[s] = Released([sess[s] EXCEPT !.dirty = dirty])
    BY <1>7 DEF LeavesAt
  <2>2. [sess[s] EXCEPT !.dirty = dirty] \in Session /\ Tidy([sess[s] EXCEPT !.dirty = dirty])
    BY <1>1, SetDirtyFacts
  <2> QED BY <2>1, <2>2, ReleasedFacts
<1> QED BY <1>3, <1>4, <1>5, <1>6, <1>7


(* Who holds no session has none, and who holds one has its lock.          *)
LEMMA NextHolders ==
  ASSUME ConvTyped, Locks, Course, Next, ConvTyped', NEW u \in Turns
  PROVE  /\ ref'[u] # None <=> pc'[u] \in {"opened"} \cup Holding
         /\ pc'[u] \in Holding => sess'[ref'[u]].lock = u
         /\ pc'[u] = "running" => WithMine(sess'[ref'[u]], u)
<1>1. TurnPath(u)
  BY TurnPaths
<1>2. /\ pc \in [Turns -> States] /\ ref \in [Turns -> Sids \cup {None}] /\ None \notin Sids
  BY ConstantFacts DEF ConvTyped, TurnsTyped
<1>3. /\ ref[u] # None <=> pc[u] \in {"opened"} \cup Holding
      /\ pc[u] \in Holding => sess[ref[u]].lock = u
      /\ pc[u] = "running" => WithMine(sess[ref[u]], u)
  BY DEF Locks
<1>4. CASE pc'[u] = pc[u] /\ ref'[u] = ref[u]
  BY <1>4, AtWork, <1>3 DEF Holding
<1>5. CASE pc[u] = "new" /\ pc'[u] = "admitted" /\ ref'[u] = ref[u]
  BY <1>3, <1>5 DEF Holding
<1>6. CASE pc[u] = "admitted" /\ pc'[u] = "opened" /\ ref'[u] \in Sids
  BY <1>2, <1>6 DEF Holding
<1>7. ASSUME NEW s \in Sids, ref[u] = s, StartsAt(u, s) \/ AnswersAt(u, s) \/ LogsAt(u, s)
      PROVE  /\ pc'[u] \in Holding /\ ref'[u] = s /\ sess'[s].lock = u
             /\ pc'[u] = "running" => WithMine(sess'[s], u)
  <2>1. CASE StartsAt(u, s)
    BY <1>7, <2>1, MovedLock, <1>2 DEF StartsAt, Holding
  <2>2. CASE AnswersAt(u, s)
    BY <1>7, <2>2, MovedLock, <1>2 DEF AnswersAt, Holding
  <2>3. CASE LogsAt(u, s)
    BY <1>7, <2>3, MovedLock, <1>2 DEF LogsAt, Holding
  <2> QED BY <1>7, <2>1, <2>2, <2>3
<1>8. CASE StartsAt(u, ref[u]) \/ AnswersAt(u, ref[u]) \/ LogsAt(u, ref[u])
  BY <1>8, <1>2, <1>3, <1>7 DEF StartsAt, AnswersAt, LogsAt, Holding
<1>9. CASE /\ pc[u] \in {"admitted", "opened", "running"}
           /\ pc'[u] \in {"failed", "killed"} /\ ref'[u] = None
  BY <1>9 DEF Holding
<1>10. CASE /\ pc[u] \in {"logging", "committing", "persisting"}
            /\ pc'[u] \in {"persisting", "done", "cut"} /\ ref'[u] = None
  BY <1>10 DEF Holding
<1> QED BY <1>1, <1>4, <1>5, <1>6, <1>8, <1>9, <1>10 DEF TurnPath

(* A locked session is the one its turn has, and one that nobody has is    *)
(* nothing.                                                                *)
LEMMA NextHeld ==
  ASSUME ConvTyped, Locks, Course, Next, NEW s \in Sids
  PROVE  /\ sess'[s].lock # None => pc'[sess'[s].lock] \in Holding /\ ref'[sess'[s].lock] = s
         /\ Idle(s)' => sess'[s] = NewSession
<1> DEFINE Fine == /\ sess'[s].lock # None => /\ pc'[sess'[s].lock] \in Holding
                                              /\ ref'[sess'[s].lock] = s
                   /\ Idle(s)' => sess'[s] = NewSession
<1>1. /\ pc \in [Turns -> States] /\ sess[s] \in Session /\ Tidy(sess[s]) /\ None \notin Turns
      /\ sess[s].lock \in Turns \cup {None}
  BY ConstantFacts, SessionFacts DEF ConvTyped, TurnsTyped, StoreTyped
<1>2. /\ sess[s].lock # None => pc[sess[s].lock] \in Holding /\ ref[sess[s].lock] = s
      /\ Idle(s) => sess[s] = NewSession
  BY DEF Locks
<1>3. ASSUME Untouched(s) PROVE Fine
  BY <1>3, <1>1, <1>2 DEF Untouched
<1>4. ASSUME Dropped(s) PROVE Fine
  BY <1>4 DEF Dropped, NewSession
<1>5. ASSUME Cleaned(s) PROVE Fine
  BY <1>1, <1>5 DEF Cleaned, Unlocked, Session
<1>6. ASSUME Emptied(s) PROVE Fine
  <2>1. Begun(sess[s]) \in Session /\ Begun(sess[s]).lock = None
    BY <1>1, <1>6, BegunFacts DEF Emptied, Unlocked, SameCursor
  <2>2. PICK b \in Session : b = Begun(sess[s])
    BY <2>1
  <2>3. sess'[s] = [b EXCEPT !.dirty = TRUE] /\ b.lock = None
    BY <1>6, <2>1, <2>2 DEF Emptied
  <2>4. sess'[s].lock = None
    BY <2>3 DEF Session
  <2> QED BY <1>6, <2>4 DEF Emptied
<1>7. ASSUME Read(s) PROVE Fine
  <2>1. PICK k \in Keys : json[k] # None /\ live'[k] = s /\ sess'[s] = Loaded(json[k])
    BY <1>7 DEF Read
  <2>2. sess'[s].lock = None
    BY <2>1 DEF Loaded, NewSession
  <2> QED BY <2>1, <2>2 DEF Idle
<1>8. ASSUME NEW t \in Turns, ref[t] = s,
             StartsAt(t, s) \/ FailsAt(t, s) \/ AnswersAt(t, s) \/ LogsAt(t, s) \/ LeavesAt(t, s)
      PROVE  Fine
  <2>1. CASE FailsAt(t, s) \/ LeavesAt(t, s)
    BY <1>8, <2>1, MovedLock DEF FailsAt, LeavesAt
  <2>2. CASE StartsAt(t, s) \/ AnswersAt(t, s) \/ LogsAt(t, s)
    BY <1>8, <2>2, MovedLock, <1>1 DEF StartsAt, AnswersAt, LogsAt, Holding, Idle
  <2> QED BY <1>8, <2>1, <2>2
<1>9. SessionMove(s)
  BY SessionMoves
<1> QED BY <1>3, <1>4, <1>5, <1>6, <1>7, <1>8, <1>9 DEF SessionMove, TurnMove

(* Every step keeps the locks.                                             *)
LEMMA NextLocks ==
  ASSUME ConvTyped, Locks, Course, Next, ConvTyped'
  PROVE  Locks'
BY NextHolders, NextHeld DEF Locks


(* An admitted turn has its identity, and nothing survives the process.    *)
LEMMA NextCourse ==
  ASSUME ConvTyped, Locks, Course, Next
  PROVE  Course'
<1>1. \A t \in Turns : pc[t] # "new" => keyOf[t] \in Keys
  BY DEF Course
<1>2. ASSUME NEW u \in Turns, pc'[u] # "new" PROVE keyOf'[u] \in Keys
  BY TurnPaths, <1>2, <1>1 DEF TurnPath, StartsAt, AnswersAt, LogsAt, TurnKeeps
<1> DEFINE Over == /\ \A t \in Turns : pc'[t] \notin InFlight
                   /\ \A k \in Keys : live'[k] = None
                   /\ queue' = {} /\ sweep' = {} /\ resetting' = {}
<1>3. ASSUME stage' = "down" PROVE Over
  <2>1. ASSUME Die PROVE Over
    BY <2>1 DEF Die, InFlight
  <2>2. stage = "down" => /\ \A t \in Turns : pc[t] \notin InFlight
                          /\ \A k \in Keys : live[k] = None
                          /\ queue = {} /\ sweep = {} /\ resetting = {}
    BY DEF Course
  <2>3. ASSUME NEW t \in Turns, TurnStep(t) PROVE stage' = stage /\ pc[t] \in InFlight
    <3>1. OpenLive(t) \/ OpenNew(t) => stage' = stage /\ pc[t] \in InFlight
      BY DEF OpenLive, OpenNew, InFlight
    <3>2. Start(t) => stage' = stage /\ pc[t] \in InFlight
      BY DEF Start, InFlight
    <3>3. Fail(t) \/ GiveUp(t) => stage' = stage /\ pc[t] \in InFlight
      BY DEF Fail, GiveUp, InFlight
    <3>4. Answer(t) => stage' = stage /\ pc[t] \in InFlight
      BY DEF Answer, InFlight
    <3>5. LogReply(t) \/ Finish(t) => stage' = stage /\ pc[t] \in InFlight
      BY DEF LogReply, Finish, InFlight
    <3>6. PersistTurn(t) \/ Abandon(t) => stage' = stage /\ pc[t] \in InFlight
      BY DEF PersistTurn, Abandon, InFlight
    <3> QED BY <2>3, <3>1, <3>2, <3>3, <3>4, <3>5, <3>6 DEF TurnStep
  <2>4. ASSUME NEW t \in Turns, NEW k \in Keys, Admit(t, k) PROVE FALSE
    BY <1>3, <2>4 DEF Admit
  <2>5. ASSUME NEW w \in queue, WriteFile(w) PROVE FALSE
    BY <1>3, <2>2, <2>5 DEF WriteFile
  <2>6. Flip => Over
    BY <1>3, <2>2 DEF Flip, turnVars, mind, files, background
  <2>7. ASSUME NEW expired \in SUBSET Live, SweepCollect(expired) PROVE FALSE
    BY <1>3, <2>7 DEF SweepCollect
  <2>8. ~SweepRemove
    BY <1>3 DEF SweepRemove
  <2>9. ASSUME NEW k \in Keys, Reset(k) PROVE FALSE
    BY <1>3, <2>9 DEF Reset
  <2>10. ASSUME NEW k \in Keys, PersistReset(k) PROVE FALSE
    BY <1>3, <2>2, <2>10 DEF PersistReset
  <2>11. Crash \/ Exit => Over
    BY <2>1 DEF Crash, Exit
  <2>12. ~Stop /\ ~ArchiveSessions /\ ~CleanUpWal /\ ~Restart
    BY <1>3 DEF Stop, ArchiveSessions, CleanUpWal, Restart
  <2>13. ASSUME NEW t \in Turns, TurnStep(t) PROVE FALSE
    BY <1>3, <2>2, <2>3, <2>13
  <2> HIDE DEF Over
  <2> QED BY <2>4, <2>5, <2>6, <2>7, <2>8, <2>9, <2>10, <2>11, <2>12, <2>13 DEF Next
<1> QED BY <1>2, <1>3 DEF Course

(* touch: the key moves behind all the others.                             *)
LEMMA LatestFacts ==
  ASSUME InOrder(staler, Live), NEW ks, NEW k \in ks, ks \ {k} \subseteq Live
  PROVE  InOrder(Latest(k, ks), ks)
<1> DEFINE o == Latest(k, ks)
<1>1. \A i, j : <<i, j>> \in o <=>
         \/ <<i, j>> \in staler /\ i \in ks \ {k} /\ j \in ks \ {k}
         \/ i \in ks \ {k} /\ j = k
  <2>1. \A i, j : <<i, j>> \in {p \in staler : {p[1], p[2]} \subseteq ks \ {k}}
            <=> <<i, j>> \in staler /\ i \in ks \ {k} /\ j \in ks \ {k}
    OBVIOUS
  <2>2. \A i, j : <<i, j>> \in {<<l, k>> : l \in ks \ {k}} <=> i \in ks \ {k} /\ j = k
    OBVIOUS
  <2> QED BY ZenonT(40), <2>1, <2>2 DEF Latest
<1>2. \A i, j \in Live : i # j => (<<i, j>> \in staler <=> <<j, i>> \notin staler)
  BY DEF InOrder
<1>3. \A i, j, l \in Live : <<i, j>> \in staler /\ <<j, l>> \in staler => <<i, l>> \in staler
  BY DEF InOrder
<1>4. \A i \in Live : <<i, i>> \notin staler
  BY DEF InOrder
<1>5. o \subseteq ks \X ks
  BY DEF InOrder, Latest
<1> HIDE DEF o
<1>6. \A i, j \in ks : i # j => (<<i, j>> \in o <=> <<j, i>> \notin o)
  BY <1>1, <1>2
<1>7. \A i, j, l \in ks : <<i, j>> \in o /\ <<j, l>> \in o => <<i, l>> \in o
  BY <1>1, <1>3
<1>8. \A i \in ks : <<i, i>> \notin o
  <2>1. SUFFICES ASSUME NEW i \in ks, <<i, i>> \in o PROVE FALSE
    OBVIOUS
  <2>2. <<i, i>> \in staler /\ i \in ks \ {k}
    BY <1>1, <2>1
  <2>3. i \in Live
    BY <2>2
  <2> QED BY <1>4, <2>2, <2>3
<1>9. InOrder(o, ks)
  BY <1>5, <1>6, <1>7, <1>8 DEF InOrder
<1> QED BY <1>9 DEF o

(* The live conversations stay in an order.                                *)
LEMMA NextOrder ==
  ASSUME ConvTyped, Locks, Course, InOrder(staler, Live), Next
  PROVE  InOrder(staler, Live)'
<1> DEFINE Goal == InOrder(staler', Live')
<1>1. live \in [Keys -> Sids \cup {None}] /\ live' \in [Keys -> Sids \cup {None}] /\ None \notin Sids
  BY ConstantFacts, NextTyped DEF ConvTyped, StoreTyped
<1>2. live' = live => Live' = Live
  BY DEF Live
<1>3. live' = live /\ staler' = staler => Goal
  BY <1>2
<1>4. mind' = mind => Goal
  BY <1>3 DEF mind
<1>5. ASSUME NEW k \in Live, live' = live, staler' = Latest(k, Live) PROVE Goal
  BY <1>2, <1>5, LatestFacts
<1>6. ASSUME \A k \in Keys : live'[k] = None, staler' = {} PROVE Goal
  BY <1>6 DEF Live, InOrder
<1>7. ASSUME NEW t \in Turns, OpenNew(t) PROVE Goal
  <2>1. keyOf[t] \in Keys
    BY <1>7 DEF OpenNew, Course
  <2>2. PICK k \in Keys : k = keyOf[t]
    BY <2>1
  <2>3. FreshSid \in Sids
    BY <1>7, <2>2, FreshFacts DEF OpenNew, Locks, Holding
  <2>4. PICK full : full = (Cardinality(Live) >= scene.sessions)
    OBVIOUS
  <2>5. PICK evicted \in IF full THEN {{v} : v \in Stalest} ELSE {{}} :
            /\ live' = [j \in Keys |-> IF j = k THEN FreshSid
                                       ELSE IF j \in evicted THEN None ELSE live[j]]
            /\ staler' = Latest(k, (Live \ evicted) \cup {k})
    BY <1>7, <2>2, <2>4 DEF OpenNew
  <2>6. Live' = (Live \ evicted) \cup {k}
    BY <1>1, <2>3, <2>5 DEF Live
  <2>7. InOrder(Latest(k, (Live \ evicted) \cup {k}), (Live \ evicted) \cup {k})
    BY LatestFacts
  <2> QED BY <2>5, <2>6, <2>7
<1>8. ASSUME NEW t \in Turns, Start(t) PROVE Goal
  <2>1. live' = live /\ staler' = IF live[keyOf[t]] = ref[t] THEN Latest(keyOf[t], Live) ELSE staler
    BY <1>8 DEF Start
  <2>2. keyOf[t] \in Keys /\ ref[t] \in Sids
    BY <1>8, StartMoves DEF Start, Course
  <2>3. live[keyOf[t]] = ref[t] => keyOf[t] \in Live
    BY <1>1, <2>2 DEF Live
  <2> QED BY <1>3, <1>5, <2>1, <2>3
<1>9. ASSUME NEW t \in Turns, TurnStep(t) PROVE Goal
  <2>1. OpenLive(t) => Goal
    BY <1>4 DEF OpenLive
  <2>2. \A x, r : Leave(t, x, r) => Goal
    BY <1>3 DEF Leave
  <2>3. Fail(t) \/ GiveUp(t) \/ Finish(t) => Goal
    BY <1>3, <2>2 DEF Fail, GiveUp, Finish
  <2>4. Answer(t) => Goal
    BY <1>3 DEF Answer
  <2>5. LogReply(t) \/ PersistTurn(t) => Goal
    BY <1>3 DEF LogReply, PersistTurn
  <2>6. Abandon(t) => Goal
    BY <1>4, <2>2 DEF Abandon
  <2> QED BY <1>7, <1>8, <1>9, <2>1, <2>3, <2>4, <2>5, <2>6 DEF TurnStep
<1>10. ASSUME NEW t \in Turns, NEW k \in Keys, Admit(t, k) PROVE Goal
  BY <1>4, <1>10 DEF Admit
<1>11. ASSUME NEW w \in queue, WriteFile(w) PROVE Goal
  BY <1>4, <1>11 DEF WriteFile
<1>12. Flip \/ Stop => Goal
  BY <1>4 DEF Flip, Stop
<1>13. ASSUME NEW expired \in SUBSET Live, SweepCollect(expired) PROVE Goal
  BY <1>4, <1>13 DEF SweepCollect
<1>14. ASSUME SweepRemove PROVE Goal
  <2>1. PICK gone : gone = sweep \cap Live
    OBVIOUS
  <2>2. /\ live' = [k \in Keys |-> IF k \in gone THEN None ELSE live[k]]
        /\ staler' = {p \in staler : {p[1], p[2]} \cap gone = {}}
    BY <1>14, <2>1 DEF SweepRemove
  <2>3. Live' = Live \ gone
    BY <2>2 DEF Live
  <2>4. staler \subseteq Live \X Live
    BY DEF InOrder
  <2>5. \A p \in staler : p = <<p[1], p[2]>> /\ p[1] \in Live /\ p[2] \in Live
    BY <2>4
  <2>6. staler' \subseteq Live' \X Live'
    BY <2>2, <2>3, <2>5
  <2>7. \A i, j \in Live' : <<i, j>> \in staler' <=> <<i, j>> \in staler
    BY <2>2, <2>3
  <2>8. \A i \in Live' : i \in Live
    BY <2>3
  <2> QED BY <2>6, <2>7, <2>8 DEF InOrder
<1>15. ASSUME NEW k \in Keys, Reset(k) PROVE Goal
  BY <1>5, <1>15 DEF Reset
<1>16. ASSUME NEW k \in Keys, PersistReset(k) PROVE Goal
  BY <1>3, <1>16 DEF PersistReset
<1>17. ASSUME Die PROVE Goal
  BY <1>6, <1>17 DEF Die
<1>18. Crash \/ Exit => Goal
  BY <1>17 DEF Crash, Exit
<1>19. ArchiveSessions => Goal
  BY <1>3 DEF ArchiveSessions
<1>20. CleanUpWal => Goal
  BY <1>4 DEF CleanUpWal
<1>21. ASSUME Restart PROVE Goal
  <2>1. PICK expired \in SUBSET {k \in Keys : json[k] # None} :
            Load({k \in Keys : json[k] # None} \ expired)
    BY <1>21 DEF Restart
  <2>2. PICK loaded : loaded = {k \in Keys : json[k] # None} \ expired
    OBVIOUS
  <2>3. /\ Load(loaded) /\ loaded \subseteq Keys
    BY <2>1, <2>2
  <2>4. Arc(loaded) \in [loaded -> Sids]
    BY <2>3, ArcFacts
  <2>5. live' = [k \in Keys |-> IF k \in loaded THEN Arc(loaded)[k] ELSE None]
    BY <2>3 DEF Load, Arc
  <2>6. Live' = loaded
    BY <1>1, <2>4, <2>5, <2>3 DEF Live
  <2>7. \E order \in SUBSET (loaded \X loaded) : InOrder(order, loaded) /\ staler' = order
    BY <2>3 DEF Load
  <2> QED BY <2>6, <2>7
<1> HIDE DEF Goal
<1>22. Goal
  BY <1>9, <1>10, <1>11, <1>12, <1>13, <1>14, <1>15, <1>16, <1>18, <1>19, <1>20, <1>21 DEF Next
<1> QED BY <1>22 DEF Goal



-----------------------------------------------------------------------------
(* Where messages may be is kept.                                          *)

(* A turn that was heard stays so, and the one that is heard now.          *)
LEMMA KeptGrows ==
  ASSUME ConvTyped, Locks, Course, Next
  PROVE  /\ Kept \subseteq Kept' /\ Accepted \subseteq Accepted'
         /\ OnlyRefusedWhenHeard => OnlyRefusedWhenHeard'
         /\ \A t \in Turns : pc'[t] \in Heard => /\ Exchange(t) \subseteq Kept'
                                                 /\ ~refused'[t] => Exchange(t) \subseteq Accepted'
<1>1. ASSUME NEW u \in Turns
      PROVE  /\ pc[u] \in Heard => pc'[u] \in Heard /\ refused'[u] = refused[u]
             /\ refused'[u] = refused[u] \/ pc'[u] \in Heard
  BY TurnPaths DEF ConvTyped, TurnsTyped, AnswersAt, TurnPath, StartsAt, LogsAt, Heard, TurnKeeps
<1>2. HeardTurns \subseteq HeardTurns'
  BY <1>1 DEF HeardTurns
<1>3. {u \in HeardTurns : ~refused[u]} \subseteq {u \in HeardTurns' : ~refused'[u]}
  BY <1>1 DEF HeardTurns
<1>4. Kept \subseteq Kept' /\ Accepted \subseteq Accepted'
  BY <1>2, <1>3 DEF Kept, Accepted
<1>5. ASSUME OnlyRefusedWhenHeard PROVE OnlyRefusedWhenHeard'
  BY <1>1, <1>5 DEF OnlyRefusedWhenHeard
<1>6. ASSUME NEW t \in Turns, pc'[t] \in Heard
      PROVE  /\ Exchange(t) \subseteq Kept'
             /\ ~refused'[t] => Exchange(t) \subseteq Accepted'
  BY <1>6 DEF HeardTurns, Kept, Accepted
<1> QED BY <1>4, <1>5, <1>6

(* What was accepted is kept, and an unlocked session is all settled.      *)
LEMMA SettledFacts ==
  ASSUME ConvTyped, Locks, InSessions
  PROVE  /\ Accepted \subseteq Kept
         /\ \A s \in Sids : Unlocked(s) => Said(sess[s].trunk) \subseteq Accepted
         /\ \A s \in Sids : Said(sess[s].lane) \subseteq Kept
         /\ \A t \in Turns : pc[t] \in {"logging", "committing"} =>
               ref[t] \in Sids /\ Said(sess[ref[t]].trunk) \subseteq Accepted
<1>1. Accepted \subseteq Kept
  BY DEF Accepted, Kept
<1>2. \A s \in Sids : Unlocked(s) => Settled(s) = sess[s].trunk
  BY DEF Settled, Unlocked
<1>3. ASSUME NEW t \in Turns, pc[t] \in {"logging", "committing"}
      PROVE  ref[t] \in Sids /\ Settled(ref[t]) = sess[ref[t]].trunk
  BY <1>3 DEF Locks, Holding, ConvTyped, TurnsTyped, Settled
<1> QED BY <1>1, <1>2, <1>3 DEF InSessions

(* A session holds the messages of heard turns, but for that of the turn   *)
(* at work on it.                                                          *)
LEMMA NextInSessions ==
  ASSUME ConvTyped, Locks, Course, Messaging, Next
  PROVE  InSessions'
<1>1. SUFFICES ASSUME NEW s \in Sids
               PROVE  Said(Settled(s)') \subseteq Accepted' /\ Said(sess'[s].lane) \subseteq Kept'
  BY DEF InSessions
<1>2. PICK A, K : A = Accepted' /\ K = Kept'
  OBVIOUS
<1>3. /\ Accepted \subseteq A /\ Kept \subseteq K
      /\ \A t \in Turns : pc'[t] \in Heard => /\ Exchange(t) \subseteq K
                                              /\ ~refused'[t] => Exchange(t) \subseteq A
  BY <1>2, KeptGrows
<1> DEFINE Fine == Said(Settled(s)') \subseteq A /\ Said(sess'[s].lane) \subseteq K
<1>4. /\ Said(Settled(s)) \subseteq Accepted /\ Said(sess[s].lane) \subseteq Kept
      /\ Unlocked(s) => Said(sess[s].trunk) \subseteq Accepted
  BY SettledFacts DEF Messaging, InSessions
<1>5. sess[s] \in Session /\ Tidy(sess[s]) /\ sess[s].lock \in Turns \cup {None} /\ None \notin Turns
  BY ConstantFacts, SessionFacts DEF ConvTyped, StoreTyped
<1>6. /\ sess'[s].lock = None => Settled(s)' = sess'[s].trunk
      /\ \A t \in Turns : sess'[s].lock = t /\ pc'[t] # "running" => Settled(s)' = sess'[s].trunk
      /\ \A t \in Turns : sess'[s].lock = t /\ pc'[t] = "running" =>
                             Settled(s)' = Cut(sess'[s].trunk, Len(sess'[s].trunk) - 1)
  BY <1>5 DEF Settled
<1>7. pc \in [Turns -> States] /\ refused \in [Turns -> BOOLEAN] /\ iso \in [Turns -> BOOLEAN]
  BY DEF ConvTyped, TurnsTyped
<1>8. ASSUME Untouched(s) PROVE Fine
  BY <1>5, <1>8, <1>3, <1>4 DEF Untouched, Settled
<1>9. ASSUME Dropped(s) PROVE Fine
  BY <1>9, NewSessionFacts, ShortFacts, <1>6 DEF Dropped
<1>10. ASSUME Cleaned(s) PROVE Fine
  BY <1>10, <1>5, SetDirtyFacts, <1>3, <1>4, <1>6 DEF Cleaned, Unlocked
<1>11. ASSUME Emptied(s) PROVE Fine
  <2>1. PICK b : b = Begun(sess[s])
    OBVIOUS
  <2>2. b \in Session /\ Tidy(b) /\ b.lock = None /\ Said(b.trunk) = {} /\ Said(b.lane) = {}
    BY <1>5, <1>11, <2>1, BegunFacts DEF SameCursor, Emptied, Unlocked
  <2>3. sess'[s] = [b EXCEPT !.dirty = TRUE]
    BY <1>11, <2>1 DEF Emptied
  <2>4. sess'[s].lock = None /\ sess'[s].trunk = b.trunk /\ sess'[s].lane = b.lane
    BY <2>2, <2>3, SetDirtyFacts
  <2> QED BY <1>6, <2>2, <2>4
<1>12. ASSUME Read(s) PROVE Fine
  <2>1. PICK k \in Keys : json[k] # None /\ sess'[s] = Loaded(json[k])
    BY <1>12 DEF Read
  <2>2. json[k] \in Files /\ Tidy(json[k])
    BY <2>1 DEF ConvTyped, FilesTyped, TidyFiles
  <2>3. sess'[s].lock = None /\ sess'[s].trunk = json[k].trunk /\ sess'[s].lane = json[k].lane
    BY <2>1, <2>2, LoadedFacts
  <2>4. Said(json[k].trunk) \subseteq Accepted /\ Said(json[k].lane) \subseteq Kept
    BY <2>1 DEF Messaging, InFiles, Stored
  <2> QED BY <1>3, <1>6, <2>3, <2>4
<1>13. ASSUME NEW t \in Turns, ref[t] = s, StartsAt(t, s) PROVE Fine
  <2>1. PICK reset \in BOOLEAN, long \in BOOLEAN, summed \in BOOLEAN :
            /\ long => Len(Begins(sess[s], t, reset).trunk) >= MinMessages
            /\ sess'[s] = Started(sess[s], t, reset, long, summed)
    BY <1>13 DEF StartsAt
  <2>2. PICK w, r : w = sess'[s] /\ r = sess[s]
    OBVIOUS
  <2>5. r \in Session /\ Tidy(r) /\ w = Started(r, t, reset, long, summed)
        /\ (long => Len(Begins(r, t, reset).trunk) >= MinMessages)
    BY <1>5, <2>1, <2>2
  <2>6. /\ w.lock = t /\ Said(Cut(w.trunk, Len(w.trunk) - 1)) \subseteq Said(r.trunk)
        /\ Said(w.lane) \subseteq Said(r.lane)
    <3>1. iso \in [Turns -> BOOLEAN] /\ (long => Len(Begins(r, t, reset).trunk) >= MinMessages)
      BY <1>7, <2>5
    <3>2. r \in Session /\ Tidy(r)
      BY <2>5
    <3>3. Started(r, t, reset, long, summed).lock = t
      BY <3>1, <3>2, StartedFacts
    <3>5. Said(Started(r, t, reset, long, summed).lane) \subseteq Said(r.lane)
      BY <3>1, <3>2, StartedFacts
    <3>4. LET x == Started(r, t, reset, long, summed)
          IN  Said(Cut(x.trunk, Len(x.trunk) - 1)) \subseteq Said(r.trunk)
      BY <3>1, <3>2, StartedFacts
    <3> QED BY <2>5, <3>3, <3>4, <3>5
  <2>3. /\ w.lock = t /\ Said(Cut(w.trunk, Len(w.trunk) - 1)) \subseteq Said(sess[s].trunk)
        /\ Said(w.lane) \subseteq Said(sess[s].lane)
    BY <2>2, <2>6
  <2>4. Unlocked(s) /\ pc'[t] = "running"
    BY <1>7, <1>13 DEF StartsAt
  <2> QED BY <1>3, <1>4, <1>6, <2>2, <2>3, <2>4
<1>14. ASSUME NEW t \in Turns, ref[t] = s, FailsAt(t, s) PROVE Fine
  <2>1. sess[s].lock = t /\ pc[t] = "running" /\ WithMine(sess[s], t)
    BY <1>14 DEF FailsAt, Locks, Holding
  <2>2. Settled(s) = Cut(sess[s].trunk, Len(sess[s].trunk) - 1)
    BY <1>5, <2>1 DEF Settled
  <2>3. PICK w : w = RolledBack(sess[s])
    OBVIOUS
  <2>4. w \in Session /\ Tidy(w) /\ w.trunk = Settled(s) /\ w.lane = sess[s].lane
    BY <1>5, <2>1, <2>2, <2>3, RolledBackFacts DEF WithMine
  <2>5. sess'[s] = Released(w)
    BY <1>14, <2>3 DEF FailsAt
  <2>6. sess'[s].lock = None /\ sess'[s].trunk = Settled(s) /\ sess'[s].lane = sess[s].lane
    BY <2>4, <2>5, ReleasedFacts
  <2> QED BY <1>3, <1>4, <1>6, <2>6
<1>15. ASSUME NEW t \in Turns, ref[t] = s, AnswersAt(t, s) PROVE Fine
  <2>1. sess[s].lock = t /\ pc[t] = "running" /\ WithMine(sess[s], t)
    BY <1>15 DEF AnswersAt, Locks, Holding
  <2>2. Settled(s) = Cut(sess[s].trunk, Len(sess[s].trunk) - 1)
    BY <1>5, <2>1 DEF Settled
  <2>3. PICK shed \in BOOLEAN : shed = (iso[t] \/ isolated)
    OBVIOUS
  <2>4. PICK q \in BOOLEAN : /\ q => sess[s].fallbacks < MaxFallbacks
                             /\ refused' = [refused EXCEPT ![t] = q]
                             /\ sess'[s] = Answers(sess[s], t, shed, q)
    BY <1>15, <2>3 DEF AnswersAt
  <2>5. PICK w, told : w = sess'[s] /\ told = Told(sess[s], t, q)
    OBVIOUS
  <2>6. w.lock = t /\ w.trunk = told.trunk /\ Said(w.lane) \subseteq Said(told.lane)
    <3>1. PICK r : r = sess[s]
      OBVIOUS
    <3>2. /\ r \in Session /\ Tidy(r) /\ WithMine(r, t) /\ (q => r.fallbacks < MaxFallbacks)
          /\ r.lock = t
      BY <1>5, <2>1, <2>4, <3>1
    <3>3. w = Answers(r, t, shed, q) /\ told = Told(r, t, q)
      BY <2>4, <2>5, <3>1
    <3>4. w.lock = r.lock
      BY <3>2, <3>3, AnswersFacts
    <3>5. w.trunk = told.trunk
      BY <3>2, <3>3, AnswersFacts
    <3>6. Said(w.lane) \subseteq Said(told.lane)
      BY <3>2, <3>3, AnswersFacts
    <3> QED BY <3>2, <3>4, <3>5, <3>6
  <2>7. /\ ~q => /\ Said(told.trunk) = Said(Settled(s)) \cup Exchange(t)
                 /\ told.lane = sess[s].lane
        /\ q => /\ told.trunk = Settled(s)
                /\ Said(told.lane) = Said(sess[s].lane) \cup Exchange(t)
    <3>1. PICK r : r = sess[s]
      OBVIOUS
    <3>2. r \in Session /\ Tidy(r) /\ WithMine(r, t) /\ (q => r.fallbacks < MaxFallbacks)
      BY <1>5, <2>1, <2>4, <3>1
    <3>3. told = Told(r, t, q) /\ Settled(s) = Cut(r.trunk, Len(r.trunk) - 1)
      BY <2>2, <2>5, <3>1
    <3>4. /\ ~q => /\ told.lane = r.lane
                    /\ Said(told.trunk) = Said(Cut(r.trunk, Len(r.trunk) - 1)) \cup Exchange(t)
          /\ q => /\ told.trunk = Cut(r.trunk, Len(r.trunk) - 1)
                  /\ Said(told.lane) = Said(r.lane) \cup Exchange(t)
      BY ZenonT(40), <3>2, <3>3, ToldFacts
    <3> QED BY <3>1, <3>3, <3>4
  <2>8. pc'[t] = "logging" /\ refused'[t] = q
    BY <1>7, <1>15, <2>4 DEF AnswersAt
  <2>9. Exchange(t) \subseteq K /\ (~q => Exchange(t) \subseteq A)
    BY <1>3, <2>8 DEF Heard
  <2>10. Settled(s)' = w.trunk
    BY <1>6, <2>5, <2>6, <2>8
  <2> QED BY <1>3, <1>4, <2>5, <2>6, <2>7, <2>9, <2>10
<1>16. ASSUME NEW t \in Turns, ref[t] = s, LogsAt(t, s) \/ LeavesAt(t, s) PROVE Fine
  <2>1. sess[s].lock = t /\ pc[t] # "running"
    BY <1>16 DEF LogsAt, LeavesAt, Locks, Holding
  <2>2. Settled(s) = sess[s].trunk
    BY <1>5, <2>1 DEF Settled
  <2>3. CASE LogsAt(t, s)
    <3>1. iso[t] \in BOOLEAN /\ scene.cap \in Nat
      BY <1>7, ConversationsAssumption DEF ConvTyped, RestTyped
    <3>2. sess'[s] = Trimmed(sess[s], iso[t], scene.cap) /\ pc'[t] = "committing"
      BY <1>7, <2>3 DEF LogsAt
    <3>3. PICK w : w = sess'[s]
      OBVIOUS
    <3>5. PICK r : r = sess[s]
      OBVIOUS
    <3>6. r \in Session /\ Tidy(r) /\ r.lock = t /\ w = Trimmed(r, iso[t], scene.cap)
      BY <1>5, <2>1, <3>2, <3>3, <3>5
    <3>7. w.lock = r.lock /\ w.lane = r.lane /\ Said(w.trunk) \subseteq Said(r.trunk)
      BY <3>1, <3>6, TrimmedFacts
    <3>4. w.lock = t /\ w.lane = sess[s].lane /\ Said(w.trunk) \subseteq Said(sess[s].trunk)
      BY <3>5, <3>6, <3>7
    <3> QED BY <1>3, <1>4, <1>6, <2>2, <3>2, <3>3, <3>4
  <2>4. CASE LeavesAt(t, s)
    <3>1. PICK dirty \in BOOLEAN : sess'[s] = Released([sess[s] EXCEPT !.dirty = dirty])
      BY <2>4 DEF LeavesAt
    <3>2. PICK w : w = [sess[s] EXCEPT !.dirty = dirty]
      OBVIOUS
    <3>3. w \in Session /\ Tidy(w) /\ w.trunk = sess[s].trunk /\ w.lane = sess[s].lane
      BY <1>5, <3>2, SetDirtyFacts
    <3>4. sess'[s].lock = None /\ sess'[s].trunk = sess[s].trunk /\ sess'[s].lane = sess[s].lane
      BY <3>1, <3>2, <3>3, ReleasedFacts
    <3> QED BY <1>3, <1>4, <1>6, <2>2, <3>4
  <2> QED BY <1>16, <2>3, <2>4
<1>17. SessionMove(s)
  BY SessionMoves
<1> HIDE DEF Fine
<1>18. Fine
  BY <1>8, <1>9, <1>10, <1>11, <1>12, <1>13, <1>14, <1>15, <1>16, <1>17 DEF SessionMove, TurnMove
<1> QED BY <1>2, <1>18 DEF Fine


\* Session files are what a write was of, and writes are of unlocked sessions.
FilesMove ==
    /\ \A k \in Keys : json'[k] \in {None, json[k]} \/ \E w \in queue : json'[k] = w.file
    /\ \A w \in queue' : \/ w \in queue
                         \/ \E k \in Live : Unlocked(live[k]) /\ w = WriteOf(k, live[k])

(* Every step does that to the session files.                              *)
LEMMA FilesMoves ==
  ASSUME ConvTyped, Locks, Course, Next
  PROVE  FilesMove
<1>1. json' = json /\ queue' \subseteq queue => FilesMove
  BY DEF FilesMove
<1>2. files' = files => FilesMove
  BY <1>1 DEF files
<1>3. ASSUME json' = json, NEW ks \in SUBSET Live, \A k \in ks : Unlocked(live[k]),
             queue' = queue \cup {WriteOf(k, live[k]) : k \in ks}
      PROVE  FilesMove
  BY <1>3 DEF FilesMove
<1>4. \A k \in DirtyKeys : k \in Live
  BY DEF DirtyKeys
<1>5. ASSUME NEW k \in Keys, Persist(k), json' = json PROVE FilesMove
  <2>1. CASE live[k] = None
    BY <1>1, <1>5, <2>1 DEF Persist
  <2>2. CASE live[k] # None
    BY <1>5, <2>2 DEF Persist, Live, FilesMove
  <2> QED BY <2>1, <2>2
<1>6. ASSUME NEW t \in Turns, OpenNew(t) PROVE FilesMove
  <2>1. PICK full : full = (Cardinality(Live) >= scene.sessions)
    OBVIOUS
  <2>2. PICK evicted \in IF full THEN {{v} : v \in Stalest} ELSE {{}} :
            queue' = queue \cup {WriteOf(v, live[v]) : v \in evicted}
    BY <1>6, <2>1 DEF OpenNew
  <2>3. evicted \in SUBSET Live /\ (evicted # {} => full)
    BY <2>2 DEF Stalest
  <2>4. full => AllUnlocked
    BY <1>6, <2>1 DEF OpenNew
  <2>5. \A k \in evicted : Unlocked(live[k])
    BY <2>3, <2>4 DEF AllUnlocked
  <2>6. json' = json
    BY <1>6 DEF OpenNew
  <2> QED BY <1>3, <2>2, <2>3, <2>5, <2>6
<1>7. ASSUME NEW t \in Turns, TurnStep(t) PROVE FilesMove
  <2>1. OpenLive(t) => FilesMove
    BY <1>2 DEF OpenLive
  <2>2. Start(t) \/ Fail(t) \/ GiveUp(t) => FilesMove
    BY <1>1 DEF Start, Fail, GiveUp, files
  <2>3. Answer(t) => FilesMove
    BY <1>1 DEF Answer
  <2>4. LogReply(t) \/ Finish(t) => FilesMove
    BY <1>1 DEF LogReply, Finish
  <2>5. PersistTurn(t) => FilesMove
    BY <1>5 DEF PersistTurn, Course
  <2>6. Abandon(t) => FilesMove
    BY <1>1 DEF Abandon, files
  <2> QED BY <1>6, <1>7, <2>1, <2>2, <2>3, <2>4, <2>5, <2>6 DEF TurnStep
<1>8. ASSUME NEW t \in Turns, NEW k \in Keys, Admit(t, k) PROVE FilesMove
  BY <1>2, <1>8 DEF Admit
<1>9. ASSUME NEW w \in queue, WriteFile(w) PROVE FilesMove
  BY <1>9 DEF WriteFile, ConvTyped, FilesTyped, FilesMove
<1>10. Flip \/ Stop => FilesMove
  BY <1>2 DEF Flip, Stop
<1>11. ASSUME NEW expired \in SUBSET Live, SweepCollect(expired) PROVE FilesMove
  BY <1>2, <1>11 DEF SweepCollect
<1>12. ASSUME SweepRemove PROVE FilesMove
  <2>1. PICK gone : gone = sweep \cap Live
    OBVIOUS
  <2>2. /\ json' = [k \in Keys |-> IF k \in gone THEN None ELSE json[k]]
        /\ queue' = queue \cup {WriteOf(k, live[k]) : k \in DirtyKeys \ gone}
        /\ AllUnlocked
    BY <1>12, <2>1 DEF SweepRemove
  <2>3. \A k \in DirtyKeys : k \in Live /\ Unlocked(live[k])
    BY <1>4, <2>2 DEF AllUnlocked
  <2>4. \A k \in Keys : json'[k] \in {None, json[k]}
    BY <2>2
  <2> QED BY <2>2, <2>3, <2>4 DEF FilesMove
<1>13. ASSUME NEW k \in Keys, Reset(k) PROVE FilesMove
  BY <1>1, <1>13 DEF Reset
<1>14. ASSUME NEW k \in Keys, PersistReset(k) PROVE FilesMove
  BY <1>5, <1>14 DEF PersistReset
<1>15. Crash \/ Exit => FilesMove
  BY <1>1 DEF Crash, Exit, Die
<1>16. ASSUME ArchiveSessions PROVE FilesMove
  <2>1. json' = json
    BY <1>16 DEF ArchiveSessions
  <2>2. CASE isolated
    BY <1>1, <1>16, <2>1, <2>2 DEF ArchiveSessions
  <2>3. CASE ~isolated
    BY <1>16, <2>3, <1>4, <1>3, <2>1 DEF ArchiveSessions, ArchiveAll, DirtyWrites, AllUnlocked
  <2> QED BY <2>2, <2>3
<1>17. CleanUpWal => FilesMove
  BY <1>1 DEF CleanUpWal
<1>18. ASSUME Restart PROVE FilesMove
  <2>1. PICK loaded : Load(loaded)
    BY <1>18 DEF Restart
  <2>2. json' = [k \in Keys |-> IF k \in loaded THEN json[k] ELSE None] /\ queue' = queue
    BY <1>18, <2>1 DEF Load, Restart
  <2> QED BY <2>2 DEF FilesMove
<1> QED BY <1>7, <1>8, <1>9, <1>10, <1>11, <1>12, <1>13, <1>14, <1>15, <1>16, <1>17, <1>18 DEF Next

(* Session files and queued writes hold what was heard.                    *)
LEMMA NextInFiles ==
  ASSUME ConvTyped, Locks, Course, Messaging, Next
  PROVE  InFiles'
<1>1. FilesMove
  BY FilesMoves
<1>2. PICK A, K : A = Accepted' /\ K = Kept'
  OBVIOUS
<1>3. Accepted \subseteq A /\ Kept \subseteq K
  BY <1>2, KeptGrows
<1>4. \A c \in Stored : Said(c.trunk) \subseteq A /\ Said(c.lane) \subseteq K
  BY <1>3 DEF Messaging, InFiles
<1>5. \A w \in queue : w.file \in Stored
  BY DEF Stored
<1>6. \A k \in Keys : json[k] # None => json[k] \in Stored
  BY DEF Stored
<1>7. ASSUME NEW w \in queue' PROVE Said(w.file.trunk) \subseteq A /\ Said(w.file.lane) \subseteq K
  <2>1. CASE w \in queue
    BY <1>4, <1>5, <2>1
  <2>2. ASSUME NEW k \in Live, Unlocked(live[k]), w = WriteOf(k, live[k])
        PROVE  Said(w.file.trunk) \subseteq A /\ Said(w.file.lane) \subseteq K
    BY StoreFacts, <2>2, SettledFacts, <1>3 DEF Messaging, WriteOf, FileOf
  <2> QED BY <1>1, <2>1, <2>2 DEF FilesMove
<1>8. ASSUME NEW k \in Keys, json'[k] # None
      PROVE  Said(json'[k].trunk) \subseteq A /\ Said(json'[k].lane) \subseteq K
  BY <1>1, <1>5, <1>6, <1>8, <1>4 DEF FilesMove
<1>9. \A c \in Stored' : Said(c.trunk) \subseteq A /\ Said(c.lane) \subseteq K
  BY <1>7, <1>8 DEF Stored
<1> QED BY <1>2, <1>9 DEF InFiles


\* Logs grow by what was heard, archives by what was accepted, the dead end by
\* what was kept; a recovered log goes to the archives as it is.
LogsMove == \A k \in Keys : \A e \in ToSet(wal'[k]) :
                \/ e \in ToSet(wal[k])
                \/ \E t \in Turns : e.said \in Exchange(t) /\ pc'[t] \in Heard
ArchivesMove == /\ archived' \subseteq archived \cup Accepted \cup (IF stage = "down" THEN InLogs ELSE {})
                /\ deadEnd' \subseteq deadEnd \cup Kept

\* Only a crash or a shutdown ends the day.
StageMove == \/ stage' = stage /\ spent'.crash = spent.crash /\ spent'.stop = spent.stop
             \/ spent'.crash > 0 \/ spent'.stop > 0
             \/ stage # "up" /\ spent'.crash = spent.crash /\ spent'.stop = spent.stop

(* Every step of a turn does that to logs and archives.                    *)
LEMMA TurnRecords ==
  ASSUME ConvTyped, Locks, Course, Messaging, NEW t \in Turns, TurnStep(t)
  PROVE  LogsMove /\ ArchivesMove /\ stage' = stage /\ spent' = spent
<1> DEFINE W == LogsMove
           A == ArchivesMove
           S == stage' = stage /\ spent' = spent
<1>1. wal' = wal => W
  BY DEF LogsMove
<1>2. archives' = archives => A
  BY DEF ArchivesMove, archives
<1>3. /\ Accepted \subseteq Kept
      /\ \A s \in Sids : Unlocked(s) => Said(sess[s].trunk) \subseteq Accepted
      /\ \A s \in Sids : Said(sess[s].lane) \subseteq Kept
      /\ pc[t] \in {"logging", "committing"} =>
            ref[t] \in Sids /\ Said(sess[ref[t]].trunk) \subseteq Accepted
  BY SettledFacts DEF Messaging
<1>4. /\ wal \in [Keys -> Seq(Entry)] /\ pc \in [Turns -> States]
      /\ pc[t] # "new" => keyOf[t] \in Keys
  BY DEF ConvTyped, FilesTyped, TurnsTyped, Course
<1>5. ASSUME NEW r, NEW m, NEW shed \in BOOLEAN, wal' = Logged(r, t, m, shed),
             ~shed => m \in Exchange(t) /\ m \in Messages /\ r.seq \in Nat /\ pc[t] # "new",
             pc'[t] \in Heard
      PROVE  W
  <2>1. CASE shed
    BY <1>1, <1>5, <2>1 DEF Logged
  <2>2. CASE ~shed
    <3>1. PICK q \in Seq(Entry), k \in Keys : k = keyOf[t] /\ q = wal[k]
      BY <1>4, <1>5, <2>2
    <3>2. PICK e : e = [seq |-> r.seq + 1, said |-> m]
      OBVIOUS
    <3>3. e \in Entry /\ e.said = m
      BY <1>5, <2>2, <3>2 DEF Entry
    <3>4. wal' = [wal EXCEPT ![k] = Append(q, e)]
      BY <1>5, <2>2, <3>1, <3>2 DEF Logged
    <3>5. wal'[k] = Append(q, e) /\ \A j \in Keys : j # k => wal'[j] = wal[j]
      BY <1>4, <3>4
    <3>6. \A x \in ToSet(Append(q, e)) : x \in ToSet(q) \/ x = e
      BY <3>3 DEF ToSet
    <3> QED BY <1>5, <2>2, <3>1, <3>3, <3>5, <3>6 DEF LogsMove
  <2> QED BY <2>1, <2>2
<1>6. ASSUME pc[t] = "committing", MaybeCheckpoint(t) PROVE A
  BY <1>3, <1>6 DEF MaybeCheckpoint, Archived, ArchivesMove
<1> HIDE DEF W, A, S
<1>7. ASSUME OpenLive(t) PROVE W /\ A /\ S
  BY <1>1, <1>2, <1>7 DEF OpenLive, files, S
<1>8. ASSUME OpenNew(t) PROVE W /\ A /\ S
  BY <1>1, <1>2, <1>8 DEF OpenNew, S
<1>9. ASSUME Start(t) PROVE W /\ A /\ S
  <2>1. pc[t] = "opened" /\ ref[t] \in Sids /\ Unlocked(ref[t])
    BY <1>9, StartMoves DEF Start
  <2>2. PICK r : r = [Windowed(sess[ref[t]], iso[t]) EXCEPT !.found = Lens(Windowed(sess[ref[t]], iso[t]))]
    OBVIOUS
  <2>3. PICK due \in scene.due, over \in scene.budgets, ok \in scene.archive, summed \in BOOLEAN :
           LET w == Windowed(sess[ref[t]], iso[t])
               d == [w EXCEPT !.found = Lens(w)]
               reset == ResetDue(t, due)
               pushed == Pushed(IF reset THEN Begun(d) ELSE d, t)
               long == TooLong(pushed, t, over)
           IN  /\ archived' = Archived(ok, (IF reset THEN Said(d.trunk) ELSE {})
                                            \cup IF long THEN Said(Older(pushed)) ELSE {})
               /\ deadEnd' = deadEnd \cup IF reset /\ ok THEN Said(d.lane) ELSE {}
    BY <1>9 DEF Start
  <2>4. PICK reset : reset = ResetDue(t, due)
    OBVIOUS
  <2>5. PICK pushed : pushed = Pushed(IF reset THEN Begun(r) ELSE r, t)
    OBVIOUS
  <2>6. PICK long : long = TooLong(pushed, t, over)
    OBVIOUS
  <2>7. /\ archived' = Archived(ok, (IF reset THEN Said(r.trunk) ELSE {})
                                     \cup IF long THEN Said(Older(pushed)) ELSE {})
        /\ deadEnd' = deadEnd \cup IF reset /\ ok THEN Said(r.lane) ELSE {}
    BY <2>2, <2>3, <2>4, <2>5, <2>6
  <2>8. PICK b : b = sess[ref[t]]
    OBVIOUS
  <2>9. /\ reset \in BOOLEAN /\ long \in BOOLEAN /\ r = Ready(b, t) /\ pushed = Begins(b, t, reset)
        /\ long => Len(Begins(b, t, reset).trunk) >= MinMessages
    BY <2>2, <2>4, <2>5, <2>6, <2>8 DEF Ready, Begins, ResetDue, TooLong
  <2>10. b \in Session /\ Tidy(b) /\ iso \in [Turns -> BOOLEAN]
    BY <2>1, <2>8 DEF ConvTyped, StoreTyped, TurnsTyped
  <2>11. Said(r.trunk) \subseteq Said(b.trunk) /\ Said(r.lane) \subseteq Said(b.lane)
    BY <2>9, <2>10, BeginsFacts
  <2>12. long => Said(Older(pushed)) \subseteq Said(b.trunk)
    BY <2>9, <2>10, StartedFacts
  <2>13. Said(b.trunk) \subseteq Accepted /\ Said(b.lane) \subseteq Kept
    BY <1>3, <2>1, <2>8
  <2>14. A
    BY <2>7, <2>11, <2>12, <2>13 DEF A, ArchivesMove, Archived
  <2> QED BY <1>1, <1>9, <2>14 DEF Start, S
<1>10. ASSUME Fail(t) \/ GiveUp(t) PROVE W /\ A /\ S
  BY <1>1, <1>2, <1>10 DEF Fail, GiveUp, files, S
<1>11. ASSUME Answer(t) PROVE W /\ A /\ S
  <2>1. PICK shed : shed = (iso[t] \/ isolated)
    OBVIOUS
  <2>20. PICK q \in BOOLEAN : \E r :
           /\ r = IF shed THEN Anchored(Told(sess[ref[t]], t, q), q) ELSE Told(sess[ref[t]], t, q)
           /\ q => MayFallBack(t)
           /\ wal' = Logged(r, t, Question(t), shed)
    BY <1>11, <2>1 DEF Answer, Told
  <2>2. PICK r :
           /\ r = IF shed THEN Anchored(Told(sess[ref[t]], t, q), q) ELSE Told(sess[ref[t]], t, q)
           /\ q => MayFallBack(t)
           /\ wal' = Logged(r, t, Question(t), shed)
    BY <2>20
  <2>3. /\ pc[t] = "running" /\ pc' = [pc EXCEPT ![t] = "logging"] /\ archives' = archives
        /\ stage' = stage /\ spent' = spent
    BY <1>11 DEF Answer
  <2>4. ref[t] \in Sids /\ WithMine(sess[ref[t]], t)
    BY <2>3 DEF Locks, Holding, ConvTyped, TurnsTyped
  <2>5. ~shed => r.seq \in Nat
    BY <2>2, <2>4, ToldFacts, SessionFacts DEF MayFallBack, ConvTyped, StoreTyped
  <2>6. shed \in BOOLEAN /\ pc'[t] \in Heard /\ Question(t) \in Exchange(t) /\ Question(t) \in Messages
    BY <1>4, <2>1, <2>3, MessageFacts DEF Heard
  <2>7. W
    BY <1>5, <2>2, <2>3, <2>5, <2>6
  <2> QED BY <1>2, <2>3, <2>7 DEF S
<1>12. ASSUME LogReply(t) PROVE W /\ A /\ S
  BY <1>12, <1>3, SessionFacts, <1>4, MessageFacts, <1>5, <1>2 DEF LogReply, ConvTyped,
     StoreTyped, TurnsTyped, Heard, S
<1>13. ASSUME Finish(t) PROVE W /\ A /\ S
  BY <1>1, <1>6, <1>13 DEF Finish, S
<1>14. ASSUME PersistTurn(t) PROVE W /\ A /\ S
  BY <1>1, <1>2, <1>14 DEF PersistTurn, S
<1>15. ASSUME Abandon(t) PROVE W /\ A /\ S
  BY <1>1, <1>2, <1>6, <1>15 DEF Abandon, files, S
<1> QED BY <1>7, <1>8, <1>9, <1>10, <1>11, <1>12, <1>13, <1>14, <1>15 DEF TurnStep, W, A, S

(* Every step does.                                                        *)
LEMMA RecordsMoves ==
  ASSUME ConvTyped, Locks, Course, Messaging, Next
  PROVE  LogsMove /\ ArchivesMove /\ StageMove
<1> DEFINE W == LogsMove
           A == ArchivesMove
           S == StageMove
<1>1. (\A k \in Keys : wal'[k] = wal[k] \/ wal'[k] = <<>>) => W
  BY DEF ToSet, LogsMove
<1>2. wal' = wal => W
  BY <1>1
<1>3. archives' = archives => A
  BY DEF ArchivesMove, archives
<1>4. stage' = stage /\ spent' = spent => S
  BY DEF StageMove
<1>5. spent \in [BoundNames -> Nat]
  BY DEF ConvTyped, RestTyped
<1>6. ASSUME NEW what \in BoundNames, Spend(what)
      PROVE  /\ spent'[what] > 0
             /\ \A x \in BoundNames \ {what} : spent'[x] = spent[x]
  BY <1>6, <1>5 DEF Spend
<1>7. Spend("expire") \/ Spend("reset") \/ Spend("flip") => spent'.crash = spent.crash /\ spent'.stop = spent.stop
  BY <1>6 DEF BoundNames
<1>8. Spend("crash") => S
  BY <1>6 DEF BoundNames, StageMove
<1>9. Spend("stop") => S
  BY <1>6 DEF BoundNames, StageMove
<1>10. stage' = stage /\ (Spend("expire") \/ Spend("reset") \/ Spend("flip")) => S
  BY <1>7 DEF StageMove
<1>11. stage # "up" /\ spent' = spent => S
  BY DEF StageMove
<1>12. /\ Accepted \subseteq Kept
       /\ \A s \in Sids : Unlocked(s) => Said(sess[s].trunk) \subseteq Accepted
       /\ \A s \in Sids : Said(sess[s].lane) \subseteq Kept
  BY SettledFacts DEF Messaging
<1>13. \A k \in Live : k \in Keys /\ live[k] \in Sids
  BY StoreFacts
<1>14. ASSUME NEW ok, NEW ended \in SUBSET Sids, \A s \in ended : Unlocked(s), ArchiveBoth(ok, ended)
       PROVE  A
  <2> DEFINE P == UNION {Said(sess[s].trunk) : s \in ended}
             Q == UNION {Said(sess[s].lane) : s \in ended}
  <2>1. P \subseteq Accepted /\ Q \subseteq Kept
    BY <1>12, <1>14
  <2>2. archived' = Archived(ok, P) /\ deadEnd' = deadEnd \cup IF ok THEN Q ELSE {}
    BY <1>14 DEF ArchiveBoth
  <2> HIDE DEF P, Q
  <2> QED BY <2>1, <2>2 DEF ArchivesMove, Archived
<1> HIDE DEF W, A, S
<1>15. ASSUME NEW t \in Turns, TurnStep(t) PROVE W /\ A /\ S
  BY <1>4, <1>15, TurnRecords DEF W, A
<1>16. ASSUME NEW t \in Turns, NEW k \in Keys, Admit(t, k) PROVE W /\ A /\ S
  BY <1>2, <1>3, <1>4, <1>16 DEF Admit, files
<1>17. ASSUME NEW w \in queue, WriteFile(w) PROVE W /\ A /\ S
  BY <1>2, <1>3, <1>4, <1>17 DEF WriteFile
<1>18. Flip => W /\ A /\ S
  BY <1>2, <1>3, <1>10 DEF Flip, files
<1>19. ASSUME NEW expired \in SUBSET Live, SweepCollect(expired) PROVE W /\ A /\ S
  BY <1>2, <1>3, <1>10, <1>19 DEF SweepCollect, files
<1>20. ASSUME SweepRemove PROVE W /\ A /\ S
  <2>1. PICK gone : gone = sweep \cap Live
    OBVIOUS
  <2>2. PICK ok : archived' = Archived(ok, UNION {Said(sess[live[k]].trunk) : k \in gone})
    BY <1>20, <2>1 DEF SweepRemove
  <2>3. AllUnlocked /\ deadEnd' = deadEnd /\ wal' = wal /\ stage' = stage /\ spent' = spent
    BY <1>20 DEF SweepRemove
  <2>4. \A k \in gone : Said(sess[live[k]].trunk) \subseteq Accepted
    BY <1>12, <1>13, <2>1, <2>3 DEF AllUnlocked
  <2>5. UNION {Said(sess[live[k]].trunk) : k \in gone} \subseteq Accepted
    BY <2>4
  <2>6. A
    BY <2>2, <2>3, <2>5 DEF A, ArchivesMove, Archived
  <2> QED BY <1>2, <1>4, <2>3, <2>6
<1>21. ASSUME NEW k \in Keys, Reset(k) PROVE W /\ A /\ S
  <2>1. k \in Live /\ Unlocked(live[k]) /\ wal' = wal /\ stage' = stage /\ Spend("reset")
    BY <1>21 DEF Reset
  <2>2. PICK ok \in scene.archive : ArchiveBoth(ok, {live[k]})
    BY <1>21 DEF Reset
  <2>3. A
    BY <1>13, <1>14, <2>1, <2>2
  <2> QED BY <1>2, <1>10, <2>1, <2>3
<1>22. ASSUME NEW k \in Keys, PersistReset(k) PROVE W /\ A /\ S
  BY <1>2, <1>3, <1>4, <1>22 DEF PersistReset
<1>23. Crash => W /\ A /\ S
  BY <1>2, <1>3, <1>8 DEF Crash, Die
<1>24. Stop => W /\ A /\ S
  BY <1>2, <1>3, <1>9 DEF Stop, files
<1>25. ASSUME ArchiveSessions PROVE W /\ A /\ S
  <2>1. stage = "draining" /\ wal' = wal /\ spent' = spent
    BY <1>25 DEF ArchiveSessions
  <2>2. A
    <3>1. CASE isolated
      BY <1>3, <1>25, <3>1 DEF ArchiveSessions
    <3>2. CASE ~isolated
      <4>1. AllUnlocked
        BY <1>25, <3>2 DEF ArchiveSessions, ArchiveAll
      <4>2. PICK ok \in scene.archive : ArchiveBoth(ok, {live[k] : k \in Live})
        BY <1>25, <3>2 DEF ArchiveSessions, ArchiveAll
      <4>3. {live[k] : k \in Live} \subseteq Sids /\ \A s \in {live[k] : k \in Live} : Unlocked(s)
        BY <1>13, <4>1 DEF AllUnlocked
      <4> QED BY <1>14, <4>2, <4>3
    <3> QED BY <3>1, <3>2
  <2> QED BY <1>2, <1>11, <2>1, <2>2
<1>26. CleanUpWal => W /\ A /\ S
  <2>1. ASSUME CleanUpWal
        PROVE  /\ wal' = [k \in Keys |-> <<>>] /\ archives' = archives
               /\ stage = "archived" /\ spent' = spent
    BY <2>1 DEF CleanUpWal
  <2> QED BY <1>1, <1>3, <1>11, <2>1
<1>27. Exit => W /\ A /\ S
  BY <1>2, <1>3, <1>11 DEF Exit, Die
<1>28. ASSUME Restart PROVE W /\ A /\ S
  <2> DEFINE stored == {k \in Keys : json[k] # None}
  <2>2. PICK expired \in SUBSET stored, ok \in scene.archive :
           LET orphans == {k \in Keys \ (stored \ expired) : wal[k] # <<>>}
               cleared == {k \in orphans : ok \/ PastCheckpoint(k) = {}}
           IN  /\ IF expired = {} THEN UNCHANGED spent ELSE Spend("expire")
               /\ archived' = Archived(ok,
                                (UNION {Said(json[k].trunk) : k \in expired})
                                \cup {e.said : e \in UNION {PastCheckpoint(k) : k \in orphans}})
               /\ wal' = [k \in Keys |-> IF k \in cleared THEN <<>> ELSE wal[k]]
    BY <1>28 DEF Restart
  <2>1. \A k \in expired : k \in Keys /\ json[k] # None
    OBVIOUS
  <2> DEFINE orphans == {k \in Keys \ (stored \ expired) : wal[k] # <<>>}
             cleared == {k \in orphans : ok \/ PastCheckpoint(k) = {}}
  <2>3. /\ IF expired = {} THEN UNCHANGED spent ELSE Spend("expire")
        /\ archived' = Archived(ok, (UNION {Said(json[k].trunk) : k \in expired})
                                    \cup {e.said : e \in UNION {PastCheckpoint(k) : k \in orphans}})
        /\ wal' = [k \in Keys |-> IF k \in cleared THEN <<>> ELSE wal[k]]
    BY <2>2
  <2>4. \A k \in orphans : k \in Keys
    OBVIOUS
  <2> HIDE DEF stored, orphans, cleared
  <2> DEFINE P == UNION {Said(json[k].trunk) : k \in expired}
             Q == {e.said : e \in UNION {PastCheckpoint(k) : k \in orphans}}
  <2>5. /\ IF expired = {} THEN UNCHANGED spent ELSE Spend("expire")
        /\ archived' = Archived(ok, P \cup Q)
        /\ wal' = [k \in Keys |-> IF k \in cleared THEN <<>> ELSE wal[k]]
        /\ deadEnd' = deadEnd /\ stage = "down"
    BY <1>28, <2>3 DEF Restart
  <2>6. P \subseteq Accepted
    BY <2>1 DEF Stored, Messaging, InFiles
  <2>7. Q \subseteq InLogs
    BY <2>4 DEF PastCheckpoint, InLogs
  <2> HIDE DEF P, Q
  <2>8. A
    BY <2>5, <2>6, <2>7 DEF A, ArchivesMove, Archived
  <2>9. S
    BY <1>7, <2>5 DEF S, StageMove
  <2> QED BY <1>1, <2>5, <2>8, <2>9
<1>29. W /\ A /\ S
  BY <1>15, <1>16, <1>17, <1>18, <1>19, <1>20, <1>21, <1>22, <1>23, <1>24, <1>25, <1>26, <1>27, <1>28
  DEF Next
<1> QED BY <1>29 DEF W, A, S

(* Logs and archives hold what was heard, and no archive what was refused, *)
(* until a process ended.                                                  *)
LEMMA NextInRecords ==
  ASSUME ConvTyped, Locks, Course, Messaging, Next, ConvTyped'
  PROVE  InRecords'
<1>1. LogsMove /\ ArchivesMove /\ StageMove
  BY RecordsMoves
<1>2. PICK A, K : A = Accepted' /\ K = Kept'
  OBVIOUS
<1>3. /\ Accepted \subseteq A /\ Kept \subseteq K /\ Accepted \subseteq Kept
      /\ \A t \in Turns : pc'[t] \in Heard => Exchange(t) \subseteq K
  BY <1>2, KeptGrows, SettledFacts DEF Messaging
<1>4. /\ InLogs \subseteq Kept /\ archived \subseteq Kept /\ deadEnd \subseteq Kept
      /\ NeverCrashed /\ spent.stop = 0 => archived \subseteq Accepted /\ stage = "up"
  BY DEF Messaging, InRecords
<1>5. InLogs' \subseteq K
  BY <1>1, <1>3, <1>4 DEF InLogs, LogsMove
<1>6. archived' \subseteq K /\ deadEnd' \subseteq K
  BY <1>1, <1>3, <1>4 DEF ArchivesMove
<1>7. ASSUME spent'.crash = 0, spent'.stop = 0 PROVE archived' \subseteq A /\ stage' = "up"
  BY <1>1, <1>7, <1>4, <1>3 DEF StageMove, NeverCrashed, ArchivesMove
<1> QED BY <1>2, <1>5, <1>6, <1>7 DEF InRecords, NeverCrashed


-----------------------------------------------------------------------------
(* The invariant, and what it says.                                        *)

(* It holds at first.                                                      *)
LEMMA InitInvariant == Init => ConvIInv
<1> SUFFICES ASSUME Init PROVE ConvIInv
  OBVIOUS
<1>1. ConvTyped
  BY InitTyped
<1>2. /\ pc = [t \in Turns |-> "new"] /\ ref = [t \in Turns |-> None] /\ stage = "up"
      /\ sess = [s \in Sids |-> NewSession] /\ live = [k \in Keys |-> None] /\ staler = {}
      /\ refused = [t \in Turns |-> FALSE] /\ json = [k \in Keys |-> None] /\ queue = {}
      /\ wal = [k \in Keys |-> <<>>] /\ archived = {} /\ deadEnd = {}
  BY DEF Init
<1>3. Locks
  BY <1>2, NewSessionFacts DEF Locks, Holding
<1>4. Course
  BY <1>2 DEF Course
<1>5. InOrder(staler, Live)
  BY <1>2 DEF Live, InOrder
<1>6. Messaging
  <2>1. InSessions
    <3>1. ASSUME NEW s \in Sids
          PROVE  Said(Settled(s)) \subseteq Accepted /\ Said(sess[s].lane) \subseteq Kept
      BY <1>2, NewSessionFacts, ShortFacts DEF Settled
    <3> QED BY <3>1 DEF InSessions
  <2>2. InFiles
    BY <1>2 DEF Stored, InFiles
  <2>3. InRecords
    BY <1>2 DEF ToSet, InLogs, InRecords
  <2>4. OnlyRefusedWhenHeard
    BY <1>2 DEF OnlyRefusedWhenHeard
  <2> QED BY <2>1, <2>2, <2>3, <2>4 DEF Messaging
<1> QED BY <1>1, <1>3, <1>4, <1>5, <1>6 DEF ConvIInv

(* And every step keeps it.                                                *)
LEMMA NextInvariant == ConvIInv /\ [Next]_vars => ConvIInv'
<1> SUFFICES ASSUME ConvIInv, [Next]_vars PROVE ConvIInv'
  OBVIOUS
<1>1. ConvTyped /\ Locks /\ Course /\ InOrder(staler, Live) /\ Messaging
  BY DEF ConvIInv
<1>2. CASE Next
  <2>1. ConvTyped'
    BY <1>1, <1>2, NextTyped
  <2>2. Locks'
    BY <1>1, <1>2, <2>1, NextLocks
  <2>3. Course'
    BY <1>1, <1>2, NextCourse
  <2>4. InOrder(staler, Live)'
    BY <1>1, <1>2, NextOrder
  <2>5. InSessions'
    BY <1>1, <1>2, NextInSessions
  <2>6. InFiles'
    BY <1>1, <1>2, NextInFiles
  <2>7. InRecords'
    BY <1>1, <1>2, <2>1, NextInRecords
  <2>8. OnlyRefusedWhenHeard'
    BY <1>1, <1>2, KeptGrows DEF Messaging
  <2> QED BY <2>1, <2>2, <2>3, <2>4, <2>5, <2>6, <2>7, <2>8 DEF ConvIInv, Messaging
<1>3. CASE UNCHANGED vars
  <2>1. ConvTyped'
    BY <1>1, <1>3 DEF vars, ConvTyped, TurnsTyped, StoreTyped, FilesTyped, RestTyped
  <2>2. Locks' /\ Course' /\ InOrder(staler, Live)'
    BY <1>1, <1>3 DEF vars, Locks, Idle, Course, Live
  <2>3. InSessions' /\ OnlyRefusedWhenHeard'
    BY <1>1, <1>3 DEF vars, Messaging, InSessions, OnlyRefusedWhenHeard, Settled, Accepted, Kept, HeardTurns
  <2>4. InFiles' /\ InRecords'
    BY <1>1, <1>3
    DEF vars, Messaging, InFiles, InRecords, Stored, InLogs, NeverCrashed, Accepted, Kept, HeardTurns
  <2> QED BY <2>1, <2>2, <2>3, <2>4 DEF ConvIInv, Messaging
<1> QED BY <1>2, <1>3

(* In every state a session in memory holds, besides what was accepted, at *)
(* most the message of the turn that has its lock.                         *)
LEMMA TrunkFacts ==
  ASSUME ConvIInv, NEW s \in Sids, NEW m \in Said(sess[s].trunk)
  PROVE  \/ m \in Accepted
         \/ \E u \in Turns : sess[s].lock = u /\ pc[u] = "running" /\ m = Question(u)
<1>1. /\ Said(Settled(s)) \subseteq Accepted /\ sess[s] \in Session
      /\ sess[s].lock \in Turns \cup {None}
  BY SessionFacts DEF ConvIInv, Messaging, InSessions, ConvTyped, StoreTyped
<1>2. CASE sess[s].lock # None /\ pc[sess[s].lock] = "running"
  <2>1. PICK u \in Turns : u = sess[s].lock
    BY <1>1, <1>2
  <2>2. ref[u] = s /\ pc[u] = "running"
    BY <1>2, <2>1, ConstantFacts DEF ConvIInv, Locks
  <2>3. WithMine(sess[s], u)
    BY <2>2 DEF ConvIInv, Locks
  <2>4. PICK q : q = sess[s].trunk
    OBVIOUS
  <2>5. q \in Seq(Messages) /\ Len(q) >= 1 /\ q[Len(q)] = Question(u)
    BY <1>1, <2>3, <2>4, SessionFacts DEF WithMine
  <2>6. Said(q) = Said(Cut(q, Len(q) - 1)) \cup ({Question(u)} \ {Note})
    BY <2>5, HeadFacts, MessageFacts
  <2>7. Settled(s) = Cut(q, Len(q) - 1)
    BY <1>2, <2>4 DEF Settled
  <2> QED BY <1>1, <2>1, <2>2, <2>4, <2>6, <2>7
<1>3. CASE ~(sess[s].lock # None /\ pc[sess[s].lock] = "running")
  BY <1>1, <1>3 DEF Settled
<1> QED BY <1>2, <1>3

(* A turn no model answered is nowhere but under its own lock.             *)
LEMMA UnansweredFacts == ConvIInv => NoTraceOfUnanswered
<1> SUFFICES ASSUME ConvIInv, NEW t \in Turns, pc[t] \in {"running", "failed", "killed"}
             PROVE  /\ Exchange(t) \cap (OnTrunks(Stored) \cup OnLanes(Stored) \cup InLogs
                                         \cup archived \cup deadEnd) = {}
                    /\ \A s \in Sids : Exchange(t) \cap (Said(sess[s].trunk) \cup Said(sess[s].lane)) # {}
                                       => sess[s].lock = t
  BY DEF NoTraceOfUnanswered
<1>1. Exchange(t) \cap Kept = {}
  BY MessageFacts DEF HeardTurns, Heard, Kept
<1>2. Accepted \subseteq Kept
  BY DEF Accepted, Kept
<1>3. OnTrunks(Stored) \subseteq Kept /\ OnLanes(Stored) \subseteq Kept
  BY <1>2 DEF ConvIInv, Messaging, InFiles, OnTrunks, OnLanes
<1>4. InLogs \subseteq Kept /\ archived \subseteq Kept /\ deadEnd \subseteq Kept
  BY DEF ConvIInv, Messaging, InRecords
<1>5. ASSUME NEW s \in Sids, Exchange(t) \cap (Said(sess[s].trunk) \cup Said(sess[s].lane)) # {}
      PROVE  sess[s].lock = t
  <2>1. Said(sess[s].lane) \subseteq Kept
    BY DEF ConvIInv, Messaging, InSessions
  <2>2. PICK m \in Exchange(t) : m \in Said(sess[s].trunk)
    BY <1>1, <1>5, <2>1
  <2>3. m \notin Accepted
    BY <1>1, <1>2, <2>2
  <2>4. PICK u \in Turns : sess[s].lock = u /\ m = Question(u)
    BY <2>2, <2>3, TrunkFacts
  <2>5. m \in Exchange(u)
    BY <2>4, MessageFacts
  <2> QED BY <2>2, <2>4, <2>5, MessageFacts
<1> QED BY <1>1, <1>3, <1>4, <1>5

(* What was refused is on no trunk, and in no archive before a recovery.   *)
LEMMA RefusedFacts == ConvIInv => RefusedStaysApart
<1> SUFFICES ASSUME ConvIInv, NEW t \in Turns, refused[t]
             PROVE  /\ Exchange(t) \cap OnTrunks(InMemory \cup Stored) = {}
                    /\ NeverCrashed /\ spent.stop = 0 => Exchange(t) \cap archived = {}
  BY DEF RefusedStaysApart
<1>1. Exchange(t) \cap Accepted = {}
  BY MessageFacts DEF HeardTurns, Accepted
<1>2. pc[t] \in Heard
  BY DEF ConvIInv, Messaging, OnlyRefusedWhenHeard
<1>3. ASSUME NEW s \in Sids, NEW m \in Said(sess[s].trunk) PROVE m \notin Exchange(t)
  <2>1. CASE m \in Accepted
    BY <1>1, <2>1
  <2>2. ASSUME NEW u \in Turns, pc[u] = "running", m = Question(u) PROVE m \notin Exchange(t)
    BY <1>2, <2>2, MessageFacts DEF Heard
  <2> QED BY <2>1, <2>2, TrunkFacts
<1>4. \A c \in Stored : Said(c.trunk) \subseteq Accepted
  BY DEF ConvIInv, Messaging, InFiles
<1>5. Exchange(t) \cap OnTrunks(InMemory \cup Stored) = {}
  BY <1>1, <1>3, <1>4 DEF InMemory, OnTrunks
<1>6. NeverCrashed /\ spent.stop = 0 => archived \subseteq Accepted
  BY DEF ConvIInv, Messaging, InRecords
<1> QED BY <1>1, <1>5, <1>6

(* The types the runs check.                                               *)
LEMMA TypeFacts == ConvIInv => TypeOK
<1> SUFFICES ASSUME ConvIInv PROVE TypeOK
  OBVIOUS
<1>1. ConvTyped /\ InOrder(staler, Live)
  BY DEF ConvIInv
<1>2. ASSUME NEW s \in Sids
      PROVE  /\ FileOf(s) \in Files
             /\ Len(sess[s].lane) <= MaxQuarantine
             /\ sess[s].mark \in Lens01 \cup {None}
             /\ sess[s].found \in Lens01
             /\ sess[s].dirty \in BOOLEAN
             /\ sess[s].lock \in Turns \cup {None}
  <2>1. sess[s] \in Session /\ Tidy(sess[s])
    BY <1>1 DEF ConvTyped, StoreTyped
  <2>2. FileOf(s) \in Files
    BY <2>1, FileFacts
  <2>3. Len(sess[s].lane) <= MaxQuarantine
    BY <2>1, SessionFacts, ConversationsAssumption DEF Tidy
  <2> QED BY <2>1, <2>2, <2>3 DEF Session
<1>3. isolated \in BOOLEAN /\ stage \in {"up", "draining", "archived", "exiting", "down"}
  BY <1>1 DEF ConvTyped, RestTyped, Stages
<1>4. /\ pc \in [Turns -> InFlight \cup {"new", "done", "cut", "failed", "killed"}]
      /\ keyOf \in [Turns -> Keys \cup {None}] /\ iso \in [Turns -> BOOLEAN]
      /\ refused \in [Turns -> BOOLEAN] /\ ref \in [Turns -> Sids \cup {None}]
  BY <1>1 DEF ConvTyped, TurnsTyped, States
<1>5. live \in [Keys -> Sids \cup {None}]
  BY <1>1 DEF ConvTyped, StoreTyped
<1>6. /\ \A k \in Keys : json[k] \in Files \cup {None}
      /\ queue \subseteq [key : Keys, file : Files]
      /\ wal \in [Keys -> Seq([seq : Nat, said : Messages])]
      /\ ckpt \in [Keys -> Nat] /\ archived \subseteq Messages /\ deadEnd \subseteq Messages
  BY <1>1 DEF TidyFiles, ConvTyped, FilesTyped, Entry
<1>7. /\ sweep \subseteq Keys /\ resetting \subseteq Keys
      /\ \A what \in BoundNames : spent[what] \in 0..scene.budget[what]
  BY <1>1, ConversationsAssumption DEF ConvTyped, RestTyped
<1> QED BY <1>1, <1>2, <1>3, <1>4, <1>5, <1>6, <1>7 DEF TypeOK

(* The inductive invariant of the conversations: whoever works on a        *)
(* session has its lock, and sessions, files, logs and archives hold       *)
(* messages of heard turns only, but for the one under the lock.           *)
THEOREM ConvInvariance == Spec => []ConvIInv
<1>1. Init => ConvIInv
  BY InitInvariant
<1>2. ConvIInv /\ [Next]_vars => ConvIInv'
  BY NextInvariant
<1> QED BY <1>1, <1>2, PTL DEF Spec

(* Types of every variable (session_store.rs, wal.rs).                     *)
THEOREM ConversationsTyped == Spec => []TypeOK
BY ConvInvariance, TypeFacts, PTL

(* A turn no model answered leaves no trace: not in a session other turns  *)
(* can read, not in a log, a session file, a queued write or an archive    *)
(* (TurnGuard's rollback, commit_to_wal).                                  *)
THEOREM UnansweredLeaveNoTrace == Spec => []NoTraceOfUnanswered
BY ConvInvariance, UnansweredFacts, PTL

(* What the default model refused stays off every trunk and, until a log   *)
(* is recovered, out of the archives (invoke_turn_with_refusal_fallback).  *)
THEOREM RefusedStay == Spec => []RefusedStaysApart
BY ConvInvariance, RefusedFacts, PTL
===============================================================================
