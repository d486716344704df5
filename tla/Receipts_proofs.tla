-------------------------- MODULE Receipts_proofs --------------------------
(* Proofs about the receipt chain, for any streams, capacity and bounds,   *)
(* and, at the end, about its anchors.                                     *)
(*                                                                         *)
(* The argument: whatever a failed write or repair leaves behind begins    *)
(* with the lines it found, but for the newline of a last line that was    *)
(* not a finished row; an acknowledged row is a finished row below synced. *)
(* A store that may write has looked at the whole file since its last      *)
(* failure, and one appended row keeps a file that verifies verified.      *)
(*                                                                         *)
(* The accounts: every row handed over is landed, told in a gap row or     *)
(* still waits or is counted, and a row whose failed write landed after    *)
(* all, which is the last one until the store looks again, is paid for     *)
(* twice.  The rows of the file and the jobs that wait for it close each   *)
(* stream once, after it opened.                                           *)
(*                                                                         *)
(* The anchors: only the run that holds the lock writes, and only lines    *)
(* longer than all there are where it writes them.                         *)
EXTENDS Receipts, Anchors, FiniteSetTheorems, WellFoundedInduction, TLAPS

InSync == /\ file # <<>> /\ Verifies(file) /\ Last(file).nl
          /\ nextSeq = RowCount(file) /\ prev = LastRow(file)

AckedIsWhole == acked > 0 => IsRow(file[acked]) /\ file[acked].nl

(* Where the writer stands in a job, and what the store has lost by then.  *)
WriterState ==
  /\ stage # "idle" => phase = "on"
  /\ stage \in {"resync", "gap"} => poisoned
  /\ stage = "row" => ~poisoned
  /\ poisoned <=> dropped > 0

Ready == phase = "on" /\ (~poisoned \/ stage = "gap") => InSync

IInv == TypeOK /\ WriterState /\ AckedIsWhole /\ Ready

----------------------------------------------------------------------------
(* Sets of line numbers.                                                   *)

UpTo(S, i) == {x \in S : x <= i}

(* The k-th of a finite set of numbers exists.                             *)
LEMMA NthExists ==
  ASSUME NEW S, S \subseteq Nat, IsFiniteSet(S), NEW k \in 1..Cardinality(S)
  PROVE  \E i \in S : Cardinality(UpTo(S, i)) = k
<1> DEFINE n == Cardinality(S)
           rank == [i \in S |-> Cardinality(UpTo(S, i))]
<1>1. n \in Nat
  BY FS_CardinalityType
<1>2. \A i \in S : IsFiniteSet(UpTo(S, i)) /\ Cardinality(UpTo(S, i)) \in 1..n
  <2>1. TAKE i \in S
  <2>2. UpTo(S, i) \subseteq S /\ i \in UpTo(S, i)
    BY <2>1 DEF UpTo
  <2>3. IsFiniteSet(UpTo(S, i)) /\ Cardinality(UpTo(S, i)) <= n
    BY <2>2, FS_Subset
  <2>4. Cardinality(UpTo(S, i)) \in Nat
    BY <2>3, FS_CardinalityType
  <2>5. Cardinality(UpTo(S, i)) # 0
    BY <2>2, <2>3, FS_EmptySet
  <2> QED BY <1>1, <2>3, <2>4, <2>5
<1>3. ASSUME NEW i \in S, NEW j \in S, i < j
      PROVE  Cardinality(UpTo(S, i)) # Cardinality(UpTo(S, j))
  <2>1. i \in Nat /\ j \in Nat
    OBVIOUS
  <2>2. \A x \in S : x \in Nat
    OBVIOUS
  <2>3. ASSUME NEW x \in UpTo(S, i) PROVE x \in UpTo(S, j)
    BY <2>2, <1>3, <2>1 DEF UpTo
  <2>4. j \in UpTo(S, j)
    BY <2>1 DEF UpTo
  <2>5. j \notin UpTo(S, i)
    BY <1>3, <2>1 DEF UpTo
  <2>6. IsFiniteSet(UpTo(S, j))
    BY <1>2
  <2> QED BY <2>3, <2>6, <2>4, <2>5, FS_Subset
<1>4. rank \in Injection(S, 1..n)
  <2>1. rank \in [S -> 1..n]
    BY <1>2
  <2>2. ASSUME NEW i \in S, NEW j \in S, rank[i] = rank[j] PROVE i = j
    BY <1>3, <2>2
  <2> QED BY <2>1, <2>2 DEF Injection, IsInjective
<1>5. IsFiniteSet(1..n) /\ Cardinality(1..n) = n
  BY <1>1, FS_Interval
<1>6. rank \in Surjection(S, 1..n)
  BY <1>4, <1>5, FS_Injection
<1> QED BY <1>6 DEF Surjection

(* The greatest of a finite set of naturals bounds it.                     *)
LEMMA MaxOf ==
  ASSUME NEW S, S \subseteq Nat, IsFiniteSet(S), S # {}
  PROVE  Max(S) \in S /\ \A i \in S : i <= Max(S)
<1>1. Cardinality(S) \in 1..Cardinality(S)
  BY FS_CardinalityType, FS_EmptySet
<1>2. PICK m \in S : Cardinality(UpTo(S, m)) = Cardinality(S)
  BY <1>1, NthExists
<1>3. UpTo(S, m) = S
  BY <1>2, FS_Subset DEF UpTo
<1>4. \A i \in S : m >= i
  BY <1>3 DEF UpTo
<1> QED BY <1>4 DEF Max

(* The k-th element of a set is in it.                                     *)
LEMMA NthIn ==
  ASSUME NEW S, S \subseteq Nat, IsFiniteSet(S), NEW k \in 1..Cardinality(S)
  PROVE  Nth(S, k) \in S
BY NthExists DEF Nth, UpTo

----------------------------------------------------------------------------
(* Lines and files.                                                        *)

(* What the constants are.                                                 *)
LEMMA ConstantFacts ==
  Capacity \in Nat \ {0} /\ MaxFaults \in Nat /\ MaxBoots \in Nat
BY ReceiptConstants

(* A line keeps what it says when its newline is lost or written.          *)
LEMMA LineFacts ==
  ASSUME NEW l \in Lines
  PROVE  /\ l.nl \in BOOLEAN
         /\ IsRow(l) => l.seq \in Nat /\ l.prev \in Nat /\ l.e \in Events
         /\ [l EXCEPT !.nl = TRUE] \in Lines /\ [l EXCEPT !.nl = FALSE] \in Lines
         /\ [l EXCEPT !.nl = TRUE].nl /\ [l EXCEPT !.nl = TRUE].kind = l.kind
         /\ [l EXCEPT !.nl = FALSE].kind = l.kind
         /\ IsRow(l) => /\ [l EXCEPT !.nl = TRUE].seq = l.seq
                        /\ [l EXCEPT !.nl = TRUE].prev = l.prev
                        /\ [l EXCEPT !.nl = TRUE].e = l.e
         /\ l.nl => [l EXCEPT !.nl = TRUE] = l
<1>1. CASE l \in [kind: {"half"}, nl: BOOLEAN]
  BY <1>1 DEF Lines, IsRow
<1>2. CASE l \in [kind: {"row"}, seq: Nat, prev: Nat, e: Events, nl: BOOLEAN]
  BY <1>2 DEF Lines, IsRow
<1> QED BY <1>1, <1>2 DEF Lines

(* A row is a line, whole, with the fields it was given.                   *)
LEMMA RowLineFacts ==
  ASSUME NEW n \in Nat, NEW p \in Nat, NEW e \in Events
  PROVE  /\ RowLine(n, p, e) \in Lines /\ IsRow(RowLine(n, p, e))
         /\ RowLine(n, p, e).nl /\ RowLine(n, p, e).e = e
         /\ RowLine(n, p, e).seq = n /\ RowLine(n, p, e).prev = p
BY DEF RowLine, Lines, IsRow

(* The events and the jobs, and which of them are told apart.              *)
LEMMA EventFacts ==
  /\ Genesis \in Events /\ Jobs \subseteq Events /\ NoJob \notin Jobs
  /\ Boot \in Jobs /\ Shutdown \in Jobs /\ Half \in Lines
  /\ \A s \in Streams : Open(s) \in Jobs /\ Close(s) \in Jobs
  /\ \A n \in Nat : Gap(n) \in Events /\ Recover(n) \in Events
  /\ \A j \in Jobs : j # Genesis /\ j.kind # "recover"
  /\ \A n \in Nat : Gap(n) # Genesis /\ Gap(n).kind # "recover"
<1>1. \A j \in Jobs : j # Genesis /\ j.kind # "recover" /\ j # NoJob
  <2>1. TAKE j \in Jobs
  <2>2. j.kind \in {"boot", "shutdown", "open", "close"}
    BY <2>1 DEF Jobs, Boot, Shutdown
  <2>3. Genesis.kind = "genesis" /\ NoJob.kind = "none"
    BY DEF Genesis, NoJob
  <2> QED BY <2>2, <2>3
<1>2. \A n \in Nat : Gap(n) # Genesis /\ Gap(n).kind # "recover"
  <2>1. TAKE n \in Nat
  <2>2. Gap(n).kind = "gap" /\ Genesis.kind = "genesis"
    BY DEF Gap, Genesis
  <2> QED BY <2>2
<1>3. Genesis \in Events /\ Jobs \subseteq Events /\ Boot \in Jobs /\ Shutdown \in Jobs
  BY DEF Events, Jobs
<1>4. Half \in Lines
  BY DEF Half, Lines
<1>5. \A s \in Streams : Open(s) \in Jobs /\ Close(s) \in Jobs
  BY DEF Open, Close, Jobs
<1>6. \A n \in Nat : Gap(n) \in Events /\ Recover(n) \in Events
  BY DEF Gap, Recover, Events
<1> QED BY <1>1, <1>2, <1>3, <1>4, <1>5, <1>6

(* A file with a line more.                                                *)
LEMMA AppendFacts ==
  ASSUME NEW f \in Seq(Lines), NEW l \in Lines
  PROVE  /\ Append(f, l) \in Seq(Lines) /\ Len(Append(f, l)) = Len(f) + 1
         /\ \A i \in 1..Len(f) : Append(f, l)[i] = f[i]
         /\ Append(f, l)[Len(f) + 1] = l
         /\ Append(f, l) # <<>> /\ Last(Append(f, l)) = l
BY DEF Last

(* The number and the last of the rows before a line.                      *)
LEMMA RowsFacts ==
  ASSUME NEW f \in Seq(Lines), NEW i \in 1..(Len(f) + 1)
  PROVE  /\ RowsBefore(f, i) \subseteq 1..(i - 1)
         /\ IsFiniteSet(RowsBefore(f, i)) /\ Cardinality(RowsBefore(f, i)) \in Nat
         /\ Max(RowsBefore(f, i) \cup {0}) \in 0..(i - 1)
<1> DEFINE R == RowsBefore(f, i)
<1>1. i \in Nat /\ i - 1 \in Nat
  OBVIOUS
<1>2. R \subseteq 1..(i - 1)
  BY DEF RowsBefore
<1>3. IsFiniteSet(1..(i - 1))
  BY <1>1, FS_Interval
<1>4. IsFiniteSet(R)
  BY <1>2, <1>3, FS_Subset
<1>5. Cardinality(R) \in Nat
  BY <1>4, FS_CardinalityType
<1>6. IsFiniteSet(R \cup {0})
  BY <1>4, FS_AddElement
<1>7. R \cup {0} \subseteq 0..(i - 1) /\ R \cup {0} \subseteq Nat
  BY <1>1, <1>2
<1>8. Max(R \cup {0}) \in R \cup {0}
  BY <1>6, <1>7, MaxOf
<1> HIDE DEF R
<1>9. Max(R \cup {0}) \in 0..(i - 1)
  BY <1>7, <1>8
<1> QED BY <1>2, <1>4, <1>5, <1>9 DEF R

(* The number of rows and the place of the last one.                       *)
LEMMA CountFacts ==
  ASSUME NEW f \in Seq(Lines)
  PROVE  RowCount(f) \in Nat /\ LastRow(f) \in 0..Len(f)
<1>1. Len(f) \in Nat /\ Len(f) + 1 \in 1..(Len(f) + 1) /\ (Len(f) + 1) - 1 = Len(f)
  OBVIOUS
<1> QED BY <1>1, RowsFacts DEF RowCount, LastRow

(* The rows before a place depend on the lines before it alone.            *)
LEMMA SameRows ==
  ASSUME NEW f \in Seq(Lines), NEW g \in Seq(Lines), NEW i \in Nat,
         \A j \in 1..(i - 1) : IsRow(f[j]) <=> IsRow(g[j])
  PROVE  RowsBefore(f, i) = RowsBefore(g, i)
BY DEF RowsBefore

(* A row at the end is one row more, and the last one.                     *)
LEMMA OneMoreRow ==
  ASSUME NEW f \in Seq(Lines), NEW l \in Lines, IsRow(l)
  PROVE  /\ RowCount(Append(f, l)) = RowCount(f) + 1
         /\ LastRow(Append(f, l)) = Len(f) + 1
<1> DEFINE g == Append(f, l)
           n == Len(f) + 1
           R == RowsBefore(f, n)
<1>1. n \in Nat /\ n - 1 = Len(f) /\ (n + 1) - 1 = n /\ n \in 1..(Len(f) + 1)
  OBVIOUS
<1>2. g \in Seq(Lines) /\ Len(g) = n /\ g[n] = l /\ \A i \in 1..Len(f) : g[i] = f[i]
  BY AppendFacts
<1>3. RowsBefore(g, n + 1) = R \cup {n}
  BY <1>1, <1>2 DEF RowsBefore
<1>4. R \subseteq 1..(n - 1) /\ IsFiniteSet(R) /\ Cardinality(R) \in Nat
  BY <1>1, RowsFacts
<1>5. n \notin R
  BY <1>1, <1>4
<1>6. IsFiniteSet(R \cup {n}) /\ Cardinality(R \cup {n}) = Cardinality(R) + 1
  BY <1>4, <1>5, FS_AddElement
<1>7. Max((R \cup {n}) \cup {0}) = n
  <2> DEFINE S == (R \cup {n}) \cup {0}
  <2>1. IsFiniteSet(S)
    BY <1>6, FS_AddElement
  <2>2. S \subseteq 0..n
    BY <1>1, <1>4
  <2>3. S \subseteq Nat /\ S # {} /\ n \in S
    BY <1>1, <2>2
  <2> HIDE DEF S
  <2>4. Max(S) \in S /\ n <= Max(S)
    BY <2>1, <2>3, MaxOf
  <2>5. Max(S) \in 0..n
    BY <2>2, <2>4
  <2>6. Max(S) = n
    BY <1>1, <2>4, <2>5
  <2> QED BY <2>6 DEF S
<1> QED BY <1>1, <1>2, <1>3, <1>6, <1>7 DEF RowCount, LastRow

----------------------------------------------------------------------------
(* What repairs and failed writes leave of a file.                         *)

Extends(f, g) == Len(f) <= Len(g) /\ \A i \in 1..Len(f) : g[i] = f[i]

(* All of its lines, but for the newline of a last line not finished.      *)
Keeps(f, g) ==
  /\ Len(f) <= Len(g)
  /\ \A i \in 1..Len(f) : i < Len(f) \/ (IsRow(f[i]) /\ f[i].nl) => g[i] = f[i]

(* Closing the last line keeps every whole row (close_unclosed_line).      *)
LEMMA ClosedFacts ==
  ASSUME NEW f \in Seq(Lines), f # <<>>
  PROVE  /\ Closed(f) \in Seq(Lines) /\ Len(Closed(f)) = Len(f) /\ Closed(f) # <<>>
         /\ Last(Closed(f)).nl /\ Keeps(f, Closed(f))
<1> DEFINE n == Len(f)
           c == [f EXCEPT ![n] = [f[n] EXCEPT !.nl = TRUE]]
<1>1. n \in Nat /\ n \in 1..n /\ f[n] \in Lines
  OBVIOUS
<1>2. Closed(f) = c
  BY DEF Closed
<1>3. [f[n] EXCEPT !.nl = TRUE] \in Lines /\ [f[n] EXCEPT !.nl = TRUE].nl
      /\ (f[n].nl => [f[n] EXCEPT !.nl = TRUE] = f[n])
  BY <1>1, LineFacts
<1> DEFINE l == [f[n] EXCEPT !.nl = TRUE]
<1> HIDE DEF l
<1>4. c = [f EXCEPT ![n] = l]
  BY DEF l
<1>5. l \in Lines /\ l.nl /\ (f[n].nl => l = f[n])
  BY <1>3 DEF l
<1> HIDE DEF c
<1>6. c \in Seq(Lines) /\ Len(c) = n /\ c[n] = l /\ \A i \in 1..n : i # n => c[i] = f[i]
  BY <1>1, <1>4, <1>5
<1>7. c # <<>> /\ Last(c) = l
  BY <1>1, <1>6 DEF Last
<1>8. Keeps(f, c)
  BY <1>1, <1>5, <1>6 DEF Keeps
<1> QED BY <1>2, <1>5, <1>6, <1>7, <1>8

(* The row that tells of a repair is whole.                                *)
LEMMA RecoverLineFacts ==
  ASSUME NEW f \in Seq(Lines)
  PROVE  RecoverLine(f) \in Lines /\ RecoverLine(f).nl
<1>1. RowCount(f) \in Nat /\ LastRow(f) \in Nat /\ Len(f) \in Nat
  BY CountFacts
<1>2. Recover(Len(f)) \in Events
  BY <1>1, EventFacts
<1> QED BY <1>1, <1>2, RowLineFacts DEF RecoverLine

(* A repaired file keeps every whole row and ends in one (repair).         *)
LEMMA RepairedFacts ==
  ASSUME NEW f \in Seq(Lines), f # <<>>, Repairable(f)
  PROVE  /\ Repaired(f) \in Seq(Lines) /\ Repaired(f) # <<>>
         /\ Last(Repaired(f)).nl /\ Keeps(f, Repaired(f))
<1>1. CASE Class(f) = "ready"
  <2>1. Repaired(f) = f
    BY <1>1 DEF Repaired
  <2>2. Last(f).nl
    BY LineFacts, <1>1 DEF Class, Last
  <2>3. Keeps(f, f)
    BY DEF Keeps
  <2> QED BY <2>1, <2>2, <2>3
<1>2. CASE Class(f) = "newline"
  BY <1>2, ClosedFacts DEF Repaired
<1>3. CASE Class(f) = "torn"
  <2> DEFINE c == Closed(f)
             l == RecoverLine(f)
  <2>1. Repaired(f) = Append(c, l)
    BY <1>3 DEF Repaired
  <2>2. c \in Seq(Lines) /\ Len(c) = Len(f) /\ Keeps(f, c)
    BY ClosedFacts
  <2>3. l \in Lines /\ l.nl
    BY RecoverLineFacts
  <2> HIDE DEF c, l
  <2>4. /\ Append(c, l) \in Seq(Lines) /\ Append(c, l) # <<>>
        /\ Last(Append(c, l)) = l /\ Len(Append(c, l)) = Len(f) + 1
        /\ \A i \in 1..Len(f) : Append(c, l)[i] = c[i]
    BY <2>2, <2>3, AppendFacts
  <2>5. Keeps(f, Append(c, l))
    BY <2>2, <2>4 DEF Keeps
  <2> QED BY <2>1, <2>3, <2>4, <2>5
<1> QED BY <1>1, <1>2, <1>3 DEF Repairable

(* However much of a write lands, what was there stays.                    *)
LEMMA LandingExtends ==
  ASSUME NEW f \in Seq(Lines), NEW l \in Lines, NEW g \in Landings(f, l)
  PROVE  g \in Seq(Lines) /\ Extends(f, g)
<1>1. Half \in Lines /\ [l EXCEPT !.nl = FALSE] \in Lines
  BY EventFacts, LineFacts
<1>2. \A m \in Lines : Append(f, m) \in Seq(Lines) /\ Extends(f, Append(f, m))
  BY AppendFacts DEF Extends
<1>3. Extends(f, f)
  BY DEF Extends
<1>4. g = f \/ \E m \in Lines : g = Append(f, m)
  BY <1>1 DEF Landings
<1> QED BY <1>2, <1>3, <1>4

(* However much of a repair lands, the whole rows stay.                    *)
LEMMA RepairLandingKeeps ==
  ASSUME NEW f \in Seq(Lines), f # <<>>, NEW g \in RepairLandings(f)
  PROVE  g \in Seq(Lines) /\ Keeps(f, g)
<1>1. Keeps(f, f)
  BY DEF Keeps
<1>2. Closed(f) \in Seq(Lines) /\ Len(Closed(f)) = Len(f) /\ Keeps(f, Closed(f))
  BY ClosedFacts
<1>3. ASSUME g \in Landings(Closed(f), RecoverLine(f))
      PROVE  g \in Seq(Lines) /\ Keeps(f, g)
  BY RecoverLineFacts, <1>2, <1>3, LandingExtends DEF Extends, Keeps
<1>4. g = f \/ g = Closed(f) \/ g \in Landings(Closed(f), RecoverLine(f))
  BY DEF RepairLandings
<1> QED BY <1>1, <1>2, <1>3, <1>4

(* The lines a successful write or repair makes are synced.                *)
LEMMA KeepsAcked ==
  ASSUME NEW f \in Seq(Lines), NEW g \in Seq(Lines), Keeps(f, g),
         NEW n \in 0..Len(f), n > 0 => IsRow(f[n]) /\ f[n].nl
  PROVE  /\ n <= Len(g) /\ SubSeq(g, 1, n) = SubSeq(f, 1, n)
         /\ n > 0 => g[n] = f[n]
<1>1. n <= Len(f) /\ n <= Len(g) /\ n \in Nat
  BY DEF Keeps
<1>2. \A i \in 1..n : g[i] = f[i]
  BY <1>1 DEF Keeps
<1> QED BY <1>1, <1>2

----------------------------------------------------------------------------
(* One more row in a file that verifies.                                   *)

(* A file that verifies still does with the row the writer makes.          *)
LEMMA NextRowVerifies ==
  ASSUME NEW f \in Seq(Lines), f # <<>>, Verifies(f), Last(f).nl,
         NEW e \in Events, e # Genesis, e.kind # "recover",
         NEW l, l = RowLine(RowCount(f), LastRow(f), e)
  PROVE  Verifies(Append(f, l))
<1> DEFINE g == Append(f, l)
           n == Len(f) + 1
<1>1. /\ Len(f) \in Nat /\ Len(f) \in 1..Len(f)
      /\ n \in Nat /\ n - 1 = Len(f) /\ n \in 1..(Len(f) + 1)
  OBVIOUS
<1>2. RowCount(f) \in Nat /\ LastRow(f) \in Nat
  BY CountFacts
<1>3. /\ l \in Lines /\ IsRow(l) /\ l.nl /\ l.e = e
      /\ l.seq = RowCount(f) /\ l.prev = LastRow(f)
  BY <1>2, RowLineFacts
<1>4. /\ g \in Seq(Lines) /\ Len(g) = n /\ g[n] = l
      /\ \A i \in 1..Len(f) : g[i] = f[i]
  BY <1>3, AppendFacts
<1>5. RowCount(f) = Cardinality(RowsBefore(f, n)) /\ LastRow(f) = Max(RowsBefore(f, n) \cup {0})
  BY DEF RowCount, LastRow
<1>6. RowCount(f) # 0
  <2>1. ~Torn(f, Len(f))
    BY <1>1 DEF RecoveredAt, Verifies, Torn
  <2>2. Len(f) \in RowsBefore(f, n)
    BY <1>1, <2>1 DEF RowsBefore, Torn
  <2>3. IsFiniteSet(RowsBefore(f, n))
    BY <1>1, RowsFacts
  <2> HIDE DEF n
  <2>4. Cardinality(RowsBefore(f, n)) = 0 <=> RowsBefore(f, n) = {}
    BY <2>3, FS_EmptySet
  <2> QED BY <1>5, <2>2, <2>4
<1> HIDE DEF g
<1>7. \A i \in 1..n : RowsBefore(g, i) = RowsBefore(f, i)
  <2>1. TAKE i \in 1..n
  <2>2. i \in Nat /\ \A j \in 1..(i - 1) : j \in 1..Len(f)
    BY <1>1, <2>1
  <2>3. \A j \in 1..(i - 1) : g[j] = f[j]
    BY <1>4, <2>2
  <2> QED BY <1>4, <2>2, <2>3, SameRows
<1>8. Follows(g, n)
  <2> HIDE DEF n
  <2>1. n \in 1..n
    BY <1>1
  <2> QED BY <1>3, <1>4, <1>5, <1>6, <1>7, <2>1 DEF Follows
<1>9. ~Torn(g, n)
  BY <1>3, <1>4 DEF Torn
<1>10. \A i \in 1..Len(f) : /\ Follows(g, i) <=> Follows(f, i)
                            /\ Torn(g, i) <=> Torn(f, i)
  <2>1. TAKE i \in 1..Len(f)
  <2>2. g[i] = f[i] /\ RowsBefore(g, i) = RowsBefore(f, i)
    BY <1>1, <1>4, <1>7
  <2> QED BY <2>2 DEF Follows, Torn
<1>11. \A i \in 1..Len(f) : RecoveredAt(f, i) => RecoveredAt(g, i)
  <2>1. TAKE i \in 1..Len(f)
  <2>2. HAVE RecoveredAt(f, i)
  <2>3. i < Len(f) /\ i < Len(g) /\ i + 1 \in 1..Len(f)
    BY <1>1, <1>4, <2>2 DEF RecoveredAt
  <2>4. Follows(f, i + 1) /\ f[i + 1].nl /\ f[i + 1].e = Recover(i)
    BY <2>2 DEF RecoveredAt
  <2>5. Follows(g, i + 1) /\ g[i + 1] = f[i + 1]
    BY <1>4, <1>10, <2>3, <2>4
  <2> QED BY <2>3, <2>4, <2>5 DEF RecoveredAt
<1>12. ASSUME NEW i \in 1..n
       PROVE  IF Torn(g, i) THEN RecoveredAt(g, i)
              ELSE /\ Follows(g, i)
                   /\ g[i].e.kind = "recover" => i > 1 /\ Torn(g, i - 1)
  <2>1. CASE i = n
    BY <1>3, <1>4, <1>8, <1>9, <2>1
  <2>2. CASE i \in 1..Len(f)
    <3>1. IF Torn(f, i) THEN RecoveredAt(f, i)
          ELSE /\ Follows(f, i)
               /\ f[i].e.kind = "recover" => i > 1 /\ Torn(f, i - 1)
      BY <2>2 DEF Verifies
    <3>2. g[i] = f[i] /\ (Follows(g, i) <=> Follows(f, i)) /\ (Torn(g, i) <=> Torn(f, i))
      BY <1>4, <1>10, <2>2
    <3>3. CASE Torn(f, i)
      BY <1>11, <2>2, <3>1, <3>3, <3>2
    <3>4. CASE ~Torn(f, i)
      BY <3>1, <3>2, <3>4, <1>1, <2>2, <1>10
    <3> QED BY <3>3, <3>4
  <2> QED BY <1>1, <2>1, <2>2
<1>13. Verifies(g)
  BY <1>4, <1>12 DEF Verifies
<1> QED BY <1>13 DEF g

----------------------------------------------------------------------------
(* Steps of the file, whatever step of the system makes them.              *)

AckStep == /\ acked <= acked' /\ acked <= Len(file')
           /\ SubSeq(file', 1, acked) = SubSeq(file, 1, acked)

(* A step that keeps the whole rows keeps the acknowledged ones.           *)
LEMMA FileStep ==
  ASSUME IInv, file' \in Seq(Lines), Keeps(file, file'), acked' = acked,
         synced' = synced \/ synced' = Len(file')
  PROVE  /\ AckStep /\ AckedIsWhole'
         /\ synced' \in 0..Len(file') /\ acked' \in 0..synced' /\ Len(file) <= Len(file')
<1>1. /\ file \in Seq(Lines) /\ synced \in 0..Len(file) /\ acked \in 0..synced
      /\ acked > 0 => IsRow(file[acked]) /\ file[acked].nl
  BY DEF IInv, TypeOK, AckedIsWhole
<1>2. acked \in 0..Len(file) /\ Len(file) \in Nat /\ Len(file') \in Nat
  BY <1>1
<1>3. Len(file) <= Len(file')
  BY DEF Keeps
<1>4. /\ acked <= Len(file') /\ SubSeq(file', 1, acked) = SubSeq(file, 1, acked)
      /\ acked > 0 => file'[acked] = file[acked]
  BY <1>1, <1>2, KeepsAcked
<1>5. AckStep /\ AckedIsWhole'
  BY <1>1, <1>2, <1>4 DEF AckStep, AckedIsWhole
<1> QED BY <1>1, <1>2, <1>3, <1>5

(* A step that leaves the file alone keeps them too.                       *)
LEMMA SameFile ==
  ASSUME IInv, UNCHANGED <<file, acked>>
  PROVE  AckStep /\ AckedIsWhole'
<1>1. file \in Seq(Lines) /\ acked \in 0..Len(file)
  BY DEF IInv, TypeOK
<1>2. AckedIsWhole
  BY DEF IInv
<1> QED BY <1>1, <1>2 DEF AckStep, AckedIsWhole

(* So does a write, synced or not.                                         *)
LEMMA WroteStep ==
  ASSUME IInv, NEW f \in Seq(Lines), Keeps(file, f), Wrote(f), acked' = acked
  PROVE  /\ file' = f /\ AckStep /\ AckedIsWhole'
         /\ synced' \in 0..Len(file') /\ acked' \in 0..synced' /\ Len(file) <= Len(file')
<1>1. file' = f /\ (synced' = synced \/ synced' = Len(file'))
  BY DEF Wrote
<1> QED BY <1>1, FileStep

(* To write behind what is there keeps it.                                 *)
LEMMA ExtendsKeeps ==
  ASSUME NEW f, NEW g, Extends(f, g)
  PROVE  Keeps(f, g)
BY DEF Extends, Keeps

(* The closes that a crash left out are jobs.                              *)
LEMMA LostClosesType ==
  ASSUME NEW f \in Seq(Lines)
  PROVE  LostCloses(f) \in Seq(Jobs)
<1> DEFINE left == {i \in Opens(f) : ~ClosedAfter(f, i)}
           n == Cardinality(left)
<1>1. left \subseteq 1..Len(f) /\ 1..Len(f) \subseteq Nat /\ IsFiniteSet(1..Len(f))
  BY FS_Interval DEF Opens
<1>2. left \subseteq Nat /\ IsFiniteSet(left) /\ n \in Nat
  BY <1>1, FS_Subset, FS_CardinalityType
<1>3. \A i \in left : f[i].e.stream \in Streams
  <2>1. TAKE i \in left
  <2>2. i \in 1..Len(f) /\ IsRow(f[i]) /\ f[i].e.kind = "open"
    BY DEF Opens
  <2>3. f[i].e \in Events
    <3>1. f[i] \in Lines
      BY <2>2
    <3> QED BY <2>2, <3>1, LineFacts
  <2>4. f[i].e \in [kind: {"open", "close"}, stream: Streams]
    BY <2>2, <2>3 DEF Events, Jobs, Boot, Shutdown, Genesis
  <2> QED BY <2>4
<1> HIDE DEF left
<1>4. \A k \in 1..n : Nth(left, k) \in left
  BY <1>2, NthIn
<1>5. Orphans(f) = [k \in 1..n |-> f[Nth(left, k)].e.stream]
  BY DEF Orphans, left
<1> HIDE DEF n
<1>6. Orphans(f) \in [1..n -> Streams]
  BY <1>3, <1>4, <1>5
<1>7. Orphans(f) \in Seq(Streams) /\ Len(Orphans(f)) = n
  BY <1>2, <1>6
<1>8. \A i \in 1..n : Close(Orphans(f)[i]) \in Jobs
  BY <1>6, EventFacts
<1>9. LostCloses(f) \in [1..n -> Jobs]
  BY <1>7, <1>8 DEF LostCloses
<1> QED BY <1>2, <1>9

----------------------------------------------------------------------------
(* The invariant holds at first, and every step keeps it.                  *)

(* Nothing written, nothing queued, nothing counted.                       *)
LEMMA NothingFacts ==
  /\ <<>> \in Seq(Lines) /\ <<>> \in Seq(Jobs) /\ Len(<<>>) = 0
  /\ 0 <= Capacity /\ 0 \in 0..MaxFaults /\ 0 \in 0..MaxBoots /\ 0 \in 0..0
BY ConstantFacts

(* No store is open yet.                                                   *)
LEMMA InitIInv == Init => IInv
<1> SUFFICES ASSUME Init PROVE IInv
  OBVIOUS
<1>1. TypeOK
  <2>1. file \in Seq(Lines) /\ backlog \in Seq(Jobs) /\ queue \in Seq(Jobs)
    BY NothingFacts DEF Init
  <2>2. synced \in 0..Len(file) /\ acked \in 0..synced /\ prev \in 0..Len(file) /\ base \in 0..Len(file)
    BY NothingFacts DEF Init
  <2>3. Len(queue) <= Capacity /\ faults \in 0..MaxFaults /\ boots \in 0..MaxBoots
    BY NothingFacts DEF Init
  <2>4. stream \in [Streams -> {"new", "open", "closed", "gone"}]
    BY DEF Init
  <2>5. overflow \in Nat /\ nextSeq \in Nat /\ dropped \in Nat /\ handed \in Nat /\ ~(dropped > 0)
    BY DEF Init
  <2>6. job = NoJob /\ stage = "idle" /\ phase = "down" /\ state = "ok" /\ poisoned = FALSE
    BY DEF Init
  <2>7. job \in Jobs \cup {NoJob} /\ (job # NoJob <=> stage # "idle") /\ poisoned \in BOOLEAN
        /\ phase \in {"down", "on", "closed", "refused"}
        /\ stage \in {"idle", "taken", "resync", "gap", "row"} /\ state \in {"ok", "degraded"}
    BY <2>6
  <2> QED BY <2>1, <2>2, <2>3, <2>4, <2>5, <2>7 DEF TypeOK
<1>2. WriterState /\ AckedIsWhole /\ Ready
  BY DEF Init, WriterState, AckedIsWhole, Ready
<1> QED BY <1>1, <1>2 DEF IInv

(* A new file is its genesis row.                                          *)
LEMMA GenesisFile ==
  LET f == <<RowLine(0, 0, Genesis)>>
  IN  f \in Seq(Lines) /\ f # <<>> /\ Last(f).nl
<1>1. RowLine(0, 0, Genesis) \in Lines /\ RowLine(0, 0, Genesis).nl
  BY EventFacts, RowLineFacts
<1> QED BY <1>1 DEF Last

(* Opening the store, with its repairs.                                    *)
LEMMA OpenStoreKeeps ==
  ASSUME IInv, OpenStore
  PROVE  IInv' /\ AckStep
<1>1. TypeOK /\ WriterState /\ file \in Seq(Lines)
  BY DEF IInv, TypeOK
<1>2. PICK f : /\ f \in Seq(Lines) /\ f # <<>> /\ Last(f).nl
               /\ Keeps(file, f) /\ Wrote(f)
  <2>1. CASE file = <<>> /\ Wrote(<<RowLine(0, 0, Genesis)>>)
    <3>1. Keeps(file, <<RowLine(0, 0, Genesis)>>)
      BY <2>1 DEF Keeps
    <3> QED BY <2>1, <3>1, GenesisFile
  <2>2. CASE StartsWithGenesis(file) /\ Repairable(file) /\ Wrote(Repaired(file))
    BY <2>2, <1>1, RepairedFacts DEF StartsWithGenesis
  <2> QED BY <2>1, <2>2 DEF OpenStore
<1>3. acked' = acked /\ stage' = stage /\ job' = job /\ poisoned' = poisoned /\ dropped' = dropped
  BY DEF OpenStore
<1>4. /\ file' = f /\ AckStep /\ AckedIsWhole'
      /\ synced' \in 0..Len(file') /\ acked' \in 0..synced'
  BY <1>2, <1>3, WroteStep
<1>5. nextSeq' = RowCount(file') /\ prev' = LastRow(file') /\ Verifies(file')
  BY DEF OpenStore, InStep
<1>6. nextSeq' \in Nat /\ prev' \in 0..Len(file')
  BY <1>2, <1>4, <1>5, CountFacts
<1>7. backlog' \in Seq(Jobs) /\ Len(backlog') \in Nat
  BY <1>2, <1>4, LostClosesType, EventFacts DEF OpenStore
<1>8. boots' \in 0..MaxBoots
  BY <1>1, ConstantFacts DEF OpenStore, Booting, TypeOK
<1>9. base' \in 0..Len(file') /\ handed' \in Nat
  BY <1>2, <1>4, <1>7 DEF OpenStore
<1>10. TypeOK'
  BY <1>1, <1>2, <1>4, <1>6, <1>7, <1>8, <1>9 DEF OpenStore, TypeOK, channelVars
<1>11. WriterState'
  BY <1>1, <1>3 DEF WriterState, OpenStore
<1>12. Ready'
  BY <1>2, <1>4, <1>5 DEF Ready, InSync
<1> QED BY <1>4, <1>10, <1>11, <1>12 DEF IInv

(* Opening the store and failing at it, however far it came.               *)
LEMMA OpenFailsKeeps ==
  ASSUME IInv, OpenFails
  PROVE  IInv' /\ AckStep
<1>1. TypeOK /\ WriterState /\ file \in Seq(Lines)
  BY DEF IInv, TypeOK
<1>2. synced' = synced /\ acked' = acked /\ phase' = "refused"
  BY DEF OpenFails, Fault, fileVars
<1>3. file' \in Seq(Lines) /\ Keeps(file, file')
  <2>1. CASE file' = file
    BY <1>1, <2>1 DEF Keeps
  <2>2. CASE file = <<>> /\ file' \in Landings(<<>>, RowLine(0, 0, Genesis))
    <3>1. <<>> \in Seq(Lines) /\ RowLine(0, 0, Genesis) \in Lines
      BY EventFacts, RowLineFacts
    <3>2. file' \in Seq(Lines) /\ Extends(<<>>, file')
      BY <2>2, <3>1, LandingExtends
    <3> QED BY <2>2, <3>2, ExtendsKeeps
  <2>3. CASE StartsWithGenesis(file) /\ file' \in RepairLandings(file)
    BY <2>3, <1>1, RepairLandingKeeps DEF StartsWithGenesis
  <2> QED BY <2>1, <2>2, <2>3 DEF OpenFails, fileVars
<1>4. /\ AckStep /\ AckedIsWhole'
      /\ synced' \in 0..Len(file') /\ acked' \in 0..synced' /\ Len(file) <= Len(file')
  BY <1>2, <1>3, FileStep
<1>5. faults' \in 0..MaxFaults /\ boots' \in 0..MaxBoots
  BY <1>1, ConstantFacts DEF OpenFails, Booting, Fault, TypeOK
<1>6. prev' \in 0..Len(file') /\ base' \in 0..Len(file') /\ nextSeq' \in Nat
  BY <1>1, <1>3, <1>4 DEF OpenFails, TypeOK, storeVars
<1>7. TypeOK'
  BY <1>1, <1>3, <1>4, <1>5, <1>6 DEF OpenFails, TypeOK, channelVars, storeVars
<1>8. WriterState'
  BY <1>1 DEF WriterState, OpenFails, storeVars, Booting
<1>9. Ready'
  BY <1>2 DEF Ready
<1> QED BY <1>4, <1>7, <1>8, <1>9 DEF IInv

(* A process that ends: of the file the synced lines are left.             *)
LEMMA ForgetKeeps ==
  ASSUME IInv, Forget, file' \in Seq(Lines), synced' = synced, synced <= Len(file'),
         \A i \in 1..synced : file'[i] = file[i]
  PROVE  IInv' /\ AckStep
<1>1. TypeOK /\ AckedIsWhole /\ file \in Seq(Lines)
  BY DEF IInv, TypeOK
<1>2. acked' = acked /\ acked \in Nat /\ synced \in Nat /\ acked <= synced
      /\ synced <= Len(file) /\ Len(file') \in Nat
  BY <1>1 DEF Forget, TypeOK
<1>3. \A i \in 1..acked : file'[i] = file[i]
  BY <1>2
<1>4. AckStep
  BY <1>1, <1>2, <1>3 DEF AckStep
<1>5. AckedIsWhole'
  BY <1>1, <1>2, <1>3 DEF AckedIsWhole
<1>6. TypeOK'
  <2>1. backlog' \in Seq(Jobs) /\ queue' \in Seq(Jobs) /\ Len(queue') <= Capacity
    BY NothingFacts DEF Forget
  <2>2. synced' \in 0..Len(file') /\ acked' \in 0..synced' /\ prev' \in 0..Len(file') /\ base' \in 0..Len(file')
    BY <1>2 DEF Forget
  <2>3. faults' \in 0..MaxFaults /\ boots' \in 0..MaxBoots
    BY <1>1 DEF Forget, TypeOK
  <2>4. stream' \in [Streams -> {"new", "open", "closed", "gone"}]
    BY <1>1 DEF Forget, TypeOK
  <2>5. overflow' \in Nat /\ nextSeq' \in Nat /\ dropped' \in Nat /\ handed' \in Nat /\ ~(dropped' > 0)
    BY DEF Forget
  <2>6. job' = NoJob /\ stage' = "idle" /\ phase' = "down" /\ state' = "ok" /\ poisoned' = FALSE
    BY DEF Forget
  <2>7. job' \in Jobs \cup {NoJob} /\ (job' # NoJob <=> stage' # "idle") /\ poisoned' \in BOOLEAN
        /\ phase' \in {"down", "on", "closed", "refused"}
        /\ stage' \in {"idle", "taken", "resync", "gap", "row"} /\ state' \in {"ok", "degraded"}
    BY <2>6
  <2> QED BY <2>1, <2>2, <2>3, <2>4, <2>5, <2>7 DEF TypeOK
<1>7. WriterState' /\ Ready'
  BY DEF Forget, WriterState, Ready
<1> QED BY <1>4, <1>5, <1>6, <1>7 DEF IInv

(* The process ends.                                                       *)
LEMMA ProcessEndsKeeps ==
  ASSUME IInv, ProcessEnds
  PROVE  IInv' /\ AckStep
<1>1. file \in Seq(Lines) /\ synced <= Len(file)
  BY DEF IInv, TypeOK
<1> QED BY <1>1, ForgetKeeps DEF ProcessEnds, fileVars

(* The power goes, and with it what was not synced.                        *)
LEMMA PowerLossKeeps ==
  ASSUME IInv, PowerLoss
  PROVE  IInv' /\ AckStep
<1>1. file \in Seq(Lines) /\ synced \in Nat /\ Len(file) \in Nat
  BY DEF IInv, TypeOK
<1>2. PICK kept \in synced..(Len(file) - 1) :
        LET rest == SubSeq(file, 1, kept)
        IN file' \in {rest, Append(rest, Half), Append(rest, [file[kept + 1] EXCEPT !.nl = FALSE])}
  BY DEF PowerLoss
<1> DEFINE rest == SubSeq(file, 1, kept)
           l == [file[kept + 1] EXCEPT !.nl = FALSE]
<1>3. kept \in Nat /\ kept + 1 \in 1..Len(file) /\ synced <= kept
  BY <1>1
<1>4. rest \in Seq(Lines) /\ Len(rest) = kept /\ \A i \in 1..kept : rest[i] = file[i]
  BY <1>1, <1>3
<1>5. l \in Lines /\ Half \in Lines
  <2>1. file[kept + 1] \in Lines
    BY <1>1, <1>3
  <2> QED BY <2>1, LineFacts, EventFacts
<1> HIDE DEF rest, l
<1>6. file' = rest \/ \E m \in Lines : file' = Append(rest, m)
  BY <1>2, <1>5 DEF rest, l
<1>7. file' \in Seq(Lines) /\ kept <= Len(file') /\ \A i \in 1..kept : file'[i] = file[i]
  <2>1. CASE file' = rest
    <3>1. file' \in Seq(Lines) /\ Len(file') = kept
      BY <1>4, <2>1
    <3>2. \A i \in 1..kept : file'[i] = file[i]
      BY <1>4, <2>1
    <3> QED BY <1>3, <3>1, <3>2
  <2>2. CASE \E m \in Lines : file' = Append(rest, m)
    <3>1. PICK m \in Lines : file' = Append(rest, m)
      BY <2>2
    <3>2. /\ file' \in Seq(Lines) /\ Len(file') = kept + 1
          /\ \A i \in 1..kept : file'[i] = rest[i]
      BY <1>4, <3>1, AppendFacts
    <3> QED BY <1>3, <1>4, <3>2
  <2> QED BY <1>6, <2>1, <2>2
<1>8. synced <= Len(file') /\ \A i \in 1..synced : file'[i] = file[i]
  BY <1>1, <1>3, <1>7
<1>9. Forget /\ synced' = synced
  BY DEF PowerLoss
<1> QED BY <1>7, <1>8, <1>9, ForgetKeeps

----------------------------------------------------------------------------
(* Turns and the channel.                                                  *)

(* A producer hands the writer an event, or finds the queue full.          *)
LEMMA SendKeeps ==
  ASSUME IInv, NEW e \in Jobs, Send(e),
         stream' \in [Streams -> {"new", "open", "closed", "gone"}]
  PROVE  IInv' /\ AckStep
<1>1. TypeOK /\ WriterState /\ Ready
  BY DEF IInv
<1>2. AckStep /\ AckedIsWhole'
  BY SameFile DEF Send, fileVars
<1>3. queue' \in Seq(Jobs) /\ Len(queue') <= Capacity /\ overflow' \in Nat /\ handed' \in Nat
  <2>1. queue \in Seq(Jobs) /\ Len(queue) <= Capacity /\ overflow \in Nat /\ handed \in Nat
        /\ Capacity \in Nat
    BY <1>1, ConstantFacts DEF TypeOK
  <2>2. CASE Room
    BY <2>2, <2>1 DEF Send, Room
  <2>3. CASE ~Room
    BY <2>1, <2>3 DEF Send
  <2> QED BY <2>2, <2>3
<1>4. TypeOK'
  BY <1>1, <1>3 DEF Send, TypeOK, fileVars, writerVars, storeVars
<1>5. WriterState'
  BY <1>1 DEF Send, WriterState, writerVars, storeVars
<1>6. Ready'
  BY <1>1 DEF Send, Ready, InSync, fileVars, writerVars, storeVars
<1> QED BY <1>2, <1>4, <1>5, <1>6 DEF IInv

(* A stream opens or closes.                                               *)
LEMMA StreamKeeps ==
  ASSUME IInv, NEW s \in Streams, OpenStream(s) \/ CloseStream(s)
  PROVE  IInv' /\ AckStep
<1>1. stream' \in [Streams -> {"new", "open", "closed", "gone"}]
  BY DEF IInv, TypeOK, OpenStream, CloseStream
<1>2. Open(s) \in Jobs /\ Close(s) \in Jobs
  BY EventFacts
<1> QED BY <1>1, <1>2, SendKeeps DEF OpenStream, CloseStream

(* The daemon asks the writer to end.                                      *)
LEMMA AskShutdownKeeps ==
  ASSUME IInv, AskShutdown
  PROVE  IInv' /\ AckStep
<1>1. TypeOK /\ WriterState /\ Ready
  BY DEF IInv
<1>2. AckStep /\ AckedIsWhole'
  BY SameFile DEF AskShutdown, fileVars
<1>3. queue' \in Seq(Jobs) /\ Len(queue') <= Capacity /\ handed' \in Nat
  BY <1>1, ConstantFacts, EventFacts DEF AskShutdown, Room, TypeOK
<1>4. TypeOK'
  BY <1>1, <1>3 DEF AskShutdown, TypeOK, fileVars, writerVars, storeVars
<1>5. WriterState'
  BY <1>1 DEF AskShutdown, WriterState, writerVars, storeVars
<1>6. Ready'
  BY <1>1 DEF AskShutdown, Ready, InSync, fileVars, writerVars, storeVars
<1> QED BY <1>2, <1>4, <1>5, <1>6 DEF IInv

----------------------------------------------------------------------------
(* The writer.                                                             *)

(* The writer takes the next job.                                          *)
LEMMA TakeJobKeeps ==
  ASSUME IInv, TakeJob
  PROVE  IInv' /\ AckStep
<1>1. TypeOK /\ WriterState /\ Ready
  BY DEF IInv
<1>2. AckStep /\ AckedIsWhole'
  BY SameFile DEF TakeJob, fileVars
<1>3. /\ job' \in Jobs /\ backlog' \in Seq(Jobs)
      /\ queue' \in Seq(Jobs) /\ Len(queue') <= Capacity
  <2>1. /\ backlog \in Seq(Jobs) /\ queue \in Seq(Jobs) /\ Len(queue) <= Capacity
        /\ Capacity \in Nat
    BY <1>1, ConstantFacts DEF TypeOK
  <2>2. CASE backlog # <<>> /\ job' = Head(backlog) /\ backlog' = Tail(backlog) /\ UNCHANGED queue
    BY <2>1, <2>2
  <2>3. CASE queue # <<>> /\ job' = Head(queue) /\ queue' = Tail(queue) /\ UNCHANGED backlog
    BY <2>1, <2>3
  <2> QED BY <2>2, <2>3 DEF TakeJob
<1>4. job' # NoJob
  BY <1>3, EventFacts
<1>5. TypeOK'
  BY <1>1, <1>3, <1>4 DEF TakeJob, TypeOK, fileVars, storeVars
<1>6. WriterState'
  BY <1>1 DEF TakeJob, WriterState, storeVars
<1>7. Ready'
  BY <1>1 DEF TakeJob, Ready, InSync, fileVars, storeVars
<1> QED BY <1>2, <1>5, <1>6, <1>7 DEF IInv

(* The writer takes the overflow counter.                                  *)
LEMMA SwapOverflowKeeps ==
  ASSUME IInv, SwapOverflow
  PROVE  IInv' /\ AckStep
<1>1. TypeOK /\ WriterState /\ Ready
  BY DEF IInv
<1>2. AckStep /\ AckedIsWhole'
  BY SameFile DEF SwapOverflow, fileVars
<1>3. dropped \in Nat /\ overflow \in Nat /\ poisoned \in BOOLEAN /\ (poisoned <=> dropped > 0)
  BY <1>1 DEF TypeOK, WriterState
<1>4. dropped' \in Nat /\ poisoned' \in BOOLEAN /\ (poisoned' <=> dropped' > 0)
      /\ overflow' = 0 /\ (poisoned => poisoned')
  <2>1. dropped' = dropped + overflow /\ poisoned' = (poisoned \/ overflow > 0) /\ overflow' = 0
    BY DEF SwapOverflow
  <2>2. dropped' \in Nat /\ (dropped' > 0 <=> (dropped > 0 \/ overflow > 0))
    BY <1>3, <2>1
  <2>3. (poisoned \/ overflow > 0) <=> dropped' > 0
    BY <1>3, <2>2
  <2>4. poisoned' \in BOOLEAN /\ (poisoned' <=> dropped' > 0) /\ (poisoned => poisoned')
    BY <2>1, <2>3, Zenon
  <2> QED BY <2>1, <2>2, <2>4
<1>5. stage' \in {"resync", "row"} /\ stage = "taken" /\ job' = job /\ phase' = phase
  BY DEF SwapOverflow
<1>6. TypeOK'
  BY <1>1, <1>4, <1>5 DEF SwapOverflow, TypeOK, fileVars
<1>7. WriterState'
  BY <1>1, <1>4, <1>5 DEF SwapOverflow, WriterState
<1>8. Ready'
  BY <1>1, <1>4, <1>5 DEF SwapOverflow, Ready, InSync, fileVars
<1> QED BY <1>2, <1>6, <1>7, <1>8 DEF IInv

(* The writer reads the file again and is in step with it.                 *)
LEMMA ResyncKeeps ==
  ASSUME IInv, Resync
  PROVE  IInv' /\ AckStep
<1>1. TypeOK /\ WriterState /\ file \in Seq(Lines) /\ stage = "resync"
  BY DEF IInv, TypeOK, Resync
<1>2. file # <<>>
  BY DEF Resync, Repairable, Class
<1> DEFINE f == Repaired(file)
<1>3. f \in Seq(Lines) /\ f # <<>> /\ Last(f).nl /\ Keeps(file, f)
  BY <1>1, <1>2, RepairedFacts DEF Resync
<1>4. Wrote(f) /\ acked' = acked
  BY DEF Resync
<1> HIDE DEF f
<1>5. /\ file' = f /\ AckStep /\ AckedIsWhole'
      /\ synced' \in 0..Len(file') /\ acked' \in 0..synced' /\ Len(file) <= Len(file')
  BY <1>3, <1>4, WroteStep
<1>6. nextSeq' = RowCount(file') /\ prev' = LastRow(file') /\ Verifies(file')
  BY DEF Resync, InStep
<1>7. nextSeq' \in Nat /\ prev' \in 0..Len(file')
  BY <1>3, <1>5, <1>6, CountFacts
<1>8. dropped' \in Nat /\ poisoned' \in BOOLEAN /\ (poisoned' <=> dropped' > 0)
  <2>1. dropped \in Nat /\ dropped > 0
    BY <1>1 DEF TypeOK, WriterState
  <2>2. dropped' = dropped \/ dropped' = dropped - 1
    BY DEF Resync
  <2>3. poisoned' = (dropped' > 0)
    BY DEF Resync
  <2>4. dropped' \in Nat
    BY <2>1, <2>2
  <2>5. CASE dropped' > 0
    BY <2>5, <2>3, <2>4
  <2>6. CASE ~(dropped' > 0)
    <3>1. (dropped' > 0) = FALSE
      BY <2>6
    <3>2. poisoned' = FALSE
      BY <2>3, <3>1, Zenon
    <3> QED BY <2>4, <2>6, <3>2
  <2> QED BY <2>5, <2>6
<1>9. /\ stage' \in {"gap", "row"} /\ (stage' = "gap" <=> poisoned')
      /\ job' = job /\ phase' = phase /\ base' = base
  BY DEF Resync
<1>10. base' \in 0..Len(file')
  BY <1>1, <1>3, <1>5, <1>9 DEF TypeOK
<1>11. TypeOK'
  BY <1>1, <1>3, <1>5, <1>7, <1>8, <1>9, <1>10 DEF Resync, TypeOK, channelVars
<1>12. WriterState'
  BY <1>1, <1>8, <1>9 DEF WriterState
<1>13. Ready'
  BY <1>3, <1>5, <1>6 DEF Ready, InSync
<1> QED BY <1>5, <1>11, <1>12, <1>13 DEF IInv

(* A job is over: what the writer holds after it.                          *)
LEMMA EndJobTypes ==
  ASSUME TypeOK, NEW st \in {"ok", "degraded"}, EndJob(st)
  PROVE  /\ phase' \in {"down", "on", "closed", "refused"}
         /\ job' = NoJob /\ stage' = "idle" /\ state' = st
         /\ backlog' = backlog /\ overflow' = overflow /\ stream' = stream
         /\ boots' = boots /\ base' = base /\ handed' = handed
         /\ queue' \in Seq(Jobs) /\ Len(queue') <= Capacity
<1>1. CASE job = Shutdown
  BY <1>1, NothingFacts DEF EndJob
<1>2. CASE job # Shutdown
  BY <1>2 DEF EndJob, TypeOK
<1> QED BY <1>1, <1>2 DEF EndJob

(* A row that is lost, with whatever its write left of it.                 *)
LEMMA LoseJobKeeps ==
  ASSUME IInv, LoseJob, file' \in Seq(Lines), Keeps(file, file'),
         synced' = synced, faults' \in 0..MaxFaults
  PROVE  IInv' /\ AckStep
<1>1. TypeOK /\ dropped \in Nat /\ base \in 0..Len(file) /\ prev \in 0..Len(file)
  BY DEF IInv, TypeOK
<1>2. acked' = acked /\ nextSeq' = nextSeq /\ prev' = prev /\ EndJob("degraded")
      /\ dropped' = dropped + 1 /\ poisoned' = TRUE
  BY DEF LoseJob
<1>3. /\ AckStep /\ AckedIsWhole'
      /\ synced' \in 0..Len(file') /\ acked' \in 0..synced' /\ Len(file) <= Len(file')
  BY <1>2, FileStep
<1>4. /\ phase' \in {"down", "on", "closed", "refused"}
      /\ job' = NoJob /\ stage' = "idle" /\ state' = "degraded"
      /\ backlog' = backlog /\ overflow' = overflow /\ stream' = stream
      /\ boots' = boots /\ base' = base /\ handed' = handed
      /\ queue' \in Seq(Jobs) /\ Len(queue') <= Capacity
  BY <1>1, <1>2, EndJobTypes
<1>5. base' \in 0..Len(file') /\ prev' \in 0..Len(file')
  BY <1>1, <1>2, <1>3, <1>4
<1>6. dropped' \in Nat /\ dropped' > 0
  BY <1>1, <1>2
<1>7. TypeOK'
  BY <1>2, <1>4, <1>1, <1>3, <1>5, <1>6 DEF TypeOK
<1>8. WriterState' /\ Ready'
  BY <1>2, <1>4, <1>6 DEF WriterState, Ready
<1> QED BY <1>3, <1>7, <1>8 DEF IInv

(* A fault is one of the allowed ones and syncs nothing.                   *)
LEMMA FaultFacts ==
  ASSUME TypeOK, Fault
  PROVE  faults' \in 0..MaxFaults /\ synced' = synced
BY ConstantFacts DEF TypeOK, Fault

(* Reading the file again fails.                                           *)
LEMMA ResyncFailsKeeps ==
  ASSUME IInv, ResyncFails
  PROVE  IInv' /\ AckStep
<1>1. TypeOK /\ file \in Seq(Lines)
  BY DEF IInv, TypeOK
<1>2. CASE ~Repairable(file) /\ UNCHANGED <<fileVars, faults>>
  BY <1>1, <1>2, LoseJobKeeps DEF fileVars, TypeOK, Keeps, ResyncFails
<1>3. CASE Fault /\ file' \in RepairLandings(file)
  <2>1. faults' \in 0..MaxFaults /\ synced' = synced
    BY <1>1, <1>3, FaultFacts
  <2>2. file' \in Seq(Lines) /\ Keeps(file, file')
    <3>1. CASE file = <<>>
      <4>1. file' = file
        BY <3>1, <1>3 DEF Class, RepairLandings
      <4> QED BY <1>1, <4>1 DEF Keeps
    <3>2. CASE file # <<>>
      BY <1>1, <1>3, <3>2, RepairLandingKeeps
    <3> QED BY <3>1, <3>2
  <2> QED BY <2>1, <2>2, LoseJobKeeps DEF ResyncFails
<1> QED BY <1>2, <1>3 DEF ResyncFails

(* A row the writer may write: the taken one, or what it lost so far.      *)
LEMMA JobFacts ==
  ASSUME TypeOK, stage # "idle"
  PROVE  /\ job \in Jobs /\ job \in Events /\ job # Genesis /\ job.kind # "recover"
         /\ Gap(dropped) \in Events /\ Gap(dropped) # Genesis /\ Gap(dropped).kind # "recover"
<1>1. job \in Jobs /\ dropped \in Nat
  BY DEF TypeOK
<1> QED BY <1>1, EventFacts

(* A write fails, part of it in the file.                                  *)
LEMMA WriteFailsKeeps ==
  ASSUME IInv, WriteFails
  PROVE  IInv' /\ AckStep
<1>1. TypeOK /\ file \in Seq(Lines) /\ nextSeq \in Nat /\ prev \in Nat /\ stage # "idle"
  BY DEF IInv, TypeOK, WriteFails
<1>2. PICK e \in Events : file' \in Landings(file, RowLine(nextSeq, prev, e))
  BY <1>1, JobFacts DEF WriteFails
<1>3. RowLine(nextSeq, prev, e) \in Lines
  BY <1>1, RowLineFacts
<1>4. file' \in Seq(Lines) /\ Keeps(file, file')
  BY <1>1, <1>2, <1>3, LandingExtends, ExtendsKeeps
<1>5. faults' \in 0..MaxFaults /\ synced' = synced
  BY <1>1, FaultFacts DEF WriteFails
<1> QED BY <1>4, <1>5, LoseJobKeeps DEF WriteFails

(* A row written by a store in step with its file.                         *)
LEMMA AppendLineFacts ==
  ASSUME IInv, InSync, NEW e \in Events, e # Genesis, e.kind # "recover", AppendLine(e)
  PROVE  /\ file' \in Seq(Lines) /\ InSync' /\ Keeps(file, file')
         /\ Len(file') = Len(file) + 1 /\ synced' = Len(file')
         /\ IsRow(file'[Len(file')]) /\ file'[Len(file')].nl
         /\ nextSeq' \in Nat /\ prev' \in 0..Len(file')
<1> DEFINE l == RowLine(nextSeq, prev, e)
<1>1. /\ file \in Seq(Lines) /\ Len(file) \in Nat /\ nextSeq \in Nat /\ prev \in Nat
      /\ file # <<>> /\ Verifies(file) /\ Last(file).nl
      /\ nextSeq = RowCount(file) /\ prev = LastRow(file)
  BY DEF IInv, TypeOK, InSync
<1>2. l \in Lines /\ IsRow(l) /\ l.nl
  BY <1>1, RowLineFacts
<1>3. Verifies(Append(file, l))
  BY <1>1, NextRowVerifies
<1> HIDE DEF l
<1>4. /\ Append(file, l) \in Seq(Lines) /\ Len(Append(file, l)) = Len(file) + 1
      /\ \A i \in 1..Len(file) : Append(file, l)[i] = file[i]
      /\ Append(file, l)[Len(file) + 1] = l
      /\ Append(file, l) # <<>> /\ Last(Append(file, l)) = l
  BY <1>1, <1>2, AppendFacts
<1>5. RowCount(Append(file, l)) = RowCount(file) + 1 /\ LastRow(Append(file, l)) = Len(file) + 1
  BY <1>1, <1>2, OneMoreRow
<1>6. Append(file, l) # file
  BY <1>1, <1>4
<1>7. file' = Append(file, l) /\ synced' = Len(file')
      /\ nextSeq' = nextSeq + 1 /\ prev' = Len(file')
  BY <1>6 DEF AppendLine, Wrote, l
<1>8. InSync'
  BY <1>1, <1>2, <1>3, <1>4, <1>5, <1>7 DEF InSync
<1>9. Keeps(file, file')
  BY <1>1, <1>4, <1>7 DEF Keeps
<1>10. nextSeq' \in Nat /\ prev' \in 0..Len(file')
  BY <1>1, <1>4, <1>7
<1> QED BY <1>2, <1>4, <1>7, <1>8, <1>9, <1>10

(* The writer records how many events were lost.                           *)
LEMMA WriteGapKeeps ==
  ASSUME IInv, WriteGap
  PROVE  IInv' /\ AckStep
<1>1. TypeOK /\ WriterState /\ stage = "gap" /\ phase = "on" /\ InSync
  BY DEF IInv, WriteGap, WriterState, Ready
<1>2. AppendLine(Gap(dropped)) /\ acked' = acked
  BY DEF WriteGap
<1>3. /\ file' \in Seq(Lines) /\ InSync' /\ Keeps(file, file')
      /\ synced' = Len(file') /\ nextSeq' \in Nat /\ prev' \in 0..Len(file')
  BY <1>1, <1>2, JobFacts, AppendLineFacts
<1>4. /\ AckStep /\ AckedIsWhole'
      /\ synced' \in 0..Len(file') /\ acked' \in 0..synced' /\ Len(file) <= Len(file')
  BY <1>2, <1>3, FileStep
<1>5. /\ poisoned' = FALSE /\ dropped' = 0 /\ stage' = "row" /\ job' = job
      /\ phase' = phase /\ base' = base
  BY DEF WriteGap
<1>6. base' \in 0..Len(file')
  BY <1>1, <1>3, <1>4, <1>5 DEF TypeOK
<1>7. TypeOK'
  <2>1. job' \in Jobs \cup {NoJob} /\ (job' # NoJob <=> stage' # "idle")
        /\ phase' \in {"down", "on", "closed", "refused"}
        /\ stage' \in {"idle", "taken", "resync", "gap", "row"}
    BY <1>1, <1>5 DEF TypeOK
  <2>2. dropped' \in Nat /\ ~(dropped' > 0)
    BY <1>5
  <2>3. poisoned' \in BOOLEAN
    BY <1>5, Zenon
  <2> QED BY <1>1, <1>3, <1>4, <1>6, <2>1, <2>2, <2>3 DEF WriteGap, TypeOK, channelVars
<1>8. WriterState' /\ Ready'
  BY <1>1, <1>3, <1>5 DEF WriterState, Ready
<1> QED BY <1>4, <1>7, <1>8 DEF IInv

(* The writer appends the row of its job.                                  *)
LEMMA WriteRowKeeps ==
  ASSUME IInv, WriteRow
  PROVE  IInv' /\ AckStep
<1>1. TypeOK /\ WriterState /\ AckedIsWhole /\ stage = "row" /\ phase = "on" /\ InSync
      /\ poisoned = FALSE
  BY DEF IInv, WriteRow, WriterState, Ready, TypeOK
<1>2. AppendLine(job) /\ acked' = Len(file') /\ faults' = faults
      /\ poisoned' = poisoned /\ dropped' = dropped
  BY DEF WriteRow
<1>3. /\ file' \in Seq(Lines) /\ InSync' /\ Keeps(file, file') /\ Len(file') = Len(file) + 1
      /\ synced' = Len(file') /\ nextSeq' \in Nat /\ prev' \in 0..Len(file')
      /\ IsRow(file'[Len(file')]) /\ file'[Len(file')].nl
  BY <1>1, <1>2, JobFacts, AppendLineFacts
<1>4. PICK st \in {"ok", "degraded"} : EndJob(st)
  BY DEF WriteRow
<1>5. /\ phase' \in {"down", "on", "closed", "refused"}
      /\ job' = NoJob /\ stage' = "idle" /\ state' = st
      /\ backlog' = backlog /\ overflow' = overflow /\ stream' = stream
      /\ boots' = boots /\ base' = base /\ handed' = handed
      /\ queue' \in Seq(Jobs) /\ Len(queue') <= Capacity
  BY <1>1, <1>4, EndJobTypes
<1>6. /\ file \in Seq(Lines) /\ acked \in 0..Len(file) /\ base \in 0..Len(file)
      /\ Len(file) \in Nat
  BY <1>1 DEF TypeOK
<1>7. AckStep
  BY <1>1, <1>3, <1>6, KeepsAcked, <1>2 DEF AckedIsWhole, AckStep
<1>8. AckedIsWhole'
  BY <1>2, <1>3 DEF AckedIsWhole
<1>9. synced' \in 0..Len(file') /\ acked' \in 0..synced' /\ base' \in 0..Len(file')
  BY <1>2, <1>3, <1>5, <1>6
<1>10. TypeOK'
  BY <1>5, <1>1, <1>2, <1>3, <1>9 DEF TypeOK
<1>11. WriterState'
  BY <1>1, <1>2, <1>5 DEF WriterState
<1>12. Ready'
  BY <1>3 DEF Ready
<1> QED BY <1>7, <1>8, <1>10, <1>11, <1>12 DEF IInv

----------------------------------------------------------------------------
(* The theorems.                                                           *)

(* Nothing happens.                                                        *)
LEMMA StutterKeeps ==
  ASSUME IInv, UNCHANGED vars
  PROVE  IInv'
<1>1. TypeOK'
  BY DEF IInv, TypeOK, vars, fileVars, writerVars, channelVars, storeVars
<1>2. WriterState' /\ AckedIsWhole'
  BY DEF IInv, WriterState, AckedIsWhole, vars, fileVars, writerVars, storeVars
<1>3. Ready'
  BY DEF IInv, Ready, InSync, vars, fileVars, writerVars, storeVars
<1> QED BY <1>1, <1>2, <1>3 DEF IInv

(* Every step keeps the invariant.                                         *)
LEMMA StepKeeps ==
  ASSUME IInv, Next
  PROVE  IInv' /\ AckStep
<1>1. CASE OpenStore
  BY <1>1, OpenStoreKeeps
<1>2. CASE OpenFails
  BY <1>2, OpenFailsKeeps
<1>3. CASE ProcessEnds
  BY <1>3, ProcessEndsKeeps
<1>4. CASE PowerLoss
  BY <1>4, PowerLossKeeps
<1>5. CASE \E s \in Streams : OpenStream(s) \/ CloseStream(s)
  BY <1>5, StreamKeeps
<1>6. CASE AskShutdown
  BY <1>6, AskShutdownKeeps
<1>7. CASE TakeJob
  BY <1>7, TakeJobKeeps
<1>8. CASE SwapOverflow
  BY <1>8, SwapOverflowKeeps
<1>9. CASE Resync
  BY <1>9, ResyncKeeps
<1>10. CASE ResyncFails
  BY <1>10, ResyncFailsKeeps
<1>11. CASE WriteGap
  BY <1>11, WriteGapKeeps
<1>12. CASE WriteRow
  BY <1>12, WriteRowKeeps
<1>13. CASE WriteFails
  BY <1>13, WriteFailsKeeps
<1> QED BY <1>1, <1>2, <1>3, <1>4, <1>5, <1>6, <1>7, <1>8, <1>9, <1>10, <1>11,
     <1>12, <1>13 DEF Next, Writer

(* The writer's place in its job agrees with what its store lost, the last *)
(* acknowledged line is a finished row, and a store that may write is in   *)
(* step with its file: this is inductive (store.rs: append, resync).       *)
THEOREM Invariance == Spec => []IInv
<1>1. IInv /\ [Next]_vars => IInv'
  BY StepKeeps, StutterKeeps
<1> QED BY InitIInv, <1>1, PTL DEF Spec

(* Every variable keeps its type, no line is acknowledged before the sync  *)
(* that covers it, and the channel keeps its bound, whatever fails         *)
(* (store.rs: ReceiptStore; receipt.rs: CAPACITY).                         *)
THEOREM TypeCorrect == Spec => []TypeOK
<1>1. IInv => TypeOK
  BY DEF IInv
<1> QED BY Invariance, <1>1, PTL

(* A store that would write its next row verifies against its whole file,  *)
(* for any number of failed writes, repairs and restarts before (store.rs: *)
(* resync, write_event).                                                   *)
THEOREM InStepWithFile == Spec => []StoreMatchesFile
<1>1. IInv => StoreMatchesFile
  BY DEF IInv, Ready, InSync, StoreMatchesFile
<1> QED BY Invariance, <1>1, PTL

(* No repair, failed write, crash or power loss moves or rewrites a row    *)
(* whose append was acknowledged (store.rs: append, repair_class).         *)
THEOREM AcknowledgedRowsStay == Spec => AcknowledgedStays
<1>1. IInv /\ [Next]_vars => [/\ acked <= acked' /\ acked <= Len(file')
                              /\ SubSeq(file', 1, acked) = SubSeq(file, 1, acked)]_vars
  BY StepKeeps DEF AckStep
<1> QED BY Invariance, <1>1, PTL DEF Spec, AcknowledgedStays

----------------------------------------------------------------------------
(* Sums over lines.                                                        *)

(* A set of numbers that is not empty has a least one.                     *)
LEMMA Least ==
  ASSUME NEW S \in SUBSET Nat, S # {}
  PROVE  \E x \in S : \A y \in S : x <= y
<1> DEFINE R == OpToRel(<, Nat)
<1>1. IsWellFoundedOn(R, Nat)
  BY NatLessThanWellFounded, Zenon
<1>2. PICK x \in S : \A y \in S : ~(<<y, x>> \in R)
  BY <1>1, WFMin, Zenon
<1>3. ASSUME NEW y \in S PROVE x <= y
  <2>1. <<y, x>> \in Nat \X Nat
    OBVIOUS
  <2>2. ~(y < x)
    BY <1>2, <2>1 DEF OpToRel
  <2> QED BY <2>2
<1> QED BY <1>3

\* What gap rows tell from line b on up to each line.
Tells(f, b, n, t) == t = [i \in b..n |-> IF i = b THEN 0 ELSE t[i - 1] + GapOf(f[i])]
ToldTo(f, b, n) == CHOOSE t : Tells(f, b, n, t)
ToldIn(f, b) == ToldTo(f, b, Len(f))[Len(f)]

(* Such sums exist.                                                        *)
LEMMA TellsExists ==
  ASSUME NEW f, NEW b \in Nat, NEW n \in Nat, b <= n
  PROVE  \E t : Tells(f, b, n, t)
<1> DEFINE S == {m \in Nat : b <= m /\ ~ \E t : Tells(f, b, m, t)}
<1> SUFFICES ASSUME S # {} PROVE FALSE
  OBVIOUS
<1>1. PICK m \in S : \A y \in S : m <= y
  <2>1. S \in SUBSET Nat
    OBVIOUS
  <2> HIDE DEF S
  <2> QED BY <2>1, Least
<1>2. m \in Nat /\ b <= m /\ ~ \E t : Tells(f, b, m, t)
  OBVIOUS
<1>3. m # b
  <2>1. Tells(f, b, b, [i \in b..b |-> 0])
    BY DEF Tells
  <2> QED BY <1>2, <2>1
<1>4. m - 1 \in Nat /\ b <= m - 1 /\ m - 1 \notin S
  BY <1>1, <1>2, <1>3
<1>5. PICK t : Tells(f, b, m - 1, t)
  BY <1>4
<1> DEFINE u == [i \in b..m |-> IF i = m THEN t[m - 1] + GapOf(f[m]) ELSE t[i]]
<1>6. t = [i \in b..(m - 1) |-> IF i = b THEN 0 ELSE t[i - 1] + GapOf(f[i])]
  BY <1>5 DEF Tells
<1>7. \A i \in b..m : u[i] = IF i = b THEN 0 ELSE u[i - 1] + GapOf(f[i])
  <2>1. TAKE i \in b..m
  <2>2. CASE i = m
    BY <1>2, <1>3, <2>2
  <2>3. CASE i # m
    BY <1>2, <2>3, <1>6
  <2> QED BY <2>2, <2>3
<1>8. Tells(f, b, m, u)
  <2>1. u = [i \in b..m |-> u[i]]
    OBVIOUS
  <2> HIDE DEF u
  <2>2. [i \in b..m |-> u[i]] = [i \in b..m |-> IF i = b THEN 0 ELSE u[i - 1] + GapOf(f[i])]
    BY <1>7
  <2> QED BY <2>1, <2>2 DEF Tells
<1> QED BY <1>2, <1>8

(* What they are, step by step, and that they are numbers.                 *)
LEMMA ToldSteps ==
  ASSUME NEW f \in Seq(Lines), NEW b \in Nat, NEW n \in 0..Len(f), b <= n
  PROVE  /\ ToldTo(f, b, n) \in [b..n -> Nat] /\ ToldTo(f, b, n)[b] = 0
         /\ \A i \in (b + 1)..n : ToldTo(f, b, n)[i] = ToldTo(f, b, n)[i - 1] + GapOf(f[i])
<1> DEFINE t == ToldTo(f, b, n)
<1>1. n \in Nat /\ Len(f) \in Nat
  OBVIOUS
<1>2. Tells(f, b, n, t)
  BY <1>1, TellsExists DEF ToldTo
<1> HIDE DEF t
<1>3. t = [i \in b..n |-> IF i = b THEN 0 ELSE t[i - 1] + GapOf(f[i])]
  BY <1>2 DEF Tells
<1>4. \A i \in b..n : t[i] = IF i = b THEN 0 ELSE t[i - 1] + GapOf(f[i])
  BY <1>3
<1>5. \A i \in 1..Len(f) : GapOf(f[i]) \in Nat
  <2>1. TAKE i \in 1..Len(f)
  <2>2. f[i] \in Lines
    OBVIOUS
  <2>3. IsRow(f[i]) => f[i].e \in Events
    BY <2>2, LineFacts
  <2>4. ASSUME NEW e \in Events, e.kind = "gap" PROVE e.dropped \in Nat
    BY <2>4 DEF Events, Jobs, Boot, Shutdown, Genesis
  <2> QED BY <2>3, <2>4 DEF GapOf
<1>6. \A i \in b..n : t[i] \in Nat
  <2> DEFINE S == {m \in Nat : m \in b..n /\ t[m] \notin Nat}
  <2> SUFFICES ASSUME S # {} PROVE FALSE
    OBVIOUS
  <2>1. PICK m \in S : \A y \in S : m <= y
    <3>1. S \in SUBSET Nat
      OBVIOUS
    <3> HIDE DEF S
    <3> QED BY <3>1, Least
  <2>2. m \in b..n /\ t[m] \notin Nat
    OBVIOUS
  <2>3. m # b
    BY <1>4, <2>2
  <2>4. m - 1 \in b..n /\ m \in 1..Len(f) /\ t[m] = t[m - 1] + GapOf(f[m])
    BY <1>1, <1>4, <2>2, <2>3
  <2>5. t[m - 1] \in Nat
    BY <1>1, <2>1, <2>2, <2>4
  <2> QED BY <1>5, <2>2, <2>4, <2>5
<1>7. t \in [b..n -> Nat]
  BY <1>3, <1>6
<1>8. \A i \in (b + 1)..n : t[i] = t[i - 1] + GapOf(f[i])
  BY <1>1, <1>4
<1>9. t[b] = 0
  BY <1>1, <1>4
<1> QED BY <1>7, <1>8, <1>9 DEF t

(* Lines that tell the same make the same sums.                            *)
LEMMA SameSums ==
  ASSUME NEW f \in Seq(Lines), NEW g \in Seq(Lines), NEW b \in Nat, b <= Len(f), Len(f) <= Len(g),
         \A i \in 1..Len(f) : GapOf(f[i]) = GapOf(g[i])
  PROVE  \A i \in b..Len(f) : ToldTo(g, b, Len(g))[i] = ToldTo(f, b, Len(f))[i]
<1>1. /\ Len(f) \in Nat /\ Len(g) \in Nat /\ Len(f) \in 0..Len(f)
      /\ Len(g) \in 0..Len(g) /\ b <= Len(g)
  OBVIOUS
<1> DEFINE m == Len(f)
           n == Len(g)
<1>2. PICK t : t = ToldTo(f, b, m)
  OBVIOUS
<1>3. PICK u : u = ToldTo(g, b, n)
  OBVIOUS
<1>4. t[b] = 0 /\ \A i \in (b + 1)..m : t[i] = t[i - 1] + GapOf(f[i])
  BY <1>1, <1>2, ToldSteps
<1>5. u[b] = 0 /\ \A i \in (b + 1)..n : u[i] = u[i - 1] + GapOf(g[i])
  BY <1>1, <1>3, ToldSteps
<1>6. \A i \in b..m : u[i] = t[i]
  <2> DEFINE S == {i \in Nat : i \in b..m /\ u[i] # t[i]}
  <2> SUFFICES ASSUME S # {} PROVE FALSE
    OBVIOUS
  <2>1. PICK k \in S : \A y \in S : k <= y
    <3>1. S \in SUBSET Nat
      OBVIOUS
    <3> HIDE DEF S
    <3> QED BY <3>1, Least
  <2>2. k \in b..m /\ u[k] # t[k]
    OBVIOUS
  <2>3. k # b
    BY <1>4, <1>5, <2>2
  <2>4. k - 1 \in b..m /\ k \in 1..m /\ k \in (b + 1)..m /\ k \in (b + 1)..n
    BY <1>1, <2>2, <2>3
  <2>5. u[k - 1] = t[k - 1]
    BY <1>1, <2>1, <2>4
  <2> QED BY <1>1, <1>4, <1>5, <2>2, <2>4, <2>5
<1> QED BY <1>1, <1>2, <1>3, <1>6

----------------------------------------------------------------------------
(* Files that grow, and what they have landed and told.                    *)

\* The lines of f and perhaps one more, which says e if it is a row.
SameLine(l, m) == (IsRow(l) <=> IsRow(m)) /\ (IsRow(l) => m.e = l.e /\ m.seq = l.seq)
Grown(f, g, e) ==
  /\ Len(g) \in {Len(f), Len(f) + 1}
  /\ \A i \in 1..Len(f) : SameLine(f[i], g[i])
  /\ Len(g) = Len(f) + 1 /\ IsRow(g[Len(g)]) => g[Len(g)].e = e

\* The rows that landed after line b.
LandedIn(f, b) == Cardinality({i \in (b + 1)..Len(f) : IsLanded(f[i])})

\* The last row is one whose write was taken for lost.
Doubled(f, n) == f # <<>> /\ IsRow(Last(f)) /\ Last(f).seq = n /\ Last(f).e.kind # "recover"

(* A file that grows has landed and told no less, and what its new row     *)
(* is worth.                                                               *)
LEMMA LandedGrows ==
  ASSUME NEW f \in Seq(Lines), NEW g \in Seq(Lines), NEW b \in 0..Len(f), NEW e, Grown(f, g, e)
  PROVE  /\ LandedIn(f, b) \in Nat /\ LandedIn(g, b) \in Nat /\ LandedIn(f, b) <= LandedIn(g, b)
         /\ Len(g) = Len(f) + 1 /\ IsRow(g[Len(g)]) /\ e.kind \notin {"recover", "gap", "genesis"} =>
               LandedIn(f, b) + 1 <= LandedIn(g, b)
<1>1. PICK A, B : /\ A = {i \in (b + 1)..Len(f) : IsLanded(f[i])}
                  /\ B = {i \in (b + 1)..Len(g) : IsLanded(g[i])}
  OBVIOUS
<1>2. /\ b \in Nat /\ Len(f) \in Nat /\ Len(g) \in Nat
      /\ Len(g) \in {Len(f), Len(f) + 1} /\ \A i \in 1..Len(f) : SameLine(f[i], g[i])
  BY DEF Grown
<1>3. \A i \in (b + 1)..Len(f) : IsLanded(f[i]) => IsLanded(g[i])
  BY <1>2 DEF IsLanded, SameLine
<1>4. IsFiniteSet(B)
  <2>1. IsFiniteSet((b + 1)..Len(g))
    BY <1>2, FS_Interval
  <2>2. B \subseteq (b + 1)..Len(g)
    BY <1>1
  <2> QED BY <2>1, <2>2, FS_Subset
<1>5. A \subseteq B
  BY <1>1, <1>2, <1>3
<1>6. IsFiniteSet(A) /\ Cardinality(A) <= Cardinality(B)
  BY <1>4, <1>5, FS_Subset
<1>7. Cardinality(A) \in Nat /\ Cardinality(B) \in Nat
  BY <1>4, <1>6, FS_CardinalityType
<1>8. LandedIn(f, b) = Cardinality(A) /\ LandedIn(g, b) = Cardinality(B)
  BY <1>1 DEF LandedIn
<1>9. ASSUME Len(g) = Len(f) + 1, IsRow(g[Len(g)]), e.kind \notin {"recover", "gap", "genesis"}
      PROVE  Cardinality(A) + 1 <= Cardinality(B)
  <2>1. g[Len(g)].e = e
    BY <1>9 DEF Grown
  <2>2. Len(g) \in B /\ Len(g) \notin A
    BY <1>1, <1>2, <1>9, <2>1 DEF IsLanded
  <2>3. Cardinality(A) # Cardinality(B)
    BY <1>4, <1>5, <2>2, FS_Subset
  <2> QED BY <1>6, <1>7, <2>3
<1> QED BY <1>6, <1>7, <1>8, <1>9

(* And told no less.                                                       *)
LEMMA ToldGrows ==
  ASSUME NEW f \in Seq(Lines), NEW g \in Seq(Lines), NEW b \in 0..Len(f), NEW e, Grown(f, g, e)
  PROVE  /\ ToldIn(f, b) \in Nat /\ ToldIn(g, b) \in Nat /\ ToldIn(f, b) <= ToldIn(g, b)
         /\ Len(g) = Len(f) + 1 /\ IsRow(g[Len(g)]) /\ e.kind = "gap" =>
               ToldIn(f, b) + e.dropped <= ToldIn(g, b)
<1>1. /\ b \in Nat /\ Len(f) \in Nat /\ Len(g) \in Nat /\ b <= Len(f) /\ Len(f) <= Len(g) /\ b <= Len(g)
      /\ Len(g) \in {Len(f), Len(f) + 1} /\ \A i \in 1..Len(f) : SameLine(f[i], g[i])
      /\ Len(f) \in 0..Len(f) /\ Len(g) \in 0..Len(g)
  BY DEF Grown
<1>2. \A i \in 1..Len(f) : GapOf(f[i]) = GapOf(g[i])
  BY <1>1 DEF GapOf, SameLine
<1>3. PICK t, u : t = ToldTo(f, b, Len(f)) /\ u = ToldTo(g, b, Len(g))
  OBVIOUS
<1>4. /\ t \in [b..Len(f) -> Nat] /\ u \in [b..Len(g) -> Nat]
      /\ \A i \in (b + 1)..Len(g) : u[i] = u[i - 1] + GapOf(g[i])
  BY <1>1, <1>3, ToldSteps
<1>5. \A i \in b..Len(f) : u[i] = t[i]
  BY <1>1, <1>2, <1>3, SameSums
<1>6. ToldIn(f, b) = t[Len(f)] /\ ToldIn(g, b) = u[Len(g)]
  BY <1>3 DEF ToldIn
<1>7. u[Len(f)] = t[Len(f)] /\ t[Len(f)] \in Nat /\ u[Len(g)] \in Nat
  BY <1>1, <1>4, <1>5
<1>8. CASE Len(g) = Len(f)
  BY <1>1, <1>6, <1>7, <1>8
<1>9. CASE Len(g) = Len(f) + 1
  <2>1. u[Len(g)] = u[Len(f)] + GapOf(g[Len(g)])
    BY <1>1, <1>4, <1>9
  <2>2. GapOf(g[Len(g)]) \in Nat
    <3>1. g[Len(g)] \in Lines
      BY <1>1, <1>9
    <3>2. IsRow(g[Len(g)]) => g[Len(g)].e \in Events
      BY <3>1, LineFacts
    <3>3. ASSUME NEW d \in Events, d.kind = "gap" PROVE d.dropped \in Nat
      BY <3>3 DEF Events, Jobs, Boot, Shutdown, Genesis
    <3> QED BY <3>2, <3>3 DEF GapOf
  <2>3. IsRow(g[Len(g)]) /\ e.kind = "gap" => GapOf(g[Len(g)]) = e.dropped
    BY <1>9 DEF Grown, GapOf
  <2> QED BY <1>6, <1>7, <2>1, <2>2, <2>3
<1> QED BY <1>1, <1>8, <1>9

(* A whole file that verifies ends in the row before the next.             *)
LEMMA LastIsPrevious ==
  ASSUME NEW f \in Seq(Lines), f # <<>>, Verifies(f), Last(f).nl
  PROVE  IsRow(Last(f)) /\ Last(f).seq \in Nat /\ RowCount(f) = Last(f).seq + 1
<1>1. PICK n \in Nat : n = Len(f) /\ n \in 1..Len(f) /\ n \in 1..(Len(f) + 1)
  OBVIOUS
<1>2. Last(f) = f[n] /\ f[n] \in Lines
  BY <1>1 DEF Last
<1>3. ~Torn(f, n) /\ Follows(f, n)
  BY <1>1 DEF RecoveredAt, Verifies
<1>4. IsRow(f[n]) /\ f[n].seq = Cardinality(RowsBefore(f, n))
  BY <1>3 DEF Follows
<1>5. RowsBefore(f, n) \subseteq 1..(n - 1) /\ IsFiniteSet(RowsBefore(f, n)) /\ Cardinality(RowsBefore(f, n)) \in Nat
  BY <1>1, RowsFacts
<1>6. RowsBefore(f, n + 1) = RowsBefore(f, n) \cup {n} /\ n \notin RowsBefore(f, n)
  BY <1>1, <1>4, <1>5 DEF RowsBefore
<1>7. Cardinality(RowsBefore(f, n + 1)) = Cardinality(RowsBefore(f, n)) + 1
  BY <1>5, <1>6, FS_AddElement
<1> QED BY <1>1, <1>2, <1>4, <1>5, <1>7 DEF RowCount

(* So nothing is counted twice of a store in step with its file.           *)
LEMMA SyncedIsExact ==
  ASSUME NEW f \in Seq(Lines), f # <<>>, Verifies(f), Last(f).nl
  PROVE  ~Doubled(f, RowCount(f))
<1>1. Last(f).seq \in Nat /\ RowCount(f) = Last(f).seq + 1
  BY LastIsPrevious
<1> QED BY <1>1 DEF Doubled

(* What a write leaves behind.                                             *)
LEMMA LandingGrows ==
  ASSUME NEW f \in Seq(Lines), NEW n \in Nat, NEW p \in Nat, NEW e \in Events,
         NEW g \in Landings(f, RowLine(n, p, e))
  PROVE  /\ g \in Seq(Lines) /\ Grown(f, g, e)
         /\ g # f => Len(g) = Len(f) + 1 /\ Last(g) = g[Len(g)]
         /\ Doubled(g, n) => Doubled(f, n) \/ (Len(g) = Len(f) + 1 /\ IsRow(g[Len(g)]))
<1>1. PICK l : l = RowLine(n, p, e)
  OBVIOUS
<1>2. l \in Lines /\ IsRow(l) /\ l.e = e /\ l.seq = n
  BY <1>1, RowLineFacts
<1>3. PICK m : m = [l EXCEPT !.nl = FALSE]
  OBVIOUS
<1>4. m \in Lines /\ IsRow(m) /\ m.e = e /\ Half \in Lines /\ ~IsRow(Half)
  BY <1>2, <1>3, LineFacts, <1>1, EventFacts DEF RowLine, Half, IsRow
<1>5. \A x \in Lines :
        /\ Append(f, x) \in Seq(Lines) /\ Len(Append(f, x)) = Len(f) + 1
        /\ \A i \in 1..Len(f) : Append(f, x)[i] = f[i]
        /\ Append(f, x)[Len(f) + 1] = x /\ Append(f, x) # <<>> /\ Last(Append(f, x)) = x
  BY AppendFacts
<1>6. g \in {f, Append(f, Half), Append(f, m), Append(f, l)}
  BY <1>1, <1>3 DEF Landings
<1>7. CASE g = f
  BY <1>7 DEF Grown, SameLine
<1>8. CASE g = Append(f, Half)
  BY <1>4, <1>5, <1>8 DEF Grown, SameLine, Doubled
<1>9. CASE g = Append(f, m)
  BY <1>4, <1>5, <1>9 DEF Grown, SameLine
<1>10. CASE g = Append(f, l)
  BY <1>2, <1>5, <1>10 DEF Grown, SameLine
<1> QED BY <1>6, <1>7, <1>8, <1>9, <1>10

(* What a repair leaves behind, done or not.                               *)
LEMMA RepairGrows ==
  ASSUME NEW f \in Seq(Lines), f # <<>>, NEW g \in RepairLandings(f)
  PROVE  /\ g \in Seq(Lines) /\ Grown(f, g, Recover(Len(f)))
         /\ \A n : Doubled(g, n) => Doubled(f, n)
<1>1. PICK c : c = Closed(f)
  OBVIOUS
<1>2. c \in Seq(Lines) /\ Len(c) = Len(f) /\ c # <<>>
  BY <1>1, ClosedFacts
<1>3. Len(f) \in Nat /\ Len(f) \in 1..Len(f) /\ f[Len(f)] \in Lines
  OBVIOUS
<1>4. c[Len(f)] = [f[Len(f)] EXCEPT !.nl = TRUE] /\ \A i \in 1..Len(f) : i # Len(f) => c[i] = f[i]
  <2>1. PICK x : x = [f[Len(f)] EXCEPT !.nl = TRUE]
    OBVIOUS
  <2>2. c = [f EXCEPT ![Len(f)] = x]
    BY <1>1, <2>1 DEF Closed
  <2>3. c[Len(f)] = x /\ \A i \in 1..Len(f) : i # Len(f) => c[i] = f[i]
    BY <1>3, <2>2
  <2> QED BY <2>1, <2>3
<1>5. SameLine(f[Len(f)], c[Len(f)])
  BY <1>3, <1>4, LineFacts DEF SameLine, IsRow
<1>6. \A i \in 1..Len(f) : SameLine(f[i], c[i])
  BY <1>4, <1>5 DEF SameLine
<1>7. \A n : Doubled(c, n) => Doubled(f, n)
  BY <1>2, <1>3, <1>5 DEF Doubled, SameLine, Last
<1>8. CASE g = f
  BY <1>8 DEF Grown, SameLine
<1>9. CASE g = c
  BY <1>2, <1>3, <1>6, <1>7, <1>9 DEF Grown
<1>10. CASE g \in Landings(c, RecoverLine(f)) /\ g # c
  <2>1. RowCount(f) \in Nat /\ LastRow(f) \in Nat /\ Recover(Len(f)) \in Events
    BY <1>3, CountFacts, EventFacts
  <2>2. PICK e : e = Recover(Len(f)) /\ e \in Events /\ e.kind = "recover"
    BY <2>1 DEF Recover
  <2>3. g \in Landings(c, RowLine(RowCount(f), LastRow(f), e))
    BY <1>10, <2>2 DEF RecoverLine
  <2>4. g \in Seq(Lines) /\ Grown(c, g, e) /\ Len(g) = Len(c) + 1 /\ Last(g) = g[Len(g)]
    BY <1>2, <1>10, <2>1, <2>2, <2>3, LandingGrows
  <2>5. \A i \in 1..Len(f) : SameLine(f[i], g[i])
    BY <1>2, <1>6, <2>4 DEF Grown, SameLine
  <2>6. Grown(f, g, e)
    BY <1>2, <2>4, <2>5 DEF Grown
  <2>7. \A n : ~Doubled(g, n)
    BY <2>2, <2>4 DEF Doubled, Grown
  <2> QED BY <2>2, <2>4, <2>6, <2>7
<1>11. g \in {f, c} \cup Landings(c, RecoverLine(f))
  BY <1>1 DEF RepairLandings
<1> QED BY <1>8, <1>9, <1>10, <1>11

(* A repair that is done is one of them.                                   *)
LEMMA RepairedLands ==
  ASSUME NEW f
  PROVE  Repaired(f) \in RepairLandings(f)
BY DEF Repaired, RepairLandings, Landings

----------------------------------------------------------------------------
(* The order of rows.                                                      *)

\* What the rows of a file and the jobs that wait for it say.
Said(f, w) == {f[i].e : i \in {k \in 1..Len(f) : IsRow(f[k])}} \cup Range(w)

\* Whether g may come after e: a stream opens and closes once.
MayFollow(e, g) ==
  /\ e.kind = "close" => g \notin {e, Open(e.stream)}
  /\ e.kind = "open" => g # e

InOrder(f, w) ==
  /\ \A i, j \in 1..Len(f) : i < j /\ IsRow(f[i]) /\ IsRow(f[j]) => MayFollow(f[i].e, f[j].e)
  /\ \A i \in 1..Len(f), k \in 1..Len(w) : IsRow(f[i]) => MayFollow(f[i].e, w[k])
  /\ \A k, m \in 1..Len(w) : k < m => MayFollow(w[k], w[m])

OfTurns(said, st) ==
  \A s \in Streams : /\ st[s] = "new" => Open(s) \notin said
                     /\ st[s] \in {"new", "open"} => Close(s) \notin said

(* The kinds of events, and streams that are told by them.                 *)
LEMMA KindFacts ==
  /\ \A e \in Events : e.kind \in {"boot", "shutdown", "genesis", "gap", "recover", "open", "close"}
  /\ \A e \in Events : e.kind = "open" => e.stream \in Streams /\ e = Open(e.stream)
  /\ \A e \in Events : e.kind = "close" => e.stream \in Streams /\ e = Close(e.stream)
  /\ \A s : Open(s).kind = "open" /\ Open(s).stream = s /\ Close(s).kind = "close" /\ Close(s).stream = s
  /\ Boot.kind = "boot" /\ Shutdown.kind = "shutdown" /\ Genesis.kind = "genesis"
  /\ \A n : Gap(n).kind = "gap" /\ Gap(n).dropped = n /\ Recover(n).kind = "recover"
  /\ \A e \in Jobs : e.kind \in {"boot", "shutdown", "open", "close"}
<1>1. /\ \A s : Open(s).kind = "open" /\ Open(s).stream = s /\ Close(s).kind = "close" /\ Close(s).stream = s
      /\ Boot.kind = "boot" /\ Shutdown.kind = "shutdown" /\ Genesis.kind = "genesis"
      /\ \A n : Gap(n).kind = "gap" /\ Gap(n).dropped = n /\ Recover(n).kind = "recover"
  BY DEF Open, Close, Boot, Shutdown, Genesis, Gap, Recover
<1>2. ASSUME NEW e \in [kind: {"open", "close"}, stream: Streams]
      PROVE  /\ e.kind \in {"open", "close"} /\ e.stream \in Streams
             /\ e.kind = "open" => e = Open(e.stream)
             /\ e.kind = "close" => e = Close(e.stream)
  BY <1>2 DEF Open, Close
<1>3. \A e \in Jobs : e \in {Boot, Shutdown} \/ e \in [kind: {"open", "close"}, stream: Streams]
  BY DEF Jobs
<1>4. \A e \in Events : \/ e \in Jobs \/ e = Genesis
                        \/ e \in [kind: {"gap"}, dropped: Nat] \/ e \in [kind: {"recover"}, torn: Nat]
  BY DEF Events
<1>5. \A e \in Jobs : e.kind \in {"boot", "shutdown", "open", "close"}
  BY <1>1, <1>2, <1>3
<1>6. \A e \in Events : e.kind \in {"open", "close"} => e \in [kind: {"open", "close"}, stream: Streams]
  BY <1>1, <1>3, <1>4
<1>7. \A e \in Events : e.kind \in {"boot", "shutdown", "genesis", "gap", "recover", "open", "close"}
  BY <1>1, <1>4, <1>5
<1> QED BY <1>1, <1>2, <1>5, <1>6, <1>7

(* What neither opens nor closes a stream may come anywhere.               *)
LEMMA PlainFollows ==
  ASSUME NEW x \in Events, NEW e \in Events, e.kind \notin {"open", "close"}
  PROVE  MayFollow(x, e) /\ MayFollow(e, x)
BY KindFacts DEF MayFollow

(* What is said by files and jobs are events.                              *)
LEMMA SaidFacts ==
  ASSUME NEW f \in Seq(Lines), NEW w \in Seq(Jobs)
  PROVE  /\ Said(f, w) \subseteq Events
         /\ \A i \in 1..Len(f) : IsRow(f[i]) => f[i].e \in Said(f, w) /\ f[i].e \in Events
         /\ \A k \in 1..Len(w) : w[k] \in Said(f, w) /\ w[k] \in Events
         /\ \A e \in Said(f, w) : \/ \E i \in 1..Len(f) : IsRow(f[i]) /\ f[i].e = e
                                  \/ \E k \in 1..Len(w) : w[k] = e
<1>1. \A i \in 1..Len(f) : IsRow(f[i]) => f[i].e \in Events
  <2>1. TAKE i \in 1..Len(f)
  <2>2. f[i] \in Lines
    OBVIOUS
  <2> QED BY <2>2, LineFacts
<1>2. \A k \in 1..Len(w) : w[k] \in Events /\ k \in DOMAIN w
  BY EventFacts
<1>3. DOMAIN w = 1..Len(w)
  OBVIOUS
<1> QED BY <1>1, <1>2, <1>3 DEF Said, Range

(* A job more.                                                             *)
LEMMA OrderAppends ==
  ASSUME NEW f \in Seq(Lines), NEW w \in Seq(Jobs), NEW e \in Jobs, InOrder(f, w),
         \A x \in Said(f, w) : MayFollow(x, e)
  PROVE  InOrder(f, Append(w, e)) /\ Said(f, Append(w, e)) \subseteq Said(f, w) \cup {e}
<1>1. PICK v : v = Append(w, e)
  OBVIOUS
<1>2. /\ v \in Seq(Jobs) /\ Len(v) = Len(w) + 1 /\ v[Len(v)] = e /\ Len(w) \in Nat
      /\ \A k \in 1..Len(w) : v[k] = w[k]
  BY <1>1
<1>3. \A k \in 1..Len(v) : k = Len(v) \/ k \in 1..Len(w)
  BY <1>2
<1>4. \A i \in 1..Len(f), k \in 1..Len(v) : IsRow(f[i]) => MayFollow(f[i].e, v[k])
  BY <1>2, <1>3, SaidFacts DEF InOrder
<1>5. \A k, m \in 1..Len(v) : k < m => MayFollow(v[k], v[m])
  <2>1. TAKE k, m \in 1..Len(v)
  <2>2. HAVE k < m
  <2>3. k \in 1..Len(w) /\ v[k] = w[k]
    BY <1>2, <2>2
  <2>4. CASE m = Len(v)
    BY <1>2, <2>3, <2>4, SaidFacts
  <2>5. CASE m \in 1..Len(w)
    BY <1>2, <2>2, <2>3, <2>5 DEF InOrder
  <2> QED BY <1>3, <2>4, <2>5
<1>6. Said(f, v) \subseteq Said(f, w) \cup {e}
  <2>1. SUFFICES ASSUME NEW x \in Said(f, v) PROVE x \in Said(f, w) \cup {e}
    OBVIOUS
  <2>2. \/ \E i \in 1..Len(f) : IsRow(f[i]) /\ f[i].e = x
        \/ \E k \in 1..Len(v) : v[k] = x
    BY <1>2, SaidFacts
  <2>3. ASSUME NEW i \in 1..Len(f), IsRow(f[i]), f[i].e = x PROVE x \in Said(f, w)
    BY <2>3, SaidFacts
  <2>4. ASSUME NEW k \in 1..Len(v), v[k] = x PROVE x \in Said(f, w) \cup {e}
    <3>1. CASE k = Len(v)
      BY <1>2, <2>4, <3>1
    <3>2. CASE k \in 1..Len(w)
      BY <3>2, SaidFacts, <1>2, <2>4
    <3> QED BY <1>3, <2>4, <3>1, <3>2
  <2> QED BY <2>2, <2>3, <2>4
<1> QED BY <1>1, <1>4, <1>5, <1>6 DEF InOrder

(* A job less.                                                             *)
LEMMA OrderLoses ==
  ASSUME NEW f \in Seq(Lines), NEW w \in Seq(Jobs), w # <<>>, InOrder(f, w)
  PROVE  InOrder(f, Tail(w)) /\ Said(f, Tail(w)) \subseteq Said(f, w)
<1>1. PICK v : v = Tail(w)
  OBVIOUS
<1>2. /\ v \in Seq(Jobs) /\ Len(w) \in Nat /\ Len(v) = Len(w) - 1
      /\ \A k \in 1..Len(v) : v[k] = w[k + 1] /\ k + 1 \in 1..Len(w)
  BY <1>1
<1>3. \A i \in 1..Len(f), k \in 1..Len(v) : IsRow(f[i]) => MayFollow(f[i].e, v[k])
  BY <1>2 DEF InOrder
<1>4. \A k, m \in 1..Len(v) : k < m => MayFollow(v[k], v[m])
  <2>1. TAKE k, m \in 1..Len(v)
  <2>2. HAVE k < m
  <2>3. k + 1 < m + 1
    BY <1>2, <2>2
  <2> QED BY <1>2, <2>3 DEF InOrder
<1>5. Said(f, v) \subseteq Said(f, w)
  <2>1. SUFFICES ASSUME NEW x \in Said(f, v) PROVE x \in Said(f, w)
    OBVIOUS
  <2>2. \/ \E i \in 1..Len(f) : IsRow(f[i]) /\ f[i].e = x
        \/ \E k \in 1..Len(v) : v[k] = x
    BY <1>2, SaidFacts
  <2>3. ASSUME NEW i \in 1..Len(f), IsRow(f[i]), f[i].e = x PROVE x \in Said(f, w)
    BY <2>3, SaidFacts
  <2>4. ASSUME NEW k \in 1..Len(v), v[k] = x PROVE x \in Said(f, w)
    BY <1>2, <2>4, SaidFacts
  <2> QED BY <2>2, <2>3, <2>4
<1> QED BY <1>1, <1>3, <1>4, <1>5 DEF InOrder

(* What a file that grew says.                                             *)
LEMMA GrownSays ==
  ASSUME NEW f \in Seq(Lines), NEW g \in Seq(Lines), NEW e, Grown(f, g, e)
  PROVE  /\ \A i \in 1..Len(g) : IsRow(g[i]) =>
               \/ i \in 1..Len(f) /\ IsRow(f[i]) /\ g[i].e = f[i].e
               \/ i = Len(f) + 1 /\ Len(g) = Len(f) + 1 /\ g[i].e = e
         /\ Len(f) \in Nat /\ Len(g) \in Nat
<1>1. Len(f) \in Nat /\ Len(g) \in Nat
  OBVIOUS
<1> QED BY <1>1 DEF Grown, SameLine

(* A row that neither opens nor closes.                                    *)
LEMMA OrderGrows ==
  ASSUME NEW f \in Seq(Lines), NEW g \in Seq(Lines), NEW w \in Seq(Jobs), NEW e \in Events,
         e.kind \notin {"open", "close"}, InOrder(f, w), Grown(f, g, e)
  PROVE  InOrder(g, w) /\ Said(g, w) \subseteq Said(f, w) \cup {e}
<1>1. \A i \in 1..Len(g) : IsRow(g[i]) =>
         \/ i \in 1..Len(f) /\ IsRow(f[i]) /\ g[i].e = f[i].e
         \/ i = Len(f) + 1 /\ Len(g) = Len(f) + 1 /\ g[i].e = e
  BY GrownSays
<1>2. Len(f) \in Nat /\ Len(g) \in Nat
  OBVIOUS
<1>3. \A i, j \in 1..Len(g) : i < j /\ IsRow(g[i]) /\ IsRow(g[j]) => MayFollow(g[i].e, g[j].e)
  <2>1. TAKE i, j \in 1..Len(g)
  <2>2. HAVE i < j /\ IsRow(g[i]) /\ IsRow(g[j])
  <2>3. g[i].e \in Events /\ g[j].e \in Events
    BY <2>2, SaidFacts, EventFacts
  <2>4. CASE g[i].e = e \/ g[j].e = e
    BY <2>3, <2>4, PlainFollows
  <2>5. CASE i \in 1..Len(f) /\ IsRow(f[i]) /\ g[i].e = f[i].e /\ j \in 1..Len(f) /\ IsRow(f[j]) /\ g[j].e = f[j].e
    BY <2>2, <2>5 DEF InOrder
  <2> QED BY <1>1, <2>2, <2>4, <2>5
<1>4. \A i \in 1..Len(g), k \in 1..Len(w) : IsRow(g[i]) => MayFollow(g[i].e, w[k])
  BY <1>1, PlainFollows, SaidFacts DEF InOrder
<1>5. Said(g, w) \subseteq Said(f, w) \cup {e}
  <2>1. SUFFICES ASSUME NEW x \in Said(g, w) PROVE x \in Said(f, w) \cup {e}
    OBVIOUS
  <2>2. \/ \E i \in 1..Len(g) : IsRow(g[i]) /\ g[i].e = x
        \/ \E k \in 1..Len(w) : w[k] = x
    BY SaidFacts
  <2> QED BY <1>1, <2>2, SaidFacts
<1> QED BY <1>3, <1>4, <1>5 DEF InOrder

(* The row of the job at the head.                                         *)
LEMMA OrderWrites ==
  ASSUME NEW f \in Seq(Lines), NEW g \in Seq(Lines), NEW w \in Seq(Jobs), w # <<>>,
         InOrder(f, w), Grown(f, g, Head(w))
  PROVE  InOrder(g, Tail(w)) /\ Said(g, Tail(w)) \subseteq Said(f, w)
<1>1. PICK e, v : e = w[1] /\ v = Tail(w)
  OBVIOUS
<1>2. /\ v \in Seq(Jobs) /\ Len(w) \in Nat /\ 1 \in 1..Len(w) /\ Len(v) = Len(w) - 1
      /\ \A k \in 1..Len(v) : v[k] = w[k + 1] /\ k + 1 \in 1..Len(w) /\ 1 < k + 1
  BY <1>1
<1>3. Head(w) = e /\ Grown(f, g, e)
  BY <1>1
<1>4. \A i \in 1..Len(g) : IsRow(g[i]) =>
         \/ i \in 1..Len(f) /\ IsRow(f[i]) /\ g[i].e = f[i].e
         \/ i = Len(f) + 1 /\ Len(g) = Len(f) + 1 /\ g[i].e = e
  BY <1>3, GrownSays
<1>5. Len(f) \in Nat /\ Len(g) \in Nat
  OBVIOUS
<1>6. \A i, j \in 1..Len(g) : i < j /\ IsRow(g[i]) /\ IsRow(g[j]) => MayFollow(g[i].e, g[j].e)
  <2>1. TAKE i, j \in 1..Len(g)
  <2>2. HAVE i < j /\ IsRow(g[i]) /\ IsRow(g[j])
  <2>3. i \in 1..Len(f) /\ IsRow(f[i]) /\ g[i].e = f[i].e
    BY <1>4, <1>5, <2>2
  <2>4. CASE j \in 1..Len(f) /\ IsRow(f[j]) /\ g[j].e = f[j].e
    BY <2>2, <2>3, <2>4 DEF InOrder
  <2>5. CASE g[j].e = e
    BY <1>1, <1>2, <2>3, <2>5 DEF InOrder
  <2> QED BY <1>4, <2>2, <2>4, <2>5
<1>7. \A i \in 1..Len(g), k \in 1..Len(v) : IsRow(g[i]) => MayFollow(g[i].e, v[k])
  <2>1. TAKE i \in 1..Len(g), k \in 1..Len(v)
  <2>2. HAVE IsRow(g[i])
  <2>3. CASE i \in 1..Len(f) /\ IsRow(f[i]) /\ g[i].e = f[i].e
    BY <1>2, <2>3 DEF InOrder
  <2>4. CASE g[i].e = e
    BY <1>1, <1>2, <2>4 DEF InOrder
  <2> QED BY <1>4, <2>2, <2>3, <2>4
<1>8. \A k, m \in 1..Len(v) : k < m => MayFollow(v[k], v[m])
  BY <1>1, OrderLoses DEF InOrder
<1>9. Said(g, v) \subseteq Said(f, w)
  <2>1. SUFFICES ASSUME NEW x \in Said(g, v) PROVE x \in Said(f, w)
    OBVIOUS
  <2>2. e \in Said(f, w)
    BY <1>1, <1>2, SaidFacts
  <2>3. \A k \in 1..Len(v) : v[k] \in Said(f, w)
    BY <1>2, SaidFacts
  <2>4. \/ \E i \in 1..Len(g) : IsRow(g[i]) /\ g[i].e = x
        \/ \E k \in 1..Len(v) : v[k] = x
    BY <1>2, SaidFacts
  <2>5. \A i \in 1..Len(f) : IsRow(f[i]) => f[i].e \in Said(f, w)
    BY SaidFacts
  <2> QED BY <1>4, <2>2, <2>3, <2>4, <2>5
<1> QED BY <1>1, <1>6, <1>7, <1>8, <1>9 DEF InOrder

(* What is left of a file, and nothing in memory.                          *)
LEMMA OrderCut ==
  ASSUME NEW f \in Seq(Lines), NEW g \in Seq(Lines), NEW w \in Seq(Jobs), InOrder(f, w), Len(g) <= Len(f),
         \A i \in 1..Len(g) : IsRow(g[i]) => IsRow(f[i]) /\ g[i].e = f[i].e
  PROVE  InOrder(g, <<>>) /\ Said(g, <<>>) \subseteq Said(f, w)
<1>1. Len(f) \in Nat /\ Len(g) \in Nat /\ \A i \in 1..Len(g) : i \in 1..Len(f)
  OBVIOUS
<1>2. \A i, j \in 1..Len(g) : i < j /\ IsRow(g[i]) /\ IsRow(g[j]) => MayFollow(g[i].e, g[j].e)
  BY <1>1 DEF InOrder
<1>3. PICK none : none = <<>> /\ none \in Seq(Jobs) /\ Len(none) = 0
  BY NothingFacts
<1>4. Said(g, none) \subseteq Said(f, w)
  <2>1. SUFFICES ASSUME NEW x \in Said(g, none) PROVE x \in Said(f, w)
    OBVIOUS
  <2>2. 1..Len(none) = {}
    BY <1>3
  <2>3. PICK i \in 1..Len(g) : IsRow(g[i]) /\ g[i].e = x
    BY <1>3, SaidFacts, <2>2
  <2>4. i \in 1..Len(f) /\ IsRow(f[i]) /\ f[i].e = x
    BY <1>1, <2>3
  <2> QED BY <2>4, SaidFacts
<1> QED BY <1>2, <1>3, <1>4 DEF InOrder

(* Each close a crash left out is that of an open without one.             *)
LEMMA LostClosesAre ==
  ASSUME NEW g \in Seq(Lines)
  PROVE  \E at : /\ \A k \in 1..Len(LostCloses(g)) :
                       /\ at[k] \in 1..Len(g) /\ IsRow(g[at[k]]) /\ g[at[k]].e.kind = "open"
                       /\ ~ClosedAfter(g, at[k])
                       /\ LostCloses(g)[k] = Close(g[at[k]].e.stream)
                 /\ \A k, m \in 1..Len(LostCloses(g)) : k < m => at[k] # at[m]
<1> DEFINE left == {i \in Opens(g) : ~ClosedAfter(g, i)}
           n == Cardinality(left)
<1>1. left \subseteq 1..Len(g) /\ 1..Len(g) \subseteq Nat /\ IsFiniteSet(1..Len(g))
  BY FS_Interval DEF Opens
<1>2. left \subseteq Nat /\ IsFiniteSet(left) /\ n \in Nat
  BY <1>1, FS_Subset, FS_CardinalityType
<1>3. \A i \in left : i \in 1..Len(g) /\ IsRow(g[i]) /\ g[i].e.kind = "open" /\ ~ClosedAfter(g, i)
  BY DEF Opens
<1>4. Orphans(g) = [k \in 1..n |-> g[Nth(left, k)].e.stream]
  BY DEF Orphans
<1> HIDE DEF left
<1>5. \A k \in 1..n : Nth(left, k) \in left /\ Cardinality(UpTo(left, Nth(left, k))) = k
  <2>1. TAKE k \in 1..n
  <2>2. \E i \in left : Cardinality({j \in left : j <= i}) = k
    BY <1>2, NthExists DEF UpTo
  <2>3. Nth(left, k) \in left /\ Cardinality({j \in left : j <= Nth(left, k)}) = k
    BY <2>2 DEF Nth
  <2> QED BY <2>3 DEF UpTo
<1> HIDE DEF n
<1>6. Len(Orphans(g)) = n /\ \A k \in 1..n : Orphans(g)[k] = g[Nth(left, k)].e.stream
  BY <1>2, <1>4
<1>7. Len(LostCloses(g)) = n /\ \A k \in 1..n : LostCloses(g)[k] = Close(Orphans(g)[k])
  BY <1>2, <1>6 DEF LostCloses
<1> DEFINE at == [k \in 1..n |-> Nth(left, k)]
<1>8. \A k \in 1..n : /\ at[k] \in 1..Len(g) /\ IsRow(g[at[k]]) /\ g[at[k]].e.kind = "open"
                      /\ ~ClosedAfter(g, at[k])
                      /\ LostCloses(g)[k] = Close(g[at[k]].e.stream)
  BY <1>3, <1>5, <1>6, <1>7
<1>9. \A k, m \in 1..n : k < m => at[k] # at[m]
  <2>1. TAKE k, m \in 1..n
  <2>2. HAVE k < m
  <2>3. k # m
    BY <1>2, <2>2
  <2> QED BY <1>5, <2>3
<1> HIDE DEF at
<1> QED BY <1>7, <1>8, <1>9

(* The boot rows come in order, and close only what was opened.            *)
LEMMA OrderOpens ==
  ASSUME NEW g \in Seq(Lines), InOrder(g, <<>>),
         NEW w, w = Append(LostCloses(g), Boot)
  PROVE  /\ w \in Seq(Jobs) /\ InOrder(g, w)
         /\ \A e \in Said(g, w) : \/ e \in Said(g, <<>>) \/ e = Boot
                                  \/ \E s \in Streams : e = Close(s) /\ Open(s) \in Said(g, <<>>)
<1>1. PICK c : c = LostCloses(g) /\ c \in Seq(Jobs)
  BY LostClosesType
<1>2. PICK at : /\ \A k \in 1..Len(c) : /\ at[k] \in 1..Len(g) /\ IsRow(g[at[k]])
                                        /\ g[at[k]].e.kind = "open"
                                        /\ ~ClosedAfter(g, at[k])
                                        /\ c[k] = Close(g[at[k]].e.stream)
                /\ \A k, m \in 1..Len(c) : k < m => at[k] # at[m]
  <2>1. \E at : /\ \A k \in 1..Len(LostCloses(g)) :
                       /\ at[k] \in 1..Len(g) /\ IsRow(g[at[k]]) /\ g[at[k]].e.kind = "open"
                       /\ ~ClosedAfter(g, at[k])
                       /\ LostCloses(g)[k] = Close(g[at[k]].e.stream)
                /\ \A k, m \in 1..Len(LostCloses(g)) : k < m => at[k] # at[m]
    BY LostClosesAre
  <2> QED BY <1>1, <2>1, Zenon
<1>3. PICK none : none = <<>> /\ none \in Seq(Jobs) /\ Len(none) = 0
  BY NothingFacts
<1>4. \A i, j \in 1..Len(g) : i < j /\ IsRow(g[i]) /\ IsRow(g[j]) => MayFollow(g[i].e, g[j].e)
  BY DEF InOrder
<1>5. \A k \in 1..Len(c) : /\ g[at[k]].e.stream \in Streams /\ g[at[k]].e = Open(g[at[k]].e.stream)
                           /\ g[at[k]].e \in Said(g, none)
  <2>1. TAKE k \in 1..Len(c)
  <2>2. g[at[k]].e \in Events /\ g[at[k]].e \in Said(g, none)
    BY <1>2, <1>3, SaidFacts
  <2> QED BY <1>2, <2>2, KindFacts
<1>6. \A i \in 1..Len(g), k \in 1..Len(c) : IsRow(g[i]) => MayFollow(g[i].e, c[k])
  <2>1. TAKE i \in 1..Len(g), k \in 1..Len(c)
  <2>2. HAVE IsRow(g[i])
  <2>3. PICK s : s = g[at[k]].e.stream
    OBVIOUS
  <2>4. c[k] = Close(s) /\ g[at[k]].e = Open(s) /\ at[k] \in 1..Len(g) /\ IsRow(g[at[k]])
    BY <1>2, <1>5, <2>3
  <2>5. g[i].e # Close(s)
    <3> SUFFICES ASSUME g[i].e = Close(s) PROVE FALSE
      OBVIOUS
    <3>1. i # at[k]
      BY <2>4, KindFacts
    <3>2. ~(at[k] < i)
      <4> SUFFICES ASSUME at[k] < i PROVE FALSE
        OBVIOUS
      <4>1. i \in (at[k] + 1)..Len(g)
        BY <2>4
      <4> QED BY <1>2, <2>2, <2>3, <4>1 DEF ClosedAfter
    <3>3. i < at[k]
      BY <2>4, <3>1, <3>2
    <3>4. MayFollow(Close(s), Open(s))
      BY <1>4, <2>2, <2>4, <3>3
    <3> QED BY <3>4, KindFacts DEF MayFollow
  <2>6. g[i].e.kind = "open" => g[i].e # Close(s)
    BY <2>5
  <2>7. g[i].e.kind = "close" => Close(s) \notin {g[i].e, Open(g[i].e.stream)}
    BY <2>5, KindFacts
  <2> QED BY <2>4, <2>6, <2>7 DEF MayFollow
<1>7. \A k, m \in 1..Len(c) : k < m => MayFollow(c[k], c[m])
  <2>1. TAKE k, m \in 1..Len(c)
  <2>2. HAVE k < m
  <2>3. PICK s, t : s = g[at[k]].e.stream /\ t = g[at[m]].e.stream
    OBVIOUS
  <2>4. /\ c[k] = Close(s) /\ g[at[k]].e = Open(s) /\ at[k] \in 1..Len(g) /\ IsRow(g[at[k]])
        /\ c[m] = Close(t) /\ g[at[m]].e = Open(t) /\ at[m] \in 1..Len(g) /\ IsRow(g[at[m]])
    BY <1>2, <1>5, <2>3
  <2>5. at[k] # at[m]
    BY <1>2, <2>2
  <2>6. at[k] < at[m] \/ at[m] < at[k]
    BY <2>4, <2>5
  <2>7. MayFollow(Open(s), Open(t)) \/ MayFollow(Open(t), Open(s))
    BY <1>4, <2>4, <2>6
  <2>8. Open(s) # Open(t)
    BY <2>7, KindFacts DEF MayFollow
  <2>9. s # t
    BY <2>8
  <2>10. Close(s) # Close(t)
    BY <2>9, KindFacts
  <2> QED BY <2>4, <2>10, KindFacts DEF MayFollow
<1>8. InOrder(g, c)
  BY <1>4, <1>6, <1>7 DEF InOrder
<1>9. \A x \in Said(g, c) : MayFollow(x, Boot)
  <2>1. TAKE x \in Said(g, c)
  <2>2. x \in Events /\ Boot \in Events
    BY <1>1, SaidFacts, EventFacts
  <2> QED BY <2>2, PlainFollows, KindFacts
<1>10. Boot \in Jobs
  BY EventFacts
<1>11. InOrder(g, w) /\ Said(g, w) \subseteq Said(g, c) \cup {Boot}
  BY <1>1, <1>8, <1>9, <1>10, OrderAppends
<1>12. ASSUME NEW e \in Said(g, c)
       PROVE  e \in Said(g, none) \/ \E s \in Streams : e = Close(s) /\ Open(s) \in Said(g, none)
  <2>1. CASE \E i \in 1..Len(g) : IsRow(g[i]) /\ g[i].e = e
    <3>1. PICK i \in 1..Len(g) : IsRow(g[i]) /\ g[i].e = e
      BY <2>1
    <3>2. g[i].e \in Said(g, none)
      BY <1>3, <3>1, SaidFacts
    <3> QED BY <3>1, <3>2
  <2>2. CASE \E k \in 1..Len(c) : c[k] = e
    BY <1>2, <1>5, <2>2
  <2> QED BY <1>1, <2>1, <2>2, SaidFacts
<1>13. w \in Seq(Jobs)
  BY <1>1, <1>10
<1> QED BY <1>3, <1>11, <1>12, <1>13

----------------------------------------------------------------------------
(* The jobs that wait.                                                     *)

\* The job in hand, as the first of those that wait.
InHand(j) == IF j = NoJob THEN <<>> ELSE <<j>>

\* The jobs that are still to be written, in their order.
Wait(j, a, q) == InHand(j) \o a \o q

(* Sequences with the same elements are the same.                          *)
LEMMA SameJobs ==
  ASSUME NEW v \in Seq(Jobs), NEW w \in Seq(Jobs), Len(v) = Len(w), \A i \in 1..Len(v) : v[i] = w[i]
  PROVE  v = w
<1>1. v = [i \in 1..Len(v) |-> v[i]] /\ w = [i \in 1..Len(w) |-> w[i]]
  OBVIOUS
<1>2. [i \in 1..Len(v) |-> v[i]] = [i \in 1..Len(w) |-> w[i]]
  OBVIOUS
<1> QED BY <1>1, <1>2

(* Jobs put together.                                                      *)
LEMMA JoinedJobs ==
  ASSUME NEW v \in Seq(Jobs), NEW w \in Seq(Jobs)
  PROVE  /\ v \o w \in Seq(Jobs) /\ Len(v \o w) = Len(v) + Len(w)
         /\ \A i \in 1..Len(v) : (v \o w)[i] = v[i]
         /\ \A i \in 1..Len(w) : (v \o w)[Len(v) + i] = w[i]
         /\ \A i \in 1..Len(v \o w) : i \in 1..Len(v) \/ i - Len(v) \in 1..Len(w)
         /\ v = <<>> => v \o w = w
         /\ w = <<>> => v \o w = v
         /\ Len(v) \in Nat /\ Len(w) \in Nat
<1>1. /\ v \o w \in Seq(Jobs) /\ Len(v \o w) = Len(v) + Len(w)
      /\ \A i \in 1..Len(v) : (v \o w)[i] = v[i]
      /\ \A i \in 1..Len(w) : (v \o w)[Len(v) + i] = w[i]
      /\ Len(v) \in Nat /\ Len(w) \in Nat
  OBVIOUS
<1>2. \A i \in 1..Len(v \o w) : i \in 1..Len(v) \/ i - Len(v) \in 1..Len(w)
  BY <1>1
<1>3. ASSUME v = <<>> PROVE v \o w = w
  BY <1>3, <1>1, SameJobs
<1>4. ASSUME w = <<>> PROVE v \o w = v
  BY <1>4, <1>1, SameJobs
<1> QED BY <1>1, <1>2, <1>3, <1>4

(* A job put behind the others.                                            *)
LEMMA JoinAppends ==
  ASSUME NEW v \in Seq(Jobs), NEW w \in Seq(Jobs), NEW e \in Jobs
  PROVE  v \o Append(w, e) = Append(v \o w, e)
<1>1. PICK u, y, z : u = Append(w, e) /\ y = v \o u /\ z = Append(v \o w, e)
  OBVIOUS
<1>2. PICK x : x = v \o w
  OBVIOUS
<1>3. /\ u \in Seq(Jobs) /\ Len(u) = Len(w) + 1 /\ u[Len(w) + 1] = e
      /\ \A i \in 1..Len(w) : u[i] = w[i]
  BY <1>1
<1>4. /\ x \in Seq(Jobs) /\ Len(x) = Len(v) + Len(w)
      /\ \A i \in 1..Len(v) : x[i] = v[i]
      /\ \A i \in 1..Len(w) : x[Len(v) + i] = w[i]
      /\ Len(v) \in Nat /\ Len(w) \in Nat
  BY <1>2, JoinedJobs
<1>5. /\ z \in Seq(Jobs) /\ Len(z) = Len(x) + 1 /\ z[Len(x) + 1] = e
      /\ \A i \in 1..Len(x) : z[i] = x[i]
  BY <1>1, <1>2, <1>4
<1>6. /\ y \in Seq(Jobs) /\ Len(y) = Len(v) + Len(u)
      /\ \A i \in 1..Len(v) : y[i] = v[i]
      /\ \A i \in 1..Len(u) : y[Len(v) + i] = u[i]
  BY <1>1, <1>3, JoinedJobs
<1>7. \A i \in 1..Len(y) : y[i] = z[i]
  <2>1. TAKE i \in 1..Len(y)
  <2>2. CASE i \in 1..Len(v)
    BY <1>4, <1>5, <1>6, <2>2
  <2>3. CASE i \notin 1..Len(v)
    <3>1. PICK k : k = i - Len(v)
      OBVIOUS
    <3>2. k \in 1..Len(u) /\ i = Len(v) + k
      BY <1>3, <1>4, <1>6, <2>3, <3>1
    <3>3. y[i] = u[k]
      BY <1>6, <3>2
    <3>4. CASE k \in 1..Len(w)
      BY <1>4, <1>5, <3>2, <3>4, <1>3, <3>3
    <3>5. CASE k = Len(w) + 1
      BY <1>3, <1>4, <1>5, <3>2, <3>3, <3>5
    <3>6. k \in 1..Len(w) \/ k = Len(w) + 1
      BY <1>3, <1>4, <3>2
    <3> QED BY <3>4, <3>5, <3>6
  <2> QED BY <2>2, <2>3
<1>8. Len(y) = Len(z)
  BY <1>3, <1>4, <1>5, <1>6
<1>9. y = z
  BY <1>5, <1>6, <1>7, <1>8, SameJobs
<1> QED BY <1>1, <1>9

(* The first of some jobs, and those behind it.                            *)
LEMMA FirstJob ==
  ASSUME NEW e \in Jobs, NEW w \in Seq(Jobs)
  PROVE  /\ <<e>> \in Seq(Jobs) /\ Len(<<e>>) = 1
         /\ <<e>> \o w \in Seq(Jobs) /\ <<e>> \o w # <<>> /\ Len(<<e>> \o w) = Len(w) + 1
         /\ Head(<<e>> \o w) = e /\ Tail(<<e>> \o w) = w
<1>1. PICK v : v = <<e>>
  OBVIOUS
<1>2. v \in Seq(Jobs) /\ Len(v) = 1 /\ v[1] = e /\ 1 \in 1..Len(v)
  BY <1>1
<1>3. PICK x : x = v \o w
  OBVIOUS
<1>4. /\ x \in Seq(Jobs) /\ Len(x) = Len(v) + Len(w)
      /\ \A i \in 1..Len(v) : x[i] = v[i]
      /\ \A i \in 1..Len(w) : x[Len(v) + i] = w[i]
      /\ Len(w) \in Nat
  BY <1>2, <1>3, JoinedJobs
<1>5. x[1] = e /\ Len(x) = Len(w) + 1 /\ x # <<>>
  BY <1>2, <1>4
<1>6. Head(x) = e
  BY <1>4, <1>5
<1>7. Tail(x) \in Seq(Jobs) /\ Len(Tail(x)) = Len(w) /\ \A i \in 1..Len(w) : Tail(x)[i] = x[i + 1]
  BY <1>4, <1>5
<1>8. \A i \in 1..Len(w) : Tail(x)[i] = w[i]
  BY <1>2, <1>4, <1>7
<1>9. Tail(x) = w
  BY <1>7, <1>8, SameJobs
<1> QED BY <1>1, <1>2, <1>3, <1>4, <1>5, <1>6, <1>9

(* The jobs that wait.                                                     *)
LEMMA WaitFacts ==
  ASSUME NEW j \in Jobs \cup {NoJob}, NEW a \in Seq(Jobs), NEW q \in Seq(Jobs)
  PROVE  /\ Wait(j, a, q) \in Seq(Jobs) /\ Len(Wait(j, a, q)) \in Nat
         /\ Len(Wait(j, a, q)) = (IF j = NoJob THEN 0 ELSE 1) + Len(a) + Len(q)
         /\ Wait(j, a, q) = InHand(j) \o (a \o q)
         /\ a \o q \in Seq(Jobs) /\ InHand(j) \in Seq(Jobs)
         /\ Len(a) \in Nat /\ Len(q) \in Nat
<1>2. PICK h, b : h = InHand(j) /\ b = a \o q
  OBVIOUS
<1>3. h \in Seq(Jobs) /\ Len(h) = IF j = NoJob THEN 0 ELSE 1
  BY <1>2, FirstJob DEF InHand
<1>4. b \in Seq(Jobs) /\ Len(b) = Len(a) + Len(q)
  BY <1>2, JoinedJobs
<1>5. PICK v, w : v = h \o b /\ w = (h \o a) \o q
  OBVIOUS
<1>6. v = w
  <2>1. PICK x : x = h \o a
    OBVIOUS
  <2>2. /\ x \in Seq(Jobs) /\ Len(x) = Len(h) + Len(a)
        /\ \A i \in 1..Len(h) : x[i] = h[i]
        /\ \A i \in 1..Len(a) : x[Len(h) + i] = a[i]
        /\ Len(h) \in Nat /\ Len(a) \in Nat
    BY <1>3, <2>1, JoinedJobs
  <2>3. /\ w \in Seq(Jobs) /\ Len(w) = Len(x) + Len(q)
        /\ \A i \in 1..Len(x) : w[i] = x[i]
        /\ \A i \in 1..Len(q) : w[Len(x) + i] = q[i]
        /\ Len(q) \in Nat
    BY <1>5, <2>1, <2>2, JoinedJobs
  <2>4. /\ Len(b) = Len(a) + Len(q)
        /\ \A i \in 1..Len(a) : b[i] = a[i]
        /\ \A i \in 1..Len(q) : b[Len(a) + i] = q[i]
    BY <1>2, JoinedJobs
  <2>5. /\ v \in Seq(Jobs) /\ Len(v) = Len(h) + Len(b)
        /\ \A i \in 1..Len(h) : v[i] = h[i]
        /\ \A i \in 1..Len(b) : v[Len(h) + i] = b[i]
    BY <1>3, <1>4, <1>5, JoinedJobs
  <2>6. \A i \in 1..Len(v) : v[i] = w[i]
    <3>1. TAKE i \in 1..Len(v)
    <3>2. CASE i \in 1..Len(h)
      BY <2>2, <2>3, <2>5, <3>2
    <3>3. CASE i - Len(h) \in 1..Len(a)
      <4>1. PICK k : k = i - Len(h)
        OBVIOUS
      <4>2. k \in 1..Len(a) /\ i = Len(h) + k
        BY <2>2, <2>5, <3>3, <4>1
      <4> QED BY <2>2, <2>3, <2>4, <2>5, <4>2
    <3>4. CASE i - Len(x) \in 1..Len(q)
      <4>1. PICK k : k = i - Len(x)
        OBVIOUS
      <4>2. k \in 1..Len(q) /\ i = Len(x) + k
        BY <2>2, <2>3, <2>5, <3>4, <4>1
      <4>3. Len(a) + k \in 1..Len(b) /\ i = Len(h) + (Len(a) + k)
        BY <2>2, <2>3, <2>4, <4>2
      <4> QED BY <2>3, <2>4, <2>5, <4>2, <4>3
    <3> QED BY <2>2, <2>3, <2>4, <2>5, <3>2, <3>3, <3>4
  <2>7. Len(v) = Len(w)
    BY <2>2, <2>3, <2>4, <2>5
  <2> QED BY <2>3, <2>5, <2>6, <2>7, SameJobs
<1>7. v \in Seq(Jobs) /\ Len(v) = Len(h) + Len(b) /\ Len(h) \in Nat /\ Len(b) \in Nat
  BY <1>3, <1>4, <1>5, JoinedJobs
<1>8. Wait(j, a, q) = v
  BY <1>2, <1>5, <1>6 DEF Wait
<1>9. Len(v) = (IF j = NoJob THEN 0 ELSE 1) + Len(a) + Len(q) /\ Len(a) \in Nat /\ Len(q) \in Nat
  BY <1>3, <1>4, <1>7
<1> QED BY <1>2, <1>3, <1>4, <1>5, <1>7, <1>8, <1>9

(* The first of some jobs is taken from them.                              *)
LEMMA TakenJob ==
  ASSUME NEW w \in Seq(Jobs), w # <<>>
  PROVE  Head(w) \in Jobs /\ Tail(w) \in Seq(Jobs) /\ <<Head(w)>> \o Tail(w) = w
<1>1. PICK e, v : e = Head(w) /\ v = Tail(w)
  OBVIOUS
<1>2. /\ e \in Jobs /\ v \in Seq(Jobs) /\ e = w[1] /\ Len(w) = Len(v) + 1
      /\ Len(v) \in Nat /\ \A i \in 1..Len(v) : v[i] = w[i + 1]
  BY <1>1
<1>3. PICK h, x : h = <<e>> /\ x = h \o v
  OBVIOUS
<1>4. h \in Seq(Jobs) /\ Len(h) = 1 /\ h[1] = e
  BY <1>2, <1>3
<1>5. /\ x \in Seq(Jobs) /\ Len(x) = 1 + Len(v) /\ x[1] = e
      /\ \A i \in 1..Len(v) : x[1 + i] = v[i]
  BY <1>2, <1>3, <1>4, JoinedJobs
<1>6. \A i \in 1..Len(w) : w[i] = x[i]
  <2>1. TAKE i \in 1..Len(w)
  <2>2. CASE i = 1
    BY <1>2, <1>5, <2>2
  <2>3. CASE i # 1
    <3>1. PICK k : k = i - 1
      OBVIOUS
    <3>2. k \in 1..Len(v) /\ i = 1 + k
      BY <1>2, <2>3, <3>1
    <3> QED BY <1>2, <1>5, <3>2
  <2> QED BY <2>2, <2>3
<1>7. w = x
  BY <1>2, <1>5, <1>6, SameJobs
<1> QED BY <1>1, <1>2, <1>3, <1>7

\* A job behind those that wait.
Behind(w, e) == Append(w, e)

(* One job more, the next in hand, one done, none.                         *)
LEMMA WaitSteps ==
  ASSUME NEW j \in Jobs \cup {NoJob}, NEW a \in Seq(Jobs), NEW q \in Seq(Jobs)
  PROVE  /\ \A e \in Jobs : Wait(j, a, Behind(q, e)) = Behind(Wait(j, a, q), e)
         /\ a # <<>> => Wait(Head(a), Tail(a), q) = Wait(NoJob, a, q)
         /\ a = <<>> /\ q # <<>> => Wait(Head(q), a, Tail(q)) = Wait(NoJob, a, q)
         /\ j # NoJob => /\ Wait(j, a, q) # <<>> /\ Head(Wait(j, a, q)) = j
                         /\ Tail(Wait(j, a, q)) = Wait(NoJob, a, q)
         /\ Wait(NoJob, a, <<>>) = a /\ Wait(NoJob, <<>>, <<>>) = <<>>
<1>1. /\ Wait(j, a, q) = InHand(j) \o (a \o q) /\ a \o q \in Seq(Jobs) /\ InHand(j) \in Seq(Jobs)
  BY WaitFacts
<1>2. PICK none : none = <<>> /\ none \in Seq(Jobs)
  BY NothingFacts
<1>3. \A x, y \in Seq(Jobs) : Wait(NoJob, x, y) = x \o y
  <2>1. TAKE x, y \in Seq(Jobs)
  <2>2. Wait(NoJob, x, y) = none \o (x \o y) /\ x \o y \in Seq(Jobs)
    BY <1>2, WaitFacts DEF InHand
  <2> QED BY <1>2, <2>2, JoinedJobs
<1>4. \A e \in Jobs, x, y \in Seq(Jobs) :
        Wait(e, x, y) = <<e>> \o (x \o y) /\ x \o y \in Seq(Jobs)
  <2>1. TAKE e \in Jobs, x, y \in Seq(Jobs)
  <2>2. e # NoJob /\ e \in Jobs \cup {NoJob}
    BY EventFacts
  <2>3. Wait(e, x, y) = InHand(e) \o (x \o y) /\ x \o y \in Seq(Jobs)
    BY <2>2, WaitFacts
  <2>4. InHand(e) = <<e>>
    BY <2>2 DEF InHand
  <2> QED BY <2>3, <2>4
<1>5. ASSUME NEW e \in Jobs PROVE Wait(j, a, Behind(q, e)) = Behind(Wait(j, a, q), e)
  <2>1. PICK x \in Seq(Jobs) : x = Append(q, e)
    <3>1. Append(q, e) \in Seq(Jobs)
      OBVIOUS
    <3> QED BY <3>1
  <2>2. Wait(j, a, x) = InHand(j) \o (a \o x)
    BY ZenonT(40), <2>1, WaitFacts
  <2>3. a \o x = Append(a \o q, e)
    BY <2>1, JoinAppends
  <2>4. InHand(j) \o Append(a \o q, e) = Append(InHand(j) \o (a \o q), e)
    BY <1>1, JoinAppends
  <2> QED BY <1>1, <2>1, <2>2, <2>3, <2>4 DEF Behind
<1>6. ASSUME a # <<>> PROVE Wait(Head(a), Tail(a), q) = Wait(NoJob, a, q)
  <2>1. PICK e, v : e = Head(a) /\ v = Tail(a)
    OBVIOUS
  <2>2. e \in Jobs /\ v \in Seq(Jobs) /\ <<e>> \o v = a
    BY <1>6, <2>1, TakenJob
  <2>3. Wait(e, v, q) = <<e>> \o (v \o q)
    BY <1>4, <2>2
  <2>4. Wait(e, v, q) = (<<e>> \o v) \o q
    BY <2>2, EventFacts DEF Wait, InHand
  <2> QED BY <1>3, <2>1, <2>2, <2>4
<1>7. ASSUME a = <<>>, q # <<>> PROVE Wait(Head(q), a, Tail(q)) = Wait(NoJob, a, q)
  <2>1. PICK e, v : e = Head(q) /\ v = Tail(q)
    OBVIOUS
  <2>2. e \in Jobs /\ v \in Seq(Jobs) /\ <<e>> \o v = q
    BY <1>7, <2>1, TakenJob
  <2>3. Wait(e, a, v) = <<e>> \o (a \o v)
    BY <1>4, <2>2
  <2>4. a \o v = v /\ a \o q = q
    BY <1>7, <2>2, JoinedJobs
  <2> QED BY ZenonT(40), <1>3, <2>1, <2>2, <2>3, <2>4
<1>8. ASSUME j # NoJob
      PROVE  /\ Wait(j, a, q) # <<>> /\ Head(Wait(j, a, q)) = j
             /\ Tail(Wait(j, a, q)) = Wait(NoJob, a, q)
  <2>1. j \in Jobs
    BY <1>8
  <2>2. PICK b : b = a \o q /\ b \in Seq(Jobs)
    BY <1>1
  <2>3. Wait(j, a, q) = <<j>> \o b
    BY <1>4, <2>1, <2>2
  <2>4. Wait(NoJob, a, q) = b
    BY <1>3, <2>2
  <2>5. /\ <<j>> \o b # <<>> /\ Head(<<j>> \o b) = j /\ Tail(<<j>> \o b) = b
    BY <2>1, <2>2, FirstJob
  <2> QED BY <2>3, <2>4, <2>5
<1>9. Wait(NoJob, a, none) = a /\ Wait(NoJob, none, none) = none
  <2>1. a \o none = a /\ none \o none = none
    BY <1>2, JoinedJobs
  <2> QED BY <1>2, <1>3, <2>1
<1> QED BY <1>2, <1>5, <1>6, <1>7, <1>8, <1>9

----------------------------------------------------------------------------
(* The accounts, and the steps of the writer.                              *)

Waiting == Wait(job, backlog, queue)

\* What was handed over, and a row written twice, is landed, told or m.
Balanced(f, n, b, h, m) ==
  h + (IF Doubled(f, n) THEN 1 ELSE 0) <= LandedIn(f, b) + ToldIn(f, b) + m

Counted == phase = "on" =>
  Balanced(file, nextSeq, base, handed, Len(Waiting) + overflow + dropped)

Recorded(f, w, st) == InOrder(f, w) /\ OfTurns(Said(f, w), st)

\* No job waits for a store that is not open, and the last one is the last.
Quiet ==
  /\ phase \in {"down", "refused"} => Waiting = <<>> /\ \A s \in Streams : stream[s] # "open"
  /\ job = Shutdown => backlog = <<>>
  /\ \A k \in 1..Len(backlog) : backlog[k] # Shutdown

AInv == Counted /\ Recorded(file, Waiting, stream) /\ Quiet

(* What is landed and told are numbers.                                    *)
LEMMA SumFacts ==
  ASSUME NEW f \in Seq(Lines), NEW b \in 0..Len(f)
  PROVE  LandedIn(f, b) \in Nat /\ ToldIn(f, b) \in Nat
<1>1. Grown(f, f, Boot)
  BY DEF Grown, SameLine
<1> QED BY <1>1, LandedGrows, ToldGrows

(* More of what neither opens nor closes a stream changes no turn.         *)
LEMMA TurnsStay ==
  ASSUME NEW st, NEW said, NEW more, OfTurns(said, st),
         \A e \in more : e \in said \/ e.kind \notin {"open", "close"}
  PROVE  OfTurns(more, st)
BY KindFacts DEF OfTurns

(* What steps of the writer leave of the order and the turns.              *)
LEMMA RecordedSteps ==
  ASSUME NEW f \in Seq(Lines), NEW w \in Seq(Jobs), NEW st, Recorded(f, w, st)
  PROVE  /\ Recorded(f, <<>>, st)
         /\ w # <<>> => Recorded(f, Tail(w), st)
         /\ \A g \in Seq(Lines), e \in Events :
              Grown(f, g, e) /\ e.kind \notin {"open", "close"} => Recorded(g, w, st)
         /\ \A g \in Seq(Lines) :
              w # <<>> /\ Grown(f, g, Head(w)) => Recorded(g, Tail(w), st)
<1>1. InOrder(f, w) /\ OfTurns(Said(f, w), st)
  BY DEF Recorded
<1>2. Recorded(f, <<>>, st)
  BY <1>1, OrderCut, TurnsStay DEF Recorded
<1>3. ASSUME w # <<>> PROVE Recorded(f, Tail(w), st)
  BY <1>1, <1>3, OrderLoses, TurnsStay DEF Recorded
<1>4. ASSUME NEW g \in Seq(Lines), NEW e \in Events, Grown(f, g, e), e.kind \notin {"open", "close"}
      PROVE  Recorded(g, w, st)
  BY <1>1, <1>4, OrderGrows, TurnsStay DEF Recorded
<1>5. ASSUME NEW g \in Seq(Lines), w # <<>>, Grown(f, g, Head(w))
      PROVE  Recorded(g, Tail(w), st)
  BY <1>1, <1>5, OrderWrites, TurnsStay DEF Recorded
<1> QED BY <1>2, <1>3, <1>4, <1>5

(* A job that ends leaves those that wait.                                 *)
LEMMA JobEnds ==
  ASSUME TypeOK, Quiet, stage # "idle", phase = "on", NEW v, EndJob(v)
  PROVE  /\ Waiting \in Seq(Jobs) /\ Waiting # <<>> /\ Head(Waiting) = job
         /\ Waiting' \in {Tail(Waiting), <<>>}
         /\ phase' = "on" => Waiting' = Tail(Waiting)
         /\ Quiet' /\ stream' = stream /\ handed' = handed /\ base' = base /\ overflow' = overflow
<1>1. /\ job \in Jobs \cup {NoJob} /\ backlog \in Seq(Jobs) /\ queue \in Seq(Jobs) /\ job # NoJob
  BY DEF TypeOK
<1>2. /\ Waiting \in Seq(Jobs) /\ Waiting # <<>> /\ Head(Waiting) = job
      /\ Tail(Waiting) = Wait(NoJob, backlog, queue)
  BY <1>1, WaitFacts, WaitSteps DEF Waiting
<1>3. /\ job' = NoJob /\ backlog' = backlog
      /\ stream' = stream /\ handed' = handed /\ base' = base /\ overflow' = overflow
      /\ IF job = Shutdown THEN phase' = "closed" /\ queue' = <<>> ELSE phase' = phase /\ queue' = queue
  BY DEF EndJob
<1>4. Waiting' = Wait(NoJob, backlog, queue')
  BY <1>3 DEF Waiting
<1>5. CASE job = Shutdown
  BY <1>5, <1>1, <1>3, <1>4, WaitSteps, EventFacts, <1>2 DEF Quiet
<1>6. CASE job # Shutdown
  BY <1>2, <1>3, <1>4, <1>6, EventFacts DEF Quiet
<1> QED BY <1>5, <1>6

(* A row that is lost is told of later.                                    *)
LEMMA LoseJobAccounts ==
  ASSUME IInv, AInv, LoseJob, stage # "idle", file' \in Seq(Lines),
         Recorded(file', <<>>, stream), Recorded(file', Tail(Waiting), stream),
         Balanced(file', nextSeq, base, handed, Len(Waiting) + overflow + dropped)
  PROVE  AInv'
<1>1. TypeOK /\ Quiet /\ phase = "on"
  BY DEF IInv, AInv, WriterState
<1>2. PICK v : EndJob(v)
  BY DEF LoseJob
<1>3. /\ Waiting \in Seq(Jobs) /\ Waiting # <<>>
      /\ Waiting' \in {Tail(Waiting), <<>>}
      /\ phase' = "on" => Waiting' = Tail(Waiting)
      /\ Quiet' /\ stream' = stream /\ handed' = handed /\ base' = base /\ overflow' = overflow
  BY <1>1, <1>2, JobEnds
<1>4. nextSeq' = nextSeq /\ dropped' = dropped + 1 /\ overflow \in Nat /\ dropped \in Nat
  BY <1>1 DEF LoseJob, TypeOK
<1>5. Recorded(file', Waiting', stream')
  BY <1>3
<1>6. Counted'
  <2> SUFFICES ASSUME phase' = "on"
               PROVE  Balanced(file', nextSeq', base', handed', Len(Waiting') + overflow' + dropped')
    BY DEF Counted
  <2>1. Waiting' = Tail(Waiting)
    BY <1>3
  <2>2. PICK w, x : w = Waiting /\ x = Tail(w) /\ w \in Seq(Jobs) /\ w # <<>>
    BY <1>3
  <2>3. Len(w) \in Nat /\ Len(x) = Len(w) - 1
    BY <2>2
  <2>4. Len(x) + overflow + (dropped + 1) = Len(w) + overflow + dropped
    BY <1>4, <2>3
  <2> QED BY <1>3, <1>4, <2>1, <2>2, <2>4
<1> QED BY <1>3, <1>5, <1>6 DEF AInv

(* What the invariants say of a writer that works.                         *)
LEMMA WriterFacts ==
  ASSUME IInv, AInv, stage # "idle"
  PROVE  /\ TypeOK /\ Quiet /\ phase = "on" /\ file \in Seq(Lines) /\ base \in 0..Len(file)
         /\ Waiting \in Seq(Jobs) /\ Waiting # <<>> /\ Head(Waiting) = job /\ Len(Waiting) \in Nat
         /\ Recorded(file, Waiting, stream)
         /\ Balanced(file, nextSeq, base, handed, Len(Waiting) + overflow + dropped)
         /\ handed \in Nat /\ overflow \in Nat /\ dropped \in Nat /\ nextSeq \in Nat /\ prev \in Nat
         /\ LandedIn(file, base) \in Nat /\ ToldIn(file, base) \in Nat
<1>1. /\ TypeOK /\ Quiet /\ phase = "on" /\ Recorded(file, Waiting, stream)
      /\ Balanced(file, nextSeq, base, handed, Len(Waiting) + overflow + dropped)
  BY DEF IInv, AInv, WriterState, Counted
<1>2. /\ job \in Jobs \cup {NoJob} /\ job # NoJob /\ backlog \in Seq(Jobs) /\ queue \in Seq(Jobs)
      /\ file \in Seq(Lines) /\ base \in 0..Len(file)
      /\ handed \in Nat /\ overflow \in Nat /\ dropped \in Nat /\ nextSeq \in Nat
  BY <1>1 DEF TypeOK
<1>3. prev \in Nat
  BY <1>1, <1>2 DEF TypeOK
<1>4. /\ Waiting \in Seq(Jobs) /\ Waiting # <<>> /\ Head(Waiting) = job /\ Len(Waiting) \in Nat
  BY <1>2, WaitFacts, WaitSteps DEF Waiting
<1>5. LandedIn(file, base) \in Nat /\ ToldIn(file, base) \in Nat
  BY <1>2, SumFacts
<1> QED BY <1>1, <1>2, <1>3, <1>4, <1>5

(* A repair that grows a file keeps what is balanced.                      *)
LEMMA GrownBalances ==
  ASSUME NEW f \in Seq(Lines), NEW g \in Seq(Lines), NEW b \in 0..Len(f), NEW e, Grown(f, g, e),
         NEW n \in Nat, Doubled(g, n) => Doubled(f, n), NEW h \in Nat, NEW m \in Nat,
         Balanced(f, n, b, h, m)
  PROVE  Balanced(g, n, b, h, m)
<1>1. /\ LandedIn(f, b) \in Nat /\ LandedIn(g, b) \in Nat /\ LandedIn(f, b) <= LandedIn(g, b)
      /\ ToldIn(f, b) \in Nat /\ ToldIn(g, b) \in Nat /\ ToldIn(f, b) <= ToldIn(g, b)
  BY LandedGrows, ToldGrows
<1>2. PICK x, y : /\ x = IF Doubled(f, n) THEN 1 ELSE 0
                  /\ y = IF Doubled(g, n) THEN 1 ELSE 0
  OBVIOUS
<1>3. x \in Nat /\ y \in Nat /\ y <= x
  BY <1>2
<1>4. h + x <= LandedIn(f, b) + ToldIn(f, b) + m
  BY <1>2 DEF Balanced
<1>5. h + y <= LandedIn(g, b) + ToldIn(g, b) + m
  BY SMTT(40), <1>1, <1>3, <1>4
<1> QED BY <1>2, <1>5 DEF Balanced

(* A row that is told of may have been written after all.                  *)
LEMMA LandingBalances ==
  ASSUME NEW f \in Seq(Lines), NEW b \in 0..Len(f), NEW n \in Nat, NEW p \in Nat, NEW e \in Events,
         NEW g \in Landings(f, RowLine(n, p, e)), ~Doubled(f, n),
         e \in Jobs \/ \E d \in Nat \ {0} : e = Gap(d),
         NEW h \in Nat, NEW m \in Nat, Balanced(f, n, b, h, m)
  PROVE  Balanced(g, n, b, h, m)
<1>1. /\ g \in Seq(Lines) /\ Grown(f, g, e)
      /\ Doubled(g, n) => Len(g) = Len(f) + 1 /\ IsRow(g[Len(g)])
  BY LandingGrows
<1>2. /\ LandedIn(f, b) \in Nat /\ LandedIn(g, b) \in Nat /\ LandedIn(f, b) <= LandedIn(g, b)
      /\ ToldIn(f, b) \in Nat /\ ToldIn(g, b) \in Nat /\ ToldIn(f, b) <= ToldIn(g, b)
  BY <1>1, LandedGrows, ToldGrows
<1>3. h <= LandedIn(f, b) + ToldIn(f, b) + m
  BY DEF Balanced
<1>4. CASE ~Doubled(g, n)
  <2>1. h <= LandedIn(g, b) + ToldIn(g, b) + m
    BY <1>2, <1>3
  <2> QED BY <1>4, <2>1 DEF Balanced
<1>5. CASE Doubled(g, n)
  <2>1. Len(g) = Len(f) + 1 /\ IsRow(g[Len(g)])
    BY <1>1, <1>5
  <2>2. LandedIn(f, b) + 1 <= LandedIn(g, b) \/ ToldIn(f, b) + 1 <= ToldIn(g, b)
    <3>1. CASE e \in Jobs
      BY <3>1, KindFacts, <1>1, <2>1, LandedGrows
    <3>2. CASE \E d \in Nat \ {0} : e = Gap(d)
      <4>1. PICK d \in Nat \ {0} : e = Gap(d)
        BY <3>2
      <4>2. e.kind = "gap" /\ e.dropped = d
        BY <4>1, KindFacts
      <4>3. ToldIn(f, b) + e.dropped <= ToldIn(g, b)
        BY <1>1, <2>1, <4>2, ToldGrows
      <4> QED BY <1>2, <4>1, <4>2, <4>3
    <3> QED BY <3>1, <3>2
  <2>3. h + 1 <= LandedIn(g, b) + ToldIn(g, b) + m
    BY SMTT(40), <1>2, <1>3, <2>2
  <2> QED BY <1>5, <2>3 DEF Balanced
<1> QED BY <1>4, <1>5

(* Reading the file again fails.                                           *)
LEMMA ResyncFailsAccounts ==
  ASSUME IInv, AInv, ResyncFails
  PROVE  AInv'
<1>1. stage # "idle" /\ LoseJob
  BY DEF ResyncFails
<1>2. /\ file \in Seq(Lines) /\ base \in 0..Len(file)
      /\ Waiting \in Seq(Jobs) /\ Waiting # <<>> /\ Len(Waiting) \in Nat
      /\ Recorded(file, Waiting, stream)
      /\ Balanced(file, nextSeq, base, handed, Len(Waiting) + overflow + dropped)
      /\ handed \in Nat /\ overflow \in Nat /\ dropped \in Nat /\ nextSeq \in Nat
  BY <1>1, WriterFacts
<1>3. PICK e \in Events : /\ file' \in Seq(Lines) /\ Grown(file, file', e)
                          /\ e.kind \notin {"open", "close"}
                          /\ Doubled(file', nextSeq) => Doubled(file, nextSeq)
  <2>1. CASE file' = file
    BY <2>1, EventFacts, KindFacts, <1>2 DEF Grown, SameLine
  <2>2. CASE file # <<>> /\ file' \in RepairLandings(file)
    <3>1. file' \in Seq(Lines) /\ Grown(file, file', Recover(Len(file)))
          /\ (Doubled(file', nextSeq) => Doubled(file, nextSeq))
      BY <1>2, <2>2, RepairGrows
    <3>2. Len(file) \in Nat
      BY <1>2
    <3>3. Recover(Len(file)) \in Events /\ Recover(Len(file)).kind \notin {"open", "close"}
      BY <3>2, EventFacts, KindFacts
    <3> QED BY <3>1, <3>3
  <2>3. CASE file = <<>> /\ file' \in RepairLandings(file)
    BY <2>3, <2>1 DEF Class, RepairLandings
  <2>4. file' = file \/ file' \in RepairLandings(file)
    BY DEF ResyncFails, fileVars
  <2> QED BY <2>1, <2>2, <2>3, <2>4
<1>4. Recorded(file', Waiting, stream)
  BY <1>2, <1>3, RecordedSteps
<1>5. Recorded(file', <<>>, stream) /\ Recorded(file', Tail(Waiting), stream)
  BY <1>2, <1>3, <1>4, RecordedSteps
<1>6. Len(Waiting) + overflow + dropped \in Nat
  BY <1>2
<1>7. Balanced(file', nextSeq, base, handed, Len(Waiting) + overflow + dropped)
  BY <1>2, <1>3, <1>6, GrownBalances
<1> QED BY <1>1, <1>3, <1>5, <1>7, LoseJobAccounts

(* A store that may write has counted what its file has.                   *)
LEMMA NothingTwice ==
  ASSUME IInv, stage \in {"gap", "row"}
  PROVE  ~Doubled(file, nextSeq)
<1>1. InSync /\ file \in Seq(Lines)
  BY DEF IInv, WriterState, Ready, TypeOK
<1> QED BY <1>1, SyncedIsExact DEF InSync

(* What a failed write leaves of the order and the turns.                  *)
LEMMA WriteFailsRecords ==
  ASSUME IInv, AInv, WriteFails
  PROVE  /\ file' \in Seq(Lines)
         /\ Recorded(file', <<>>, stream) /\ Recorded(file', Tail(Waiting), stream)
         /\ Balanced(file', nextSeq, base, handed, Len(Waiting) + overflow + dropped)
<1>1. stage \in {"gap", "row"} /\ stage # "idle"
  BY DEF WriteFails
<1>2. /\ TypeOK /\ file \in Seq(Lines) /\ base \in 0..Len(file)
      /\ Waiting \in Seq(Jobs) /\ Waiting # <<>> /\ Head(Waiting) = job /\ Len(Waiting) \in Nat
      /\ Recorded(file, Waiting, stream)
      /\ Balanced(file, nextSeq, base, handed, Len(Waiting) + overflow + dropped)
      /\ handed \in Nat /\ overflow \in Nat /\ dropped \in Nat /\ nextSeq \in Nat /\ prev \in Nat
  BY <1>1, WriterFacts
<1>3. ~Doubled(file, nextSeq)
  BY <1>1, NothingTwice
<1>4. job \in Jobs /\ job \in Events /\ Gap(dropped) \in Events
  BY <1>1, <1>2, JobFacts
<1>5. Tail(Waiting) \in Seq(Jobs)
  BY <1>2
<1>6. CASE stage = "gap"
  <2>1. file' \in Landings(file, RowLine(nextSeq, prev, Gap(dropped)))
    BY <1>6 DEF WriteFails
  <2>2. dropped \in Nat \ {0}
    BY <1>2, <1>6 DEF IInv, WriterState
  <2>3. file' \in Seq(Lines) /\ Grown(file, file', Gap(dropped))
    BY <1>2, <1>4, <2>1, LandingGrows
  <2>4. Gap(dropped).kind \notin {"open", "close"}
    BY KindFacts
  <2>5. Recorded(file', Waiting, stream)
    BY <1>2, <1>4, <2>3, <2>4, RecordedSteps
  <2>6. Recorded(file', <<>>, stream) /\ Recorded(file', Tail(Waiting), stream)
    BY <1>2, <2>3, <2>5, RecordedSteps
  <2>7. Balanced(file', nextSeq, base, handed, Len(Waiting) + overflow + dropped)
    <3>1. Len(Waiting) + overflow + dropped \in Nat
      BY <1>2
    <3>2. \E d \in Nat \ {0} : Gap(dropped) = Gap(d)
      BY <2>2
    <3> QED BY <1>2, <1>3, <1>4, <2>1, <3>1, <3>2, LandingBalances
  <2> QED BY <2>3, <2>6, <2>7
<1>7. CASE stage = "row"
  <2>1. file' \in Landings(file, RowLine(nextSeq, prev, job))
    BY <1>7 DEF WriteFails
  <2>2. file' \in Seq(Lines) /\ Grown(file, file', job)
    BY <1>2, <1>4, <2>1, LandingGrows
  <2>3. Recorded(file', Tail(Waiting), stream)
    BY <1>2, <2>2, RecordedSteps
  <2>4. Recorded(file', <<>>, stream)
    BY <1>5, <2>2, <2>3, RecordedSteps
  <2>5. Balanced(file', nextSeq, base, handed, Len(Waiting) + overflow + dropped)
    BY <1>2, <1>3, <1>4, <2>1, LandingBalances
  <2> QED BY <2>2, <2>3, <2>4, <2>5
<1> QED BY <1>1, <1>6, <1>7

(* A write fails, part of it in the file.                                  *)
LEMMA WriteFailsAccounts ==
  ASSUME IInv, AInv, WriteFails
  PROVE  AInv'
<1>1. stage # "idle" /\ LoseJob
  BY DEF WriteFails
<1> QED BY <1>1, WriteFailsRecords, LoseJobAccounts

\* A file with a row more.
WithRow(f, n, p, e) == Append(f, RowLine(n, p, e))

(* A line that is appended is a row, and the file has grown by it.         *)
LEMMA AppendedGrows ==
  ASSUME NEW f \in Seq(Lines), NEW n \in Nat, NEW p \in Nat, NEW e \in Events
  PROVE  /\ WithRow(f, n, p, e) \in Seq(Lines) /\ Grown(f, WithRow(f, n, p, e), e)
         /\ Len(WithRow(f, n, p, e)) = Len(f) + 1
         /\ IsRow(WithRow(f, n, p, e)[Len(WithRow(f, n, p, e))])
<1>1. PICK l, g : l = RowLine(n, p, e) /\ g = Append(f, l)
  OBVIOUS
<1>2. l \in Lines /\ IsRow(l) /\ l.e = e
  BY <1>1, RowLineFacts
<1>3. /\ g \in Seq(Lines) /\ Len(g) = Len(f) + 1 /\ g[Len(f) + 1] = l
      /\ \A i \in 1..Len(f) : g[i] = f[i]
  BY <1>1, <1>2, AppendFacts
<1>4. g = WithRow(f, n, p, e)
  BY <1>1 DEF WithRow
<1>5. Grown(f, g, e) /\ IsRow(g[Len(g)])
  BY <1>2, <1>3 DEF Grown, SameLine
<1> QED BY <1>3, <1>4, <1>5

(* What a row is worth that is written: the rows it tells of, or itself.   *)
LEMMA WrittenBalances ==
  ASSUME NEW f \in Seq(Lines), NEW g \in Seq(Lines), NEW b \in 0..Len(f), NEW e, Grown(f, g, e),
         Len(g) = Len(f) + 1, IsRow(g[Len(g)]),
         NEW n \in Nat, NEW h \in Nat, NEW m \in Nat, NEW d \in Nat, d <= m,
         (e \in Jobs /\ d = 1) \/ e = Gap(d),
         Balanced(f, n, b, h, m)
  PROVE  h <= LandedIn(g, b) + ToldIn(g, b) + (m - d)
<1>1. /\ LandedIn(f, b) \in Nat /\ LandedIn(g, b) \in Nat /\ LandedIn(f, b) <= LandedIn(g, b)
      /\ ToldIn(f, b) \in Nat /\ ToldIn(g, b) \in Nat /\ ToldIn(f, b) <= ToldIn(g, b)
  BY LandedGrows, ToldGrows
<1>2. h <= LandedIn(f, b) + ToldIn(f, b) + m
  <2>1. PICK x : x = IF Doubled(f, n) THEN 1 ELSE 0
    OBVIOUS
  <2>2. x \in Nat /\ h + x <= LandedIn(f, b) + ToldIn(f, b) + m
    BY <2>1 DEF Balanced
  <2> QED BY <1>1, <2>2
<1>3. CASE e \in Jobs /\ d = 1
  <2>1. e.kind \notin {"recover", "gap", "genesis"}
    BY <1>3, KindFacts
  <2>2. LandedIn(f, b) + 1 <= LandedIn(g, b)
    BY <2>1, LandedGrows
  <2> QED BY SMTT(40), <1>1, <1>2, <1>3, <2>2
<1>4. CASE e = Gap(d)
  <2>1. e.kind = "gap" /\ e.dropped = d
    BY <1>4, KindFacts
  <2>2. ToldIn(f, b) + d <= ToldIn(g, b)
    BY <2>1, ToldGrows
  <2> QED BY SMTT(40), <1>1, <1>2, <2>2
<1> QED BY <1>3, <1>4

(* And it is counted once.                                                 *)
LEMMA OnceBalances ==
  ASSUME NEW f, NEW n, NEW b, NEW h, NEW m, ~Doubled(f, n), h <= LandedIn(f, b) + ToldIn(f, b) + m,
         h \in Nat
  PROVE  Balanced(f, n, b, h, m)
BY DEF Balanced

(* The writer tells how many rows were lost.                               *)
LEMMA WriteGapAccounts ==
  ASSUME IInv, AInv, WriteGap, IInv'
  PROVE  AInv'
<1>1. stage = "gap" /\ stage # "idle" /\ poisoned' = FALSE /\ dropped' = 0
      /\ file' = WithRow(file, nextSeq, prev, Gap(dropped))
      /\ UNCHANGED <<phase, backlog, job, queue, overflow, stream, base, handed>>
  BY DEF WriteGap, AppendLine, Wrote, WithRow, channelVars
<1>2. /\ TypeOK /\ Quiet /\ phase = "on" /\ file \in Seq(Lines) /\ base \in 0..Len(file)
      /\ Waiting \in Seq(Jobs) /\ Len(Waiting) \in Nat
      /\ Recorded(file, Waiting, stream)
      /\ Balanced(file, nextSeq, base, handed, Len(Waiting) + overflow + dropped)
      /\ handed \in Nat /\ overflow \in Nat /\ dropped \in Nat /\ nextSeq \in Nat /\ prev \in Nat
  BY <1>1, WriterFacts
<1>3. Gap(dropped) \in Events
  BY <1>2, EventFacts
<1>4. /\ file' \in Seq(Lines) /\ Grown(file, file', Gap(dropped))
      /\ Len(file') = Len(file) + 1 /\ IsRow(file'[Len(file')])
  BY <1>1, <1>2, <1>3, AppendedGrows
<1>5. Gap(dropped).kind \notin {"open", "close"}
  BY KindFacts
<1>6. Waiting' = Waiting
  BY <1>1 DEF Waiting
<1>7. Recorded(file', Waiting', stream')
  BY <1>1, <1>2, <1>3, <1>4, <1>5, <1>6, RecordedSteps
<1>8. Quiet'
  BY <1>1, <1>2, <1>6 DEF Quiet
<1>9. Counted'
  <2>1. PICK m : m = Len(Waiting) + overflow + dropped /\ m \in Nat /\ dropped <= m
                 /\ m - dropped = Len(Waiting) + overflow + 0
    BY <1>2
  <2>2. handed <= LandedIn(file', base) + ToldIn(file', base) + (m - dropped)
    BY <1>2, <1>4, <2>1, WrittenBalances
  <2>3. ~Doubled(file', nextSeq')
    BY <1>1, <1>2, <1>4, SyncedIsExact DEF IInv, Ready, InSync
  <2>4. Balanced(file', nextSeq', base, handed, m - dropped)
    BY <1>2, <2>2, <2>3, OnceBalances
  <2> QED BY <1>1, <1>6, <2>1, <2>4 DEF Counted
<1> QED BY <1>7, <1>8, <1>9 DEF AInv

(* The writer writes the row of its job.                                   *)
LEMMA WriteRowAccounts ==
  ASSUME IInv, AInv, WriteRow, IInv'
  PROVE  AInv'
<1>1. stage = "row" /\ stage # "idle" /\ poisoned' = poisoned /\ dropped' = dropped
      /\ file' = WithRow(file, nextSeq, prev, job)
  BY DEF WriteRow, AppendLine, Wrote, WithRow
<1>2. /\ TypeOK /\ Quiet /\ phase = "on" /\ file \in Seq(Lines) /\ base \in 0..Len(file)
      /\ Waiting \in Seq(Jobs) /\ Waiting # <<>> /\ Head(Waiting) = job /\ Len(Waiting) \in Nat
      /\ Recorded(file, Waiting, stream)
      /\ Balanced(file, nextSeq, base, handed, Len(Waiting) + overflow + dropped)
      /\ handed \in Nat /\ overflow \in Nat /\ dropped \in Nat /\ nextSeq \in Nat /\ prev \in Nat
  BY <1>1, WriterFacts
<1>3. job \in Events /\ job \in Jobs
  BY <1>1, <1>2, JobFacts
<1>4. /\ file' \in Seq(Lines) /\ Grown(file, file', job)
      /\ Len(file') = Len(file) + 1 /\ IsRow(file'[Len(file')])
  BY <1>1, <1>2, <1>3, AppendedGrows
<1>5. PICK v : EndJob(v)
  BY DEF WriteRow
<1>6. /\ Waiting' \in {Tail(Waiting), <<>>} /\ (phase' = "on" => Waiting' = Tail(Waiting))
      /\ Quiet' /\ stream' = stream /\ handed' = handed /\ base' = base /\ overflow' = overflow
  BY <1>1, <1>2, <1>5, JobEnds
<1>7. Recorded(file', Tail(Waiting), stream) /\ Tail(Waiting) \in Seq(Jobs)
  BY <1>2, <1>4, RecordedSteps
<1>8. Recorded(file', <<>>, stream)
  BY <1>4, <1>7, RecordedSteps
<1>9. Recorded(file', Waiting', stream')
  BY <1>6, <1>7, <1>8
<1>10. Counted'
  <2> SUFFICES ASSUME phase' = "on"
               PROVE  Balanced(file', nextSeq', base', handed', Len(Waiting') + overflow' + dropped')
    BY DEF Counted
  <2>1. PICK w, x : w = Waiting /\ x = Tail(w) /\ w \in Seq(Jobs) /\ w # <<>>
    BY <1>2
  <2>2. Len(w) \in Nat /\ Len(w) > 0 /\ Len(x) = Len(w) - 1
    BY <2>1
  <2>3. PICK m : m = Len(w) + overflow + dropped /\ m \in Nat /\ 1 <= m
                 /\ m - 1 = Len(x) + overflow + dropped
    BY <1>2, <2>2
  <2>4. handed <= LandedIn(file', base) + ToldIn(file', base) + (m - 1)
    BY <1>2, <1>3, <1>4, <2>1, <2>3, WrittenBalances
  <2>5. ~Doubled(file', nextSeq')
    <3>1. InSync' /\ file' \in Seq(Lines)
      BY <1>1, <1>4 DEF IInv, WriterState, Ready
    <3> QED BY <3>1, SyncedIsExact DEF InSync
  <2>6. Balanced(file', nextSeq', base, handed, m - 1)
    BY <1>2, <2>4, <2>5, OnceBalances
  <2> QED BY <1>1, <1>6, <2>1, <2>3, <2>6
<1> QED BY <1>6, <1>9, <1>10 DEF AInv

(* The writer reads the file again: a row that landed after all counts.    *)
LEMMA ResyncAccounts ==
  ASSUME IInv, AInv, Resync, IInv'
  PROVE  AInv'
<1>1. /\ stage = "resync" /\ stage # "idle" /\ Repairable(file)
      /\ file' = Repaired(file) /\ Verifies(file')
      /\ dropped' = IF Committed(file') THEN dropped - 1 ELSE dropped
      /\ nextSeq' = RowCount(file')
      /\ UNCHANGED <<phase, backlog, job, queue, overflow, stream, base, handed>>
  BY DEF Resync, Wrote, InStep, channelVars
<1>2. /\ TypeOK /\ Quiet /\ phase = "on" /\ file \in Seq(Lines) /\ base \in 0..Len(file)
      /\ Waiting \in Seq(Jobs) /\ Len(Waiting) \in Nat
      /\ Recorded(file, Waiting, stream)
      /\ Balanced(file, nextSeq, base, handed, Len(Waiting) + overflow + dropped)
      /\ handed \in Nat /\ overflow \in Nat /\ dropped \in Nat /\ nextSeq \in Nat
  BY <1>1, WriterFacts
<1>3. file # <<>>
  BY <1>1 DEF Repairable, Class
<1>4. file' \in Seq(Lines) /\ file' # <<>> /\ Last(file').nl
  BY <1>1, <1>2, <1>3, RepairedFacts
<1>5. /\ Grown(file, file', Recover(Len(file)))
      /\ Doubled(file', nextSeq) => Doubled(file, nextSeq)
  BY <1>1, <1>2, <1>3, RepairedLands, RepairGrows
<1>6. Recover(Len(file)) \in Events /\ Recover(Len(file)).kind \notin {"open", "close"}
  BY <1>2, EventFacts, KindFacts
<1>7. Waiting' = Waiting
  BY <1>1 DEF Waiting
<1>8. Recorded(file', Waiting', stream')
  BY <1>1, <1>2, <1>4, <1>5, <1>6, <1>7, RecordedSteps
<1>9. Quiet'
  BY <1>1, <1>2, <1>7 DEF Quiet
<1>10. ~Doubled(file', nextSeq')
  BY <1>1, <1>4, SyncedIsExact
<1>11. Balanced(file', nextSeq', base, handed, Len(Waiting) + overflow + dropped')
  <2>1. PICK m : m = Len(Waiting) + overflow + dropped /\ m \in Nat
    BY <1>2
  <2>2. Balanced(file', nextSeq, base, handed, m)
    BY <1>2, <1>4, <1>5, <2>1, GrownBalances
  <2>3. base \in 0..Len(file')
    BY <1>2, <1>4, <1>5 DEF Grown
  <2>4. LandedIn(file', base) \in Nat /\ ToldIn(file', base) \in Nat
    BY <1>4, <2>3, SumFacts
  <2>5. CASE Committed(file')
    <3>1. IsRow(Last(file'))
      BY <1>1, <1>4, LastIsPrevious
    <3>2. Doubled(file', nextSeq)
      BY <1>4, <2>5, <3>1 DEF Doubled, Committed
    <3>3. handed + 1 <= LandedIn(file', base) + ToldIn(file', base) + m
      BY <2>2, <3>2 DEF Balanced
    <3>4. dropped' = dropped - 1
      BY <1>1, <2>5
    <3>5. handed <= LandedIn(file', base) + ToldIn(file', base) + (Len(Waiting) + overflow + dropped')
      BY SMTT(40), <1>2, <2>1, <2>4, <3>3, <3>4
    <3> QED BY <1>2, <1>10, <3>5, OnceBalances
  <2>6. CASE ~Committed(file')
    <3>1. PICK x : x = IF Doubled(file', nextSeq) THEN 1 ELSE 0
      OBVIOUS
    <3>2. x \in Nat /\ handed + x <= LandedIn(file', base) + ToldIn(file', base) + m
      BY <2>2, <3>1 DEF Balanced
    <3>3. handed <= LandedIn(file', base) + ToldIn(file', base) + m
      BY <1>2, <2>1, <2>4, <3>2
    <3> QED BY <1>1, <1>2, <1>10, <2>1, <2>6, <3>3, OnceBalances
  <2> QED BY <2>5, <2>6
<1>12. Counted'
  BY <1>1, <1>7, <1>11 DEF Counted
<1> QED BY <1>8, <1>9, <1>12 DEF AInv

(* The writer takes the overflow counter.                                  *)
LEMMA SwapOverflowAccounts ==
  ASSUME IInv, AInv, SwapOverflow
  PROVE  AInv'
<1>1. /\ stage # "idle" /\ overflow' = 0 /\ dropped' = dropped + overflow
      /\ UNCHANGED <<file, phase, backlog, job, queue, stream, base, handed, nextSeq>>
  BY DEF SwapOverflow, fileVars
<1>2. /\ Quiet /\ Recorded(file, Waiting, stream) /\ Len(Waiting) \in Nat
      /\ Balanced(file, nextSeq, base, handed, Len(Waiting) + overflow + dropped)
      /\ overflow \in Nat /\ dropped \in Nat
  BY <1>1, WriterFacts
<1>3. Waiting' = Waiting
  BY <1>1 DEF Waiting
<1>4. Len(Waiting) + 0 + (dropped + overflow) = Len(Waiting) + overflow + dropped
  BY <1>2
<1>5. Counted'
  BY <1>1, <1>2, <1>3, <1>4 DEF Counted
<1>6. Quiet'
  BY <1>1, <1>2, <1>3 DEF Quiet
<1> QED BY <1>1, <1>2, <1>3, <1>5, <1>6 DEF AInv

----------------------------------------------------------------------------
(* The accounts, and the other steps.                                      *)

(* The jobs that wait, in any state of the right types.                    *)
LEMMA StateWaits ==
  ASSUME TypeOK
  PROVE  /\ file \in Seq(Lines) /\ base \in 0..Len(file)
         /\ job \in Jobs \cup {NoJob} /\ backlog \in Seq(Jobs) /\ queue \in Seq(Jobs)
         /\ Waiting \in Seq(Jobs) /\ Len(Waiting) \in Nat
         /\ handed \in Nat /\ overflow \in Nat /\ dropped \in Nat /\ nextSeq \in Nat
<1>1. /\ file \in Seq(Lines) /\ base \in 0..Len(file)
      /\ job \in Jobs \cup {NoJob} /\ backlog \in Seq(Jobs) /\ queue \in Seq(Jobs)
      /\ handed \in Nat /\ overflow \in Nat /\ dropped \in Nat /\ nextSeq \in Nat
  BY DEF TypeOK
<1>2. Waiting \in Seq(Jobs) /\ Len(Waiting) \in Nat
  BY <1>1, WaitFacts DEF Waiting
<1> QED BY <1>1, <1>2

(* The writer takes the next job.                                          *)
LEMMA TakeJobAccounts ==
  ASSUME IInv, AInv, TakeJob
  PROVE  AInv'
<1>1. /\ TypeOK /\ stage = "idle" /\ phase = "on" /\ job = NoJob
      /\ Counted /\ Recorded(file, Waiting, stream) /\ Quiet
  BY DEF IInv, AInv, TakeJob, TypeOK
<1>2. backlog \in Seq(Jobs) /\ queue \in Seq(Jobs)
  BY <1>1, StateWaits
<1>3. UNCHANGED <<file, phase, overflow, dropped, stream, base, handed, nextSeq>>
  BY DEF TakeJob, fileVars, storeVars
<1>4. Waiting = Wait(NoJob, backlog, queue) /\ Waiting' = Wait(job', backlog', queue')
  BY <1>1 DEF Waiting
<1>5. CASE backlog # <<>> /\ job' = Head(backlog) /\ backlog' = Tail(backlog) /\ UNCHANGED queue
  <2>1. Waiting' = Waiting
    BY <1>2, <1>4, <1>5, NothingFacts, WaitSteps
  <2>2. PICK v, w : v = backlog /\ w = Tail(v) /\ v \in Seq(Jobs) /\ v # <<>>
                    /\ \A k \in 1..Len(v) : v[k] # Shutdown
    BY <1>1, <1>2, <1>5 DEF Quiet
  <2>3. Head(v) # Shutdown /\ \A k \in 1..Len(w) : w[k] # Shutdown
    BY <2>2
  <2>4. Quiet'
    BY <1>1, <1>3, <1>5, <2>2, <2>3 DEF Quiet
  <2>5. Counted'
    BY <1>1, <1>3, <2>1 DEF Counted
  <2> QED BY <1>1, <1>3, <2>1, <2>4, <2>5 DEF AInv
<1>6. CASE backlog = <<>> /\ queue # <<>> /\ job' = Head(queue) /\ queue' = Tail(queue) /\ UNCHANGED backlog
  BY <1>2, <1>4, <1>6, NothingFacts, WaitSteps, <1>1, <1>3 DEF Quiet, Counted, AInv
<1> QED BY <1>5, <1>6 DEF TakeJob

\* A job is handed over: it waits, or the overflow counts it.
Handed(e) ==
  /\ handed' = handed + 1
  /\ \/ queue' = Append(queue, e) /\ overflow' = overflow
     \/ queue' = queue /\ overflow' = overflow + 1
  /\ phase \in {"on", "closed"}
  /\ UNCHANGED <<file, phase, backlog, job, dropped, base, nextSeq>>

(* What is handed over is accounted for.                                   *)
LEMMA HandedAccounts ==
  ASSUME IInv, AInv, NEW e \in Jobs, Handed(e),
         \A x \in Said(file, Waiting) : MayFollow(x, e),
         \A said : OfTurns(said, stream) => OfTurns(said \cup {e}, stream')
  PROVE  AInv'
<1>1. TypeOK /\ Counted /\ InOrder(file, Waiting) /\ OfTurns(Said(file, Waiting), stream) /\ Quiet
  BY DEF IInv, AInv, Recorded
<1>2. /\ file \in Seq(Lines) /\ base \in 0..Len(file)
      /\ job \in Jobs \cup {NoJob} /\ backlog \in Seq(Jobs) /\ queue \in Seq(Jobs)
      /\ Waiting \in Seq(Jobs) /\ Len(Waiting) \in Nat
      /\ handed \in Nat /\ overflow \in Nat /\ dropped \in Nat /\ nextSeq \in Nat
  BY <1>1, StateWaits
<1>3. UNCHANGED <<file, phase, backlog, job, dropped, base, nextSeq>> /\ handed' = handed + 1
      /\ phase \in {"on", "closed"}
  BY DEF Handed
<1>4. Quiet'
  BY <1>1, <1>3 DEF Quiet
<1>5. \/ Waiting' = Append(Waiting, e) /\ overflow' = overflow
      \/ Waiting' = Waiting /\ overflow' = overflow + 1
  <2>1. CASE queue' = Append(queue, e) /\ overflow' = overflow
    <3>1. Wait(job, backlog, Behind(queue, e)) = Behind(Waiting, e)
      BY <1>2, WaitSteps DEF Waiting
    <3>2. Wait(job, backlog, queue') = Append(Waiting, e)
      BY <2>1, <3>1 DEF Behind
    <3> QED BY <1>3, <2>1, <3>2 DEF Waiting
  <2>2. CASE queue' = queue /\ overflow' = overflow + 1
    BY <1>3, <2>2 DEF Waiting
  <2> QED BY <2>1, <2>2 DEF Handed
<1>6. Len(Waiting') + overflow' + dropped = Len(Waiting) + overflow + dropped + 1
  <2>1. PICK w : w = Waiting
    OBVIOUS
  <2>2. w \in Seq(Jobs) /\ Len(w) \in Nat
    BY <1>2, <2>1
  <2>3. Len(Append(w, e)) = Len(w) + 1
    BY <2>2
  <2>4. CASE Waiting' = Append(Waiting, e) /\ overflow' = overflow
    BY <2>1, <2>3, <2>4, <1>2, <2>2
  <2>5. CASE Waiting' = Waiting /\ overflow' = overflow + 1
    BY <1>2, <2>5
  <2> QED BY <1>5, <2>4, <2>5
<1>7. InOrder(file, Waiting') /\ Said(file, Waiting') \subseteq Said(file, Waiting) \cup {e}
  <2>1. InOrder(file, Append(Waiting, e)) /\ Said(file, Append(Waiting, e)) \subseteq Said(file, Waiting) \cup {e}
    BY <1>1, <1>2, OrderAppends
  <2> QED BY <1>1, <1>5, <2>1
<1>8. OfTurns(Said(file, Waiting'), stream')
  BY <1>1, <1>7 DEF OfTurns
<1>9. Counted'
  <2> SUFFICES ASSUME phase' = "on"
               PROVE  Balanced(file', nextSeq', base', handed', Len(Waiting') + overflow' + dropped')
    BY DEF Counted
  <2>1. Balanced(file, nextSeq, base, handed, Len(Waiting) + overflow + dropped)
    BY <1>1, <1>3 DEF Counted
  <2>2. LandedIn(file, base) \in Nat /\ ToldIn(file, base) \in Nat
    BY <1>2, SumFacts
  <2>3. PICK x, m : x = (IF Doubled(file, nextSeq) THEN 1 ELSE 0) /\ m = Len(Waiting) + overflow + dropped
    OBVIOUS
  <2>4. handed + 1 + x <= LandedIn(file, base) + ToldIn(file, base) + (m + 1)
    <3>1. x \in Nat /\ m \in Nat
      BY <1>2, <2>3
    <3>2. handed + x <= LandedIn(file, base) + ToldIn(file, base) + m
      BY <2>1, <2>3 DEF Balanced
    <3> QED BY <1>2, <2>2, <3>1, <3>2
  <2>5. Balanced(file, nextSeq, base, handed + 1, m + 1)
    BY <2>3, <2>4 DEF Balanced
  <2> QED BY <1>3, <1>6, <2>3, <2>5
<1> QED BY <1>3, <1>4, <1>7, <1>8, <1>9 DEF AInv, Recorded

(* A turn opens its stream, or closes it.                                  *)
LEMMA StreamAccounts ==
  ASSUME IInv, AInv, NEW s \in Streams, OpenStream(s) \/ CloseStream(s)
  PROVE  AInv'
<1>1. TypeOK /\ OfTurns(Said(file, Waiting), stream) /\ Quiet
  BY DEF IInv, AInv, Recorded
<1>2. /\ file \in Seq(Lines) /\ Waiting \in Seq(Jobs)
  BY <1>1, StateWaits
<1>3. \A x \in Said(file, Waiting) :
        /\ x.kind = "open" => x.stream \in Streams /\ x = Open(x.stream)
        /\ x.kind = "close" => x.stream \in Streams /\ x = Close(x.stream)
  BY <1>2, SaidFacts, KindFacts
<1>4. Open(s) \in Jobs /\ Close(s) \in Jobs
  BY EventFacts
<1>5. stream \in [Streams -> {"new", "open", "closed", "gone"}]
  BY <1>1 DEF TypeOK
<1>6. CASE OpenStream(s)
  <2>1. stream[s] = "new" /\ stream' = [stream EXCEPT ![s] = "open"] /\ Handed(Open(s))
    BY <1>6 DEF OpenStream, Send, Handed, fileVars, writerVars, storeVars
  <2>2. \A x \in Said(file, Waiting) : MayFollow(x, Open(s))
    <3>1. Open(s) \notin Said(file, Waiting) /\ Close(s) \notin Said(file, Waiting)
      BY <1>1, <2>1 DEF OfTurns
    <3>2. TAKE x \in Said(file, Waiting)
    <3>3. x.kind = "open" => Open(s) # x
      BY <3>1
    <3>4. x.kind = "close" => Open(s) # x /\ Open(s) # Open(x.stream)
      <4> SUFFICES ASSUME x.kind = "close" PROVE Open(s) # x /\ Open(s) # Open(x.stream)
        OBVIOUS
      <4>1. x = Close(x.stream) /\ x.stream # s
        BY <1>3, <3>1
      <4> QED BY <4>1, KindFacts
    <3> QED BY <3>3, <3>4 DEF MayFollow
  <2>3. ASSUME NEW said, OfTurns(said, stream) PROVE OfTurns(said \cup {Open(s)}, stream')
    BY <1>5, <2>1, KindFacts, <2>3 DEF OfTurns
  <2> QED BY <1>4, <2>1, <2>2, <2>3, HandedAccounts
<1>7. CASE CloseStream(s)
  <2>1. stream[s] = "open" /\ stream' = [stream EXCEPT ![s] = "closed"] /\ Handed(Close(s))
    BY <1>7 DEF CloseStream, Send, Handed, fileVars, writerVars, storeVars
  <2>2. \A x \in Said(file, Waiting) : MayFollow(x, Close(s))
    BY <1>1, <2>1, KindFacts DEF OfTurns, MayFollow
  <2>3. ASSUME NEW said, OfTurns(said, stream) PROVE OfTurns(said \cup {Close(s)}, stream')
    BY <1>5, <2>1, KindFacts, <2>3 DEF OfTurns
  <2> QED BY <1>4, <2>1, <2>2, <2>3, HandedAccounts
<1> QED BY <1>6, <1>7

(* The daemon asks the writer to end.                                      *)
LEMMA AskShutdownAccounts ==
  ASSUME IInv, AInv, AskShutdown
  PROVE  AInv'
<1>1. Shutdown \in Jobs /\ Shutdown \in Events /\ Shutdown.kind = "shutdown"
  BY EventFacts, KindFacts
<1>2. Handed(Shutdown) /\ stream' = stream
  BY DEF AskShutdown, Handed, Room, fileVars, writerVars, storeVars
<1>3. \A x \in Said(file, Waiting) : MayFollow(x, Shutdown)
  BY StateWaits, SaidFacts, <1>1, PlainFollows DEF IInv
<1>4. ASSUME NEW said, OfTurns(said, stream) PROVE OfTurns(said \cup {Shutdown}, stream')
  BY <1>1, <1>2, <1>4, KindFacts DEF OfTurns
<1> QED BY <1>1, <1>2, <1>3, <1>4, HandedAccounts

(* Where no store is open no job waits.                                    *)
LEMMA DownFacts ==
  ASSUME IInv, AInv, phase \in {"down", "refused"}
  PROVE  /\ TypeOK /\ job = NoJob /\ backlog = <<>> /\ queue = <<>> /\ Waiting = <<>>
         /\ Recorded(file, <<>>, stream) /\ Quiet /\ \A s \in Streams : stream[s] # "open"
<1>1. /\ TypeOK /\ Waiting = <<>> /\ Recorded(file, Waiting, stream) /\ Quiet
      /\ \A s \in Streams : stream[s] # "open"
  BY DEF IInv, AInv, Quiet
<1>2. job \in Jobs \cup {NoJob} /\ backlog \in Seq(Jobs) /\ queue \in Seq(Jobs)
  BY <1>1, StateWaits
<1>3. PICK x : x = IF job = NoJob THEN 0 ELSE 1
  OBVIOUS
<1>4. /\ Len(Waiting) = x + Len(backlog) + Len(queue) /\ x \in Nat
      /\ Len(backlog) \in Nat /\ Len(queue) \in Nat /\ Len(Waiting) = 0
  <2>1. Len(Waiting) = x + Len(backlog) + Len(queue) /\ Len(backlog) \in Nat /\ Len(queue) \in Nat
    BY ZenonT(40), <1>2, <1>3, WaitFacts DEF Waiting
  <2> QED BY <1>1, <1>3, <2>1
<1>5. x = 0 /\ Len(backlog) = 0 /\ Len(queue) = 0
  BY <1>4
<1>6. backlog = <<>> /\ queue = <<>>
  BY <1>2, <1>5
<1> QED BY <1>1, <1>3, <1>5, <1>6

(* The file a new store starts with.                                       *)
LEMMA OpenedFile ==
  ASSUME IInv, OpenStore
  PROVE  /\ file' \in Seq(Lines) /\ file' # <<>> /\ Last(file').nl /\ Verifies(file')
         /\ \E e \in Events : Grown(file, file', e) /\ e.kind \notin {"open", "close"}
<1>1. file \in Seq(Lines) /\ Verifies(file')
  BY DEF IInv, TypeOK, OpenStore
<1>2. CASE file = <<>> /\ Wrote(<<RowLine(0, 0, Genesis)>>)
  <2>1. PICK l : l = RowLine(0, 0, Genesis)
    OBVIOUS
  <2>2. l \in Lines /\ IsRow(l) /\ l.e = Genesis /\ l.nl /\ Genesis \in Events
    BY EventFacts, RowLineFacts, <2>1
  <2>3. file' = <<l>>
    BY <1>2, <2>1 DEF Wrote
  <2>4. file' \in Seq(Lines) /\ file' # <<>> /\ Last(file').nl /\ Len(file') = 1 /\ file'[1] = l
    BY <2>2, <2>3 DEF Last
  <2>5. Len(file) = 0
    BY <1>2
  <2>6. Grown(file, file', Genesis)
    BY <2>2, <2>4, <2>5 DEF Grown, SameLine
  <2> QED BY <1>1, <2>2, <2>4, <2>6, KindFacts
<1>3. CASE StartsWithGenesis(file) /\ Repairable(file) /\ Wrote(Repaired(file))
  <2>1. file # <<>> /\ file' = Repaired(file)
    BY <1>3 DEF StartsWithGenesis, Wrote
  <2>2. file' \in Seq(Lines) /\ file' # <<>> /\ Last(file').nl
    BY <1>1, <1>3, <2>1, RepairedFacts
  <2>3. Grown(file, file', Recover(Len(file)))
    BY <1>1, <2>1, RepairedLands, RepairGrows
  <2>4. Len(file) \in Nat
    BY <1>1
  <2>5. Recover(Len(file)) \in Events /\ Recover(Len(file)).kind \notin {"open", "close"}
    BY <2>4, EventFacts, KindFacts
  <2> QED BY <1>1, <2>2, <2>3, <2>5
<1> QED BY <1>2, <1>3 DEF OpenStore

(* A store is opened, and its boot rows wait.                              *)
LEMMA OpenStoreAccounts ==
  ASSUME IInv, AInv, OpenStore
  PROVE  AInv'
<1>1. /\ phase \in {"down", "refused"} /\ phase' = "on" /\ nextSeq' = RowCount(file')
      /\ backlog' = Append(LostCloses(file'), Boot)
      /\ base' = Len(file') /\ handed' = Len(backlog')
      /\ UNCHANGED <<job, queue, overflow, dropped, stream>>
  BY DEF OpenStore, Booting, InStep, channelVars
<1>2. /\ TypeOK /\ job = NoJob /\ queue = <<>> /\ Recorded(file, <<>>, stream)
      /\ \A s \in Streams : stream[s] # "open"
  BY <1>1, DownFacts
<1>3. /\ file' \in Seq(Lines) /\ file' # <<>> /\ Last(file').nl /\ Verifies(file')
  BY OpenedFile
<1>4. PICK e \in Events : Grown(file, file', e) /\ e.kind \notin {"open", "close"}
  BY OpenedFile
<1>5. file \in Seq(Lines) /\ overflow \in Nat /\ dropped \in Nat
  BY <1>2, StateWaits
<1>6. Recorded(file', <<>>, stream)
  BY <1>2, <1>3, <1>4, <1>5, NothingFacts, RecordedSteps
<1>7. /\ backlog' \in Seq(Jobs) /\ InOrder(file', backlog')
      /\ \A x \in Said(file', backlog') : \/ x \in Said(file', <<>>) \/ x = Boot
                                          \/ \E s \in Streams : x = Close(s) /\ Open(s) \in Said(file', <<>>)
  BY <1>1, <1>3, <1>6, OrderOpens DEF Recorded
<1>8. Waiting' = backlog'
  <2>1. PICK b : b = backlog' /\ b \in Seq(Jobs)
    BY <1>7
  <2>2. Wait(NoJob, b, <<>>) = b
    BY <2>1, NothingFacts, WaitSteps
  <2>3. Waiting' = Wait(job', backlog', queue')
    BY DEF Waiting
  <2> QED BY <1>1, <1>2, <2>1, <2>2, <2>3
<1>9. OfTurns(Said(file', backlog'), stream)
  <2>1. OfTurns(Said(file', <<>>), stream)
    BY <1>6 DEF Recorded
  <2>2. ASSUME NEW s \in Streams
        PROVE  /\ stream[s] = "new" => Open(s) \notin Said(file', backlog')
               /\ stream[s] \in {"new", "open"} => Close(s) \notin Said(file', backlog')
    BY <2>1, KindFacts, <1>2, <1>7 DEF OfTurns
  <2> QED BY <2>2 DEF OfTurns
<1>10. \A k \in 1..Len(backlog') : backlog'[k] # Shutdown
  <2>1. PICK c : c = LostCloses(file') /\ c \in Seq(Jobs)
    BY <1>3, LostClosesType
  <2>2. \A k \in 1..Len(c) : c[k] # Shutdown
    BY <1>3, <2>1, LostClosesAre, KindFacts
  <2>3. Boot # Shutdown /\ Boot \in Jobs
    BY KindFacts, EventFacts
  <2>4. PICK b : b = Append(c, Boot)
    OBVIOUS
  <2>5. Len(b) = Len(c) + 1 /\ b[Len(b)] = Boot /\ \A k \in 1..Len(c) : b[k] = c[k]
    BY <2>1, <2>3, <2>4
  <2>6. \A k \in 1..Len(b) : b[k] # Shutdown
    BY <2>1, <2>2, <2>3, <2>5
  <2> QED BY <1>1, <2>1, <2>4, <2>6
<1>11. Quiet'
  BY <1>1, <1>2, <1>10, EventFacts DEF Quiet
<1>12. Counted'
  <2>1. ~Doubled(file', nextSeq')
    BY <1>1, <1>3, SyncedIsExact
  <2>2. base' \in 0..Len(file')
    BY <1>1, <1>3
  <2>3. LandedIn(file', base') \in Nat /\ ToldIn(file', base') \in Nat
    BY <1>3, <2>2, SumFacts
  <2>4. Len(backlog') \in Nat
    BY <1>7
  <2>5. handed' <= LandedIn(file', base') + ToldIn(file', base') + (Len(Waiting') + overflow' + dropped')
    BY <1>1, <1>5, <1>8, <2>3, <2>4
  <2>6. Balanced(file', nextSeq', base', handed', Len(Waiting') + overflow' + dropped')
    BY <1>1, <2>1, <2>4, <2>5, OnceBalances
  <2> QED BY <2>6 DEF Counted
<1> QED BY <1>1, <1>7, <1>8, <1>9, <1>11, <1>12 DEF AInv, Recorded

(* Opening the store fails, however far it came.                           *)
LEMMA OpenFailsAccounts ==
  ASSUME IInv, AInv, OpenFails
  PROVE  AInv'
<1>1. /\ phase \in {"down", "refused"} /\ phase' = "refused"
      /\ UNCHANGED <<job, backlog, queue, stream>>
  BY DEF OpenFails, Booting, channelVars
<1>2. /\ TypeOK /\ Waiting = <<>> /\ Recorded(file, <<>>, stream) /\ Quiet
      /\ \A s \in Streams : stream[s] # "open"
  BY <1>1, DownFacts
<1>3. file \in Seq(Lines)
  BY <1>2, StateWaits
<1>4. \E e \in Events : file' \in Seq(Lines) /\ Grown(file, file', e) /\ e.kind \notin {"open", "close"}
  <2>1. CASE file' = file
    BY <2>1, EventFacts, KindFacts, <1>3 DEF Grown, SameLine
  <2>2. CASE file = <<>> /\ file' \in Landings(<<>>, RowLine(0, 0, Genesis))
    BY EventFacts, KindFacts, <2>2, <1>3, LandingGrows
  <2>3. CASE StartsWithGenesis(file) /\ file' \in RepairLandings(file)
    BY <1>3, <2>3, RepairGrows, EventFacts, KindFacts DEF StartsWithGenesis
  <2> QED BY <2>1, <2>2, <2>3 DEF OpenFails, fileVars
<1>5. PICK e \in Events : file' \in Seq(Lines) /\ Grown(file, file', e) /\ e.kind \notin {"open", "close"}
  BY <1>4
<1>6. Recorded(file', <<>>, stream)
  BY <1>2, <1>3, <1>5, NothingFacts, RecordedSteps
<1>7. Waiting' = <<>>
  BY <1>1, <1>2 DEF Waiting
<1>8. Quiet'
  BY <1>1, <1>2, <1>7 DEF Quiet
<1> QED BY <1>1, <1>6, <1>7, <1>8 DEF AInv, Counted

(* The process is gone, and a part of the file with it.                    *)
LEMMA ForgetAccounts ==
  ASSUME IInv, AInv, Forget, file' \in Seq(Lines), Len(file') <= Len(file),
         \A i \in 1..Len(file') : IsRow(file'[i]) => IsRow(file[i]) /\ file'[i].e = file[i].e
  PROVE  AInv'
<1>1. /\ TypeOK /\ InOrder(file, Waiting) /\ OfTurns(Said(file, Waiting), stream)
  BY DEF IInv, AInv, Recorded
<1>2. file \in Seq(Lines) /\ Waiting \in Seq(Jobs) /\ stream \in [Streams -> {"new", "open", "closed", "gone"}]
  BY <1>1, StateWaits DEF TypeOK
<1>3. /\ phase' = "down" /\ job' = NoJob /\ backlog' = <<>> /\ queue' = <<>>
      /\ stream' = [s \in Streams |-> IF stream[s] = "open" THEN "gone" ELSE stream[s]]
  BY DEF Forget
<1>4. Waiting' = <<>>
  BY <1>3, EventFacts, NothingFacts, WaitSteps DEF Waiting
<1>5. InOrder(file', <<>>) /\ Said(file', <<>>) \subseteq Said(file, Waiting)
  BY <1>1, <1>2, OrderCut
<1>6. \A s \in Streams : stream'[s] # "open" /\ (stream'[s] = "new" => stream[s] = "new")
  BY <1>3
<1>7. OfTurns(Said(file', <<>>), stream')
  BY <1>1, <1>5, <1>6 DEF OfTurns
<1>8. Quiet'
  BY <1>3, EventFacts, <1>4, <1>6 DEF Quiet
<1>9. Counted'
  BY <1>3 DEF Counted
<1> QED BY <1>4, <1>5, <1>7, <1>8, <1>9 DEF AInv, Recorded

(* The process ends.                                                       *)
LEMMA ProcessEndsAccounts ==
  ASSUME IInv, AInv, ProcessEnds
  PROVE  AInv'
<1>1. Forget /\ file' = file /\ file \in Seq(Lines)
  BY DEF IInv, TypeOK, ProcessEnds, fileVars
<1> QED BY <1>1, ForgetAccounts

(* The power goes, and with it what was not synced.                        *)
LEMMA PowerLossAccounts ==
  ASSUME IInv, AInv, PowerLoss
  PROVE  AInv'
<1>1. Forget /\ file \in Seq(Lines) /\ synced \in Nat /\ Len(file) \in Nat
  BY DEF IInv, TypeOK, PowerLoss
<1>2. PICK kept \in synced..(Len(file) - 1) :
        LET rest == SubSeq(file, 1, kept)
        IN file' \in {rest, Append(rest, Half), Append(rest, [file[kept + 1] EXCEPT !.nl = FALSE])}
  BY DEF PowerLoss
<1>3. PICK rest, l : rest = SubSeq(file, 1, kept) /\ l = [file[kept + 1] EXCEPT !.nl = FALSE]
  OBVIOUS
<1>4. kept \in Nat /\ kept + 1 \in 1..Len(file)
  BY <1>1
<1>5. rest \in Seq(Lines) /\ Len(rest) = kept /\ \A i \in 1..kept : rest[i] = file[i]
  BY <1>1, <1>3, <1>4
<1>6. file[kept + 1] \in Lines
  BY <1>1, <1>4
<1>7. /\ l \in Lines /\ Half \in Lines /\ ~IsRow(Half)
      /\ IsRow(l) => IsRow(file[kept + 1]) /\ l.e = file[kept + 1].e
  <2>1. l \in Lines /\ l.kind = file[kept + 1].kind
    BY <1>3, <1>6, LineFacts
  <2>2. IsRow(l) => IsRow(file[kept + 1])
    BY <2>1 DEF IsRow
  <2>3. IsRow(file[kept + 1]) => l.e = file[kept + 1].e
    BY <1>3, <1>6, LineFacts
  <2>4. Half \in Lines /\ ~IsRow(Half)
    BY EventFacts DEF Half, IsRow
  <2> QED BY <2>1, <2>2, <2>3, <2>4
<1>8. file' = rest \/ file' = Append(rest, Half) \/ file' = Append(rest, l)
  BY <1>2, <1>3
<1>9. /\ file' \in Seq(Lines) /\ Len(file') <= Len(file)
      /\ \A i \in 1..Len(file') : IsRow(file'[i]) => IsRow(file[i]) /\ file'[i].e = file[i].e
  <2>1. CASE file' = rest
    BY <1>4, <1>5, <2>1
  <2>2. ASSUME NEW m \in Lines, file' = Append(rest, m),
               IsRow(m) => IsRow(file[kept + 1]) /\ m.e = file[kept + 1].e
        PROVE  /\ file' \in Seq(Lines) /\ Len(file') <= Len(file)
               /\ \A i \in 1..Len(file') : IsRow(file'[i]) => IsRow(file[i]) /\ file'[i].e = file[i].e
    <3>1. PICK g : g = Append(rest, m)
      OBVIOUS
    <3>2. g \in Seq(Lines) /\ Len(g) = kept + 1 /\ g[kept + 1] = m /\ \A i \in 1..kept : g[i] = file[i]
      BY <1>5, <3>1
    <3>3. \A i \in 1..Len(g) : i \in 1..kept \/ i = kept + 1
      BY <1>4, <3>2
    <3>4. \A i \in 1..Len(g) : IsRow(g[i]) => IsRow(file[i]) /\ g[i].e = file[i].e
      BY <2>2, <3>2, <3>3
    <3>5. file' = g
      BY <2>2, <3>1
    <3> QED BY <1>4, <3>2, <3>4, <3>5
  <2> QED BY <1>7, <1>8, <2>1, <2>2
<1> QED BY <1>1, <1>9, ForgetAccounts

(* Nothing was handed over yet.                                            *)
LEMMA InitAccounts ==
  ASSUME Init
  PROVE  AInv
<1>1. /\ file = <<>> /\ phase = "down" /\ job = NoJob /\ backlog = <<>> /\ queue = <<>>
      /\ stream = [s \in Streams |-> "new"]
  BY DEF Init
<1>2. Waiting = <<>>
  BY <1>1, EventFacts, NothingFacts, WaitSteps DEF Waiting
<1>3. PICK f, w : f = <<>> /\ w = <<>> /\ f \in Seq(Lines) /\ w \in Seq(Jobs) /\ Len(f) = 0 /\ Len(w) = 0
  BY NothingFacts
<1>4. InOrder(f, w)
  BY <1>3 DEF InOrder
<1>5. Said(f, w) = {}
  <2>1. SUFFICES ASSUME NEW x \in Said(f, w) PROVE FALSE
    OBVIOUS
  <2>2. \/ \E i \in 1..Len(f) : IsRow(f[i]) /\ f[i].e = x
        \/ \E k \in 1..Len(w) : w[k] = x
    BY ZenonT(40), <1>3, <2>1, SaidFacts
  <2> QED BY <1>3, <2>2
<1>6. OfTurns(Said(f, w), stream)
  BY <1>5 DEF OfTurns
<1>7. Quiet
  BY <1>1, EventFacts, <1>2 DEF Quiet
<1>8. Counted
  BY <1>1 DEF Counted
<1> QED BY <1>1, <1>2, <1>3, <1>4, <1>6, <1>7, <1>8 DEF AInv, Recorded

(* Nothing happens.                                                        *)
LEMMA StutterAccounts ==
  ASSUME AInv, UNCHANGED vars
  PROVE  AInv'
<1>1. UNCHANGED <<file, phase, job, backlog, queue, overflow, nextSeq, dropped, stream, base, handed>>
  BY DEF vars, fileVars, writerVars, channelVars, storeVars
<1>2. Waiting' = Waiting
  BY <1>1 DEF Waiting
<1>3. Counted' /\ Recorded(file', Waiting', stream')
  BY <1>1, <1>2 DEF AInv, Counted
<1>4. Quiet'
  BY <1>1, <1>2 DEF AInv, Quiet
<1> QED BY <1>3, <1>4 DEF AInv

(* Every step keeps the accounts.                                          *)
LEMMA StepAccounts ==
  ASSUME IInv, AInv, Next
  PROVE  AInv'
<1>1. IInv'
  BY StepKeeps
<1>2. CASE OpenStore
  BY <1>2, OpenStoreAccounts
<1>3. CASE OpenFails
  BY <1>3, OpenFailsAccounts
<1>4. CASE ProcessEnds
  BY <1>4, ProcessEndsAccounts
<1>5. CASE PowerLoss
  BY <1>5, PowerLossAccounts
<1>6. CASE \E s \in Streams : OpenStream(s) \/ CloseStream(s)
  BY <1>6, StreamAccounts
<1>7. CASE AskShutdown
  BY <1>7, AskShutdownAccounts
<1>8. CASE TakeJob
  BY <1>8, TakeJobAccounts
<1>9. CASE SwapOverflow
  BY <1>9, SwapOverflowAccounts
<1>10. CASE Resync
  BY <1>1, <1>10, ResyncAccounts
<1>11. CASE ResyncFails
  BY <1>11, ResyncFailsAccounts
<1>12. CASE WriteGap
  BY <1>1, <1>12, WriteGapAccounts
<1>13. CASE WriteRow
  BY <1>1, <1>13, WriteRowAccounts
<1>14. CASE WriteFails
  BY <1>14, WriteFailsAccounts
<1> QED BY <1>2, <1>3, <1>4, <1>5, <1>6, <1>7, <1>8, <1>9, <1>10, <1>11, <1>12,
     <1>13, <1>14 DEF Next, Writer

(* What the accounts say of the file and the counters.                     *)
LEMMA AccountsHold ==
  ASSUME IInv, AInv
  PROVE  RowsAreAccounted
<1>1. TypeOK /\ Counted /\ InOrder(file, Waiting)
  BY DEF IInv, AInv, Recorded
<1>2. /\ file \in Seq(Lines) /\ base \in 0..Len(file)
      /\ job \in Jobs \cup {NoJob} /\ backlog \in Seq(Jobs) /\ queue \in Seq(Jobs)
      /\ handed \in Nat /\ overflow \in Nat /\ dropped \in Nat
  BY <1>1, StateWaits
<1>3. Landed = LandedIn(file, base) /\ Told = ToldIn(file, base)
  BY DEF Landed, LandedIn, Told, ToldIn, ToldTo, Tells
<1>4. OnTheWay = Len(Waiting) + overflow + dropped
  <2>1. PICK x : x = IF job = NoJob THEN 0 ELSE 1
    OBVIOUS
  <2>2. Len(Waiting) = x + Len(backlog) + Len(queue) /\ Len(backlog) \in Nat /\ Len(queue) \in Nat
    BY ZenonT(40), <1>2, <2>1, WaitFacts DEF Waiting
  <2>3. OnTheWay = Len(queue) + Len(backlog) + x + overflow + dropped
    BY <2>1 DEF OnTheWay
  <2>4. x \in Nat
    BY <2>1
  <2> QED BY <1>2, <2>2, <2>3, <2>4
<1>5. NothingVanishes
  <2> SUFFICES ASSUME phase = "on" PROVE handed <= Landed + Told + OnTheWay
    BY DEF NothingVanishes
  <2>1. PICK x, m : x = (IF Doubled(file, nextSeq) THEN 1 ELSE 0) /\ m = OnTheWay
    OBVIOUS
  <2>2. handed + x <= LandedIn(file, base) + ToldIn(file, base) + m
    BY <1>1, <1>4, <2>1 DEF Counted, Balanced
  <2>3. LandedIn(file, base) \in Nat /\ ToldIn(file, base) \in Nat /\ x \in Nat
    BY <1>2, <2>1, SumFacts
  <2>4. m \in Nat
    BY <1>1, StateWaits, <1>2, <1>4, <2>1
  <2> QED BY <1>2, <1>3, <2>1, <2>2, <2>3, <2>4
<1>6. ClosedOnce
  BY <1>1 DEF ClosedOnce, InOrder, MayFollow
<1> QED BY <1>1, <1>5, <1>6 DEF RowsAreAccounted

(* The accounts are kept: what was handed over, and a row whose write was  *)
(* taken for lost, is in the file, in a gap row or waits; the rows and the *)
(* jobs that wait close each stream once, after it opened (receipt.rs:     *)
(* apply; store.rs: append, resync).                                       *)
THEOREM AccountInvariance == Spec => [](IInv /\ AInv)
<1>1. Init => IInv /\ AInv
  BY InitIInv, InitAccounts
<1>2. IInv /\ AInv /\ [Next]_vars => (IInv /\ AInv)'
  BY StepKeeps, StutterKeeps, StepAccounts, StutterAccounts
<1> QED BY <1>1, <1>2, PTL DEF Spec

(* No row that a turn hands to a living writer vanishes untold, and no     *)
(* stream is closed twice or opened after its close, whatever fails and    *)
(* restarts (receipt.rs: submit; store.rs: orphan_streams).                *)
THEOREM RowsAccounted == Spec => []RowsAreAccounted
<1>1. IInv /\ AInv => RowsAreAccounted
  BY AccountsHold
<1> QED BY AccountInvariance, <1>1, PTL

-----------------------------------------------------------------------------
(* The anchors.                                                            *)
(*                                                                         *)
(* Only the run that holds the lock writes, and it writes a line only to a *)
(* backend it has compared with under the lock, all of whose lines are     *)
(* shorter.  The file of the month a run settled on is the last with lines *)
(* as long as that run holds the lock, whatever month it has become.  A    *)
(* request that arrives late undoes all of it, hence "arrived".            *)

Line == Seq(Nat)
AnchFiles == [1..site.months -> Seq(Line)]
AnchRun(names, M) ==
    [at : {"idle", "preview", "sync"}, index : Line, left : SUBSET names,
     pending : SUBSET names, failed : BOOLEAN, alarm : BOOLEAN,
     path : 0..M, has : BOOLEAN, seen : Seq(Line), retried : BOOLEAN]
AnchTyped ==
    /\ site \in AnchorConfigs
    /\ chain \in Line /\ Len(chain) \in 1..site.rows
    /\ writing \in Nat /\ month \in 1..site.months
    /\ local \in [lines : Seq(Line), torn : BOOLEAN]
    /\ remote \in AnchFiles
    /\ late \subseteq [path : 1..site.months, seen : Seq(Line), line : Line]
    /\ run \in [AnchorRuns -> AnchRun(site.backends, site.months)]
    /\ ledgerLock \in AnchorRuns \cup {"none"}
    /\ count \in [runs : Nat, faults : Nat, arrived : Nat]

(* Who works under the lock holds it.                                      *)
AnchOwner == \A r \in AnchorRuns : run[r].at = "sync" <=> ledgerLock = r

NothingAfter(F, M, p) == \A m \in 1..M : m > p => F[m] = <<>>

Punctual == count.arrived = 0

(* No file goes backwards, and those of the months to come are empty.      *)
Orderly ==
    /\ ~Backwards(<<local.lines>>) /\ ~Backwards(remote)
    /\ NothingAfter(remote, site.months, month)

(* Of a backend a run under the lock is done comparing with: it is to get  *)
(* the head, which is longer than all it has, or has it already.           *)
ComparedWith(q, b, files) ==
    /\ b \in q.pending => NeedsPublish(files, q.index)
    /\ ~q.failed =>
          /\ ~Disagrees(files, q.index)
          /\ b \in q.pending \/ \E line \in LinesOf(files) : Len(line) >= Len(q.index)
Compared(q, names, own, files) ==
    q.at = "sync" /\ ~q.alarm =>
        /\ q.pending \cap q.left = {}
        /\ \A b \in names \ q.left : ComparedWith(q, b, IF b = "local" THEN own ELSE files)

(* The file of the month it settled on.                                    *)
SettledOn(q, now) ==
    /\ q.path # 0 => q.at = "sync" /\ q.path <= now
    /\ q.has => q.path # 0
LastUsed(q, files, M) == q.path # 0 => NothingAfter(files, M, q.path)

(* What a run may be, given the two histories and the month.               *)
AnchFits(q, names, own, files, M, now, prompt) ==
    /\ q \in AnchRun(names, M)
    /\ SettledOn(q, now)
    /\ prompt => Compared(q, names, own, files) /\ LastUsed(q, files, M)

AnchInv ==
    /\ AnchTyped /\ AnchOwner
    /\ \A r \in AnchorRuns :
          AnchFits(run[r], site.backends, <<local.lines>>, remote, site.months, month, Punctual)
    /\ Punctual => Orderly

-----------------------------------------------------------------------------
(* A line more in a file.                                                  *)

AnchGrown(F, p, x) == [F EXCEPT ![p] = Append(F[p], x)]

(* The length of a line is a number.                                       *)
LEMMA LineLength == ASSUME NEW x \in Line PROVE Len(x) \in Nat
  BY DEF Line

AnchComesFrom(F, G, p, x, M) ==
  \A k \in 1..M : \A l \in DOMAIN G[k] :
     \/ l \in DOMAIN F[k] /\ G[k][l] = F[k][l]
     \/ k = p /\ l = Len(F[p]) + 1 /\ G[k][l] = x

(* Where a line of the file after the append comes from (append_text).     *)
LEMMA AnchOrigins ==
  ASSUME NEW M \in Nat, NEW F \in [1..M -> Seq(Line)], NEW p \in 1..M, NEW x \in Line
  PROVE  AnchComesFrom(F, AnchGrown(F, p, x), p, x, M)
<1> SUFFICES ASSUME NEW k \in 1..M, NEW l \in DOMAIN AnchGrown(F, p, x)[k]
             PROVE  \/ l \in DOMAIN F[k] /\ AnchGrown(F, p, x)[k][l] = F[k][l]
                    \/ k = p /\ l = Len(F[p]) + 1 /\ AnchGrown(F, p, x)[k][l] = x
  BY DEF AnchComesFrom
<1>1. CASE k = p
  <2>1. F[p] \in Seq(Line)
    OBVIOUS
  <2>2. AnchGrown(F, p, x)[k] = Append(F[p], x)
    BY <1>1 DEF AnchGrown
  <2>3. l \in 1..(Len(F[p]) + 1)
    BY <2>1, <2>2
  <2> QED BY <1>1, <2>1, <2>2, <2>3
<1>2. CASE k # p
  BY <1>2 DEF AnchGrown
<1> QED BY <1>1, <1>2

(* The lines of the files are those before and the one appended.           *)
LEMMA AnchLines ==
  ASSUME NEW M \in Nat, NEW F \in [1..M -> Seq(Line)], NEW p \in 1..M, NEW x \in Line
  PROVE  /\ AnchGrown(F, p, x) \in [1..M -> Seq(Line)]
         /\ LinesOf(AnchGrown(F, p, x)) = LinesOf(F) \cup {x}
<1> DEFINE G == AnchGrown(F, p, x)
<1>1. F[p] \in Seq(Line) /\ Append(F[p], x) \in Seq(Line)
  OBVIOUS
<1>2. G \in [1..M -> Seq(Line)]
  BY <1>1 DEF AnchGrown
<1>3. LinesOf(G) \subseteq LinesOf(F) \cup {x}
  <2> SUFFICES ASSUME NEW m \in 1..M, NEW i \in DOMAIN G[m]
               PROVE  G[m][i] \in LinesOf(F) \cup {x}
    BY <1>2 DEF LinesOf, ToSet
  <2>3. \/ i \in DOMAIN F[m] /\ G[m][i] = F[m][i]
        \/ G[m][i] = x
    <3>1. AnchComesFrom(F, G, p, x, M)
      BY AnchOrigins
    <3> QED BY <3>1 DEF AnchComesFrom
  <2>1. CASE i \in DOMAIN F[m] /\ G[m][i] = F[m][i]
    BY <2>1 DEF LinesOf, ToSet
  <2>2. CASE G[m][i] = x
    BY <2>2
  <2> QED BY <2>1, <2>2, <2>3
<1>4. LinesOf(F) \subseteq LinesOf(G)
  <2> SUFFICES ASSUME NEW m \in 1..M, NEW i \in DOMAIN F[m]
               PROVE  F[m][i] \in LinesOf(G)
    <3> HIDE DEF G
    <3> QED BY DEF LinesOf, ToSet
  <2>1. i \in DOMAIN G[m] /\ G[m][i] = F[m][i]
    BY <1>1 DEF AnchGrown
  <2>2. m \in DOMAIN G
    BY <1>2
  <2> HIDE DEF G
  <2>3. F[m][i] \in ToSet(G[m])
    BY <2>1 DEF ToSet
  <2> QED BY <2>2, <2>3 DEF LinesOf
<1>5. x \in LinesOf(G)
  <2>1. /\ Len(F[p]) + 1 \in DOMAIN G[p]
        /\ G[p][Len(F[p]) + 1] = x
    BY <1>1 DEF AnchGrown
  <2>2. p \in DOMAIN G
    BY <1>2
  <2> HIDE DEF G
  <2>3. x \in ToSet(G[p])
    BY <2>1 DEF ToSet
  <2> QED BY <2>2, <2>3 DEF LinesOf
<1> QED BY <1>2, <1>3, <1>4, <1>5

(* No line is lost.                                                        *)
LEMMA AnchLinesStay ==
  ASSUME NEW M \in Nat, NEW F \in [1..M -> Seq(Line)], NEW p \in 1..M, NEW x \in Line
  PROVE  LinesOf(F) \subseteq LinesOf(AnchGrown(F, p, x))
  BY AnchLines

(* A line longer than all, in the last file with lines, is not backwards.  *)
LEMMA AnchAscends ==
  ASSUME NEW M \in Nat, NEW F \in [1..M -> Seq(Line)], NEW p \in 1..M, NEW x \in Line,
         ~Backwards(F), NeedsPublish(F, x), NothingAfter(F, M, p)
  PROVE  ~Backwards(AnchGrown(F, p, x))
<1> DEFINE G == AnchGrown(F, p, x)
<1>1. G \in [1..M -> Seq(Line)]
  BY AnchLines
<1>10. AnchComesFrom(F, G, p, x, M)
  BY AnchOrigins
<1>9. \A k \in 1..M : \A l \in DOMAIN G[k] :
        \/ l \in DOMAIN F[k] /\ G[k][l] = F[k][l]
        \/ k = p /\ l = Len(F[p]) + 1 /\ G[k][l] = x
  BY <1>10 DEF AnchComesFrom
<1> SUFFICES ASSUME NEW m \in 1..M, NEW n \in 1..M, NEW i \in DOMAIN G[m], NEW j \in DOMAIN G[n],
                    m < n \/ (m = n /\ i < j), Len(G[n][j]) < Len(G[m][i])
             PROVE  FALSE
  BY <1>1 DEF Backwards
<1>2. \A k \in 1..M : \A l \in DOMAIN F[k] :
        F[k][l] \in Line /\ Len(F[k][l]) \in Nat /\ Len(F[k][l]) < Len(x)
  <2> SUFFICES ASSUME NEW k \in 1..M, NEW l \in DOMAIN F[k]
               PROVE  F[k][l] \in Line /\ Len(F[k][l]) \in Nat /\ Len(F[k][l]) < Len(x)
    OBVIOUS
  <2>1. F[k] \in Seq(Line)
    OBVIOUS
  <2>2. F[k][l] \in Line
    BY <2>1
  <2>3. F[k][l] \in LinesOf(F)
    BY DEF LinesOf, ToSet
  <2> QED BY <2>2, <2>3, LineLength DEF NeedsPublish
<1>3. Len(x) \in Nat
  BY LineLength
<1>4. \/ i \in DOMAIN F[m] /\ G[m][i] = F[m][i]
      \/ m = p /\ i = Len(F[p]) + 1 /\ G[m][i] = x
  BY <1>9
<1>5. \/ j \in DOMAIN F[n] /\ G[n][j] = F[n][j]
      \/ n = p /\ j = Len(F[p]) + 1 /\ G[n][j] = x
  BY <1>9
<1>6. F[p] \in Seq(Line) /\ DOMAIN F[p] = 1..Len(F[p]) /\ Len(F[p]) \in Nat
  OBVIOUS
<1> HIDE DEF G
<1>7. CASE j \in DOMAIN F[n] /\ G[n][j] = F[n][j]
  <2>1. CASE i \in DOMAIN F[m] /\ G[m][i] = F[m][i]
    BY <1>7, <2>1 DEF Backwards
  <2>2. CASE m = p /\ i = Len(F[p]) + 1
    <3>1. CASE n = p
      BY <1>6, <1>7, <2>2, <3>1
    <3>2. CASE n # p
      BY <2>2, <3>2, <1>7 DEF NothingAfter
    <3> QED BY <3>1, <3>2
  <2> QED BY <1>4, <2>1, <2>2
<1>8. CASE G[n][j] = x
  <2>1. CASE i \in DOMAIN F[m] /\ G[m][i] = F[m][i]
    BY <1>2, <1>8, <2>1, <1>3
  <2>2. CASE G[m][i] = x
    BY <1>3, <1>8, <2>2
  <2> QED BY <1>4, <2>1, <2>2
<1> QED BY <1>5, <1>7, <1>8

(* A line is on the chain up to its own row.                               *)
LEMMA OwnPrefix == ASSUME NEW x \in Line PROVE IsPrefix(x, x)
  BY DEF IsPrefix, Line

(* Once the head is written, the backend has it and stays on the chain.    *)
LEMMA AnchComparedAfter ==
  ASSUME NEW M \in Nat, NEW F \in [1..M -> Seq(Line)], NEW p \in 1..M, NEW x \in Line
  PROVE  /\ ~Disagrees(F, x) => ~Disagrees(AnchGrown(F, p, x), x)
         /\ \E line \in LinesOf(AnchGrown(F, p, x)) : Len(line) >= Len(x)
<1>1. LinesOf(AnchGrown(F, p, x)) = LinesOf(F) \cup {x}
  BY AnchLines
<1>2. Len(x) >= Len(x)
  BY LineLength
<1> QED BY <1>1, <1>2, OwnPrefix DEF Disagrees

-----------------------------------------------------------------------------
(* A run takes a step and writes no line.                                  *)

(* One run moves on, the files stay.                                       *)
LEMMA AnchRunSteps ==
  ASSUME AnchInv, NEW r \in AnchorRuns, NEW q,
         AnchFits(q, site.backends, <<local.lines>>, remote, site.months, month, Punctual),
         run' = [run EXCEPT ![r] = q],
         UNCHANGED <<site, chain, writing, month, remote>>,
         local' \in [lines : Seq(Line), torn : BOOLEAN], local'.lines = local.lines,
         late' \subseteq [path : 1..site.months, seen : Seq(Line), line : Line],
         count' \in [runs : Nat, faults : Nat, arrived : Nat], count'.arrived = count.arrived,
         ledgerLock' \in AnchorRuns \cup {"none"},
         q.at = "sync" <=> ledgerLock' = r,
         \A s \in AnchorRuns \ {r} : ledgerLock' = s <=> ledgerLock = s
  PROVE  AnchInv'
<1>1. AnchTyped
  BY DEF AnchInv
<1>2. q \in AnchRun(site.backends, site.months)
  BY DEF AnchFits
<1>3. run \in [AnchorRuns -> AnchRun(site.backends, site.months)]
  BY <1>1 DEF AnchTyped
<1>4. run'[r] = q /\ \A s \in AnchorRuns \ {r} : run'[s] = run[s]
  BY <1>3
<1>5. AnchTyped'
  BY <1>2, <1>3, <1>1 DEF AnchTyped, AnchFiles
<1>6. AnchOwner'
  <2> SUFFICES ASSUME NEW s \in AnchorRuns
               PROVE  run'[s].at = "sync" <=> ledgerLock' = s
    BY DEF AnchOwner
  <2> QED BY <1>4 DEF AnchInv, AnchOwner
<1>7. Punctual' <=> Punctual
  BY DEF Punctual
<1>8. \A s \in AnchorRuns :
        AnchFits(run'[s], site.backends, <<local.lines>>, remote, site.months, month, Punctual)
  BY <1>4 DEF AnchInv
<1>9. Punctual' => Orderly'
  BY <1>7 DEF AnchInv, Orderly
<1>10. \A s \in AnchorRuns :
        AnchFits(run'[s], site'.backends, <<local'.lines>>, remote', site'.months, month', Punctual')
  BY <1>7, <1>8
<1> QED BY <1>5, <1>6, <1>9, <1>10 DEF AnchInv

(* Every line of the files is one.                                         *)
LEMMA LinesAre ==
  ASSUME NEW M \in Nat, NEW F \in [1..M -> Seq(Line)], NEW x \in LinesOf(F)
  PROVE  x \in Line /\ Len(x) \in Nat
<1>0. PICK m \in 1..M : x \in ToSet(F[m])
  BY DEF LinesOf
<1>1. PICK i \in DOMAIN F[m] : x = F[m][i]
  BY <1>0 DEF ToSet
<1>2. F[m] \in Seq(Line)
  OBVIOUS
<1>3. x \in Line
  BY <1>1, <1>2
<1> QED BY <1>3, LineLength

(* The outcome of judge: an alarm, a head to write, or nothing to do.      *)
LEMMA AnchJudged ==
  ASSUME NEW M \in Nat, NEW F \in [1..M -> Seq(Line)], NEW x \in Line,
         ~Disagrees(F, x), ~NeedsPublish(F, x)
  PROVE  \E line \in LinesOf(F) : Len(line) >= Len(x)
<1>1. PICK line \in LinesOf(F) : ~(Len(line) < Len(x))
  BY DEF NeedsPublish
<1>2. Len(line) \in Nat /\ Len(x) \in Nat
  BY LinesAre, LineLength
<1>3. Len(line) >= Len(x)
  BY <1>1, <1>2
<1> QED BY <1>3

(* The two histories, as files.                                            *)
LEMMA AnchHistories ==
  ASSUME AnchTyped
  PROVE  /\ site.months \in Nat /\ <<local.lines>> \in [1..1 -> Seq(Line)]
         /\ remote \in [1..site.months -> Seq(Line)]
         /\ <<local.lines>>[1] = local.lines /\ local.lines \in Seq(Line)
<1>1. site.months \in Nat
  BY AnchorsAssumption DEF AnchTyped
<1>2. local.lines \in Seq(Line)
  BY DEF AnchTyped
<1> QED BY <1>1, <1>2 DEF AnchTyped, AnchFiles

AnchAssessOut(t, q, b, a, todo) ==
    /\ t.at = q.at /\ t.index = q.index /\ t.failed = q.failed /\ t.path = q.path
    /\ t.has = q.has /\ t.left = q.left \ {b}
    /\ t.pending = IF ~a /\ todo THEN q.pending \cup {b} ELSE q.pending
    /\ t.alarm = (q.alarm \/ a)

(* assess of one backend keeps what a run is.                              *)
LEMMA AnchAssessed ==
  ASSUME NEW names, NEW own, NEW files, NEW M \in Nat, NEW now, NEW prompt \in BOOLEAN,
         NEW q, AnchFits(q, names, own, files, M, now, prompt),
         NEW b \in q.left, NEW F, F = IF b = "local" THEN own ELSE files,
         NEW N \in Nat, F \in [1..N -> Seq(Line)],
         NEW a \in BOOLEAN, NEW todo \in BOOLEAN,
         ~a => ~Disagrees(F, q.index) /\ (todo <=> NeedsPublish(F, q.index)),
         NEW t \in AnchRun(names, M), AnchAssessOut(t, q, b, a, todo)
  PROVE  AnchFits(t, names, own, files, M, now, prompt)
<1>5. /\ t.at = q.at /\ t.index = q.index /\ t.failed = q.failed /\ t.path = q.path
      /\ t.has = q.has /\ t.left = q.left \ {b}
      /\ t.pending = IF ~a /\ todo THEN q.pending \cup {b} ELSE q.pending
      /\ t.alarm = (q.alarm \/ a)
  BY DEF AnchAssessOut
<1>1. SettledOn(t, now)
  BY <1>5 DEF AnchFits, SettledOn
<1>2. ASSUME prompt PROVE LastUsed(t, files, M)
  BY <1>2, <1>5 DEF AnchFits, LastUsed
<1>3. q.index \in Line /\ t.index \in Line
  BY <1>5 DEF AnchFits, AnchRun
<1>4. ASSUME prompt, t.at = "sync", ~t.alarm
      PROVE  /\ t.pending \cap t.left = {}
             /\ \A c \in names \ t.left : ComparedWith(t, c, IF c = "local" THEN own ELSE files)
  <2>1. /\ q.at = "sync" /\ ~q.alarm /\ ~a
        /\ Compared(q, names, own, files)
    BY <1>4, <1>5 DEF AnchFits, AnchRun
  <2>2. /\ q.pending \cap q.left = {}
        /\ \A c \in names \ q.left : ComparedWith(q, c, IF c = "local" THEN own ELSE files)
    BY <2>1 DEF Compared
  <2>3. t.pending \cap t.left = {}
    BY <1>5, <2>1, <2>2
  <2>4. ASSUME NEW c \in names \ t.left
        PROVE  ComparedWith(t, c, IF c = "local" THEN own ELSE files)
    <3>1. CASE c # b
      BY <1>5, <3>1, <2>4, <2>2 DEF ComparedWith
    <3>2. CASE c = b
      <4>1. ~Disagrees(F, t.index) /\ (todo <=> NeedsPublish(F, t.index))
        BY <1>5, <2>1
      <4>2. b \in t.pending <=> todo
        BY <1>5, <2>1, <2>2
      <4>3. ~todo => \E line \in LinesOf(F) : Len(line) >= Len(t.index)
        BY <4>1, <1>3, AnchJudged
      <4>4. ComparedWith(t, b, F)
        BY <1>5, <4>1, <4>2, <4>3 DEF ComparedWith
      <4> QED BY <3>2, <4>4
    <3> QED BY <3>1, <3>2
  <2> QED BY <2>3, <2>4
<1> QED BY <1>1, <1>2, <1>4 DEF AnchFits, Compared

(* What the invariant says of a run.                                       *)
LEMMA AnchRunIs ==
  ASSUME AnchInv, NEW r \in AnchorRuns
  PROVE  /\ run[r] \in AnchRun(site.backends, site.months)
         /\ AnchFits(run[r], site.backends, <<local.lines>>, remote, site.months, month, Punctual)
         /\ run[r].at = "sync" <=> ledgerLock = r
         /\ site.months \in Nat
         /\ Punctual \in BOOLEAN
<1>1. AnchFits(run[r], site.backends, <<local.lines>>, remote, site.months, month, Punctual)
  BY DEF AnchInv
<1>2. site.months \in Nat
  BY AnchHistories DEF AnchInv
<1> QED BY <1>1, <1>2 DEF AnchInv, AnchFits, AnchOwner, Punctual

(* The record after assess, field by field.                                *)
LEMMA AnchAssessRecord ==
  ASSUME NEW names, NEW M, NEW q \in AnchRun(names, M), NEW b \in q.left,
         NEW a \in BOOLEAN, NEW todo \in BOOLEAN, NEW t,
         t = [(IF a THEN [q EXCEPT !.alarm = TRUE]
               ELSE IF todo THEN [q EXCEPT !.pending = @ \cup {b}] ELSE q)
              EXCEPT !.left = @ \ {b}]
  PROVE  t \in AnchRun(names, M) /\ AnchAssessOut(t, q, b, a, todo)
<1>1. /\ q.left \in SUBSET names /\ q.pending \in SUBSET names /\ q.alarm \in BOOLEAN
      /\ b \in names
  BY DEF AnchRun
<1>2. PICK u : u = IF a THEN [q EXCEPT !.alarm = TRUE]
                   ELSE IF todo THEN [q EXCEPT !.pending = @ \cup {b}] ELSE q
  OBVIOUS
<1>3. t = [u EXCEPT !.left = @ \ {b}]
  BY <1>2
<1>4. /\ u \in AnchRun(names, M)
      /\ u.at = q.at /\ u.index = q.index /\ u.failed = q.failed /\ u.path = q.path
      /\ u.has = q.has /\ u.left = q.left
      /\ u.pending = IF ~a /\ todo THEN q.pending \cup {b} ELSE q.pending
      /\ u.alarm = (q.alarm \/ a)
  <2>1. CASE a
    BY <1>2, <2>1, <1>1 DEF AnchRun
  <2>2. CASE ~a /\ todo
    <3>1. PICK w \in SUBSET names : w = q.pending \cup {b}
      BY <1>1
    <3>2. u = [q EXCEPT !.pending = w]
      BY <1>2, <2>2, <3>1
    <3> QED BY <1>1, <2>2, <3>1, <3>2 DEF AnchRun
  <2>3. CASE ~a /\ ~todo
    BY <1>2, <2>3, <1>1
  <2> QED BY <2>1, <2>2, <2>3
<1>5. PICK w \in SUBSET names : w = q.left \ {b}
  BY <1>1
<1>6. t = [u EXCEPT !.left = w]
  BY <1>3, <1>4, <1>5
<1>7. /\ t \in AnchRun(names, M)
      /\ t.at = u.at /\ t.index = u.index /\ t.failed = u.failed /\ t.path = u.path
      /\ t.has = u.has /\ t.left = w /\ t.pending = u.pending /\ t.alarm = u.alarm
  BY <1>4, <1>6 DEF AnchRun
<1> QED BY <1>4, <1>5, <1>7 DEF AnchAssessOut

(* assess.                                                                 *)
LEMMA AnchAssess ==
  ASSUME AnchInv, NEW r \in AnchorRuns, NEW b \in site.backends, Assess(r, b)
  PROVE  AnchInv'
<1> DEFINE q == run[r]
<1> DEFINE F == Files(b)
<1> DEFINE a == Backwards(F) \/ Disagrees(F, q.index)
<1> DEFINE todo == NeedsPublish(F, q.index)
<1> DEFINE t == [(IF a THEN [q EXCEPT !.alarm = TRUE]
                  ELSE IF todo THEN [q EXCEPT !.pending = @ \cup {b}] ELSE q)
                 EXCEPT !.left = @ \ {b}]
<1>1. /\ q \in AnchRun(site.backends, site.months)
      /\ AnchFits(q, site.backends, <<local.lines>>, remote, site.months, month, Punctual)
      /\ q.at = "sync" <=> ledgerLock = r
      /\ site.months \in Nat
      /\ Punctual \in BOOLEAN
  BY AnchRunIs
<1>2. /\ b \in q.left /\ run' = [run EXCEPT ![r] = t]
      /\ UNCHANGED <<local, remote, late, ledgerLock, count>>
      /\ UNCHANGED <<site, chain, writing, month>>
  BY DEF Assess, Puts, worldRest
<1>3. F = IF b = "local" THEN <<local.lines>> ELSE remote
  BY DEF Files
<1>4. PICK N \in Nat : F \in [1..N -> Seq(Line)]
  BY <1>3, AnchHistories DEF AnchInv
<1>5. a \in BOOLEAN /\ todo \in BOOLEAN
  BY DEF NeedsPublish, Backwards, Disagrees
<1>6. AnchTyped
  BY DEF AnchInv
<1> HIDE DEF q, F
<1>7. PICK wrong \in BOOLEAN : wrong = a
  BY <1>5
<1>8. PICK due \in BOOLEAN : due = todo
  BY <1>5
<1>9. ~wrong => ~Disagrees(F, q.index) /\ (due <=> NeedsPublish(F, q.index))
  BY <1>7, <1>8
<1>10. PICK s : s = t
  OBVIOUS
<1>11. s = [(IF wrong THEN [q EXCEPT !.alarm = TRUE]
             ELSE IF due THEN [q EXCEPT !.pending = @ \cup {b}] ELSE q)
            EXCEPT !.left = @ \ {b}]
  BY <1>7, <1>8, <1>10
<1>12. run' = [run EXCEPT ![r] = s]
  BY <1>2, <1>10
<1> HIDE DEF a, todo, t
<1>13. s \in AnchRun(site.backends, site.months) /\ AnchAssessOut(s, q, b, wrong, due)
  BY <1>1, <1>2, <1>11, AnchAssessRecord
<1>15. AnchFits(s, site.backends, <<local.lines>>, remote, site.months, month, Punctual)
  BY ZenonT(40), <1>1, <1>2, <1>3, <1>4, <1>9, <1>13, AnchAssessed
<1>16. /\ local' \in [lines : Seq(Line), torn : BOOLEAN] /\ local'.lines = local.lines
       /\ late' \subseteq [path : 1..site.months, seen : Seq(Line), line : Line]
       /\ count' \in [runs : Nat, faults : Nat, arrived : Nat] /\ count'.arrived = count.arrived
       /\ ledgerLock' \in AnchorRuns \cup {"none"}
       /\ \A p \in AnchorRuns \ {r} : ledgerLock' = p <=> ledgerLock = p
  BY <1>2, <1>6 DEF AnchTyped
<1>17. s.at = "sync" <=> ledgerLock' = r
  BY <1>1, <1>2, <1>13 DEF AnchAssessOut
<1> QED BY <1>2, <1>12, <1>15, <1>16, <1>17, AnchRunSteps

(* A fault is counted, and nothing that arrived.                           *)
LEMMA AnchFault ==
  ASSUME AnchTyped, SiteFault
  PROVE  count' \in [runs : Nat, faults : Nat, arrived : Nat] /\ count'.arrived = count.arrived
  BY DEF AnchTyped, SiteFault

(* assess fails: what it would have found is not known.                    *)
LEMMA AnchAssessFails ==
  ASSUME AnchInv, NEW r \in AnchorRuns, NEW b \in site.backends, AssessFails(r, b)
  PROVE  AnchInv'
<1> DEFINE q == run[r]
<1>1. /\ q \in AnchRun(site.backends, site.months)
      /\ AnchFits(q, site.backends, <<local.lines>>, remote, site.months, month, Punctual)
      /\ q.at = "sync" <=> ledgerLock = r
  BY AnchRunIs
<1>2. AnchTyped
  BY DEF AnchInv
<1>3. PICK s : s = [q EXCEPT !.left = @ \ {b}, !.failed = TRUE]
  OBVIOUS
<1>4. /\ b \in q.left /\ run' = [run EXCEPT ![r] = s]
      /\ UNCHANGED <<local, remote, late, ledgerLock>>
      /\ UNCHANGED <<site, chain, writing, month>>
      /\ SiteFault \/ UNCHANGED count
  BY <1>3 DEF AssessFails, Puts, worldRest
<1> HIDE DEF q
<1>5. /\ s \in AnchRun(site.backends, site.months)
      /\ s.at = q.at /\ s.path = q.path /\ s.has = q.has /\ s.left = q.left \ {b}
      /\ s.pending = q.pending /\ s.alarm = q.alarm /\ s.failed
  BY <1>1, <1>3 DEF AnchRun
<1>6. AnchFits(s, site.backends, <<local.lines>>, remote, site.months, month, Punctual)
  <2>1. SettledOn(s, month) /\ (Punctual => LastUsed(s, remote, site.months))
    BY <1>1, <1>5 DEF AnchFits, SettledOn, LastUsed
  <2>2. ASSUME Punctual, s.at = "sync", ~s.alarm
        PROVE  /\ s.pending \cap s.left = {}
               /\ \A c \in site.backends \ s.left :
                    ComparedWith(s, c, IF c = "local" THEN <<local.lines>> ELSE remote)
    <3>1. Compared(q, site.backends, <<local.lines>>, remote)
      BY <1>1, <2>2 DEF AnchFits
    <3>2. /\ q.pending \cap q.left = {}
          /\ \A c \in site.backends \ q.left :
               ComparedWith(q, c, IF c = "local" THEN <<local.lines>> ELSE remote)
      BY <1>5, <2>2, <3>1 DEF Compared
    <3>3. s.pending \cap s.left = {}
      BY <1>5, <3>2
    <3>4. ASSUME NEW c \in site.backends \ s.left
          PROVE  ComparedWith(s, c, IF c = "local" THEN <<local.lines>> ELSE remote)
      <4>1. CASE c = b
        BY <1>4, <1>5, <3>2, <4>1 DEF ComparedWith
      <4>2. CASE c # b
        BY <1>5, <4>2, <3>2, <1>1, <1>3 DEF AnchRun, ComparedWith
      <4> QED BY <4>1, <4>2
    <3> QED BY <3>3, <3>4
  <2> QED BY <1>5, <2>1, <2>2 DEF AnchFits, Compared
<1>7. /\ local' \in [lines : Seq(Line), torn : BOOLEAN] /\ local'.lines = local.lines
      /\ late' \subseteq [path : 1..site.months, seen : Seq(Line), line : Line]
      /\ ledgerLock' \in AnchorRuns \cup {"none"}
      /\ \A p \in AnchorRuns \ {r} : ledgerLock' = p <=> ledgerLock = p
  BY <1>2, <1>4 DEF AnchTyped
<1>8. count' \in [runs : Nat, faults : Nat, arrived : Nat] /\ count'.arrived = count.arrived
  BY <1>2, AnchFault, <1>4 DEF AnchTyped
<1>9. s.at = "sync" <=> ledgerLock' = r
  BY <1>1, <1>4, <1>5
<1> QED BY <1>4, <1>6, <1>7, <1>8, <1>9, AnchRunSteps

AnchFewer(s, q) ==
    \/ s.pending = q.pending /\ s.failed = q.failed
    \/ s.failed /\ s.pending \subseteq q.pending

(* A run that compares with less to write, or that has failed.             *)
LEMMA AnchLike ==
  ASSUME NEW names, NEW own, NEW files, NEW M, NEW now, NEW prompt \in BOOLEAN,
         NEW q, AnchFits(q, names, own, files, M, now, prompt),
         NEW s \in AnchRun(names, M),
         s.at = q.at, s.index = q.index, s.left = q.left, s.alarm = q.alarm,
         AnchFewer(s, q),
         SettledOn(s, now), prompt => LastUsed(s, files, M)
  PROVE  AnchFits(s, names, own, files, M, now, prompt)
<1>1. ASSUME prompt, s.at = "sync", ~s.alarm
      PROVE  /\ s.pending \cap s.left = {}
             /\ \A c \in names \ s.left : ComparedWith(s, c, IF c = "local" THEN own ELSE files)
  <2>1. Compared(q, names, own, files)
    BY <1>1 DEF AnchFits
  <2>2. /\ q.pending \cap q.left = {}
        /\ \A c \in names \ q.left : ComparedWith(q, c, IF c = "local" THEN own ELSE files)
    BY <1>1, <2>1 DEF Compared
  <2>3. s.pending \cap s.left = {}
    BY <2>2 DEF AnchFewer
  <2>4. ASSUME NEW c \in names \ s.left
        PROVE  ComparedWith(s, c, IF c = "local" THEN own ELSE files)
    BY <2>2 DEF AnchFewer, ComparedWith
  <2> QED BY <2>3, <2>4
<1> QED BY <1>1 DEF AnchFits, Compared

AnchStart(s, step, x, names) ==
    s = [NotRunning EXCEPT !.at = step, !.index = x, !.left = names]

(* A run that begins, or begins again under the lock, with all to compare. *)
LEMMA AnchFresh ==
  ASSUME NEW names, NEW own, NEW files, NEW M \in Nat, NEW now, NEW prompt \in BOOLEAN,
         NEW step \in {"preview", "sync"}, NEW x \in Line, NEW s,
         AnchStart(s, step, x, names)
  PROVE  s.at = step /\ AnchFits(s, names, own, files, M, now, prompt)
<1>4. s = [at |-> step, index |-> x, left |-> names, pending |-> {}, failed |-> FALSE,
           alarm |-> FALSE, path |-> 0, has |-> FALSE, seen |-> <<>>, retried |-> FALSE]
  BY DEF AnchStart, NotRunning
<1>5. names \in SUBSET names /\ {} \in SUBSET names /\ <<>> \in Seq(Line) /\ 0 \in 0..M
  OBVIOUS
<1>1. /\ s \in AnchRun(names, M)
      /\ s.at = step /\ s.left = names /\ s.pending = {} /\ s.path = 0 /\ s.has = FALSE
  BY <1>4, <1>5 DEF AnchRun
<1>2. Compared(s, names, own, files)
  BY <1>1 DEF Compared
<1>3. SettledOn(s, now) /\ LastUsed(s, files, M)
  BY <1>1 DEF SettledOn, LastUsed
<1> QED BY <1>1, <1>2, <1>3 DEF AnchFits

(* A run that is over.                                                     *)
LEMMA AnchOver ==
  ASSUME NEW names, NEW own, NEW files, NEW M \in Nat, NEW now, NEW prompt \in BOOLEAN
  PROVE  NotRunning.at = "idle" /\ AnchFits(NotRunning, names, own, files, M, now, prompt)
<1>1. /\ NotRunning \in AnchRun(names, M)
      /\ NotRunning.at = "idle" /\ NotRunning.path = 0 /\ NotRunning.has = FALSE
  BY DEF NotRunning, AnchRun, Line
<1>2. Compared(NotRunning, names, own, files)
  BY <1>1 DEF Compared
<1>3. SettledOn(NotRunning, now) /\ LastUsed(NotRunning, files, M)
  BY <1>1 DEF SettledOn, LastUsed
<1> QED BY <1>1, <1>2, <1>3 DEF AnchFits

(* One run moves on, and nothing of the files and requests changes.        *)
LEMMA AnchRunOnly ==
  ASSUME AnchInv, NEW r \in AnchorRuns, NEW q,
         AnchFits(q, site.backends, <<local.lines>>, remote, site.months, month, Punctual),
         run' = [run EXCEPT ![r] = q],
         UNCHANGED <<site, chain, writing, month, local, remote, late>>,
         count' \in [runs : Nat, faults : Nat, arrived : Nat], count'.arrived = count.arrived,
         ledgerLock' \in AnchorRuns \cup {"none"},
         q.at = "sync" <=> ledgerLock' = r,
         \A s \in AnchorRuns \ {r} : ledgerLock' = s <=> ledgerLock = s
  PROVE  AnchInv'
<1>1. /\ local' \in [lines : Seq(Line), torn : BOOLEAN] /\ local'.lines = local.lines
      /\ late' \subseteq [path : 1..site.months, seen : Seq(Line), line : Line]
  BY DEF AnchInv, AnchTyped
<1> QED BY <1>1, AnchRunSteps

(* anchor reads the receipts.                                              *)
LEMMA AnchReads ==
  ASSUME AnchInv, NEW r \in AnchorRuns, ReadsReceipt(r)
  PROVE  AnchInv'
<1>1. PICK s : AnchStart(s, "preview", chain, site.backends)
  BY DEF AnchStart
<1>2. /\ run' = [run EXCEPT ![r] = s] /\ run[r].at = "idle"
      /\ UNCHANGED <<site, chain, writing, month, local, remote, late>>
      /\ ledgerLock' = ledgerLock /\ count' = [count EXCEPT !.runs = @ + 1]
  BY <1>1 DEF AnchStart, ReadsReceipt, Puts, worldRest
<1>3. AnchTyped
  BY DEF AnchInv
<1>4. count' \in [runs : Nat, faults : Nat, arrived : Nat] /\ count'.arrived = count.arrived
  BY <1>2, <1>3 DEF AnchTyped
<1>5. ledgerLock' \in AnchorRuns \cup {"none"} /\ ledgerLock' # r
  BY <1>2, <1>3, AnchRunIs DEF AnchTyped
<1>6. chain \in Line /\ site.months \in Nat /\ Punctual \in BOOLEAN
  BY <1>3, AnchRunIs DEF AnchTyped
<1>7. /\ s.at = "preview"
      /\ AnchFits(s, site.backends, <<local.lines>>, remote, site.months, month, Punctual)
  BY SMTT(40), <1>1, <1>6, AnchFresh
<1> QED BY <1>2, <1>4, <1>5, <1>7, AnchRunOnly

(* anchors.lock is free, and is taken; or another run has it.              *)
LEMMA AnchLocks ==
  ASSUME AnchInv, NEW r \in AnchorRuns, TakesLock(r)
  PROVE  AnchInv'
<1>1. AnchTyped
  BY DEF AnchInv
<1>2. /\ run[r] \in AnchRun(site.backends, site.months) /\ site.months \in Nat
      /\ Punctual \in BOOLEAN /\ (run[r].at = "sync" <=> ledgerLock = r)
  BY AnchRunIs
<1>3. /\ UNCHANGED <<site, chain, writing, month, local, remote, late>>
      /\ UNCHANGED count /\ run[r].at = "preview"
  BY DEF TakesLock, worldRest
<1>4. count' \in [runs : Nat, faults : Nat, arrived : Nat] /\ count'.arrived = count.arrived
  BY <1>1, <1>3 DEF AnchTyped
<1>5. CASE ledgerLock = "none"
  <2>1. PICK s : AnchStart(s, "sync", run[r].index, site.backends)
    BY DEF AnchStart
  <2>2. run' = [run EXCEPT ![r] = s] /\ ledgerLock' = r
    BY <1>5, <2>1 DEF AnchStart, TakesLock, Puts
  <2>3. run[r].index \in Line
    BY <1>2 DEF AnchRun
  <2>4. /\ s.at = "sync"
        /\ AnchFits(s, site.backends, <<local.lines>>, remote, site.months, month, Punctual)
    BY <1>2, <2>1, <2>3, AnchFresh
  <2>5. \A p \in AnchorRuns \ {r} : ledgerLock' = p <=> ledgerLock = p
    BY <1>5, <2>2, AnchorsAssumption
  <2> QED BY <1>3, <1>4, <2>2, <2>4, <2>5, AnchRunOnly
<1>6. CASE ledgerLock # "none"
  <2>1. run' = [run EXCEPT ![r] = NotRunning] /\ ledgerLock' = ledgerLock
    BY <1>6 DEF TakesLock, Puts
  <2>2. ledgerLock' # r /\ ledgerLock' \in AnchorRuns \cup {"none"}
    BY <1>1, <1>2, <1>3, <2>1 DEF AnchTyped
  <2>3. /\ NotRunning.at = "idle"
        /\ AnchFits(NotRunning, site.backends, <<local.lines>>, remote, site.months, month, Punctual)
    BY <1>2, AnchOver
  <2> QED BY <1>3, <1>4, <2>1, <2>2, <2>3, AnchRunOnly
<1> QED BY <1>5, <1>6

(* A run reports, or is killed: the kernel lets go of its lock.            *)
LEMMA AnchEnds ==
  ASSUME AnchInv, NEW r \in AnchorRuns, EndsRun(r), SiteFault \/ UNCHANGED count
  PROVE  AnchInv'
<1>1. AnchTyped
  BY DEF AnchInv
<1>2. site.months \in Nat /\ Punctual \in BOOLEAN
  BY AnchRunIs
<1>3. /\ run' = [run EXCEPT ![r] = NotRunning]
      /\ ledgerLock' = IF ledgerLock = r THEN "none" ELSE ledgerLock
      /\ UNCHANGED <<site, chain, writing, month, local, remote, late>>
  BY DEF EndsRun, Puts, worldRest
<1>4. count' \in [runs : Nat, faults : Nat, arrived : Nat] /\ count'.arrived = count.arrived
  BY <1>1, AnchFault DEF AnchTyped
<1>5. /\ ledgerLock' \in AnchorRuns \cup {"none"} /\ ledgerLock' # r
      /\ \A p \in AnchorRuns \ {r} : ledgerLock' = p <=> ledgerLock = p
  BY <1>1, <1>3, AnchorsAssumption DEF AnchTyped
<1>6. /\ NotRunning.at = "idle"
      /\ AnchFits(NotRunning, site.backends, <<local.lines>>, remote, site.months, month, Punctual)
  BY <1>2, AnchOver
<1> QED BY <1>3, <1>4, <1>5, <1>6, AnchRunOnly

AnchQuits(s, q, b) == s = [q EXCEPT !.pending = @ \ {b}, !.failed = TRUE]

(* A backend that was not written to: the run fails, and goes on.          *)
LEMMA AnchGivesUp ==
  ASSUME NEW names, NEW own, NEW files, NEW M, NEW now, NEW prompt \in BOOLEAN,
         NEW q, AnchFits(q, names, own, files, M, now, prompt), NEW b,
         NEW s, AnchQuits(s, q, b)
  PROVE  s.at = q.at /\ AnchFits(s, names, own, files, M, now, prompt)
<1>1. q \in AnchRun(names, M)
  BY DEF AnchFits
<1>2. PICK w \in SUBSET names : w = q.pending \ {b}
  BY <1>1 DEF AnchRun
<1>3. s = [q EXCEPT !.pending = w, !.failed = TRUE]
  BY <1>1, <1>2 DEF AnchQuits, AnchRun
<1>4. /\ s \in AnchRun(names, M)
      /\ s.at = q.at /\ s.index = q.index /\ s.left = q.left /\ s.alarm = q.alarm
      /\ s.path = q.path /\ s.has = q.has /\ s.failed /\ s.pending = w
  BY <1>1, <1>3 DEF AnchRun
<1>5. SettledOn(s, now) /\ (prompt => LastUsed(s, files, M))
  BY <1>4 DEF AnchFits, SettledOn, LastUsed
<1>6. AnchFewer(s, q)
  BY <1>2, <1>4 DEF AnchFewer
<1> QED BY <1>4, <1>5, <1>6, AnchLike

(* publish_path looks at the file of the month.                            *)
LEMMA AnchGets ==
  ASSUME AnchInv, NEW r \in AnchorRuns, GetsMonth(r)
  PROVE  AnchInv'
<1> DEFINE q == run[r]
<1>1. AnchTyped
  BY DEF AnchInv
<1>2. /\ q \in AnchRun(site.backends, site.months)
      /\ AnchFits(q, site.backends, <<local.lines>>, remote, site.months, month, Punctual)
      /\ (q.at = "sync" <=> ledgerLock = r) /\ site.months \in Nat /\ Punctual \in BOOLEAN
  BY AnchRunIs
<1>3. PICK path : path = IF q.path = 0 THEN month ELSE q.path
  OBVIOUS
<1>4. PICK seen : seen = remote[path]
  OBVIOUS
<1>5. PICK s : s = [q EXCEPT !.path = path, !.has = TRUE, !.seen = seen]
  OBVIOUS
<1>6. /\ run' = [run EXCEPT ![r] = s] /\ q.at = "sync"
      /\ UNCHANGED <<site, chain, writing, month, local, remote, late>>
      /\ UNCHANGED count /\ UNCHANGED ledgerLock
  BY <1>3, <1>4, <1>5 DEF GetsMonth, MayPublish, Puts, worldRest
<1> HIDE DEF q
<1>7. month \in 1..site.months /\ remote \in [1..site.months -> Seq(Line)]
  BY <1>1 DEF AnchTyped, AnchFiles
<1>8. SettledOn(q, month)
  BY <1>2 DEF AnchFits
<1>9. path \in 1..site.months /\ path <= month
  <2>1. CASE q.path = 0
    BY <1>3, <1>7, <2>1, <1>2
  <2>2. CASE q.path # 0
    BY <1>2, <1>3, <1>8, <2>2 DEF SettledOn, AnchRun
  <2> QED BY <2>1, <2>2
<1>10. seen \in Seq(Line)
  BY <1>4, <1>7, <1>9
<1>11. path \in 0..site.months /\ path # 0
  BY <1>2, <1>9
<1>12. /\ s \in AnchRun(site.backends, site.months)
       /\ s.at = q.at /\ s.index = q.index /\ s.left = q.left /\ s.alarm = q.alarm
       /\ s.pending = q.pending /\ s.failed = q.failed /\ s.path = path /\ s.has
  BY <1>2, <1>5, <1>10, <1>11 DEF AnchRun
<1>13. SettledOn(s, month)
  BY <1>6, <1>9, <1>11, <1>12 DEF SettledOn
<1>14. Punctual => LastUsed(s, remote, site.months)
  <2> SUFFICES ASSUME Punctual PROVE NothingAfter(remote, site.months, path)
    BY <1>12 DEF LastUsed
  <2>1. CASE q.path = 0
    BY <1>3, <2>1 DEF AnchInv, Orderly
  <2>2. CASE q.path # 0
    BY <1>2, <1>3, <2>2 DEF AnchFits, LastUsed
  <2> QED BY <2>1, <2>2
<1>15. AnchFits(s, site.backends, <<local.lines>>, remote, site.months, month, Punctual)
  BY <1>12, <1>2, <1>13, <1>14, AnchLike DEF AnchFewer
<1>16. /\ count' \in [runs : Nat, faults : Nat, arrived : Nat] /\ count'.arrived = count.arrived
       /\ ledgerLock' \in AnchorRuns \cup {"none"}
       /\ s.at = "sync" <=> ledgerLock' = r
       /\ \A p \in AnchorRuns \ {r} : ledgerLock' = p <=> ledgerLock = p
  BY <1>1, <1>2, <1>6, <1>12 DEF AnchTyped
<1> QED BY <1>6, <1>15, <1>16, AnchRunOnly

(* 409: once more, or given up.                                            *)
LEMMA AnchConflict ==
  ASSUME AnchInv, NEW r \in AnchorRuns, PutConflicts(r)
  PROVE  AnchInv'
<1> DEFINE q == run[r]
<1>1. AnchTyped
  BY DEF AnchInv
<1>2. /\ q \in AnchRun(site.backends, site.months)
      /\ AnchFits(q, site.backends, <<local.lines>>, remote, site.months, month, Punctual)
      /\ (q.at = "sync" <=> ledgerLock = r) /\ site.months \in Nat /\ Punctual \in BOOLEAN
  BY AnchRunIs
<1>3. PICK s : s = IF q.retried THEN [q EXCEPT !.pending = @ \ {"github"}, !.failed = TRUE]
                   ELSE [q EXCEPT !.retried = TRUE, !.has = FALSE, !.seen = <<>>]
  OBVIOUS
<1>4. /\ run' = [run EXCEPT ![r] = s]
      /\ UNCHANGED <<site, chain, writing, month, local, remote, late>>
      /\ UNCHANGED ledgerLock /\ (SiteFault \/ UNCHANGED count)
  BY <1>3 DEF PutConflicts, GitHubFails, Puts, worldRest
<1> HIDE DEF q
<1>5. /\ s.at = q.at
      /\ AnchFits(s, site.backends, <<local.lines>>, remote, site.months, month, Punctual)
  <2>1. CASE q.retried
    <3>1. AnchQuits(s, q, "github")
      BY <1>3, <2>1 DEF AnchQuits
    <3> QED BY <1>2, <3>1, AnchGivesUp
  <2>2. CASE ~q.retried
    <3>1. s = [q EXCEPT !.retried = TRUE, !.has = FALSE, !.seen = <<>>]
      BY <1>3, <2>2
    <3>2. <<>> \in Seq(Line)
      OBVIOUS
    <3>3. /\ s \in AnchRun(site.backends, site.months)
          /\ s.at = q.at /\ s.index = q.index /\ s.left = q.left /\ s.alarm = q.alarm
          /\ s.path = q.path /\ s.has = FALSE /\ s.pending = q.pending /\ s.failed = q.failed
      BY <1>2, <3>1, <3>2 DEF AnchRun
    <3>4. SettledOn(s, month) /\ (Punctual => LastUsed(s, remote, site.months))
      BY <1>2, <3>3 DEF AnchFits, SettledOn, LastUsed
    <3>5. AnchFewer(s, q)
      BY <3>3 DEF AnchFewer
    <3> QED BY <1>2, <3>3, <3>4, <3>5, AnchLike
  <2> QED BY <2>1, <2>2
<1>6. count' \in [runs : Nat, faults : Nat, arrived : Nat] /\ count'.arrived = count.arrived
  BY <1>1, AnchFault, <1>4 DEF AnchTyped
<1>7. /\ ledgerLock' \in AnchorRuns \cup {"none"}
      /\ s.at = "sync" <=> ledgerLock' = r
      /\ \A p \in AnchorRuns \ {r} : ledgerLock' = p <=> ledgerLock = p
  BY <1>1, <1>2, <1>4, <1>5 DEF AnchTyped
<1> QED BY <1>4, <1>5, <1>6, <1>7, AnchRunOnly

(* A request that was not answered, and has changed nothing so far.        *)
LEMMA AnchLost ==
  ASSUME AnchInv, NEW r \in AnchorRuns, Putting(r), SiteFault,
         UNCHANGED <<site, chain, writing, month, local, remote, ledgerLock>>,
         \/ late' = late \cup {[path |-> run[r].path, seen |-> run[r].seen, line |-> run[r].index]}
         \/ UNCHANGED late,
         run' = [run EXCEPT ![r] = GitHubFails(r)]
  PROVE  AnchInv'
<1> DEFINE q == run[r]
<1>1. AnchTyped
  BY DEF AnchInv
<1>2. /\ q \in AnchRun(site.backends, site.months)
      /\ AnchFits(q, site.backends, <<local.lines>>, remote, site.months, month, Punctual)
      /\ (q.at = "sync" <=> ledgerLock = r) /\ site.months \in Nat /\ Punctual \in BOOLEAN
  BY AnchRunIs
<1>3. PICK s : AnchQuits(s, q, "github")
  BY DEF AnchQuits
<1>4. run' = [run EXCEPT ![r] = s]
  BY <1>3 DEF AnchQuits, GitHubFails
<1>5. q.path \in 1..site.months /\ q.seen \in Seq(Line) /\ q.index \in Line
  BY <1>2 DEF AnchFits, SettledOn, AnchRun, Putting
<1>6. late' \subseteq [path : 1..site.months, seen : Seq(Line), line : Line]
  BY <1>5, <1>1 DEF AnchTyped
<1> HIDE DEF q
<1>7. /\ s.at = q.at
      /\ AnchFits(s, site.backends, <<local.lines>>, remote, site.months, month, Punctual)
  BY <1>2, <1>3, AnchGivesUp
<1>8. count' \in [runs : Nat, faults : Nat, arrived : Nat] /\ count'.arrived = count.arrived
  BY <1>1, AnchFault
<1>9. /\ ledgerLock' \in AnchorRuns \cup {"none"}
      /\ s.at = "sync" <=> ledgerLock' = r
      /\ \A p \in AnchorRuns \ {r} : ledgerLock' = p <=> ledgerLock = p
      /\ local' \in [lines : Seq(Line), torn : BOOLEAN] /\ local'.lines = local.lines
  BY <1>1, <1>2, <1>7 DEF AnchTyped
<1> QED BY <1>4, <1>6, <1>7, <1>8, <1>9, AnchRunSteps

(* The local file is left as it is, or with a torn line.                   *)
LEMMA AnchNotWritten ==
  ASSUME AnchInv, NEW r \in AnchorRuns, SiteFault \/ UNCHANGED count,
         UNCHANGED <<site, chain, writing, month, remote, late, ledgerLock>>,
         local' \in {local, [local EXCEPT !.torn = TRUE]},
         run' = [run EXCEPT ![r] = [run[r] EXCEPT !.pending = @ \ {"local"}, !.failed = TRUE]]
  PROVE  AnchInv'
<1> DEFINE q == run[r]
<1>1. AnchTyped
  BY DEF AnchInv
<1>2. /\ AnchFits(q, site.backends, <<local.lines>>, remote, site.months, month, Punctual)
      /\ (q.at = "sync" <=> ledgerLock = r) /\ Punctual \in BOOLEAN
  BY AnchRunIs
<1>3. PICK s : AnchQuits(s, q, "local")
  BY DEF AnchQuits
<1>4. run' = [run EXCEPT ![r] = s]
  BY <1>3 DEF AnchQuits
<1> HIDE DEF q
<1>5. /\ s.at = q.at
      /\ AnchFits(s, site.backends, <<local.lines>>, remote, site.months, month, Punctual)
  BY <1>2, <1>3, AnchGivesUp
<1>6. count' \in [runs : Nat, faults : Nat, arrived : Nat] /\ count'.arrived = count.arrived
  BY <1>1, AnchFault DEF AnchTyped
<1>7. /\ ledgerLock' \in AnchorRuns \cup {"none"}
      /\ s.at = "sync" <=> ledgerLock' = r
      /\ \A p \in AnchorRuns \ {r} : ledgerLock' = p <=> ledgerLock = p
      /\ late' \subseteq [path : 1..site.months, seen : Seq(Line), line : Line]
  BY <1>1, <1>2, <1>5 DEF AnchTyped
<1>8. local' \in [lines : Seq(Line), torn : BOOLEAN] /\ local'.lines = local.lines
  BY <1>1 DEF AnchTyped
<1> QED BY <1>4, <1>5, <1>6, <1>7, <1>8, AnchRunSteps

-----------------------------------------------------------------------------
(* A run writes a line.                                                    *)

(* A run without the lock has compared with nothing that counts.           *)
LEMMA AnchAside ==
  ASSUME NEW names, NEW own, NEW files, NEW M, NEW now, NEW prompt,
         NEW q, AnchFits(q, names, own, files, M, now, prompt), q.at # "sync",
         NEW own1, NEW files1, NEW now1, NEW prompt1 \in BOOLEAN
  PROVE  AnchFits(q, names, own1, files1, M, now1, prompt1)
<1>1. q \in AnchRun(names, M) /\ SettledOn(q, now)
  BY DEF AnchFits
<1>2. q.path = 0 /\ ~q.has
  BY <1>1 DEF SettledOn, AnchRun
<1>3. SettledOn(q, now1) /\ LastUsed(q, files1, M)
  BY <1>2 DEF SettledOn, LastUsed
<1>4. Compared(q, names, own1, files1)
  BY DEF Compared
<1> QED BY <1>1, <1>3, <1>4 DEF AnchFits

AnchWrote(s, q, b) ==
    /\ s.at = q.at /\ s.index = q.index /\ s.left = q.left /\ s.alarm = q.alarm
    /\ s.path = q.path /\ s.has = q.has /\ s.pending = q.pending \ {b}
    /\ ~s.failed => ~q.failed
Writes(q, b) == q.at = "sync" /\ q.left = {} /\ ~q.alarm /\ b \in q.pending
HistoryOf(b, own, files) == IF b = "local" THEN own ELSE files

(* The head is appended where the run was to: that backend has it now, and *)
(* the other is as it was.                                                 *)
LEMMA AnchRecorded ==
  ASSUME NEW names, NEW own, NEW files, NEW M, NEW now, NEW prompt \in BOOLEAN,
         NEW q, AnchFits(q, names, own, files, M, now, prompt), NEW b, Writes(q, b),
         NEW s \in AnchRun(names, M), AnchWrote(s, q, b),
         NEW own1, NEW files1, NEW N \in Nat, NEW p \in 1..N,
         HistoryOf(b, own, files) \in [1..N -> Seq(Line)],
         HistoryOf(b, own1, files1) = AnchGrown(HistoryOf(b, own, files), p, q.index),
         \A c \in names \ {b} : HistoryOf(c, own1, files1) = HistoryOf(c, own, files),
         prompt => LastUsed(s, files1, M)
  PROVE  AnchFits(s, names, own1, files1, M, now, prompt)
<1>1. /\ s.at = q.at /\ s.index = q.index /\ s.left = q.left /\ s.alarm = q.alarm
      /\ s.path = q.path /\ s.has = q.has /\ s.pending = q.pending \ {b}
      /\ ~s.failed => ~q.failed
  BY DEF AnchWrote
<1>2. q \in AnchRun(names, M) /\ q.index \in Line /\ q.pending \subseteq names
  BY DEF AnchFits, AnchRun
<1>3. SettledOn(s, now)
  BY <1>1 DEF AnchFits, SettledOn
<1>4. ASSUME prompt
      PROVE  /\ s.pending \cap s.left = {}
             /\ \A c \in names \ s.left : ComparedWith(s, c, HistoryOf(c, own1, files1))
  <2>1. Compared(q, names, own, files)
    BY <1>4 DEF AnchFits
  <2>2. \A c \in names : ComparedWith(q, c, HistoryOf(c, own, files))
    BY <2>1 DEF Compared, Writes, HistoryOf
  <2>3. ASSUME NEW c \in names
        PROVE  ComparedWith(s, c, HistoryOf(c, own1, files1))
    <3>1. CASE c = b
      <4> DEFINE F == HistoryOf(b, own, files)
      <4>1. ~q.failed => ~Disagrees(F, q.index)
        BY <2>2, <3>1 DEF ComparedWith
      <4> HIDE DEF F
      <4>2. F \in [1..N -> Seq(Line)]
        BY DEF F
      <4>3. /\ ~Disagrees(F, q.index) => ~Disagrees(AnchGrown(F, p, q.index), q.index)
            /\ \E line \in LinesOf(AnchGrown(F, p, q.index)) : Len(line) >= Len(q.index)
        BY <1>2, <4>2, AnchComparedAfter
      <4>4. HistoryOf(b, own1, files1) = AnchGrown(F, p, q.index)
        BY DEF F
      <4>5. b \notin s.pending
        BY <1>1
      <4>6. ComparedWith(s, b, AnchGrown(F, p, q.index))
        BY <1>1, <4>1, <4>3, <4>5 DEF ComparedWith
      <4> QED BY <3>1, <4>4, <4>6
    <3>2. CASE c # b
      BY <3>2, <1>1, <2>2 DEF ComparedWith
    <3> QED BY <3>1, <3>2
  <2>4. s.pending \cap s.left = {}
    BY <1>1 DEF Writes
  <2> QED BY <2>3, <2>4
<1>5. prompt => Compared(s, names, own1, files1)
  BY <1>4 DEF Compared, HistoryOf
<1> QED BY <1>3, <1>5 DEF AnchFits

(* A run that writes holds the lock; all the others are aside.             *)
LEMMA AnchWriteSteps ==
  ASSUME AnchInv, NEW r \in AnchorRuns, NEW s, run[r].at = "sync", s.at = "sync",
         run' = [run EXCEPT ![r] = s],
         UNCHANGED <<site, chain, writing, month, late, ledgerLock>>,
         local' \in [lines : Seq(Line), torn : BOOLEAN], remote' \in AnchFiles,
         count' \in [runs : Nat, faults : Nat, arrived : Nat], count'.arrived = count.arrived,
         AnchFits(s, site.backends, <<local'.lines>>, remote', site.months, month, Punctual),
         Punctual => /\ ~Backwards(<<local'.lines>>) /\ ~Backwards(remote')
                     /\ NothingAfter(remote', site.months, month)
  PROVE  AnchInv'
<1>1. AnchTyped
  BY DEF AnchInv
<1>2. s \in AnchRun(site.backends, site.months)
  BY DEF AnchFits
<1>3. run \in [AnchorRuns -> AnchRun(site.backends, site.months)]
  BY <1>1 DEF AnchTyped
<1>4. run'[r] = s /\ \A t \in AnchorRuns \ {r} : run'[t] = run[t]
  BY <1>3
<1>5. AnchTyped'
  BY <1>2, <1>3, <1>1 DEF AnchTyped, AnchFiles
<1>6. AnchOwner'
  <2> SUFFICES ASSUME NEW t \in AnchorRuns
               PROVE  run'[t].at = "sync" <=> ledgerLock' = t
    BY DEF AnchOwner
  <2> QED BY <1>4 DEF AnchInv, AnchOwner
<1>7. (Punctual' <=> Punctual) /\ Punctual \in BOOLEAN
  BY DEF Punctual
<1>8. ASSUME NEW t \in AnchorRuns \ {r}
      PROVE  AnchFits(run[t], site.backends, <<local'.lines>>, remote', site.months, month, Punctual)
  BY <1>7, AnchAside DEF AnchInv, AnchOwner
<1>9. Punctual' => Orderly'
  BY <1>7 DEF Orderly
<1>10. \A t \in AnchorRuns :
        AnchFits(run'[t], site'.backends, <<local'.lines>>, remote', site'.months, month', Punctual')
  <2> SUFFICES ASSUME NEW t \in AnchorRuns
               PROVE  AnchFits(run'[t], site'.backends, <<local'.lines>>, remote', site'.months,
                               month', Punctual')
    OBVIOUS
  <2>1. AnchFits(run'[t], site.backends, <<local'.lines>>, remote', site.months, month, Punctual)
    BY <1>4, <1>8
  <2>2. Punctual' = Punctual
    BY DEF Punctual
  <2>3. site' = site /\ month' = month
    OBVIOUS
  <2> QED BY <2>1, <2>2, <2>3
<1> QED BY <1>5, <1>6, <1>9, <1>10 DEF AnchInv

(* The record of a run that has written, or perhaps has.                   *)
LEMMA AnchWroteRecord ==
  ASSUME NEW names, NEW M, NEW q \in AnchRun(names, M), NEW b, NEW s,
         \/ s = [q EXCEPT !.pending = @ \ {b}]
         \/ AnchQuits(s, q, b)
  PROVE  s \in AnchRun(names, M) /\ AnchWrote(s, q, b)
<1>1. PICK w \in SUBSET names : w = q.pending \ {b}
  BY DEF AnchRun
<1>2. CASE s = [q EXCEPT !.pending = @ \ {b}]
  BY <1>1, <1>2 DEF AnchRun, AnchWrote
<1>3. CASE AnchQuits(s, q, b)
  BY <1>1, <1>3 DEF AnchQuits, AnchRun, AnchWrote
<1> QED BY <1>2, <1>3

(* A run under the lock, to write to b: all lines there are shorter.       *)
LEMMA AnchMayWrite ==
  ASSUME AnchInv, NEW r \in AnchorRuns, NEW b, MayPublish(r, b)
  PROVE  /\ Writes(run[r], b) /\ b \in site.backends /\ run[r].index \in Line
         /\ Punctual => NeedsPublish(HistoryOf(b, <<local.lines>>, remote), run[r].index)
<1> DEFINE q == run[r]
<1>1. /\ q \in AnchRun(site.backends, site.months)
      /\ AnchFits(q, site.backends, <<local.lines>>, remote, site.months, month, Punctual)
  BY AnchRunIs
<1>2. Writes(q, b)
  BY DEF MayPublish, Writes
<1>3. b \in site.backends /\ q.index \in Line
  BY <1>1, <1>2 DEF AnchRun, Writes
<1> HIDE DEF q
<1>4. ASSUME Punctual PROVE NeedsPublish(HistoryOf(b, <<local.lines>>, remote), q.index)
  BY <1>1, <1>4, <1>2, <1>3 DEF AnchFits, Compared, Writes, HistoryOf, ComparedWith
<1> QED BY <1>2, <1>3, <1>4 DEF q

(* append_line: the local file with the head.                              *)
LEMMA AnchWritesLocal ==
  ASSUME AnchInv, NEW r \in AnchorRuns, MayPublish(r, "local"), NEW s,
         \/ s = [run[r] EXCEPT !.pending = @ \ {"local"}]
         \/ AnchQuits(s, run[r], "local"),
         run' = [run EXCEPT ![r] = s],
         UNCHANGED <<site, chain, writing, month, remote, late, ledgerLock>>,
         local' = [local EXCEPT !.lines = Append(@, run[r].index)],
         count' \in [runs : Nat, faults : Nat, arrived : Nat], count'.arrived = count.arrived
  PROVE  AnchInv'
<1> DEFINE q == run[r]
<1> DEFINE own == <<local.lines>>
<1> DEFINE own1 == <<local'.lines>>
<1>1. /\ q \in AnchRun(site.backends, site.months)
      /\ AnchFits(q, site.backends, own, remote, site.months, month, Punctual)
      /\ Punctual \in BOOLEAN
  BY AnchRunIs
<1>2. /\ Writes(q, "local") /\ q.index \in Line
      /\ Punctual => NeedsPublish(HistoryOf("local", own, remote), q.index)
  BY AnchMayWrite
<1>3. AnchTyped
  BY DEF AnchInv
<1>4. /\ own \in [1..1 -> Seq(Line)] /\ own[1] = local.lines /\ local.lines \in Seq(Line)
      /\ remote \in [1..site.months -> Seq(Line)]
  BY <1>3, AnchHistories
<1>5. /\ local' \in [lines : Seq(Line), torn : BOOLEAN]
      /\ local'.lines = Append(local.lines, q.index)
  <2>1. Append(local.lines, q.index) \in Seq(Line)
    BY <1>2, <1>4
  <2> QED BY <1>3, <2>1 DEF AnchTyped
<1>6. own1 = AnchGrown(own, 1, q.index)
  BY <1>4, <1>5 DEF AnchGrown
<1>7. s \in AnchRun(site.backends, site.months) /\ AnchWrote(s, q, "local")
  BY <1>1, AnchWroteRecord
<1>8. HistoryOf("local", own, remote) = own /\ HistoryOf("local", own1, remote) = own1
  BY DEF HistoryOf
<1>9. \A c \in site.backends \ {"local"} : HistoryOf(c, own1, remote) = HistoryOf(c, own, remote)
  BY DEF HistoryOf
<1>10. Punctual => LastUsed(s, remote, site.months)
  BY <1>1, <1>7 DEF AnchFits, AnchWrote, LastUsed
<1>11. ASSUME Punctual PROVE ~Backwards(own1)
  <2>1. ~Backwards(own)
    BY <1>11 DEF AnchInv, Orderly
  <2>2. NothingAfter(own, 1, 1)
    BY DEF NothingAfter
  <2>3. NeedsPublish(own, q.index)
    BY <1>2, <1>8, <1>11
  <2>4. 1 \in Nat /\ 1 \in 1..1
    OBVIOUS
  <2> HIDE DEF q, own, own1
  <2> QED BY <1>2, <1>4, <1>6, <2>1, <2>2, <2>3, <2>4, AnchAscends
<1>12. Punctual => ~Backwards(remote') /\ NothingAfter(remote', site.months, month)
  BY DEF AnchInv, Orderly
<1>13. q.at = "sync" /\ s.at = "sync"
  BY <1>2, <1>7 DEF Writes, AnchWrote
<1>14. AnchFits(s, site.backends, own1, remote, site.months, month, Punctual)
  <2> HIDE DEF q, own, own1
  <2>1. 1 \in Nat /\ 1 \in 1..1
    OBVIOUS
  <2>2. HistoryOf("local", own, remote) \in [1..1 -> Seq(Line)]
    BY <1>4, <1>8
  <2>3. HistoryOf("local", own1, remote) = AnchGrown(HistoryOf("local", own, remote), 1, q.index)
    BY <1>6, <1>8
  <2>4. PICK one : one = 1
    OBVIOUS
  <2>5. PICK mine : mine = own
    OBVIOUS
  <2>6. PICK mine1 : mine1 = own1
    OBVIOUS
  <2>7. one \in Nat /\ one \in 1..one /\ HistoryOf("local", mine, remote) \in [1..one -> Seq(Line)]
    BY <2>1, <2>2, <2>4, <2>5
  <2>8. /\ HistoryOf("local", mine1, remote) = AnchGrown(HistoryOf("local", mine, remote), one, q.index)
        /\ \A c \in site.backends \ {"local"} :
              HistoryOf(c, mine1, remote) = HistoryOf(c, mine, remote)
    BY <1>9, <2>3, <2>4, <2>5, <2>6
  <2>9. AnchFits(q, site.backends, mine, remote, site.months, month, Punctual)
    BY <1>1, <2>5
  <2>10. AnchFits(s, site.backends, mine1, remote, site.months, month, Punctual)
    BY <1>1, <1>2, <1>7, <1>10, <2>7, <2>8, <2>9, AnchRecorded
  <2> QED BY <2>6, <2>10
<1>15. remote' \in AnchFiles /\ remote' = remote
  BY <1>3 DEF AnchTyped
<1> QED BY <1>5, <1>11, <1>12, <1>13, <1>14, <1>15, AnchWriteSteps

(* put_once: the file of the month with the head.                          *)
LEMMA AnchWritesMonth ==
  ASSUME AnchInv, NEW r \in AnchorRuns, Putting(r), remote[run[r].path] = run[r].seen, NEW s,
         \/ s = [run[r] EXCEPT !.pending = @ \ {"github"}]
         \/ AnchQuits(s, run[r], "github"),
         run' = [run EXCEPT ![r] = s],
         UNCHANGED <<site, chain, writing, month, local, late, ledgerLock>>,
         remote' = WithLine(r),
         count' \in [runs : Nat, faults : Nat, arrived : Nat], count'.arrived = count.arrived
  PROVE  AnchInv'
<1> DEFINE q == run[r]
<1> DEFINE own == <<local.lines>>
<1>1. /\ q \in AnchRun(site.backends, site.months)
      /\ AnchFits(q, site.backends, own, remote, site.months, month, Punctual)
      /\ Punctual \in BOOLEAN /\ site.months \in Nat
  BY AnchRunIs
<1>2. MayPublish(r, "github") /\ q.has
  BY DEF Putting
<1>3. /\ Writes(q, "github") /\ q.index \in Line
      /\ Punctual => NeedsPublish(HistoryOf("github", own, remote), q.index)
  BY <1>2, AnchMayWrite
<1>4. AnchTyped
  BY DEF AnchInv
<1>5. /\ own \in [1..1 -> Seq(Line)] /\ remote \in [1..site.months -> Seq(Line)]
  BY <1>4, AnchHistories
<1>6. PICK path \in 1..site.months : path = q.path /\ path <= month
  BY <1>1, <1>2 DEF AnchFits, SettledOn, AnchRun
<1>7. remote' = AnchGrown(remote, path, q.index)
  BY <1>6 DEF WithLine, AnchGrown
<1>8. remote' \in [1..site.months -> Seq(Line)]
  <2>1. site.months \in Nat /\ q.index \in Line
    BY <1>1, <1>3
  <2> HIDE DEF q
  <2>2. AnchGrown(remote, path, q.index) \in [1..site.months -> Seq(Line)]
    BY <1>5, <2>1, AnchLines
  <2> QED BY <1>7, <2>2
<1>9. s \in AnchRun(site.backends, site.months) /\ AnchWrote(s, q, "github")
  BY <1>1, AnchWroteRecord
<1>10. HistoryOf("github", own, remote) = remote /\ HistoryOf("github", own, remote') = remote'
  BY DEF HistoryOf
<1>11. \A c \in site.backends \ {"github"} : HistoryOf(c, own, remote') = HistoryOf(c, own, remote)
  BY <1>4, AnchorsAssumption DEF AnchTyped, HistoryOf
<1>12. ASSUME Punctual PROVE NothingAfter(remote, site.months, path)
  BY <1>1, <1>2, <1>6, <1>12 DEF AnchFits, LastUsed, SettledOn
<1>13. ASSUME NEW n \in 1..site.months, n >= path, NothingAfter(remote, site.months, n)
       PROVE  NothingAfter(remote', site.months, n)
  <2> SUFFICES ASSUME NEW m \in 1..site.months, m > n PROVE remote'[m] = <<>>
    BY DEF NothingAfter
  <2>1. m # path
    BY <1>1, <1>13
  <2>2. remote'[m] = remote[m]
    BY <1>5, <1>7, <2>1 DEF AnchGrown
  <2>3. remote[m] = <<>>
    BY <1>13 DEF NothingAfter
  <2> QED BY <2>2, <2>3
<1>14. Punctual => LastUsed(s, remote', site.months)
  BY <1>6, <1>9, <1>1, <1>12, <1>13 DEF AnchWrote, LastUsed
<1>15. ASSUME Punctual PROVE ~Backwards(remote')
  <2>1. ~Backwards(remote)
    BY <1>15 DEF AnchInv, Orderly
  <2>2. NothingAfter(remote, site.months, path)
    BY <1>12, <1>15
  <2>3. NeedsPublish(remote, q.index)
    BY <1>3, <1>10, <1>15
  <2>4. ~Backwards(AnchGrown(remote, path, q.index))
    <3> HIDE DEF q
    <3> QED BY <1>1, <1>3, <1>5, <2>1, <2>2, <2>3, AnchAscends
  <2> QED BY <1>7, <2>4
<1>16. Punctual => ~Backwards(<<local'.lines>>) /\ NothingAfter(remote', site.months, month)
  BY <1>1, <1>4, <1>6, <1>13 DEF AnchTyped, AnchInv, Orderly
<1>17. q.at = "sync" /\ s.at = "sync"
  BY <1>3, <1>9 DEF Writes, AnchWrote
<1>18. AnchFits(s, site.backends, own, remote', site.months, month, Punctual)
  <2> HIDE DEF q, own
  <2>1. HistoryOf("github", own, remote) \in [1..site.months -> Seq(Line)]
    BY <1>5, <1>10
  <2>2. HistoryOf("github", own, remote') = AnchGrown(HistoryOf("github", own, remote), path, q.index)
    BY <1>7, <1>10
  <2> QED BY <1>1, <1>3, <1>6, <1>9, <1>11, <1>14, <2>1, <2>2, AnchRecorded
<1>19. remote' \in AnchFiles /\ local' \in [lines : Seq(Line), torn : BOOLEAN] /\ local' = local
  BY <1>4, <1>8 DEF AnchTyped, AnchFiles
<1> QED BY <1>15, <1>16, <1>17, <1>18, <1>19, AnchWriteSteps

-----------------------------------------------------------------------------
(* What the runs are given, and the theorems.                              *)

(* The chain grows or is rewritten: it is not what the files are judged by *)
(* but the copy a run has read.                                            *)
LEMMA AnchChain ==
  ASSUME AnchInv, ReceiptWritten \/ ChainRewritten
  PROVE  AnchInv'
<1>1. AnchTyped
  BY DEF AnchInv
<1>2. /\ chain \in Seq(Nat) /\ Len(chain) \in 1..site.rows /\ writing \in Nat
      /\ site.rows \in Nat
  BY <1>1, AnchorsAssumption DEF AnchTyped, Line
<1>3. /\ UNCHANGED <<month, local, remote, late>> /\ UNCHANGED count
      /\ UNCHANGED <<site, run, ledgerLock>>
  BY DEF ReceiptWritten, ChainRewritten, runsRest
<1>4. chain' \in Seq(Nat) /\ Len(chain') \in 1..site.rows /\ writing' \in Nat
  <2>1. CASE ReceiptWritten
    BY <2>1, <1>2 DEF ReceiptWritten
  <2>2. CASE ChainRewritten
    <3>1. PICK n \in 0..(Len(chain) - 1) : chain' = Append(SubSeq(chain, 1, n), writing + 1)
      BY <2>2 DEF ChainRewritten
    <3>2. SubSeq(chain, 1, n) \in Seq(Nat) /\ Len(SubSeq(chain, 1, n)) = n
      BY <1>2
    <3>3. PICK t : t = SubSeq(chain, 1, n)
      OBVIOUS
    <3>4. writing + 1 \in Nat /\ writing' = writing + 1
      BY <1>2, <2>2 DEF ChainRewritten
    <3>5. chain' \in Seq(Nat) /\ Len(chain') = n + 1
      BY <3>1, <3>2, <3>3, <3>4
    <3> QED BY <1>2, <3>4, <3>5
  <2> QED BY <2>1, <2>2
<1>5. AnchTyped'
  BY <1>1, <1>3, <1>4 DEF AnchTyped, AnchFiles, Line
<1>6. AnchOwner' /\ (Punctual' <=> Punctual) /\ (Orderly' <=> Orderly)
  BY <1>3 DEF AnchInv, AnchOwner, Punctual, Orderly
<1>7. Punctual' = Punctual
  BY <1>3 DEF Punctual
<1>8. \A r \in AnchorRuns :
        AnchFits(run'[r], site'.backends, <<local'.lines>>, remote', site'.months, month', Punctual')
  BY <1>3, <1>7 DEF AnchInv
<1> QED BY <1>5, <1>6, <1>8 DEF AnchInv

(* The next month: what is settled on is of this one or an earlier one.    *)
LEMMA AnchMonth ==
  ASSUME AnchInv, MonthPasses
  PROVE  AnchInv'
<1>1. AnchTyped /\ site.months \in Nat
  BY AnchHistories DEF AnchInv
<1>2. /\ UNCHANGED <<chain, writing, local, remote, late>> /\ UNCHANGED count
      /\ UNCHANGED <<site, run, ledgerLock>>
      /\ month < site.months /\ month' = month + 1
  BY DEF MonthPasses, runsRest
<1>3. month \in 1..site.months /\ month' \in 1..site.months
  BY <1>1, <1>2 DEF AnchTyped
<1>4. AnchTyped'
  BY <1>1, <1>2, <1>3 DEF AnchTyped, AnchFiles
<1>5. Punctual' = Punctual
  BY <1>2 DEF Punctual
<1>6. AnchOwner'
  BY <1>2 DEF AnchInv, AnchOwner
<1>7. ASSUME NEW r \in AnchorRuns
      PROVE  AnchFits(run[r], site.backends, <<local.lines>>, remote, site.months, month', Punctual)
  <2>1. /\ run[r] \in AnchRun(site.backends, site.months)
        /\ AnchFits(run[r], site.backends, <<local.lines>>, remote, site.months, month, Punctual)
    BY AnchRunIs
  <2>2. SettledOn(run[r], month)
    BY <2>1 DEF AnchFits
  <2>3. run[r].path \in 0..site.months
    BY <2>1 DEF AnchRun
  <2>4. run[r].path <= month => run[r].path <= month'
    BY <1>1, <1>2, <1>3, <2>3
  <2>5. SettledOn(run[r], month')
    BY <2>2, <2>4 DEF SettledOn
  <2> QED BY <2>1, <2>5 DEF AnchFits
<1>8. \A r \in AnchorRuns :
        AnchFits(run'[r], site'.backends, <<local'.lines>>, remote', site'.months, month', Punctual')
  BY <1>2, <1>5, <1>7
<1>9. ASSUME Punctual PROVE Orderly'
  <2>1. /\ ~Backwards(<<local.lines>>) /\ ~Backwards(remote)
        /\ NothingAfter(remote, site.months, month)
    BY <1>9 DEF AnchInv, Orderly
  <2>2. NothingAfter(remote, site.months, month')
    <3> SUFFICES ASSUME NEW m \in 1..site.months, m > month' PROVE remote[m] = <<>>
      BY DEF NothingAfter
    <3>1. m > month
      BY <1>1, <1>2, <1>3
    <3> QED BY <2>1, <3>1 DEF NothingAfter
  <2> QED BY <1>2, <2>1, <2>2 DEF Orderly
<1> QED BY <1>4, <1>5, <1>6, <1>8, <1>9 DEF AnchInv

(* The operator's repair of the local file.                                *)
LEMMA AnchRepair ==
  ASSUME AnchInv, TornLineRemoved
  PROVE  AnchInv'
<1>1. AnchTyped
  BY DEF AnchInv
<1>2. /\ UNCHANGED <<chain, writing, month, remote, late>> /\ UNCHANGED count
      /\ UNCHANGED <<site, run, ledgerLock>> /\ local' = [local EXCEPT !.torn = FALSE]
  BY DEF TornLineRemoved, runsRest
<1>3. local' \in [lines : Seq(Line), torn : BOOLEAN] /\ local'.lines = local.lines
  BY <1>1, <1>2 DEF AnchTyped
<1>4. AnchTyped'
  BY <1>1, <1>2, <1>3 DEF AnchTyped, AnchFiles
<1>5. Punctual' = Punctual
  BY <1>2 DEF Punctual
<1>6. AnchOwner' /\ (Orderly' <=> Orderly)
  BY <1>2, <1>3 DEF AnchInv, AnchOwner, Orderly
<1>7. \A r \in AnchorRuns :
        AnchFits(run'[r], site'.backends, <<local'.lines>>, remote', site'.months, month', Punctual')
  BY <1>2, <1>3, <1>5 DEF AnchInv
<1> QED BY <1>4, <1>5, <1>6, <1>7 DEF AnchInv

(* The months after a request arrived late.                                *)
LEMMA AnchLateFiles ==
  ASSUME AnchTyped, NEW p \in late, LateArrives(p)
  PROVE  \/ remote' = remote
         \/ \E m \in 1..site.months, x \in Line : remote' = AnchGrown(remote, m, x)
<1>1. p.path \in 1..site.months /\ p.line \in Line
  BY DEF AnchTyped
<1>2. \/ remote' = remote
      \/ remote' = AnchGrown(remote, p.path, p.line)
  BY DEF LateArrives, AnchGrown
<1> QED BY <1>1, <1>2

(* A request that arrives late may leave a file backwards; then nothing is *)
(* claimed of the files, but the lock and the paths stand.                 *)
LEMMA AnchLate ==
  ASSUME AnchInv, NEW p \in late, LateArrives(p)
  PROVE  AnchInv'
<1>1. AnchTyped /\ site.months \in Nat
  BY AnchHistories DEF AnchInv
<1>2. /\ UNCHANGED <<chain, writing, month, local>> /\ UNCHANGED <<site, run, ledgerLock>>
      /\ late' = late \ {p} /\ count' = [count EXCEPT !.arrived = @ + 1]
  BY DEF LateArrives, runsRest
<1>3. remote' \in [1..site.months -> Seq(Line)]
  <2>1. remote \in [1..site.months -> Seq(Line)]
    BY <1>1 DEF AnchTyped, AnchFiles
  <2>2. CASE remote' = remote
    BY <2>1, <2>2
  <2>3. ASSUME NEW m \in 1..site.months, NEW x \in Line, remote' = AnchGrown(remote, m, x)
        PROVE  remote' \in [1..site.months -> Seq(Line)]
    BY <1>1, <2>1, AnchLines, <2>3
  <2> QED BY <1>1, <2>2, <2>3, AnchLateFiles
<1>4. count' \in [runs : Nat, faults : Nat, arrived : Nat] /\ count'.arrived # 0
  <2>1. count \in [runs : Nat, faults : Nat, arrived : Nat]
    BY <1>1 DEF AnchTyped
  <2>2. PICK n : n = count.arrived + 1
    OBVIOUS
  <2>3. n \in Nat /\ n # 0
    BY <2>1, <2>2
  <2>4. count' = [count EXCEPT !.arrived = n]
    BY <1>2, <2>2
  <2> QED BY <2>1, <2>3, <2>4
<1>5. AnchTyped'
  BY <1>1, <1>2, <1>3, <1>4 DEF AnchTyped, AnchFiles
<1>6. Punctual' = FALSE
  BY <1>4 DEF Punctual
<1>7. AnchOwner'
  BY <1>2 DEF AnchInv, AnchOwner
<1>8. ASSUME NEW r \in AnchorRuns
      PROVE  AnchFits(run[r], site.backends, <<local.lines>>, remote', site.months, month, FALSE)
  BY DEF AnchInv, AnchFits
<1>9. \A r \in AnchorRuns :
        AnchFits(run'[r], site'.backends, <<local'.lines>>, remote', site'.months, month', Punctual')
  BY <1>2, <1>6, <1>8
<1> QED BY <1>5, <1>6, <1>7, <1>9 DEF AnchInv

(* Every step of a run that changes no file, or writes one line.           *)
LEMMA AnchRunKeeps ==
  ASSUME AnchInv, NEW r \in AnchorRuns,
         \/ ReadsReceipt(r) \/ TakesLock(r) \/ PublishLocal(r) \/ PublishLocalFails(r)
         \/ GetsMonth(r) \/ PutMonth(r) \/ PutConflicts(r) \/ PutIsLost(r)
         \/ Reports(r) \/ RunDies(r)
         \/ \E b \in site.backends : Assess(r, b) \/ AssessFails(r, b)
  PROVE  AnchInv'
<1>1. AnchTyped
  BY DEF AnchInv
<1>2. CASE ReadsReceipt(r)
  BY <1>2, AnchReads
<1>3. CASE TakesLock(r)
  BY <1>3, AnchLocks
<1>4. CASE PublishLocal(r)
  <2>1. PICK s : s = [run[r] EXCEPT !.pending = @ \ {"local"}]
    OBVIOUS
  <2>2. /\ MayPublish(r, "local") /\ run' = [run EXCEPT ![r] = s]
        /\ local' = [local EXCEPT !.lines = Append(@, run[r].index)]
        /\ UNCHANGED <<site, chain, writing, month, remote, late, ledgerLock>>
        /\ UNCHANGED count
    BY <1>4, <2>1 DEF PublishLocal, Puts, worldRest
  <2>3. count' \in [runs : Nat, faults : Nat, arrived : Nat] /\ count'.arrived = count.arrived
    BY <1>1, <2>2 DEF AnchTyped
  <2> QED BY <2>1, <2>2, <2>3, AnchWritesLocal
<1>5. CASE PublishLocalFails(r)
  <2>1. PICK s : s = [run[r] EXCEPT !.pending = @ \ {"local"}, !.failed = TRUE]
    OBVIOUS
  <2>2. /\ MayPublish(r, "local") /\ run' = [run EXCEPT ![r] = s]
        /\ UNCHANGED <<site, chain, writing, month, remote, late, ledgerLock>>
        /\ SiteFault \/ (UNCHANGED count /\ local' = local)
    BY <1>5, <2>1 DEF PublishLocalFails, Puts, worldRest
  <2>3. \/ local' \in {local, [local EXCEPT !.torn = TRUE]}
        \/ SiteFault /\ local' = [local EXCEPT !.lines = Append(@, run[r].index)]
    BY <1>5 DEF PublishLocalFails
  <2>4. CASE local' \in {local, [local EXCEPT !.torn = TRUE]}
    BY <2>1, <2>2, <2>4, AnchNotWritten
  <2>5. CASE SiteFault /\ local' = [local EXCEPT !.lines = Append(@, run[r].index)]
    BY <1>1, <2>5, AnchFault, <2>1, <2>2, AnchWritesLocal DEF AnchQuits
  <2> QED BY <2>3, <2>4, <2>5
<1>6. CASE GetsMonth(r)
  BY <1>6, AnchGets
<1>7. CASE PutMonth(r)
  <2>1. PICK s : s = [run[r] EXCEPT !.pending = @ \ {"github"}]
    OBVIOUS
  <2>2. /\ Putting(r) /\ remote[run[r].path] = run[r].seen /\ run' = [run EXCEPT ![r] = s]
        /\ UNCHANGED <<site, chain, writing, month, local, late, ledgerLock>>
        /\ remote' = WithLine(r) /\ UNCHANGED count
    BY <1>7, <2>1 DEF PutMonth, Puts, worldRest
  <2>3. count' \in [runs : Nat, faults : Nat, arrived : Nat] /\ count'.arrived = count.arrived
    BY <1>1, <2>2 DEF AnchTyped
  <2> QED BY <2>1, <2>2, <2>3, AnchWritesMonth
<1>8. CASE PutConflicts(r)
  BY <1>8, AnchConflict
<1>9. CASE PutIsLost(r)
  <2>1. PICK s : s = GitHubFails(r)
    OBVIOUS
  <2>2. /\ Putting(r) /\ SiteFault /\ run' = [run EXCEPT ![r] = s]
        /\ UNCHANGED <<site, chain, writing, month, local, ledgerLock>>
    BY <1>9, <2>1 DEF PutIsLost, Puts, worldRest
  <2>3. \/ remote[run[r].path] = run[r].seen /\ remote' = WithLine(r) /\ UNCHANGED late
        \/ /\ UNCHANGED remote
           /\ \/ late' = late \cup {[path |-> run[r].path, seen |-> run[r].seen,
                                     line |-> run[r].index]}
              \/ UNCHANGED late
    BY <1>9 DEF PutIsLost
  <2>4. CASE remote[run[r].path] = run[r].seen /\ remote' = WithLine(r) /\ UNCHANGED late
    BY <1>1, <2>2, AnchFault, <2>1, <2>4, AnchWritesMonth DEF AnchQuits, GitHubFails
  <2>5. CASE UNCHANGED remote
    BY <2>1, <2>2, <2>5, AnchLost, <2>3
  <2> QED BY <2>3, <2>4, <2>5
<1>10. CASE Reports(r)
  BY <1>10, AnchEnds DEF Reports
<1>11. CASE RunDies(r)
  BY <1>11, AnchEnds DEF RunDies
<1>12. CASE \E b \in site.backends : Assess(r, b) \/ AssessFails(r, b)
  BY <1>12, AnchAssess, AnchAssessFails
<1> QED BY <1>2, <1>3, <1>4, <1>5, <1>6, <1>7, <1>8, <1>9, <1>10, <1>11, <1>12

(* At first: no line anywhere, and nobody at work.                         *)
LEMMA AnchStarts == AnchorsInit => AnchInv
<1> SUFFICES ASSUME AnchorsInit PROVE AnchInv
  OBVIOUS
<1>1. /\ site \in AnchorConfigs /\ site.months \in Nat \ {0} /\ site.rows \in Nat \ {0}
  BY AnchorsAssumption DEF AnchorsInit
<1>2. /\ chain = <<1>> /\ writing = 1 /\ month = 1
      /\ local = [lines |-> <<>>, torn |-> FALSE]
      /\ remote = [m \in 1..site.months |-> <<>>]
      /\ late = {} /\ ledgerLock = "none"
      /\ run = [r \in AnchorRuns |-> NotRunning]
      /\ count = [runs |-> 0, faults |-> 0, arrived |-> 0]
  BY DEF AnchorsInit
<1>3. \A own, files, now : \A prompt \in BOOLEAN :
        /\ NotRunning.at = "idle"
        /\ AnchFits(NotRunning, site.backends, own, files, site.months, now, prompt)
  BY <1>1, AnchOver
<1>4. /\ Punctual \in BOOLEAN
      /\ AnchFits(NotRunning, site.backends, <<local.lines>>, remote, site.months, month, Punctual)
  BY <1>3 DEF Punctual
<1>5. NotRunning \in AnchRun(site.backends, site.months)
  BY <1>4 DEF AnchFits
<1>6. AnchTyped
  BY <1>1, <1>2, <1>5 DEF Line, AnchFiles, AnchTyped
<1>7. AnchOwner
  <2> SUFFICES ASSUME NEW r \in AnchorRuns PROVE run[r].at = "sync" <=> ledgerLock = r
    BY DEF AnchOwner
  <2>1. run[r] = NotRunning /\ NotRunning.at = "idle" /\ ledgerLock = "none"
    BY <1>2, <1>3
  <2> QED BY <2>1, AnchorsAssumption
<1>8. Orderly
  BY <1>2 DEF Backwards, NothingAfter, Orderly
<1>9. \A r \in AnchorRuns :
        AnchFits(run[r], site.backends, <<local.lines>>, remote, site.months, month, Punctual)
  BY <1>2, <1>4
<1> QED BY <1>6, <1>7, <1>8, <1>9 DEF AnchInv

(* A step of the whole keeps the invariant.                                *)
LEMMA AnchKeeps == AnchInv /\ [AnchorsNext]_anchorVars => AnchInv'
<1> SUFFICES ASSUME AnchInv, [AnchorsNext]_anchorVars PROVE AnchInv'
  OBVIOUS
<1>1. CASE UNCHANGED anchorVars
  BY <1>1 DEF anchorVars, AnchInv, AnchTyped, AnchFiles, AnchOwner, Orderly, Punctual
<1>2. CASE AnchorsNext
  <2>1. CASE ReceiptWritten \/ ChainRewritten
    BY <2>1, AnchChain
  <2>2. CASE MonthPasses
    BY <2>2, AnchMonth
  <2>3. CASE TornLineRemoved
    BY <2>3, AnchRepair
  <2>4. CASE \E p \in late : LateArrives(p)
    BY <2>4, AnchLate
  <2>5. CASE \E r \in AnchorRuns :
               \/ ReadsReceipt(r) \/ TakesLock(r) \/ PublishLocal(r) \/ PublishLocalFails(r)
               \/ GetsMonth(r) \/ PutMonth(r) \/ PutConflicts(r) \/ PutIsLost(r)
               \/ Reports(r) \/ RunDies(r)
               \/ \E b \in site.backends : Assess(r, b) \/ AssessFails(r, b)
    BY <2>5, AnchRunKeeps
  <2> QED BY <1>2, <2>1, <2>2, <2>3, <2>4, <2>5 DEF AnchorsNext
<1> QED BY <1>1, <1>2

(* Under every interleaving, loss and crash, only the holder of the lock   *)
(* is at work, and what it is to write to a backend is longer than all     *)
(* that is there (lock_ledger, sync, publish_path).                        *)
THEOREM AnchorsInvariance == AnchorsSpec => []AnchInv
<1> QED BY AnchStarts, AnchKeeps, PTL DEF AnchorsSpec

(* A file keeps its lines and may get one more.                            *)
LEMMA AnchGrows ==
  ASSUME AnchInv, AnchorsNext
  PROVE  /\ site' = site
         /\ \/ local'.lines = local.lines
            \/ \E x \in Line : <<local'.lines>> = AnchGrown(<<local.lines>>, 1, x)
         /\ \/ remote' = remote
            \/ \E m \in 1..site.months, x \in Line : remote' = AnchGrown(remote, m, x)
<1>1. AnchTyped
  BY DEF AnchInv
<1>2. CASE ReceiptWritten \/ ChainRewritten \/ MonthPasses
  BY <1>2 DEF ReceiptWritten, ChainRewritten, MonthPasses, runsRest
<1>3. CASE TornLineRemoved
  BY <1>3, <1>1 DEF TornLineRemoved, runsRest, AnchTyped
<1>4. ASSUME NEW p \in late, LateArrives(p)
      PROVE  /\ site' = site /\ local' = local
             /\ \/ remote' = remote
                \/ \E m \in 1..site.months, x \in Line : remote' = AnchGrown(remote, m, x)
  BY <1>4, <1>1, AnchLateFiles DEF LateArrives, runsRest
<1>5. ASSUME NEW r \in AnchorRuns,
             \/ ReadsReceipt(r) \/ TakesLock(r) \/ GetsMonth(r) \/ PutConflicts(r)
             \/ Reports(r) \/ RunDies(r)
             \/ \E b \in site.backends : Assess(r, b) \/ AssessFails(r, b)
      PROVE  site' = site /\ local' = local /\ remote' = remote
  BY <1>5 DEF ReadsReceipt, TakesLock, GetsMonth, PutConflicts, Reports, RunDies, EndsRun,
              Assess, AssessFails, worldRest
<1>6. ASSUME NEW r \in AnchorRuns, PublishLocal(r) \/ PublishLocalFails(r)
      PROVE  /\ site' = site /\ remote' = remote
             /\ \/ local'.lines = local.lines
                \/ \E x \in Line : <<local'.lines>> = AnchGrown(<<local.lines>>, 1, x)
  <2>1. /\ site' = site /\ remote' = remote
        /\ local' \in {local, [local EXCEPT !.torn = TRUE],
                       [local EXCEPT !.lines = Append(@, run[r].index)]}
    BY <1>6 DEF PublishLocal, PublishLocalFails, worldRest
  <2>2. local \in [lines : Seq(Line), torn : BOOLEAN] /\ run[r].index \in Line
    BY <1>1, AnchRunIs DEF AnchTyped, AnchRun
  <2>3. \/ local'.lines = local.lines
        \/ local'.lines = Append(local.lines, run[r].index)
    BY <2>1, <2>2
  <2>4. ASSUME local'.lines = Append(local.lines, run[r].index)
        PROVE  <<local'.lines>> = AnchGrown(<<local.lines>>, 1, run[r].index)
    BY <2>4 DEF AnchGrown
  <2> QED BY <2>1, <2>2, <2>3, <2>4
<1>7. ASSUME NEW r \in AnchorRuns, PutMonth(r) \/ PutIsLost(r)
      PROVE  /\ site' = site /\ local' = local
             /\ \/ remote' = remote
                \/ \E m \in 1..site.months, x \in Line : remote' = AnchGrown(remote, m, x)
  <2>1. /\ site' = site /\ local' = local /\ Putting(r)
        /\ \/ remote' = remote
           \/ remote' = WithLine(r) /\ remote[run[r].path] = run[r].seen
    BY <1>7 DEF PutMonth, PutIsLost, worldRest
  <2>2. /\ run[r] \in AnchRun(site.backends, site.months) /\ site.months \in Nat
        /\ SettledOn(run[r], month)
    BY AnchRunIs DEF AnchFits
  <2>3. run[r].path \in 0..site.months /\ run[r].path # 0 /\ run[r].index \in Line
    BY <2>1, <2>2 DEF AnchRun, SettledOn, Putting
  <2>4. run[r].path \in 1..site.months
    BY <2>2, <2>3
  <2>5. ASSUME remote' = WithLine(r), remote[run[r].path] = run[r].seen
        PROVE  remote' = AnchGrown(remote, run[r].path, run[r].index)
    BY <2>5 DEF WithLine, AnchGrown
  <2> QED BY <2>1, <2>3, <2>4, <2>5
<1> QED BY <1>2, <1>3, <1>4, <1>5, <1>6, <1>7 DEF AnchorsNext

(* What is anchored stays.                                                 *)
LEMMA AnchStays ==
  ASSUME AnchInv, [AnchorsNext]_anchorVars
  PROVE  \A b \in site.backends : LinesOf(Files(b)) \subseteq LinesOf(Files(b))'
<1>1. CASE UNCHANGED anchorVars
  BY <1>1 DEF anchorVars, Files, LinesOf, ToSet
<1>2. CASE AnchorsNext
  <2>1. /\ \/ local'.lines = local.lines
           \/ \E x \in Line : <<local'.lines>> = AnchGrown(<<local.lines>>, 1, x)
        /\ \/ remote' = remote
           \/ \E m \in 1..site.months, x \in Line : remote' = AnchGrown(remote, m, x)
    BY <1>2, AnchGrows
  <2>2. /\ site.months \in Nat /\ <<local.lines>> \in [1..1 -> Seq(Line)]
        /\ remote \in [1..site.months -> Seq(Line)]
    BY AnchHistories DEF AnchInv
  <2>3. LinesOf(<<local.lines>>) \subseteq LinesOf(<<local'.lines>>)
    <3>1. ASSUME NEW x \in Line, <<local'.lines>> = AnchGrown(<<local.lines>>, 1, x)
          PROVE  LinesOf(<<local.lines>>) \subseteq LinesOf(<<local'.lines>>)
      <4>1. 1 \in Nat /\ 1 \in 1..1
        OBVIOUS
      <4>2. LinesOf(<<local.lines>>) \subseteq LinesOf(AnchGrown(<<local.lines>>, 1, x))
        BY <2>2, <4>1, AnchLinesStay
      <4> QED BY <3>1, <4>2
    <3>2. CASE local'.lines = local.lines
      BY <3>2
    <3> QED BY <2>1, <3>1, <3>2
  <2>4. LinesOf(remote) \subseteq LinesOf(remote')
    <3>1. ASSUME NEW m \in 1..site.months, NEW x \in Line, remote' = AnchGrown(remote, m, x)
          PROVE  LinesOf(remote) \subseteq LinesOf(remote')
      BY <2>2, AnchLinesStay, <3>1
    <3>2. CASE remote' = remote
      BY <3>2
    <3> QED BY <2>1, <3>1, <3>2
  <2> SUFFICES ASSUME NEW b \in site.backends
               PROVE  LinesOf(Files(b)) \subseteq LinesOf(Files(b)')
    BY DEF LinesOf
  <2>5. CASE b = "local"
    BY <2>3, <2>5 DEF Files
  <2>6. CASE b # "local"
    BY <2>4, <2>6 DEF Files
  <2> QED BY <2>5, <2>6
<1> QED BY <1>1, <1>2

(* The invariant gives what the run checks of a state.                     *)
LEMMA AnchGives == AnchInv => AnchorsTypeOK /\ AnchorsAscend /\ EndsCompared
<1> SUFFICES ASSUME AnchInv PROVE AnchorsTypeOK /\ AnchorsAscend /\ EndsCompared
  OBVIOUS
<1>1. AnchorsTypeOK
  <2> SUFFICES ASSUME NEW r \in AnchorRuns
               PROVE  /\ run[r].pending \cup run[r].left \subseteq site.backends
                      /\ run[r].at = "sync" <=> ledgerLock = r
    BY DEF AnchInv, AnchTyped, AnchorsTypeOK
  <2> QED BY AnchRunIs DEF AnchRun
<1>2. AnchorsAscend
  BY DEF AnchInv, Orderly, Punctual, AnchorsAscend, Files
<1>3. EndsCompared
  <2> SUFFICES ASSUME NEW r \in AnchorRuns, EndsWell(r), Punctual, NEW b \in site.backends
               PROVE  /\ ~Disagrees(Files(b), run[r].index)
                      /\ \E line \in LinesOf(Files(b)) : Len(line) >= Len(run[r].index)
    BY DEF EndsCompared, Punctual
  <2>1. Compared(run[r], site.backends, <<local.lines>>, remote)
    BY AnchRunIs DEF AnchFits
  <2>2. ComparedWith(run[r], b, Files(b))
    BY <2>1 DEF Compared, EndsWell, Files
  <2> QED BY <2>2 DEF ComparedWith, EndsWell
<1> QED BY <1>1, <1>2, <1>3

(* The anchors keep their promises: no backend goes backwards or loses a   *)
(* line, and a run that ends well has compared with all of them, until a   *)
(* lost request arrives late (anchor, sync, assess, judge, put_once).      *)
THEOREM AnchorsKeepTheirPromises == AnchorsSpec => AnchorsHold
<1>1. AnchInv /\ [AnchorsNext]_anchorVars
        => [\A b \in site.backends : LinesOf(Files(b)) \subseteq LinesOf(Files(b))']_anchorVars
  BY AnchStays
<1> QED BY <1>1, AnchGives, AnchorsInvariance, PTL DEF AnchorsSpec, AnchorsHold, AnchoredStays
=============================================================================
